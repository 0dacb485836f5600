---------------------------- MODULE WsConn_proofs ----------------------------
(***************************************************************************)
(* What holds of a websocket connection for every channel capacity and any *)
(* number of messages: closeChan is closed once, and the connection is an  *)
(* echo service that holds at most 2 * Cap + 3 messages.                   *)
(***************************************************************************)
EXTENDS WsConn, TLAPS

LEMMA AppendFacts ==
    ASSUME NEW S, NEW s \in Seq(S), NEW e \in S
    PROVE  /\ Append(s, e) \in Seq(S)
           /\ Len(Append(s, e)) = Len(s) + 1
           /\ \A i \in 1..Len(s) : Append(s, e)[i] = s[i]
           /\ Append(s, e)[Len(s) + 1] = e
OBVIOUS

LEMMA TailFacts ==
    ASSUME NEW S, NEW s \in Seq(S), s # <<>>
    PROVE  /\ Head(s) \in S /\ Head(s) = s[1]
           /\ Tail(s) \in Seq(S)
           /\ Len(s) \in Nat \ {0} /\ Len(Tail(s)) = Len(s) - 1
           /\ \A i \in 1..(Len(s) - 1) : Tail(s)[i] = s[i + 1]
OBVIOUS

\* A goroutine that goes to a place moves nobody else.
LEMMA GotoFacts ==
    ASSUME pc \in [Goroutines -> Places], NEW g \in Goroutines, NEW from, NEW to \in Places,
           Goto(g, from, to)
    PROVE  /\ pc' \in [Goroutines -> Places]
           /\ pc[g] = from /\ pc'[g] = to
           /\ \A h \in Goroutines \ {g} : pc'[h] = pc[h]
BY DEF Goto

-----------------------------------------------------------------------------
\* ReadLoop holds a message while it waits to put it in inChan: what keeps
\* inChan free of heartbeats.
ReaderHolds == pc["reader"] = "put" => held["reader"] # Heartbeat

\* The steps that touch neither the channels nor what a goroutine holds.
LEMMA QuietStep ==
    ASSUME TypeOK, ReaderHolds, UNCHANGED <<read, inChan, outChan, held, echoed>>,
           sock' \in {"open", "gone", "closed"}, stalled' \in BOOLEAN, sent' \in 0..MaxSent,
           closes' \in Nat, isClosed' \in BOOLEAN, mutex' \in Closers \cup {Free},
           pc' \in [Goroutines -> Places], pc'["reader"] = "put" => pc["reader"] = "put"
    PROVE  TypeOK' /\ ReaderHolds'
BY DEF TypeOK, ReaderHolds

\* Whatever the goroutines and the peer do, the variables keep their types
\* and no channel holds more than its capacity.
THEOREM TypeCorrect == Spec => []TypeOK
<1> USE WsConnAssumption
<1>1. Init => TypeOK /\ ReaderHolds
  <2> SUFFICES ASSUME Init PROVE TypeOK /\ ReaderHolds
    OBVIOUS
  <2>1. pc \in [Goroutines -> Places] /\ pc["reader"] = "none"
    BY DEF Init, Goroutines, Closers, Places
  <2>2. held \in [Closers -> Message \cup {Heartbeat}]
    BY DEF Init
  <2>3. inChan \in Seq(Message) /\ outChan \in Seq(Message \cup {Heartbeat}) /\ echoed \in Seq(Message)
    BY DEF Init
  <2>4. Len(inChan) <= Cap /\ Len(outChan) <= Cap
    BY DEF Init
  <2>5. sent \in 0..MaxSent /\ read \in 0..MaxSent /\ closes \in Nat
    BY DEF Init
  <2>6. ReaderHolds
    BY <2>1 DEF ReaderHolds
  <2> QED
    BY <2>1, <2>2, <2>3, <2>4, <2>5, <2>6 DEF Init, TypeOK
<1>2. TypeOK /\ ReaderHolds /\ [Next]_vars => TypeOK' /\ ReaderHolds'
  <2> SUFFICES ASSUME TypeOK, ReaderHolds, [Next]_vars PROVE TypeOK' /\ ReaderHolds'
    OBVIOUS
  <2>0. pc \in [Goroutines -> Places] /\ Closers \subseteq Goroutines
        /\ {"reader", "writer", "handler"} \subseteq Closers /\ "heart" \in Goroutines
    BY DEF TypeOK, Goroutines, Closers
  <2> USE DEF connVars, chanVars, closeVars
  <2>1. ASSUME NEW g \in Closers, Close(g) PROVE TypeOK' /\ ReaderHolds'
    <3> USE <2>0, QuietStep, GotoFacts DEF Places
    <3>1. CASE CloseSock(g)
      BY <3>1 DEF CloseSock, TypeOK
    <3>2. CASE Lock(g)
      BY <3>2 DEF Lock, TypeOK
    <3>3. CASE CloseChan(g)
      BY <3>3 DEF CloseChan, TypeOK
    <3>4. CASE Mark(g)
      BY <3>4 DEF Mark, TypeOK
    <3>5. CASE AlreadyClosed(g)
      BY <3>5 DEF AlreadyClosed, TypeOK
    <3>6. CASE Unlock(g)
      BY <3>6 DEF Unlock, TypeOK
    <3> QED
      BY <2>1, <3>1, <3>2, <3>3, <3>4, <3>5, <3>6 DEF Close
  <2>2. ASSUME NEW g \in Goroutines, NEW from, NEW to \in {"closeSock", "ended"},
               TakesClose(g, from, to) \/ CallFails(g, from)
        PROVE  TypeOK' /\ ReaderHolds'
    <3>1. ASSUME NEW dest \in {"closeSock", "ended"}, Goto(g, from, dest)
          PROVE  pc' \in [Goroutines -> Places] /\ (pc'["reader"] = "put" => pc["reader"] = "put")
      BY <2>0, <3>1, GotoFacts DEF Places
    <3> QED
      BY <2>2, <3>1, QuietStep DEF TakesClose, CallFails, TypeOK
  <2>3. CASE Peer
    <3>1. CASE PeerSends
      BY <3>1 DEF PeerSends, TypeOK, ReaderHolds
    <3>2. CASE PeerStalls \/ PeerGoes
      BY <3>2 DEF PeerStalls, PeerGoes, TypeOK, ReaderHolds
    <3> QED
      BY <2>3, <3>1, <3>2 DEF Peer
  <2>4. CASE UpgradeFails \/ WakeUp
    <3>1. pc' \in [Goroutines -> Places] /\ (pc'["reader"] = "put" => pc["reader"] = "put")
      BY <2>0, <2>4, GotoFacts DEF UpgradeFails, WakeUp, Places
    <3> QED
      BY <2>4, <3>1, QuietStep DEF UpgradeFails, WakeUp, TypeOK
  <2>5. CASE InitConnection \/ StartHeart
    <3>1. pc' \in [Goroutines -> Places] /\ (pc'["reader"] = "put" => pc["reader"] = "put")
      BY <2>0, <2>5 DEF InitConnection, StartHeart, Places
    <3> QED
      BY <2>5, <3>1, QuietStep DEF InitConnection, StartHeart, TypeOK
  <2> USE GotoFacts DEF TypeOK, ReaderHolds, Places
  <2>6. CASE ReadOk
    BY <2>0, <2>6 DEF ReadOk, Message, Heartbeat
  <2>7. CASE PutIn
    <3>1. held["reader"] \in Message
      BY <2>0, <2>7 DEF PutIn
    <3> QED
      BY <2>0, <2>7, <3>1, AppendFacts DEF PutIn
  <2>8. CASE GetIn
    BY <2>0, <2>8, TailFacts DEF GetIn
  <2>9. CASE PutOut
    BY <2>0, <2>9, AppendFacts DEF PutOut
  <2>10. CASE PutHeartbeat
    BY <2>0, <2>10, AppendFacts DEF PutHeartbeat
  <2>11. CASE TakeOut
    BY <2>0, <2>11, TailFacts DEF TakeOut
  <2>12. CASE WriteOk
    BY <2>0, <2>12, AppendFacts DEF WriteOk
  <2>13. CASE UNCHANGED vars
    BY <2>13 DEF vars
  <2> QED
    BY <2>0, <2>1, <2>2, <2>3, <2>4, <2>5, <2>6, <2>7, <2>8, <2>9, <2>10, <2>11, <2>12, <2>13
       DEF Next, ReadLoop, Handler, HeartLoop, WriteLoop, ReadFails, PutInClosed, GetInClosed,
           PutOutClosed, PutHeartbeatClosed, TakeOutClosed, WriteFails
<1> QED
  BY <1>1, <1>2, PTL DEF Spec

-----------------------------------------------------------------------------
\* InitConnection finds neither loop started.
StartInv == pc["handler"] = "upgrade" => pc["reader"] = "none" /\ pc["writer"] = "none"

\* Every step moves one goroutine along its own path, or none.
LEMMA OneMoves ==
    ASSUME TypeOK, Next, ~InitConnection, ~StartHeart
    PROVE  \/ UNCHANGED pc
           \/ \E g \in Goroutines, from \in Places, to \in Places : from # "none" /\ to # "upgrade" /\ Goto(g, from, to)
<1>0. Closers \subseteq Goroutines /\ {"reader", "writer", "handler"} \subseteq Closers /\ "heart" \in Goroutines
  BY DEF Goroutines, Closers
<1> USE <1>0 DEF Places
<1>1. ASSUME NEW g \in Closers, Close(g)
      PROVE  \E from \in Places, to \in Places : from # "none" /\ to # "upgrade" /\ Goto(g, from, to)
  BY <1>1 DEF Close, CloseSock, Lock, CloseChan, Mark, AlreadyClosed, Unlock
<1>2. Peer => UNCHANGED pc
  BY DEF Peer, PeerSends, PeerStalls, PeerGoes
<1>3. UpgradeFails => Goto("handler", "upgrade", "ended")
  BY DEF UpgradeFails
<1>4. CASE ReadLoop
  BY <1>1, <1>4 DEF ReadLoop, ReadOk, ReadFails, PutIn, PutInClosed, TakesClose, CallFails
<1>5. CASE Handler
  BY <1>1, <1>5 DEF Handler, GetIn, GetInClosed, PutOut, PutOutClosed, TakesClose
<1>6. CASE HeartLoop
  BY <1>6 DEF HeartLoop, PutHeartbeat, PutHeartbeatClosed, WakeUp, TakesClose
<1>7. CASE WriteLoop
  BY <1>1, <1>7 DEF WriteLoop, TakeOut, TakeOutClosed, WriteOk, WriteFails, TakesClose, CallFails
<1> QED
  BY <1>2, <1>3, <1>4, <1>5, <1>6, <1>7 DEF Next

\* The loops start with InitConnection (connection.go 15-27), once.
THEOREM LoopsStartOnce == Spec => []StartInv
<1>1. Init => StartInv
  BY DEF Init, StartInv, Goroutines, Closers
<1>2. TypeOK /\ StartInv /\ [Next]_vars => StartInv'
  <2> SUFFICES ASSUME TypeOK, StartInv, [Next]_vars PROVE StartInv'
    OBVIOUS
  <2>0. pc \in [Goroutines -> Places] /\ {"reader", "writer", "handler", "heart"} \subseteq Goroutines
    BY DEF TypeOK, Goroutines, Closers
  <2>1. CASE InitConnection \/ StartHeart
    BY <2>0, <2>1 DEF StartInv, InitConnection, StartHeart
  <2>2. CASE UNCHANGED pc
    BY <2>2 DEF StartInv
  <2>3. ASSUME NEW g \in Goroutines, NEW from \in Places, NEW to \in Places,
               from # "none", to # "upgrade", Goto(g, from, to)
        PROVE  StartInv'
    BY <2>0, <2>3, GotoFacts DEF StartInv
  <2> QED
    BY <2>1, <2>2, <2>3, OneMoves DEF vars
<1> QED
  BY <1>1, <1>2, TypeCorrect, PTL DEF Spec

-----------------------------------------------------------------------------
(* Close, called by three goroutines at once.                              *)

Critical == {"test", "mark", "unlock"}   \* the places where Close holds the mutex

\* Only the owner of the mutex is between Lock and Unlock; closes and isClosed
\* differ only while it stands between close(closeChan) and the assignment;
\* past CloseSock the socket is closed.
CloseInv ==
    /\ \A g \in Closers : pc[g] \in Critical => mutex = g
    /\ mutex \in Closers => pc[mutex] \in Critical
    /\ isClosed => closes = 1
    /\ \A g \in Closers : pc[g] = "mark" => closes = 1 /\ ~isClosed
    /\ (~isClosed /\ \A g \in Closers : pc[g] # "mark") => closes = 0
    /\ \A g \in Closers : pc[g] \in Critical \cup {"lock"} => sock = "closed"
    /\ closes = 1 => sock = "closed"

\* A step outside Close.
LEMMA OutsideClose ==
    ASSUME CloseInv, UNCHANGED closeVars, sock' = sock \/ sock = "open",
           \A g \in Closers : pc'[g] = pc[g]
                              \/ {pc[g], pc'[g]} \cap (Critical \cup {"lock"}) = {}
    PROVE  CloseInv'
<1> USE DEF CloseInv, closeVars, Critical
<1>1. \A g \in Closers : pc'[g] \in {"test", "mark", "unlock", "lock"} <=> pc[g] \in {"test", "mark", "unlock", "lock"}
  OBVIOUS
<1>2. \A g \in Closers : pc'[g] # pc[g] => pc[g] \notin {"test", "mark", "unlock", "lock"}
                                            /\ pc'[g] \notin {"test", "mark", "unlock", "lock"}
  OBVIOUS
<1>3. sock = "closed" => sock' = "closed"
  OBVIOUS
<1> QED
  BY <1>2, <1>3

\* closeChan is closed at most once and after the socket (Close, connection.go
\* 47-58), whichever goroutines call Close and however often they overlap.
THEOREM CloseCorrect == Spec => []ClosedOnce
<1>1. Init => CloseInv
  BY DEF Init, CloseInv, Goroutines, Closers, Critical, Free
<1>2. TypeOK /\ StartInv /\ CloseInv /\ [Next]_vars => CloseInv'
  <2> SUFFICES ASSUME TypeOK, StartInv, CloseInv, [Next]_vars PROVE CloseInv'
    OBVIOUS
  <2>0. pc \in [Goroutines -> Places] /\ Closers \subseteq Goroutines
        /\ {"reader", "writer", "handler"} \subseteq Closers /\ "heart" \in Goroutines
        /\ "heart" \notin Closers /\ Free \notin Closers
    BY DEF TypeOK, Goroutines, Closers, Free
  <2> USE DEF connVars, chanVars, closeVars
  <2>1. ASSUME NEW g \in Closers, Close(g) PROVE CloseInv'
    <3> USE <2>0, GotoFacts DEF Places, CloseInv, Critical
    <3>1. CASE CloseSock(g)
      BY <3>1 DEF CloseSock
    <3>2. CASE Lock(g)
      BY <3>2 DEF Lock
    <3>3. CASE CloseChan(g)
      BY <3>3 DEF CloseChan
    <3>4. CASE Mark(g)
      BY <3>4 DEF Mark
    <3>5. CASE AlreadyClosed(g)
      BY <3>5 DEF AlreadyClosed
    <3>6. CASE Unlock(g)
      BY <3>6 DEF Unlock
    <3> QED
      BY <2>1, <3>1, <3>2, <3>3, <3>4, <3>5, <3>6 DEF Close
  <2>2. ASSUME NEW g \in Goroutines, NEW from \in Places \ (Critical \cup {"lock"}),
               NEW to \in Places \ (Critical \cup {"lock"}), Goto(g, from, to),
               UNCHANGED closeVars, sock' = sock
        PROVE  CloseInv'
    BY <2>0, <2>2, GotoFacts, OutsideClose
  <2>3. CASE Peer
    <3>1. UNCHANGED <<closeVars, pc>> /\ (sock' = sock \/ sock = "open")
      BY <2>3 DEF Peer, PeerSends, PeerStalls, PeerGoes
    <3> QED
      BY <3>1, OutsideClose
  <2>4. CASE InitConnection \/ StartHeart
    <3>1. UNCHANGED closeVars /\ sock' = sock
      BY <2>4 DEF InitConnection, StartHeart
    <3>2. \A g \in Closers : pc'[g] = pc[g] \/ {pc[g], pc'[g]} \cap (Critical \cup {"lock"}) = {}
      <4>1. CASE StartHeart
        BY <2>0, <4>1 DEF StartHeart, Critical
      <4>2. CASE InitConnection /\ pc["reader"] = "none" /\ pc["writer"] = "none"
        BY <2>0, <4>2 DEF InitConnection, Critical
      <4> QED
        BY <2>4, <4>1, <4>2 DEF InitConnection, StartInv
    <3> QED
      BY <3>1, <3>2, OutsideClose
  <2> USE <2>0, <2>2 DEF Places, Critical
  <2>5. ASSUME NEW g \in Goroutines, NEW from \in Places \ (Critical \cup {"lock"}),
               NEW to \in {"closeSock", "ended"}, TakesClose(g, from, to) \/ CallFails(g, from)
        PROVE  CloseInv'
    BY <2>5 DEF TakesClose, CallFails
  <2>6. CASE UpgradeFails \/ WakeUp
    BY <2>6 DEF UpgradeFails, WakeUp
  <2>7. CASE ReadOk \/ PutIn
    BY <2>7 DEF ReadOk, PutIn
  <2>8. CASE GetIn \/ PutOut
    BY <2>8 DEF GetIn, PutOut
  <2>9. CASE PutHeartbeat
    BY <2>9 DEF PutHeartbeat
  <2>10. CASE TakeOut \/ WriteOk
    BY <2>10 DEF TakeOut, WriteOk
  <2>11. CASE UNCHANGED vars
    BY <2>11, OutsideClose DEF vars
  <2> QED
    BY <2>1, <2>3, <2>4, <2>5, <2>6, <2>7, <2>8, <2>9, <2>10, <2>11
       DEF Next, ReadLoop, Handler, HeartLoop, WriteLoop, ReadFails, PutInClosed, GetInClosed,
           PutOutClosed, PutHeartbeatClosed, TakeOutClosed, WriteFails
<1>3. TypeOK /\ CloseInv => ClosedOnce
  BY DEF TypeOK, CloseInv, ClosedOnce, Critical, Closers, Free
<1> QED
  BY <1>1, <1>2, <1>3, TypeCorrect, LoopsStartOnce, PTL DEF Spec

-----------------------------------------------------------------------------
(* The pipeline: where each message is between the peer and itself.        *)

Occupied(g) == IF held[g] = Heartbeat THEN 0 ELSE 1

Got     == read - Occupied("reader") - Len(inChan)     \* messages out of inChan
Put     == Got - Occupied("handler")                   \* messages into outChan
Written == Len(echoed) + Occupied("writer")            \* messages out of outChan

\* A goroutine holds a message exactly while it has one to pass on.
HandsInv ==
    /\ pc["reader"] \in {"none", "read"} => held["reader"] = Heartbeat
    /\ pc["handler"] \in {"upgrade", "start", "get"} => held["handler"] = Heartbeat
    /\ pc["writer"] \in {"none", "take"} => held["writer"] = Heartbeat
    /\ pc["reader"] = "put" => held["reader"] # Heartbeat
    /\ pc["handler"] = "put" => held["handler"] # Heartbeat

\* Each place holds the messages that come next in order.
PipeInv ==
    /\ held["reader"] # Heartbeat => held["reader"] = read
    /\ \A i \in 1..Len(inChan) : inChan[i] = Got + i
    /\ held["handler"] # Heartbeat => held["handler"] = Got
    /\ held["writer"] # Heartbeat => held["writer"] = Written
    /\ \A i \in 1..Len(echoed) : echoed[i] = i

\* s holds the messages after w up to p in order, with heartbeats between them.
\* The second conjunct counts from the end, so that taking the head leaves it
\* true: it is what bounds the messages by the places.
InOrder(s, w, p) ==
    /\ w <= p
    /\ \A i \in 1..Len(s) : s[i] # Heartbeat => s[i] \in (w + 1)..p /\ p - s[i] <= Len(s) - i
    /\ \A i, j \in 1..Len(s) : i < j /\ s[i] # Heartbeat /\ s[j] # Heartbeat => s[i] < s[j]
    /\ \A n \in (w + 1)..p : \E i \in 1..Len(s) : s[i] = n

OutInv == InOrder(outChan, Written, Put)

DataInv == HandsInv /\ PipeInv /\ OutInv

LEMMA InOrderAppend ==
    ASSUME NEW s \in Seq(Int), NEW w \in Nat, NEW p \in Int, InOrder(s, w, p),
           NEW e \in {Heartbeat, p + 1}, NEW q \in Int, q = IF e = Heartbeat THEN p ELSE p + 1
    PROVE  InOrder(Append(s, e), w, q)
<1> DEFINE t == Append(s, e)
<1>1. e \in Int /\ Len(s) \in Nat /\ p >= 0 /\ q >= p
  BY DEF InOrder, Heartbeat
<1>2. Len(t) = Len(s) + 1 /\ t[Len(s) + 1] = e /\ \A i \in 1..Len(s) : t[i] = s[i]
  BY <1>1, AppendFacts
<1> HIDE DEF t
<1>3. ASSUME NEW i \in 1..Len(t), t[i] # Heartbeat
      PROVE  t[i] \in (w + 1)..q /\ q - t[i] <= Len(t) - i
  <2>1. CASE i = Len(s) + 1
    BY <1>1, <1>2, <1>3, <2>1 DEF InOrder
  <2>2. CASE i \in 1..Len(s)
    <3>1. s[i] \in (w + 1)..p /\ p - s[i] <= Len(s) - i
      BY <1>2, <1>3, <2>2 DEF InOrder
    <3> QED
      BY <1>1, <1>2, <2>2, <3>1
  <2> QED
    BY <1>1, <1>2, <1>3, <2>1, <2>2
<1>4. ASSUME NEW i \in 1..Len(t), NEW j \in 1..Len(t), i < j, t[i] # Heartbeat, t[j] # Heartbeat
      PROVE  t[i] < t[j]
  <2>1. i \in 1..Len(s) /\ t[i] = s[i] /\ s[i] \in (w + 1)..p
    BY <1>1, <1>2, <1>4 DEF InOrder
  <2>2. CASE j = Len(s) + 1
    BY <1>1, <1>2, <1>4, <2>1, <2>2
  <2>3. CASE j \in 1..Len(s)
    BY <1>2, <1>4, <2>1, <2>3 DEF InOrder
  <2> QED
    BY <1>1, <1>2, <1>4, <2>2, <2>3
<1>5. ASSUME NEW n \in (w + 1)..q PROVE \E i \in 1..Len(t) : t[i] = n
  <2>1. CASE n \in (w + 1)..p
    <3>1. PICK i \in 1..Len(s) : s[i] = n
      BY <2>1 DEF InOrder
    <3> QED
      BY <1>1, <1>2, <3>1
  <2>2. CASE n = p + 1 /\ e = p + 1
    BY <1>1, <1>2, <2>2
  <2> QED
    BY <1>1, <1>5, <2>1, <2>2
<1>6. w <= q
  BY <1>1 DEF InOrder
<1>7. InOrder(t, w, q)
  BY <1>3, <1>4, <1>5, <1>6 DEF InOrder
<1> QED
  BY <1>7 DEF t

LEMMA InOrderTail ==
    ASSUME NEW s \in Seq(Int), s # <<>>, NEW w \in Nat, NEW p \in Int, InOrder(s, w, p)
    PROVE  /\ s[1] = Heartbeat => InOrder(Tail(s), w, p)
           /\ s[1] # Heartbeat => s[1] = w + 1 /\ InOrder(Tail(s), w + 1, p)
<1> DEFINE t == Tail(s)
<1>1. Len(s) \in Nat \ {0} /\ Len(t) = Len(s) - 1 /\ \A i \in 1..(Len(s) - 1) : t[i] = s[i + 1]
  BY TailFacts
<1>1a. \A i \in 1..Len(s) : s[i] \in Int
  OBVIOUS
<1> HIDE DEF t
<1>2. \A i \in 1..Len(t) : t[i] = s[i + 1] /\ i + 1 \in 1..Len(s)
  BY <1>1
<1>2a. \A i, j \in 1..Len(s) : i < j /\ s[i] # Heartbeat /\ s[j] # Heartbeat => s[i] < s[j]
  BY DEF InOrder
<1>2b. \A n \in (w + 1)..p : \E i \in 1..Len(s) : s[i] = n
  BY DEF InOrder
<1>3. ASSUME s[1] # Heartbeat PROVE s[1] = w + 1
  <2>1. s[1] \in (w + 1)..p /\ w + 1 \in (w + 1)..p
    BY <1>1, <1>3 DEF InOrder
  <2>2. PICK i \in 1..Len(s) : s[i] = w + 1
    BY <1>2b, <2>1
  <2>3. s[i] # Heartbeat
    BY <2>2 DEF Heartbeat
  <2>4. ASSUME 1 < i PROVE FALSE
    <3>1. 1 \in 1..Len(s)
      BY <1>1
    <3>2. s[1] < s[i]
      BY <1>2a, <1>3, <2>3, <2>4, <3>1
    <3> QED
      BY <2>1, <2>2, <3>2
  <2>5. i = 1
    BY <2>4
  <2> QED
    BY <2>2, <2>5
<1>4. ASSUME NEW v \in {w, w + 1}, v = w <=> s[1] = Heartbeat PROVE InOrder(t, v, p)
  <2>1. v <= p
    BY <1>1, <1>3, <1>4 DEF InOrder
  <2>2. ASSUME NEW i \in 1..Len(t), t[i] # Heartbeat
        PROVE  t[i] \in (v + 1)..p /\ p - t[i] <= Len(t) - i
    <3>1. s[i + 1] \in (w + 1)..p /\ p - s[i + 1] <= Len(s) - (i + 1)
      BY <1>2, <2>2 DEF InOrder
    <3>2. s[1] # Heartbeat => s[1] < s[i + 1]
      <4>1. 1 \in 1..Len(s) /\ i + 1 \in 1..Len(s) /\ 1 < i + 1 /\ s[i + 1] # Heartbeat
        BY <1>1, <1>2, <2>2
      <4> QED
        BY <1>2a, <4>1
    <3> QED
      BY <1>1, <1>2, <1>3, <1>4, <2>2, <3>1, <3>2
  <2>3. ASSUME NEW i \in 1..Len(t), NEW j \in 1..Len(t), i < j, t[i] # Heartbeat, t[j] # Heartbeat
        PROVE  t[i] < t[j]
    <3>1. i + 1 \in 1..Len(s) /\ j + 1 \in 1..Len(s) /\ i + 1 < j + 1 /\ t[i] = s[i + 1] /\ t[j] = s[j + 1]
      BY <1>2, <2>3
    <3> QED
      BY <1>2a, <2>3, <3>1
  <2>4. ASSUME NEW n \in (v + 1)..p PROVE \E i \in 1..Len(t) : t[i] = n
    <3>1. PICK i \in 1..Len(s) : s[i] = n
      BY <1>4 DEF InOrder
    <3>2. i # 1
      BY <1>3, <1>4, <2>4, <3>1 DEF Heartbeat
    <3>3. i - 1 \in 1..Len(t) /\ t[i - 1] = n
      BY <1>1, <1>2, <3>1, <3>2
    <3> QED
      BY <3>3
  <2> QED
    BY <2>1, <2>2, <2>3, <2>4 DEF InOrder
<1> QED
  BY <1>3, <1>4 DEF t

LEMMA Counters ==
    ASSUME TypeOK
    PROVE  /\ Occupied("reader") \in 0..1 /\ Occupied("handler") \in 0..1 /\ Occupied("writer") \in 0..1
           /\ Len(inChan) \in Nat /\ Len(outChan) \in Nat /\ Len(echoed) \in Nat
           /\ Got \in Int /\ Put \in Int /\ Written \in Nat /\ read \in Nat
BY WsConnAssumption DEF TypeOK, Occupied, Got, Put, Written

\* Steps that move no message.
LEMMA DataAlone ==
    ASSUME PipeInv, OutInv, UNCHANGED <<read, inChan, outChan, held, echoed>>
    PROVE  PipeInv' /\ OutInv'
BY DEF PipeInv, OutInv, Got, Put, Written, Occupied

\* A goroutine that leaves its loop, or moves inside Close, keeps what it holds.
LEMMA HandsAlone ==
    ASSUME TypeOK, HandsInv, UNCHANGED held, NEW g \in Goroutines, NEW from \in Places,
           NEW to \in Places \ {"none", "read", "upgrade", "start", "get", "take"}, Goto(g, from, to),
           g = "heart" \/ to # "put"
    PROVE  HandsInv'
<1>1. \A h \in Goroutines : pc'[h] = pc[h] \/ (h = g /\ pc'[h] = to)
  BY GotoFacts DEF TypeOK
<1>2. {"reader", "writer", "handler", "heart"} \subseteq Goroutines
        /\ "heart" \notin {"reader", "writer", "handler"}
  BY DEF Goroutines, Closers
<1> QED
  BY <1>1, <1>2 DEF HandsInv

\* The steps that touch outChan at neither end leave OutInv alone.
LEMMA OutAlone ==
    ASSUME OutInv, UNCHANGED outChan, Put' = Put, Written' = Written
    PROVE  OutInv'
BY DEF OutInv

LEMMA DataInductive ==
    ASSUME TypeOK, TypeOK', StartInv, DataInv, [Next]_vars
    PROVE  DataInv'
<1>0. pc \in [Goroutines -> Places] /\ Closers \subseteq Goroutines
      /\ {"reader", "writer", "handler"} \subseteq Closers /\ "heart" \in Goroutines
      /\ held \in [Closers -> Message \cup {Heartbeat}]
  BY DEF TypeOK, Goroutines, Closers
<1> USE DEF connVars, chanVars, closeVars
<1>1. ASSUME NEW g \in Closers, Close(g) PROVE DataInv'
  <2>1. UNCHANGED <<read, inChan, outChan, held, echoed>>
    BY <1>1 DEF Close, CloseSock, Lock, CloseChan, Mark, AlreadyClosed, Unlock
  <2>2. \E from \in Places, to \in {"lock", "test", "mark", "unlock", "ended"} : Goto(g, from, to)
    BY <1>1 DEF Close, CloseSock, Lock, CloseChan, Mark, AlreadyClosed, Unlock, Places
  <2> QED
    BY <1>0, <2>1, <2>2, DataAlone, HandsAlone DEF DataInv, Places
<1>2. ASSUME NEW g \in Goroutines, NEW from \in Places, NEW to \in {"closeSock", "ended"},
             TakesClose(g, from, to) \/ CallFails(g, from)
      PROVE  DataInv'
  <2>1. Goto(g, from, to) \/ Goto(g, from, "closeSock")
    BY <1>2 DEF TakesClose, CallFails
  <2>2. UNCHANGED <<read, inChan, outChan, held, echoed>>
    BY <1>2 DEF TakesClose, CallFails
  <2> QED
    BY <1>0, <2>1, <2>2, DataAlone, HandsAlone DEF DataInv, Places
<1>3. CASE Peer \/ UNCHANGED vars
  <2>1. UNCHANGED <<read, inChan, outChan, held, echoed, pc>>
    BY <1>3 DEF Peer, PeerSends, PeerStalls, PeerGoes, vars
  <2> QED
    BY <2>1, DataAlone DEF DataInv, HandsInv
<1>4. CASE UpgradeFails \/ WakeUp
  <2>1. UNCHANGED <<read, inChan, outChan, held, echoed>>
    BY <1>4 DEF UpgradeFails, WakeUp
  <2>2. Goto("handler", "upgrade", "ended") \/ Goto("heart", "sleep", "put")
    BY <1>4 DEF UpgradeFails, WakeUp
  <2> QED
    BY <1>0, <2>1, <2>2, DataAlone, HandsAlone DEF DataInv, Places
<1>5. CASE InitConnection \/ StartHeart
  <2>1. UNCHANGED <<read, inChan, outChan, held, echoed>>
    BY <1>5 DEF InitConnection, StartHeart
  <2>2. HandsInv'
    BY <1>0, <1>5 DEF InitConnection, StartHeart, DataInv, HandsInv, StartInv
  <2> QED
    BY <2>1, <2>2, DataAlone DEF DataInv
<1> USE Counters, GotoFacts, <1>0 DEF Places, DataInv
<1>6. CASE ReadOk
  <2>1. read' = read + 1 /\ held'["reader"] = read + 1 /\ held["reader"] = Heartbeat
        /\ held'["handler"] = held["handler"] /\ held'["writer"] = held["writer"]
    BY <1>6 DEF ReadOk, HandsInv
  <2>2. Got' = Got /\ Put' = Put /\ Written' = Written
    BY <1>6, <2>1 DEF ReadOk, Got, Put, Written, Occupied, Heartbeat
  <2>3. HandsInv'
    BY <1>6, <2>1 DEF ReadOk, HandsInv, Heartbeat
  <2>4. PipeInv'
    BY <1>6, <2>1, <2>2 DEF ReadOk, PipeInv
  <2> QED
    BY <1>6, <2>2, <2>3, <2>4, OutAlone DEF ReadOk
<1>7. CASE PutIn
  <2>1. held["reader"] # Heartbeat /\ held["reader"] \in Message /\ held'["reader"] = Heartbeat
        /\ held'["handler"] = held["handler"] /\ held'["writer"] = held["writer"]
    BY <1>7 DEF PutIn, HandsInv
  <2>2. Len(inChan') = Len(inChan) + 1 /\ inChan'[Len(inChan) + 1] = held["reader"]
        /\ \A i \in 1..Len(inChan) : inChan'[i] = inChan[i]
    BY <1>7, <2>1, AppendFacts DEF PutIn, TypeOK
  <2>3. Got' = Got /\ Put' = Put /\ Written' = Written
    BY <1>7, <2>1, <2>2 DEF PutIn, Got, Put, Written, Occupied
  <2>4. HandsInv'
    BY <1>7, <2>1 DEF PutIn, HandsInv
  <2>5. held["reader"] = Got + Len(inChan) + 1
    BY <2>1 DEF PipeInv, Got, Occupied
  <2>6. PipeInv'
    <3>1. ASSUME NEW i \in 1..Len(inChan') PROVE inChan'[i] = Got' + i
      <4>1. CASE i = Len(inChan) + 1
        BY <2>2, <2>3, <2>5, <4>1
      <4>2. CASE i \in 1..Len(inChan)
        BY <2>2, <2>3, <4>2 DEF PipeInv
      <4> QED
        BY <2>2, <4>1, <4>2
    <3>2. read' = read /\ echoed' = echoed
      BY <1>7 DEF PutIn
    <3> QED
      BY <2>1, <2>3, <3>1, <3>2 DEF PipeInv
  <2> QED
    BY <1>7, <2>3, <2>4, <2>6, OutAlone DEF PutIn
<1>8. CASE GetIn
  <2>1. held["handler"] = Heartbeat /\ held'["handler"] = inChan[1] /\ inChan[1] # Heartbeat
        /\ held'["reader"] = held["reader"] /\ held'["writer"] = held["writer"]
    <3>1. inChan \in Seq(Message) /\ inChan # <<>> /\ pc["handler"] = "get"
          /\ held' = [held EXCEPT !["handler"] = Head(inChan)]
      BY <1>8 DEF GetIn, TypeOK
    <3>2. Head(inChan) = inChan[1] /\ inChan[1] \in Message
      BY <3>1, TailFacts
    <3> QED
      BY <3>1, <3>2 DEF HandsInv, Message, Heartbeat
  <2>2. Len(inChan) \in Nat \ {0} /\ Len(inChan') = Len(inChan) - 1
        /\ \A i \in 1..(Len(inChan) - 1) : inChan'[i] = inChan[i + 1]
    BY <1>8, TailFacts DEF GetIn, TypeOK
  <2>3. Got' = Got + 1 /\ Put' = Put /\ Written' = Written
    BY <1>8, <2>1, <2>2 DEF GetIn, Got, Put, Written, Occupied
  <2>4. HandsInv'
    BY <1>8, <2>1 DEF GetIn, HandsInv
  <2>5. PipeInv'
    <3>1. ASSUME NEW i \in 1..Len(inChan') PROVE inChan'[i] = Got' + i
      <4>1. inChan'[i] = inChan[i + 1] /\ inChan[i + 1] = Got + (i + 1)
        BY <2>2 DEF PipeInv
      <4> QED
        BY <2>3, <4>1
    <3>2. held'["handler"] = Got'
      BY <2>1, <2>2, <2>3 DEF PipeInv
    <3>3. read' = read /\ echoed' = echoed
      BY <1>8 DEF GetIn
    <3> QED
      BY <2>1, <2>3, <3>1, <3>2, <3>3 DEF PipeInv
  <2> QED
    BY <1>8, <2>3, <2>4, <2>5, OutAlone DEF GetIn
<1>9. CASE PutOut
  <2>1. held["handler"] # Heartbeat /\ held["handler"] = Got /\ held'["handler"] = Heartbeat
        /\ held'["reader"] = held["reader"] /\ held'["writer"] = held["writer"]
    BY <1>9 DEF PutOut, HandsInv, PipeInv
  <2>2. Len(outChan') = Len(outChan) + 1 /\ outChan'[Len(outChan) + 1] = Got
        /\ \A i \in 1..Len(outChan) : outChan'[i] = outChan[i]
    BY <1>9, <2>1, AppendFacts DEF PutOut, TypeOK
  <2>3. Got' = Got /\ Put' = Put + 1 /\ Put' = Got /\ Written' = Written
    BY <1>9, <2>1 DEF PutOut, Got, Put, Written, Occupied
  <2>4. HandsInv'
    BY <1>9, <2>1 DEF PutOut, HandsInv
  <2>5. PipeInv'
    BY <1>9, <2>1, <2>3 DEF PutOut, PipeInv
  <2>6. OutInv'
    <3>1. outChan \in Seq(Int) /\ outChan' = Append(outChan, Put + 1) /\ Put + 1 # Heartbeat
      BY <1>9, <2>1, <2>3 DEF PutOut, TypeOK, Message, Heartbeat
    <3> QED
      BY <2>3, <3>1, InOrderAppend DEF OutInv
  <2> QED
    BY <2>4, <2>5, <2>6
<1>10. CASE PutHeartbeat
  <2>1. Len(outChan') = Len(outChan) + 1 /\ outChan'[Len(outChan) + 1] = Heartbeat
        /\ \A i \in 1..Len(outChan) : outChan'[i] = outChan[i]
    BY <1>10, AppendFacts DEF PutHeartbeat, TypeOK
  <2>2. Got' = Got /\ Put' = Put /\ Written' = Written
    BY <1>10 DEF PutHeartbeat, Got, Put, Written, Occupied
  <2>3. HandsInv' /\ PipeInv'
    BY <1>10, <2>2 DEF PutHeartbeat, HandsInv, PipeInv
  <2>4. OutInv'
    <3>1. outChan \in Seq(Int) /\ outChan' = Append(outChan, Heartbeat)
      BY <1>10 DEF PutHeartbeat, TypeOK, Message, Heartbeat
    <3> QED
      BY <2>2, <3>1, InOrderAppend DEF OutInv
  <2> QED
    BY <2>3, <2>4
<1>11. CASE TakeOut
  <2>1. held["writer"] = Heartbeat /\ held'["writer"] = outChan[1] /\ outChan' = Tail(outChan)
        /\ held'["reader"] = held["reader"] /\ held'["handler"] = held["handler"]
    BY <1>11, TailFacts DEF TakeOut, HandsInv, TypeOK
  <2>2. outChan \in Seq(Int) /\ outChan # <<>>
    BY <1>11 DEF TakeOut, TypeOK, Message, Heartbeat
  <2>3. Got' = Got /\ Put' = Put
    BY <1>11, <2>1 DEF TakeOut, Got, Put, Occupied
  <2>4. HandsInv'
    BY <1>11, <2>1 DEF TakeOut, HandsInv
  <2>5. CASE outChan[1] = Heartbeat
    <3>1. Written' = Written
      BY <1>11, <2>1, <2>5 DEF TakeOut, Written, Occupied
    <3>2. OutInv'
      BY <2>1, <2>2, <2>3, <2>5, <3>1, InOrderTail DEF OutInv
    <3>3. PipeInv'
      BY <1>11, <2>1, <2>3, <2>5, <3>1 DEF TakeOut, PipeInv
    <3> QED
      BY <2>4, <3>2, <3>3
  <2>6. CASE outChan[1] # Heartbeat
    <3>1. Written' = Written + 1
      BY <1>11, <2>1, <2>6 DEF TakeOut, Written, Occupied
    <3>2. outChan[1] = Written + 1 /\ OutInv'
      BY <2>1, <2>2, <2>3, <2>6, <3>1, InOrderTail DEF OutInv
    <3>3. PipeInv'
      BY <1>11, <2>1, <2>3, <3>1, <3>2 DEF TakeOut, PipeInv
    <3> QED
      BY <2>4, <3>2, <3>3
  <2> QED
    BY <2>5, <2>6
<1>12. CASE WriteOk
  <2>1. held'["writer"] = Heartbeat
        /\ held'["reader"] = held["reader"] /\ held'["handler"] = held["handler"]
    BY <1>12 DEF WriteOk
  <2>2. HandsInv'
    BY <1>12, <2>1 DEF WriteOk, HandsInv
  <2>3. Got' = Got /\ Put' = Put
    BY <1>12, <2>1 DEF WriteOk, Got, Put, Occupied
  <2>4. Written' = Written
    <3>1. CASE held["writer"] = Heartbeat
      BY <1>12, <2>1, <3>1 DEF WriteOk, Written, Occupied
    <3>2. CASE held["writer"] # Heartbeat
      <4>1. held["writer"] \in Message /\ echoed' = Append(echoed, held["writer"])
        BY <1>12, <3>2 DEF WriteOk
      <4>2. Len(echoed') = Len(echoed) + 1
        BY <4>1, AppendFacts DEF TypeOK
      <4> QED
        BY <2>1, <3>2, <4>2 DEF Written, Occupied
    <3> QED
      BY <3>1, <3>2
  <2>5. PipeInv'
    <3>1. \A i \in 1..Len(echoed') : echoed'[i] = i
      <4>1. CASE held["writer"] = Heartbeat
        BY <1>12, <4>1 DEF WriteOk, PipeInv
      <4>2. CASE held["writer"] # Heartbeat
        <5>1. held["writer"] \in Message /\ echoed' = Append(echoed, held["writer"])
          BY <1>12, <4>2 DEF WriteOk
        <5>2. held["writer"] = Len(echoed) + 1
          BY <4>2 DEF PipeInv, Written, Occupied
        <5> QED
          BY <5>1, <5>2, AppendFacts DEF PipeInv, TypeOK
      <4> QED
        BY <4>1, <4>2
    <3> QED
      BY <1>12, <2>1, <2>3, <2>4, <3>1 DEF WriteOk, PipeInv
  <2> QED
    BY <1>12, <2>2, <2>3, <2>4, <2>5, OutAlone DEF WriteOk
<1> QED
  BY <1>1, <1>2, <1>3, <1>4, <1>5, <1>6, <1>7, <1>8, <1>9, <1>10, <1>11, <1>12
     DEF Next, ReadLoop, Handler, HeartLoop, WriteLoop, ReadFails, PutInClosed, GetInClosed,
         PutOutClosed, PutHeartbeatClosed, TakeOutClosed, WriteFails

-----------------------------------------------------------------------------
\* There are no more messages than places in outChan.
LEMMA InOrderBound ==
    ASSUME NEW s \in Seq(Int), NEW w \in Nat, NEW p \in Int, InOrder(s, w, p)
    PROVE  p - w <= Len(s)
<1>1. Len(s) \in Nat
  OBVIOUS
<1>2. CASE w = p
  BY <1>1, <1>2
<1>3. CASE w # p
  <2>1. w < p /\ w + 1 \in (w + 1)..p
    BY <1>3 DEF InOrder
  <2>2. PICK i \in 1..Len(s) : s[i] = w + 1
    BY <2>1 DEF InOrder
  <2>3. p - s[i] <= Len(s) - i
    <3>1. s[i] # Heartbeat
      BY <2>2 DEF Heartbeat
    <3>2. \A j \in 1..Len(s) : s[j] # Heartbeat => p - s[j] <= Len(s) - j
      BY DEF InOrder
    <3> QED
      BY <3>1, <3>2
  <2> QED
    BY <1>1, <2>1, <2>2, <2>3
<1> QED
  BY <1>2, <1>3

\* The server holds one message per occupied place.
LEMMA Bounded ==
    ASSUME TypeOK, DataInv
    PROVE  /\ read - Len(echoed) <= 2 * Cap + 3
           /\ held["reader"] = Heartbeat => read - Len(echoed) < 2 * Cap + 3
<1>1. Put - Written <= Len(outChan)
  BY Counters, InOrderBound DEF TypeOK, DataInv, OutInv, Message, Heartbeat
<1>2. read = Put + Occupied("handler") + Len(inChan) + Occupied("reader")
  BY Counters DEF Put, Got
<1>3. Len(echoed) = Written - Occupied("writer")
  BY Counters DEF Written
<1>4. Len(inChan) <= Cap /\ Len(outChan) <= Cap /\ Cap \in Nat
  BY WsConnAssumption DEF TypeOK
<1>5. held["reader"] = Heartbeat => Occupied("reader") = 0
  BY DEF Occupied
<1> QED
  BY <1>1, <1>2, <1>3, <1>4, <1>5, Counters

\* The goroutines, channels and Close of connection.go and the handler's loop
\* of server.go implement the echo service: in order, nothing lost between two
\* messages that are echoed, and bounded memory.
THEOREM Refinement == Spec => Service!Spec
<1> USE DEF connVars, chanVars, closeVars
<1>1. Init => Service!Init
  BY DEF Init, Service!Init
<1>2. Init => DataInv
  <2> SUFFICES ASSUME Init PROVE DataInv
    OBVIOUS
  <2>1. pc["reader"] = "none" /\ pc["writer"] = "none" /\ pc["handler"] = "upgrade"
    BY DEF Init, Goroutines, Closers
  <2>2. \A g \in Closers : held[g] = Heartbeat
    BY DEF Init
  <2>3. Len(inChan) = 0 /\ Len(outChan) = 0 /\ Len(echoed) = 0 /\ read = 0
    BY DEF Init
  <2>3a. Occupied("reader") = 0 /\ Occupied("handler") = 0 /\ Occupied("writer") = 0
    BY <2>2 DEF Occupied, Closers
  <2>4. Got = 0 /\ Put = 0 /\ Written = 0
    BY <2>3, <2>3a DEF Got, Put, Written
  <2>5. OutInv
    BY <2>3, <2>4 DEF OutInv, InOrder
  <2> QED
    BY <2>1, <2>2, <2>3, <2>5 DEF DataInv, HandsInv, PipeInv, Closers
<1>3. TypeOK /\ DataInv /\ [Next]_vars => [Service!Next]_(Service!vars)
  <2> SUFFICES ASSUME TypeOK, DataInv, [Next]_vars PROVE [Service!Next]_(Service!vars)
    OBVIOUS
  <2> USE DEF Service!Next, Service!vars
  <2>1. CASE UNCHANGED <<sent, read, echoed>>
    BY <2>1
  <2>2. CASE PeerSends
    BY <2>2 DEF PeerSends, Service!Send
  <2>3. CASE ReadOk
    <3>1. read < sent /\ read' = read + 1 /\ UNCHANGED <<sent, echoed>>
      BY <2>3 DEF ReadOk
    <3>2. held["reader"] = Heartbeat
      BY <2>3 DEF ReadOk, Goto, DataInv, HandsInv
    <3> QED
      BY <3>1, <3>2, Bounded DEF Service!Take
  <2>4. CASE WriteOk
    <3>1. CASE held["writer"] = Heartbeat
      BY <2>1, <2>4, <3>1 DEF WriteOk
    <3>2. CASE held["writer"] # Heartbeat
      <4>1. echoed' = Append(echoed, Len(echoed) + 1) /\ UNCHANGED <<sent, read>>
        BY <2>4, <3>2 DEF WriteOk, DataInv, PipeInv, Written, Occupied
      <4>2. Len(echoed) < read
        <5>1. Written <= Put
          BY DEF DataInv, OutInv, InOrder
        <5>2. Written = Len(echoed) + 1
          BY <3>2 DEF Written, Occupied
        <5>3. read = Put + Occupied("handler") + Len(inChan) + Occupied("reader")
          BY Counters DEF Put, Got
        <5> QED
          BY <5>1, <5>2, <5>3, Counters
      <4> QED
        BY <4>1, <4>2 DEF Service!Echo
    <3> QED
      BY <3>1, <3>2
  <2>5. ASSUME NEW g \in Closers, Close(g) PROVE UNCHANGED <<sent, read, echoed>>
    BY <2>5 DEF Close, CloseSock, Lock, CloseChan, Mark, AlreadyClosed, Unlock
  <2>6. PeerStalls \/ PeerGoes \/ UpgradeFails \/ InitConnection => UNCHANGED <<sent, read, echoed>>
    BY DEF PeerStalls, PeerGoes, UpgradeFails, InitConnection
  <2>7. ReadFails \/ PutIn \/ PutInClosed => UNCHANGED <<sent, read, echoed>>
    BY DEF ReadFails, PutIn, PutInClosed, TakesClose, CallFails
  <2>8. StartHeart \/ GetIn \/ GetInClosed \/ PutOut \/ PutOutClosed => UNCHANGED <<sent, read, echoed>>
    BY DEF StartHeart, GetIn, GetInClosed, PutOut, PutOutClosed, TakesClose
  <2>9. HeartLoop => UNCHANGED <<sent, read, echoed>>
    BY DEF HeartLoop, PutHeartbeat, PutHeartbeatClosed, WakeUp, TakesClose
  <2>10. TakeOut \/ TakeOutClosed \/ WriteFails => UNCHANGED <<sent, read, echoed>>
    BY DEF TakeOut, TakeOutClosed, WriteFails, TakesClose, CallFails
  <2>11. UNCHANGED vars => UNCHANGED <<sent, read, echoed>>
    BY DEF vars
  <2> QED
    BY <2>1, <2>2, <2>3, <2>4, <2>5, <2>6, <2>7, <2>8, <2>9, <2>10, <2>11
       DEF Next, Peer, ReadLoop, Handler, WriteLoop, Closers
<1> QED
  BY <1>1, <1>2, <1>3, DataInductive, TypeCorrect, LoopsStartOnce, PTL DEF Spec, Service!Spec

\* The same, as the property that TLC checks.
THEOREM Echoes == Spec => ImplementsEcho
BY Refinement DEF ImplementsEcho
=============================================================================
