------------------------------- MODULE WsConn -------------------------------
(***************************************************************************)
(* One websocket connection of 032_go_websocket_imooc (and of its twin     *)
(* 022_go_web/wsserver): the request handler echoes what ReadLoop puts in  *)
(* inChan to outChan, which WriteLoop empties onto the socket; a fourth    *)
(* goroutine puts a heartbeat into outChan every second.  Any of the       *)
(* first three closes the connection on an error; closing closeChan is how *)
(* the others hear of it, and closing it twice would panic the server.     *)
(*                                                                         *)
(* Message n is the nth the peer sends.  Sends and receives on channels    *)
(* and the calls on the socket are steps; so are the four parts of Close.  *)
(***************************************************************************)
EXTENDS Integers, Sequences

CONSTANTS
    Cap,        \* the capacity of inChan and outChan (1000 in the code)
    MaxSent     \* bound: how many messages the peer sends

ASSUME WsConnAssumption == Cap \in Nat \ {0} /\ MaxSent \in Nat

Closers    == {"reader", "writer", "handler"}   \* the goroutines that call Close
Goroutines == Closers \cup {"heart"}
Heartbeat  == 0
Free       == "free"

VARIABLES
    sock,       \* the TCP connection: "open", "closed" by us, "gone": closed by
                \* the peer, broken, or carrying a frame the library rejects
    stalled,    \* the peer does not drain its end: a write blocks
    sent,       \* how many messages the peer has sent
    read,       \* how many of them ReadLoop has read
    inChan,
    outChan,
    closes,     \* how many times close(closeChan) was executed
    isClosed,
    mutex,      \* the goroutine that holds conn.mutex, or Free
    pc,         \* where each goroutine is
    held,       \* data: the message it took and has not passed on
    echoed      \* history: the messages written to the socket, heartbeats left out

connVars == <<sock, stalled, sent>>
chanVars == <<inChan, outChan>>
closeVars == <<closes, isClosed, mutex>>
vars == <<connVars, read, chanVars, closeVars, pc, held, echoed>>

Init ==
    /\ sock = "open" /\ stalled = FALSE /\ sent = 0 /\ read = 0
    /\ inChan = <<>> /\ outChan = <<>>
    /\ closes = 0 /\ isClosed = FALSE /\ mutex = Free
    /\ pc = [g \in Goroutines |-> IF g = "handler" THEN "upgrade" ELSE "none"]
    /\ held = [g \in Closers |-> Heartbeat]
    /\ echoed = <<>>

Goto(g, from, to) == pc[g] = from /\ pc' = [pc EXCEPT ![g] = to]

-----------------------------------------------------------------------------
(* The peer and the network.                                               *)

PeerSends ==
    /\ sock = "open" /\ sent < MaxSent
    /\ sent' = sent + 1
    /\ UNCHANGED <<sock, stalled, read, chanVars, closeVars, pc, held, echoed>>

PeerStalls ==
    /\ sock = "open"
    /\ stalled' = ~stalled
    /\ UNCHANGED <<sock, sent, read, chanVars, closeVars, pc, held, echoed>>

PeerGoes ==
    /\ sock = "open"
    /\ sock' = "gone"
    /\ UNCHANGED <<stalled, sent, read, chanVars, closeVars, pc, held, echoed>>

-----------------------------------------------------------------------------
(* wsHandler up to its loop, and InitConnection.                           *)

UpgradeFails ==
    /\ Goto("handler", "upgrade", "ended")
    /\ UNCHANGED <<connVars, read, chanVars, closeVars, held, echoed>>

\* Upgrade, and InitConnection starts ReadLoop and WriteLoop.
InitConnection ==
    /\ pc["handler"] = "upgrade"
    /\ pc' = [pc EXCEPT !["handler"] = "start", !["reader"] = "read", !["writer"] = "take"]
    /\ UNCHANGED <<connVars, read, chanVars, closeVars, held, echoed>>

StartHeart ==
    /\ pc["handler"] = "start"
    /\ pc' = [pc EXCEPT !["handler"] = "get", !["heart"] = "put"]
    /\ UNCHANGED <<connVars, read, chanVars, closeVars, held, echoed>>

-----------------------------------------------------------------------------
(* Close: the socket first, then closeChan under the mutex.                *)

CloseSock(g) ==
    /\ Goto(g, "closeSock", "lock")
    /\ sock' = "closed"
    /\ UNCHANGED <<stalled, sent, read, chanVars, closeVars, held, echoed>>

\* Mutant: Close does not take the mutex.
NoLock(g) ==
    /\ Goto(g, "lock", "test")
    /\ UNCHANGED <<connVars, read, chanVars, closeVars, held, echoed>>

Lock(g) ==
    /\ mutex = Free
    /\ Goto(g, "lock", "test")
    /\ mutex' = g
    /\ UNCHANGED <<connVars, read, chanVars, closes, isClosed, held, echoed>>

CloseChan(g) ==
    /\ ~isClosed
    /\ Goto(g, "test", "mark")
    /\ closes' = closes + 1
    /\ UNCHANGED <<connVars, read, chanVars, isClosed, mutex, held, echoed>>

Mark(g) ==
    /\ Goto(g, "mark", "unlock")
    /\ isClosed' = TRUE
    /\ UNCHANGED <<connVars, read, chanVars, closes, mutex, held, echoed>>

AlreadyClosed(g) ==
    /\ isClosed
    /\ Goto(g, "test", "unlock")
    /\ UNCHANGED <<connVars, read, chanVars, closeVars, held, echoed>>

Unlock(g) ==
    /\ Goto(g, "unlock", "ended")
    /\ mutex' = Free
    /\ UNCHANGED <<connVars, read, chanVars, closes, isClosed, held, echoed>>

Close(g) ==
    CloseSock(g) \/ Lock(g) \/ CloseChan(g) \/ Mark(g) \/ AlreadyClosed(g) \/ Unlock(g)

-----------------------------------------------------------------------------
(* The two cases of a select: a channel operation, or closeChan, which is  *)
(* ready for ever once it is closed.  If both are ready either may happen. *)

TakesClose(g, from, to) ==
    /\ closes > 0
    /\ Goto(g, from, to)
    /\ UNCHANGED <<connVars, read, chanVars, closeVars, held, echoed>>

CallFails(g, from) ==
    /\ sock # "open"
    /\ Goto(g, from, "closeSock")
    /\ UNCHANGED <<connVars, read, chanVars, closeVars, held, echoed>>

-----------------------------------------------------------------------------
(* ReadLoop.  What is buffered on our side can be read after the socket    *)
(* went away, or be lost.                                                  *)

ReadOk ==
    /\ read < sent
    /\ Goto("reader", "read", "put")
    /\ read' = read + 1
    /\ held' = [held EXCEPT !["reader"] = read + 1]
    /\ UNCHANGED <<connVars, chanVars, closeVars, echoed>>

ReadFails == CallFails("reader", "read")

\* Mutant: a full inChan drops the message.
PutInOrDrop ==
    /\ Goto("reader", "put", "read")
    /\ inChan' = IF Len(inChan) < Cap THEN Append(inChan, held["reader"]) ELSE inChan
    /\ held' = [held EXCEPT !["reader"] = Heartbeat]
    /\ UNCHANGED <<connVars, read, outChan, closeVars, echoed>>

PutIn ==
    /\ Len(inChan) < Cap
    /\ Goto("reader", "put", "read")
    /\ inChan' = Append(inChan, held["reader"])
    /\ held' = [held EXCEPT !["reader"] = Heartbeat]
    /\ UNCHANGED <<connVars, read, outChan, closeVars, echoed>>

\* Mutant: the send on inChan has no closeChan case beside it.
PutInStaysBlocked == FALSE

PutInClosed == TakesClose("reader", "put", "closeSock")

ReadLoop == ReadOk \/ ReadFails \/ PutIn \/ PutInClosed \/ Close("reader")

-----------------------------------------------------------------------------
(* The loop of wsHandler: ReadMessage, then WriteMessage.                  *)

GetIn ==
    /\ inChan # <<>>
    /\ Goto("handler", "get", "put")
    /\ held' = [held EXCEPT !["handler"] = Head(inChan)]
    /\ inChan' = Tail(inChan)
    /\ UNCHANGED <<connVars, read, outChan, closeVars, echoed>>

GetInClosed == TakesClose("handler", "get", "closeSock")

\* Mutant: the handler echoes one message only.
PutOutOnce ==
    /\ Len(outChan) < Cap
    /\ Goto("handler", "put", "ended")
    /\ outChan' = Append(outChan, held["handler"])
    /\ held' = [held EXCEPT !["handler"] = Heartbeat]
    /\ UNCHANGED <<connVars, read, inChan, closeVars, echoed>>

PutOut ==
    /\ Len(outChan) < Cap
    /\ Goto("handler", "put", "get")
    /\ outChan' = Append(outChan, held["handler"])
    /\ held' = [held EXCEPT !["handler"] = Heartbeat]
    /\ UNCHANGED <<connVars, read, inChan, closeVars, echoed>>

PutOutClosed == TakesClose("handler", "put", "closeSock")

Handler ==
    StartHeart \/ GetIn \/ GetInClosed \/ PutOut \/ PutOutClosed \/ Close("handler")

-----------------------------------------------------------------------------
(* The heartbeat goroutine; when its write is refused it just returns.     *)

PutHeartbeat ==
    /\ Len(outChan) < Cap
    /\ Goto("heart", "put", "sleep")
    /\ outChan' = Append(outChan, Heartbeat)
    /\ UNCHANGED <<connVars, read, inChan, closeVars, held, echoed>>

PutHeartbeatClosed == TakesClose("heart", "put", "ended")

WakeUp ==
    /\ Goto("heart", "sleep", "put")
    /\ UNCHANGED <<connVars, read, chanVars, closeVars, held, echoed>>

HeartLoop == PutHeartbeat \/ PutHeartbeatClosed \/ WakeUp

-----------------------------------------------------------------------------
(* WriteLoop.  A write to a peer that is gone may still be buffered.       *)

TakeOut ==
    /\ outChan # <<>>
    /\ Goto("writer", "take", "write")
    /\ held' = [held EXCEPT !["writer"] = Head(outChan)]
    /\ outChan' = Tail(outChan)
    /\ UNCHANGED <<connVars, read, inChan, closeVars, echoed>>

TakeOutClosed == TakesClose("writer", "take", "closeSock")

\* Mutant: heartbeats are echoed messages too.
WriteCountsHeartbeat ==
    /\ sock # "closed" /\ ~stalled
    /\ Goto("writer", "write", "take")
    /\ echoed' = Append(echoed, held["writer"])
    /\ held' = [held EXCEPT !["writer"] = Heartbeat]
    /\ UNCHANGED <<connVars, read, chanVars, closeVars>>

WriteOk ==
    /\ sock # "closed" /\ ~stalled
    /\ Goto("writer", "write", "take")
    /\ echoed' = IF held["writer"] = Heartbeat THEN echoed ELSE Append(echoed, held["writer"])
    /\ held' = [held EXCEPT !["writer"] = Heartbeat]
    /\ UNCHANGED <<connVars, read, chanVars, closeVars>>

WriteFails == CallFails("writer", "write")

WriteLoop == TakeOut \/ TakeOutClosed \/ WriteOk \/ WriteFails \/ Close("writer")

-----------------------------------------------------------------------------
Peer == PeerSends \/ PeerStalls \/ PeerGoes

Next == Peer \/ UpgradeFails \/ InitConnection \/ ReadLoop \/ Handler \/ HeartLoop \/ WriteLoop

Spec == Init /\ [][Next]_vars

\* Every goroutine that can run does.  A sender parked on a full channel is
\* served in turn, so the heartbeats cannot keep the handler out for ever; a
\* write to a peer that drains its end again and again gets through.
Fairness ==
    /\ WF_vars(ReadLoop) /\ WF_vars(Handler) /\ WF_vars(HeartLoop) /\ WF_vars(WriteLoop)
    /\ SF_vars(PutOut) /\ SF_vars(WriteOk)

FairSpec == Spec /\ Fairness

-----------------------------------------------------------------------------
(* Properties.                                                             *)

Message == 1..MaxSent

Places == {"none", "upgrade", "start", "read", "get", "take", "put", "write", "sleep",
           "closeSock", "lock", "test", "mark", "unlock", "ended"}

\* The variables hold what their Go counterparts can hold.
TypeOK ==
    /\ sock \in {"open", "gone", "closed"} /\ stalled \in BOOLEAN
    /\ sent \in 0..MaxSent /\ read \in 0..MaxSent
    /\ inChan \in Seq(Message) /\ Len(inChan) <= Cap
    /\ outChan \in Seq(Message \cup {Heartbeat}) /\ Len(outChan) <= Cap
    /\ closes \in Nat /\ isClosed \in BOOLEAN
    /\ mutex \in Closers \cup {Free}
    /\ pc \in [Goroutines -> Places]
    /\ held \in [Closers -> Message \cup {Heartbeat}]
    /\ echoed \in Seq(Message)

\* Close may be called by several goroutines at once and several times:
\* closeChan is closed at most once (a second close panics), isClosed says so
\* whenever the mutex is free, and the socket is closed before it, so that a
\* goroutine told to stop is not left in a call on the socket.
ClosedOnce ==
    /\ closes <= 1
    /\ mutex = Free => (isClosed <=> closes = 1)
    /\ closes = 1 => sock = "closed"

\* The connection is an echo service: in order, nothing skipped or repeated,
\* and at most two full channels and one message in each goroutine's hands
\* between the peer and itself, however slow the peer reads.
Service == INSTANCE EchoService WITH Window <- 2 * Cap + 3, taken <- read

ImplementsEcho == Service!Spec

\* When the peer goes away or any goroutine closes the connection, all four
\* goroutines end, wherever they were blocked.
AllEnd == (pc["reader"] # "none" /\ sock # "open") ~> (\A g \in Goroutines : pc[g] = "ended")

\* A peer that keeps draining its end gets every message back, in spite of the
\* heartbeats, as long as the connection lasts.
EchoEventually ==
    []<>~stalled =>
       \A n \in Message :
          (pc["reader"] # "none" /\ n <= sent) ~> (n <= Len(echoed) \/ sock # "open")
=============================================================================
