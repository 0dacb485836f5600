-------------------------- MODULE PluginMgr_proofs --------------------------
(***************************************************************************)
(* A library that a full round has named stays findable, for any number of *)
(* libraries and changes.  Between sweeps an unlocked element answers for  *)
(* it; a sweep deletes that one only when it comes to it, and has then, or *)
(* meets later, the locked one that the round has added.                   *)
(***************************************************************************)
EXTENDS PluginMgr, SequencesExt, SequenceTheorems, TLAPS

\* The groups of variables are only names.
USE DEF directory, loader, history

\* What append and unlinking an element do to a list.

LEMMA AppendFacts ==
    ASSUME NEW S, NEW s \in Seq(S), NEW e \in S
    PROVE  /\ Append(s, e) \in Seq(S)
           /\ Len(Append(s, e)) = Len(s) + 1
           /\ \A i \in 1..Len(s) : Append(s, e)[i] = s[i]
           /\ Append(s, e)[Len(s) + 1] = e
OBVIOUS

LEMMA RemoveFacts ==
    ASSUME NEW S, NEW s \in Seq(S), NEW k \in 1..Len(s)
    PROVE  /\ RemoveAt(s, k) \in Seq(S)
           /\ Len(s) \in Nat \ {0} /\ Len(RemoveAt(s, k)) = Len(s) - 1
           /\ \A i \in 1..(Len(s) - 1) : RemoveAt(s, k)[i] = IF i < k THEN s[i] ELSE s[i + 1]
<1> DEFINE a == SubSeq(s, 1, k - 1)
           b == SubSeq(s, k + 1, Len(s))
<1>1. Len(s) \in Nat \ {0} /\ k \in Nat \ {0} /\ k <= Len(s)
  OBVIOUS
<1>2. a \in Seq(S) /\ Len(a) = k - 1 /\ \A i \in 1..(k - 1) : a[i] = s[i]
  BY <1>1
<1>3. b \in Seq(S) /\ Len(b) = Len(s) - k /\ \A i \in 1..(Len(s) - k) : b[i] = s[i + k]
  BY <1>1
<1> HIDE DEF a, b
<1>4. a \o b \in Seq(S) /\ Len(a \o b) = Len(s) - 1
  <2>1. a \o b \in Seq(S) /\ Len(a \o b) = Len(a) + Len(b)
    BY <1>2, <1>3, ConcatProperties
  <2> QED
    BY <1>1, <1>2, <1>3, <2>1
<1>5. ASSUME NEW i \in 1..(Len(s) - 1) PROVE (a \o b)[i] = IF i < k THEN s[i] ELSE s[i + 1]
  <2>1. CASE i < k
    BY <1>1, <1>2, <1>3, <2>1
  <2>2. CASE ~(i < k)
    <3>1. (a \o b)[i] = b[i - (k - 1)]
      BY <1>1, <1>2, <1>3, <2>2
    <3>2. i - (k - 1) \in 1..(Len(s) - k)
      BY <1>1, <2>2
    <3>3. b[i - (k - 1)] = s[(i - (k - 1)) + k]
      BY <1>3, <3>2
    <3>4. (i - (k - 1)) + k = i + 1
      BY <1>1
    <3> QED
      BY <2>2, <3>1, <3>3, <3>4
  <2> QED
    BY <2>1, <2>2
<1>6. RemoveAt(s, k) = a \o b
  BY DEF RemoveAt, a, b
<1> QED
  BY <1>1, <1>4, <1>5, <1>6

Elements == [name : Libs, flag : {"lock", "unlock"}, mod : BOOLEAN]

\* The element at k answers for l and carries the mark f.
Answers(k, l, f) ==
    g_plugin_list[k].name = l /\ g_plugin_list[k].mod /\ g_plugin_list[k].flag = f

Places == 1..Len(g_plugin_list)

\* The mark of an element that answers for a library during the sweep.
Mark(k) == IF k < at THEN "unlock" ELSE "lock"

TypeInv ==
    /\ dir \subseteq Libs
    /\ g_plugin_list \in Seq(Elements)
    /\ pc \in {"sleep", "scan", "sweep", "crashed"}
    /\ todo \subseteq Libs /\ failed \in BOOLEAN
    /\ visited \subseteq dir \ broken /\ known \subseteq dir \ broken

\* After a round that was not broken off nothing is locked, and a round that
\* has been whole so far has locked what it has named and nothing else.
RoundInv ==
    /\ pc = "sleep" /\ ~failed => \A k \in Places : g_plugin_list[k].flag = "unlock"
    /\ pc = "scan" /\ ~failed =>
          /\ \A k \in Places : g_plugin_list[k].flag = "lock" => g_plugin_list[k].name \notin todo
          /\ known \subseteq todo \cup visited
          /\ \A l \in visited : \E k \in Places : Answers(k, l, "lock")

\* Until the sweep, what was there when the last full round ended is there.
OldInv == pc # "sweep" => \A l \in known : \E k \in Places : Answers(k, l, "unlock")

\* The sweep has unlocked what it has passed.
SweepInv ==
    pc = "sweep" =>
        /\ at \in 1..Len(g_plugin_list) + 1
        /\ \A k \in Places : k < at => g_plugin_list[k].flag = "unlock"
        /\ failed => known = {}
        /\ ~failed => /\ known \subseteq visited
                      /\ \A l \in visited : \E k \in Places :
                            Answers(k, l, Mark(k))

ListInv == TypeInv /\ RoundInv /\ OldInv /\ SweepInv

-----------------------------------------------------------------------------
(* What a step does to the elements.                                       *)

\* An element is there, at one place or another, in the next list.
Kept(e) == \E k \in 1..Len(g_plugin_list') : g_plugin_list'[k] = e

LEMMA ElementFacts ==
    ASSUME NEW l \in Libs, NEW mod \in BOOLEAN
    PROVE  /\ Element(l, mod) \in Elements
           /\ Element(l, mod).name = l /\ Element(l, mod).flag = "lock"
           /\ Element(l, mod).mod = mod
BY DEF Element, Elements

LEMMA UnlockFacts ==
    ASSUME NEW g \in Seq(Elements), NEW n \in 1..Len(g)
    PROVE  LET h == [g EXCEPT ![n].flag = "unlock"] IN
           /\ h \in Seq(Elements) /\ Len(h) = Len(g)
           /\ \A i \in 1..Len(g) : i # n => h[i] = g[i]
           /\ h[n].name = g[n].name /\ h[n].mod = g[n].mod /\ h[n].flag = "unlock"
<1> DEFINE e == [g[n] EXCEPT !.flag = "unlock"]
           h == [g EXCEPT ![n].flag = "unlock"]
<1>1. g[n] \in Elements
  OBVIOUS
<1>2. e \in Elements /\ e.name = g[n].name /\ e.mod = g[n].mod /\ e.flag = "unlock"
  BY <1>1 DEF Elements
<1>3. h = [g EXCEPT ![n] = e]
  OBVIOUS
<1> HIDE DEF e, h
<1>4. h \in Seq(Elements) /\ Len(h) = Len(g) /\ h[n] = e
      /\ \A i \in 1..Len(g) : i # n => h[i] = g[i]
  BY <1>2, <1>3
<1> QED
  BY <1>2, <1>4 DEF h

\* Replace takes the place of a locked element, so that the unlocked stay.
LEMMA ReplaceKeeps ==
    ASSUME TypeInv, Replace
    PROVE  /\ g_plugin_list' \in Seq(Elements)
           /\ \A i \in Places : g_plugin_list[i].flag = "unlock" => Kept(g_plugin_list[i])
           /\ \E l \in todo : \E k \in Places : g_plugin_list[k].name = l /\ g_plugin_list[k].flag = "lock"
<1>0. PICK l \in todo : \E k \in Locked(l) :
        g_plugin_list' = Append(RemoveAt(g_plugin_list, k), Element(l, FALSE))
  BY DEF Replace
<1>1. PICK k \in Locked(l) :
        g_plugin_list' = Append(RemoveAt(g_plugin_list, k), Element(l, FALSE))
  BY <1>0
<1>2. g_plugin_list \in Seq(Elements) /\ l \in Libs
  BY DEF TypeInv
<1>3. k \in Places /\ g_plugin_list[k].flag = "lock" /\ g_plugin_list[k].name = l
  BY <1>2 DEF Locked, Places
<1> DEFINE r == RemoveAt(g_plugin_list, k)
           e == Element(l, FALSE)
<1>4. /\ r \in Seq(Elements) /\ Len(r) = Len(g_plugin_list) - 1 /\ Len(g_plugin_list) \in Nat \ {0}
      /\ \A i \in 1..(Len(g_plugin_list) - 1) :
            r[i] = IF i < k THEN g_plugin_list[i] ELSE g_plugin_list[i + 1]
  BY <1>2, <1>3, RemoveFacts DEF Places
<1>5. e \in Elements
  BY <1>2, ElementFacts
<1>6. g_plugin_list' = Append(r, e)
  BY <1>1
<1> HIDE DEF r, e
<1>7. /\ Append(r, e) \in Seq(Elements) /\ Len(Append(r, e)) = Len(r) + 1
      /\ \A i \in 1..Len(r) : Append(r, e)[i] = r[i]
  BY <1>4, <1>5, AppendFacts
<1>8. ASSUME NEW i \in Places, g_plugin_list[i].flag = "unlock" PROVE Kept(g_plugin_list[i])
  <2>1. i # k
    BY <1>3, <1>8
  <2>2. CASE i < k
    <3>1. i \in 1..Len(r) /\ r[i] = g_plugin_list[i]
      BY <1>3, <1>4, <2>2 DEF Places
    <3>2. i \in 1..Len(Append(r, e)) /\ Append(r, e)[i] = g_plugin_list[i]
      BY <1>4, <1>7, <3>1
    <3> QED
      BY <1>6, <3>2 DEF Kept
  <2>3. CASE k < i
    <3>1. i - 1 \in 1..Len(r) /\ r[i - 1] = g_plugin_list[i]
      BY <1>3, <1>4, <2>3 DEF Places
    <3>2. i - 1 \in 1..Len(Append(r, e)) /\ Append(r, e)[i - 1] = g_plugin_list[i]
      BY <1>4, <1>7, <3>1
    <3> QED
      BY <1>6, <3>2 DEF Kept
  <2> QED
    BY <1>3, <1>4, <2>1, <2>2, <2>3 DEF Places
<1> QED
  BY <1>3, <1>6, <1>7, <1>8

\* Add leaves every element where it is and appends one.
LEMMA AddFacts ==
    ASSUME TypeInv, NEW l \in Libs, g_plugin_list' = Append(g_plugin_list, Element(l, TRUE))
    PROVE  /\ g_plugin_list' \in Seq(Elements)
           /\ Len(g_plugin_list) \in Nat /\ Len(g_plugin_list') = Len(g_plugin_list) + 1
           /\ \A i \in Places : g_plugin_list'[i] = g_plugin_list[i]
           /\ g_plugin_list'[Len(g_plugin_list')].name = l
           /\ g_plugin_list'[Len(g_plugin_list')].mod
           /\ g_plugin_list'[Len(g_plugin_list')].flag = "lock"
<1> DEFINE e == Element(l, TRUE)
<1>1. e \in Elements /\ e.name = l /\ e.flag = "lock" /\ e.mod
  BY ElementFacts
<1>2. g_plugin_list \in Seq(Elements) /\ g_plugin_list' = Append(g_plugin_list, e)
  BY DEF TypeInv
<1> HIDE DEF e
<1>3. /\ Append(g_plugin_list, e) \in Seq(Elements)
      /\ Len(Append(g_plugin_list, e)) = Len(g_plugin_list) + 1
      /\ \A i \in 1..Len(g_plugin_list) : Append(g_plugin_list, e)[i] = g_plugin_list[i]
      /\ Append(g_plugin_list, e)[Len(g_plugin_list) + 1] = e
  BY <1>1, <1>2, AppendFacts
<1>4. Len(g_plugin_list) \in Nat
  BY <1>2
<1>5. g_plugin_list'[Len(g_plugin_list')] = e
  BY <1>2, <1>3
<1> QED
  BY <1>1, <1>2, <1>3, <1>4, <1>5 DEF Places
-----------------------------------------------------------------------------
(* The invariant, action by action.                                        *)

LEMMA InitHolds == Init => ListInv
<1> SUFFICES ASSUME Init PROVE ListInv
  OBVIOUS
<1>1. TypeInv
  <2>1. failed \in BOOLEAN
    BY DEF Init
  <2>2. <<>> \in Seq(Elements)
    OBVIOUS
  <2> QED
    BY <2>1, <2>2 DEF Init, TypeInv
<1>2. Places = {}
  BY DEF Init, Places
<1>3. RoundInv /\ OldInv /\ SweepInv
  BY <1>2 DEF Init, RoundInv, OldInv, SweepInv
<1> QED
  BY <1>1, <1>3 DEF ListInv

LEMMA FindHolds == ListInv /\ Find => ListInv'
<1> SUFFICES ASSUME ListInv, Find PROVE ListInv'
  OBVIOUS
<1>1. TypeInv'
  BY DEF ListInv, TypeInv, Find
<1>2. RoundInv'
  <2>1. ASSUME ~failed, NEW k \in Places PROVE g_plugin_list[k].flag # "lock"
    BY <2>1 DEF ListInv, RoundInv, Find
  <2>2. known \subseteq dir
    BY DEF ListInv, TypeInv
  <2> QED
    BY <2>1, <2>2 DEF RoundInv, Find, Places
<1>3. OldInv'
  BY DEF ListInv, OldInv, Find, Places, Answers
<1>4. SweepInv'
  BY DEF Find, SweepInv
<1> QED
  BY <1>1, <1>2, <1>3, <1>4 DEF ListInv

LEMMA ReplaceHolds == ListInv /\ Replace => ListInv'
<1> SUFFICES ASSUME ListInv, Replace PROVE ListInv'
  OBVIOUS
<1>1. /\ g_plugin_list' \in Seq(Elements)
      /\ \A i \in Places : g_plugin_list[i].flag = "unlock" => Kept(g_plugin_list[i])
      /\ \E l \in todo : \E k \in Places : g_plugin_list[k].name = l /\ g_plugin_list[k].flag = "lock"
  BY ReplaceKeeps DEF ListInv
<1>2. failed
  BY <1>1 DEF ListInv, RoundInv, Replace
<1>3. TypeInv'
  <2>1. failed' \in BOOLEAN
    BY DEF ListInv, TypeInv, Replace
  <2>2. visited' \subseteq dir \ broken
    BY DEF ListInv, TypeInv, Replace
  <2> QED
    BY <1>1, <2>1, <2>2 DEF ListInv, TypeInv, Replace
<1>4. RoundInv'
  BY <1>2 DEF RoundInv, Replace
<1>5. OldInv'
  <2> SUFFICES ASSUME NEW l \in known PROVE \E k \in 1..Len(g_plugin_list') :
        g_plugin_list'[k].name = l /\ g_plugin_list'[k].mod /\ g_plugin_list'[k].flag = "unlock"
    BY DEF OldInv, Replace, Places, Answers
  <2>1. PICK i \in Places : Answers(i, l, "unlock")
    BY DEF ListInv, OldInv, Replace
  <2>2. PICK k \in 1..Len(g_plugin_list') : g_plugin_list'[k] = g_plugin_list[i]
    BY <1>1, <2>1 DEF Answers, Kept
  <2> QED
    BY <2>1, <2>2 DEF Answers
<1>6. SweepInv'
  BY DEF SweepInv, Replace
<1> QED
  BY <1>3, <1>4, <1>5, <1>6 DEF ListInv

LEMMA AddHolds == ListInv /\ Add => ListInv'
<1> SUFFICES ASSUME ListInv, Add PROVE ListInv'
  OBVIOUS
<1>0. PICK l \in todo :
        /\ Locked(l) = {} /\ todo' = todo \ {l}
        /\ visited' = visited \cup ({l} \cap (dir \ broken))
        /\ g_plugin_list' = Append(g_plugin_list, Element(l, TRUE))
  BY DEF Add
<1> DEFINE n == Len(g_plugin_list)
<1>1. /\ g_plugin_list' \in Seq(Elements)
      /\ n \in Nat /\ Len(g_plugin_list') = n + 1
      /\ \A i \in Places : g_plugin_list'[i] = g_plugin_list[i]
      /\ g_plugin_list'[Len(g_plugin_list')].name = l
      /\ g_plugin_list'[Len(g_plugin_list')].mod
      /\ g_plugin_list'[Len(g_plugin_list')].flag = "lock"
  BY <1>0, AddFacts DEF ListInv, TypeInv
<1> HIDE DEF n
<1>2. Places = 1..n /\ Places' = 1..(n + 1) /\ Places \subseteq Places' /\ n + 1 \in Places'
      /\ \A k \in Places' : k \in Places \/ k = n + 1
  BY <1>1 DEF Places, n
<1>3. /\ \A k \in Places : g_plugin_list'[k] = g_plugin_list[k]
      /\ g_plugin_list'[n + 1].name = l /\ g_plugin_list'[n + 1].mod
      /\ g_plugin_list'[n + 1].flag = "lock"
  BY <1>1
<1>4. /\ pc = "scan" /\ pc' = "scan" /\ failed' = failed /\ known' = known
      /\ dir' = dir /\ broken' = broken
  BY DEF Add
<1>5. TypeInv'
  <2>1. failed' \in BOOLEAN
    BY <1>4 DEF ListInv, TypeInv
  <2>2. visited' \subseteq dir \ broken
    BY <1>0 DEF ListInv, TypeInv
  <2> QED
    BY <1>0, <1>1, <1>4, <2>1, <2>2 DEF ListInv, TypeInv
<1>6. RoundInv'
  <2> SUFFICES ASSUME ~failed
               PROVE  /\ \A k \in Places' : g_plugin_list'[k].flag = "lock" =>
                            g_plugin_list'[k].name \notin todo'
                      /\ known \subseteq todo' \cup visited'
                      /\ \A m \in visited' : \E k \in Places' : Answers(k, m, "lock")'
    BY <1>4 DEF RoundInv
  <2>1. /\ \A k \in Places : g_plugin_list[k].flag = "lock" => g_plugin_list[k].name \notin todo
        /\ known \subseteq todo \cup visited
        /\ \A m \in visited : \E k \in Places : Answers(k, m, "lock")
    BY <1>4 DEF ListInv, RoundInv
  <2>2. \A k \in Places' : g_plugin_list'[k].flag = "lock" => g_plugin_list'[k].name \notin todo'
    BY <1>0, <1>2, <1>3, <2>1
  <2>3. known \subseteq todo' \cup visited'
    BY <1>0, <2>1 DEF ListInv, TypeInv
  <2>4. ASSUME NEW m \in visited' PROVE \E k \in Places' : Answers(k, m, "lock")'
    <3>1. CASE m \in visited
      <4>1. PICK k \in Places : Answers(k, m, "lock")
        BY <2>1, <3>1
      <4> QED
        BY <1>2, <1>3, <4>1 DEF Answers
    <3>2. CASE m = l
      BY <1>2, <1>3, <3>2 DEF Answers
    <3> QED
      BY <1>0, <2>4, <3>1, <3>2
  <2> QED
    BY <2>2, <2>3, <2>4
<1>7. OldInv'
  <2> SUFFICES ASSUME NEW m \in known PROVE \E k \in Places' : Answers(k, m, "unlock")'
    BY <1>4 DEF OldInv
  <2>1. PICK k \in Places : Answers(k, m, "unlock")
    BY <1>4 DEF ListInv, OldInv
  <2> QED
    BY <1>2, <1>3, <2>1 DEF Answers
<1>8. SweepInv'
  BY <1>4 DEF SweepInv
<1> QED
  BY <1>5, <1>6, <1>7, <1>8 DEF ListInv

LEMMA LoadFailsHolds == ListInv /\ LoadFails => ListInv'
<1> SUFFICES ASSUME ListInv, LoadFails PROVE ListInv'
  OBVIOUS
<1>1. TypeInv'
  BY DEF ListInv, TypeInv, LoadFails
<1>2. RoundInv' /\ SweepInv'
  BY DEF LoadFails, RoundInv, SweepInv
<1>3. OldInv'
  BY DEF ListInv, OldInv, LoadFails, Places, Answers
<1> QED
  BY <1>1, <1>2, <1>3 DEF ListInv

\* Nothing is asked of a process that is gone.
LEMMA CrashHolds == ListInv /\ Crash => ListInv'
<1> SUFFICES ASSUME ListInv, Crash PROVE ListInv'
  OBVIOUS
<1>1. TypeInv'
  BY DEF ListInv, TypeInv, Crash
<1>2. RoundInv' /\ OldInv' /\ SweepInv'
  BY DEF Crash, RoundInv, OldInv, SweepInv
<1> QED
  BY <1>1, <1>2 DEF ListInv

LEMMA EndScanHolds == ListInv /\ EndScan => ListInv'
<1> SUFFICES ASSUME ListInv, EndScan PROVE ListInv'
  OBVIOUS
<1>1. TypeInv'
  <2>1. failed' \in BOOLEAN
    BY DEF ListInv, TypeInv, EndScan
  <2>2. known' \subseteq known
    BY DEF EndScan
  <2> QED
    BY <2>1, <2>2 DEF ListInv, TypeInv, EndScan
<1>2. RoundInv' /\ OldInv'
  BY DEF EndScan, RoundInv, OldInv
<1>3. SweepInv'
  <2>1. /\ pc = "scan" /\ todo = {} /\ at' = 1 /\ g_plugin_list' = g_plugin_list
        /\ failed' = failed /\ visited' = visited
        /\ (failed => known' = {}) /\ (~failed => known' = known)
    BY DEF EndScan
  <2>2. Len(g_plugin_list) \in Nat /\ Places' = Places
    BY <2>1 DEF ListInv, TypeInv, Places
  <2>3. at' \in 1..Len(g_plugin_list') + 1 /\ \A k \in Places : ~(k < at')
    BY <2>1, <2>2 DEF Places
  <2>4. ASSUME ~failed
        PROVE  /\ known' \subseteq visited'
               /\ \A l \in visited' : \E k \in Places :
                    g_plugin_list[k].name = l /\ g_plugin_list[k].mod /\ g_plugin_list[k].flag = "lock"
    BY <2>1, <2>4 DEF ListInv, RoundInv, Answers
  <2> QED
    BY <2>1, <2>2, <2>3, <2>4 DEF SweepInv, Answers, Mark
<1> QED
  BY <1>1, <1>2, <1>3 DEF ListInv

LEMMA EndSweepHolds == ListInv /\ EndSweep => ListInv'
<1> SUFFICES ASSUME ListInv, EndSweep PROVE ListInv'
  OBVIOUS
<1>1. /\ pc = "sweep" /\ at > Len(g_plugin_list) /\ pc' = "sleep"
      /\ failed' = FALSE /\ visited' = {} /\ g_plugin_list' = g_plugin_list
      /\ (failed => known' = {}) /\ (~failed => known' = visited)
  BY DEF EndSweep
<1>2. Len(g_plugin_list) \in Nat /\ Places' = Places
  BY <1>1 DEF ListInv, TypeInv, Places
<1>3. \A k \in Places : k < at
  BY <1>1, <1>2 DEF ListInv, SweepInv, Places
<1>4. TypeInv'
  <2>1. known' \subseteq visited
    BY <1>1
  <2> QED
    BY <1>1, <2>1 DEF ListInv, TypeInv, EndSweep
<1>5. RoundInv'
  BY <1>1, <1>2, <1>3 DEF ListInv, SweepInv, RoundInv
<1>6. OldInv'
  <2> SUFFICES ASSUME NEW l \in known', ~failed, l \in visited
               PROVE  \E k \in Places : Answers(k, l, "unlock")
    BY <1>1, <1>2 DEF OldInv, Answers
  <2>1. PICK k \in Places : Answers(k, l, Mark(k))
    BY <1>1 DEF ListInv, SweepInv
  <2> QED
    BY <1>3, <2>1 DEF Mark
<1>7. SweepInv'
  BY <1>1 DEF SweepInv
<1> QED
  BY <1>4, <1>5, <1>6, <1>7 DEF ListInv
\* The sweep spares a locked element and marks it.
LEMMA SpareHolds ==
    ASSUME ListInv, Sweep, g_plugin_list[at].flag # "unlock"
    PROVE  ListInv'
<1>1. /\ pc = "sweep" /\ at <= Len(g_plugin_list) /\ at' = at + 1
      /\ g_plugin_list' = [g_plugin_list EXCEPT ![at].flag = "unlock"]
  BY DEF Sweep
<1>2. /\ pc' = pc /\ failed' = failed /\ visited' = visited /\ known' = known
      /\ dir' = dir /\ broken' = broken /\ todo' = todo
  BY DEF Sweep
<1>3. g_plugin_list \in Seq(Elements) /\ Len(g_plugin_list) \in Nat /\ at \in Places /\ at \in Nat
  BY <1>1 DEF ListInv, TypeInv, SweepInv, Places
<1>4. /\ g_plugin_list' \in Seq(Elements) /\ Len(g_plugin_list') = Len(g_plugin_list)
      /\ \A i \in Places : i # at => g_plugin_list'[i] = g_plugin_list[i]
      /\ g_plugin_list'[at].name = g_plugin_list[at].name
      /\ g_plugin_list'[at].mod = g_plugin_list[at].mod
      /\ g_plugin_list'[at].flag = "unlock"
  BY <1>1, <1>3, UnlockFacts DEF Places
<1>5. Places' = Places /\ \A i \in Places : i \in Nat
  BY <1>4 DEF Places
<1>6. TypeInv'
  <2>1. failed' \in BOOLEAN
    BY <1>2 DEF ListInv, TypeInv
  <2> QED
    BY <1>2, <1>4, <2>1 DEF ListInv, TypeInv
<1>7. RoundInv' /\ OldInv'
  BY <1>1, <1>2 DEF RoundInv, OldInv, ListInv, SweepInv
<1>8. SweepInv'
  <2>1. at' \in 1..Len(g_plugin_list') + 1
    BY <1>1, <1>3, <1>4
  <2>2. ASSUME NEW k \in Places, k < at' PROVE g_plugin_list'[k].flag = "unlock"
    <3>1. k < at \/ k = at
      BY <1>1, <1>3, <1>5, <2>2
    <3> QED
      BY <1>1, <1>4, <3>1 DEF ListInv, SweepInv
  <2>3. ASSUME ~failed, NEW l \in visited
        PROVE  \E k \in Places : Answers(k, l, Mark(k))'
    <3>1. PICK k \in Places : Answers(k, l, Mark(k))
      BY <1>1, <2>3 DEF ListInv, SweepInv
    <3>2. CASE k = at
      <4>1. k < at'
        BY <1>1, <1>3, <3>2
      <4> QED
        BY <1>4, <3>1, <3>2, <4>1 DEF Answers, Mark
    <3>3. CASE k # at
      <4>1. k < at' <=> k < at
        BY <1>1, <1>3, <1>5, <3>3
      <4> QED
        BY <1>4, <3>1, <3>3, <4>1 DEF Answers, Mark
    <3> QED
      BY <3>2, <3>3
  <2>4. (failed => known = {}) /\ (~failed => known \subseteq visited)
    BY <1>1 DEF ListInv, SweepInv
  <2> QED
    BY <1>2, <1>5, <2>1, <2>2, <2>3, <2>4 DEF SweepInv
<1> QED
  BY <1>6, <1>7, <1>8 DEF ListInv

\* The sweep deletes an element that the round has not locked again.
LEMMA DeleteHolds ==
    ASSUME ListInv, Sweep, g_plugin_list[at].flag = "unlock"
    PROVE  ListInv'
<1>1. /\ pc = "sweep" /\ at <= Len(g_plugin_list) /\ at' = at
      /\ g_plugin_list' = RemoveAt(g_plugin_list, at)
  BY DEF Sweep
<1>2. /\ pc' = pc /\ failed' = failed /\ visited' = visited /\ known' = known
      /\ dir' = dir /\ broken' = broken /\ todo' = todo
  BY DEF Sweep
<1> DEFINE n == Len(g_plugin_list)
<1>3. g_plugin_list \in Seq(Elements) /\ n \in Nat /\ at \in 1..n /\ at \in Nat
  BY <1>1 DEF ListInv, TypeInv, SweepInv, Places
<1>4. /\ g_plugin_list' \in Seq(Elements) /\ Len(g_plugin_list') = n - 1
      /\ \A i \in 1..(n - 1) :
            g_plugin_list'[i] = IF i < at THEN g_plugin_list[i] ELSE g_plugin_list[i + 1]
  BY <1>1, <1>3, RemoveFacts
<1> HIDE DEF n
<1>5. Places = 1..n /\ Places' = 1..(n - 1) /\ Places' \subseteq Places
  BY <1>3, <1>4 DEF Places, n
<1>6. TypeInv'
  <2>1. failed' \in BOOLEAN
    BY <1>2 DEF ListInv, TypeInv
  <2> QED
    BY <1>2, <1>4, <2>1 DEF ListInv, TypeInv
<1>7. RoundInv' /\ OldInv'
  BY <1>1, <1>2 DEF RoundInv, OldInv, ListInv, SweepInv
<1>8. SweepInv'
  <2>1. at' \in 1..Len(g_plugin_list') + 1
    BY <1>1, <1>3, <1>4
  <2>2. ASSUME NEW k \in Places', k < at' PROVE g_plugin_list'[k].flag = "unlock"
    BY <1>1, <1>4, <1>5, <2>2 DEF ListInv, SweepInv
  <2>3. ASSUME ~failed, NEW l \in visited
        PROVE  \E k \in Places' : Answers(k, l, Mark(k))'
    <3>1. PICK k \in Places : Answers(k, l, Mark(k))
      BY <1>1, <2>3 DEF ListInv, SweepInv
    <3>2. k # at
      BY <1>3, <3>1 DEF Answers, Mark
    <3>3. CASE k < at
      <4>1. k \in 1..(n - 1) /\ k < at' /\ g_plugin_list'[k] = g_plugin_list[k]
        BY <1>1, <1>3, <1>4, <1>5, <3>3
      <4> QED
        BY <1>5, <3>1, <3>3, <4>1 DEF Answers, Mark
    <3>4. CASE at < k
      <4>1. k - 1 \in 1..(n - 1) /\ ~(k - 1 < at') /\ ~(k < at) /\ (k - 1) + 1 = k
        BY <1>1, <1>3, <1>5, <3>4
      <4>2. g_plugin_list'[k - 1] = g_plugin_list[k]
        BY <1>1, <1>4, <4>1
      <4> QED
        BY <1>5, <3>1, <4>1, <4>2 DEF Answers, Mark
    <3> QED
      BY <1>3, <1>5, <3>2, <3>3, <3>4
  <2>4. (failed => known = {}) /\ (~failed => known \subseteq visited)
    BY <1>1 DEF ListInv, SweepInv
  <2> QED
    BY <1>2, <2>1, <2>2, <2>3, <2>4 DEF SweepInv
<1> QED
  BY <1>6, <1>7, <1>8 DEF ListInv

LEMMA ChangeHolds == ListInv /\ Change => ListInv'
<1> SUFFICES ASSUME ListInv, Change PROVE ListInv'
  OBVIOUS
<1>1. /\ g_plugin_list' = g_plugin_list /\ pc' = pc /\ todo' = todo /\ at' = at
      /\ failed' = failed
  BY DEF Change
<1>2. PICK l \in Libs :
        /\ \/ dir' = dir \ {l} /\ broken' = broken \ {l}
           \/ dir' = dir \cup {l} /\ broken' = broken \cup {l}
           \/ dir' = dir \cup {l} /\ broken' = broken \ {l}
        /\ visited' = visited \ {l} /\ known' = known \ {l}
  BY DEF Change
<1>3. TypeInv'
  <2>1. failed' \in BOOLEAN
    BY <1>1 DEF ListInv, TypeInv
  <2> QED
    BY <1>1, <1>2, <2>1 DEF ListInv, TypeInv
<1>4. RoundInv'
  BY <1>1, <1>2 DEF ListInv, RoundInv, Places, Answers
<1>5. OldInv'
  BY <1>1, <1>2 DEF ListInv, OldInv, Places, Answers
<1>6. SweepInv'
  BY <1>1, <1>2 DEF ListInv, SweepInv, Places, Answers, Mark
<1> QED
  BY <1>3, <1>4, <1>5, <1>6 DEF ListInv

LEMMA StutterHolds == ListInv /\ UNCHANGED vars => ListInv'
<1> SUFFICES ASSUME ListInv, UNCHANGED vars PROVE ListInv'
  OBVIOUS
<1>1. TypeInv' /\ RoundInv'
  BY DEF ListInv, TypeInv, RoundInv, Places, Answers, vars
<1>2. OldInv' /\ SweepInv'
  BY DEF ListInv, OldInv, SweepInv, Places, Answers, Mark, vars
<1> QED
  BY <1>1, <1>2 DEF ListInv

LEMMA ListInductive == ListInv /\ [Next]_vars => ListInv'
<1>1. ListInv /\ Sweep => ListInv'
  BY SpareHolds, DeleteHolds
<1> QED
  BY <1>1, FindHolds, ReplaceHolds, AddHolds, LoadFailsHolds, CrashHolds, EndScanHolds, EndSweepHolds,
     ChangeHolds, StutterHolds DEF Next, Monitor, CallNoGetmod, CloseStale

LEMMA ListFinds == ListInv => StaysFindable
<1> SUFFICES ASSUME ListInv, NEW l \in known PROVE \E k \in Places :
        g_plugin_list[k].name = l /\ g_plugin_list[k].mod
  <2>1. DOMAIN g_plugin_list = Places
    BY DEF ListInv, TypeInv, Places
  <2> QED
    BY <2>1 DEF StaysFindable, Findable
<1>1. CASE pc # "sweep"
  BY <1>1 DEF ListInv, OldInv, Answers
<1>2. CASE pc = "sweep"
  <2>1. ~failed /\ l \in visited
    BY <1>2 DEF ListInv, SweepInv
  <2> QED
    BY <1>2, <2>1 DEF ListInv, SweepInv, Answers
<1> QED
  BY <1>1, <1>2

\* The libraries a full round has named stay findable by the name they answer
\* to, whatever is added, replaced, broken or removed, up to the first full
\* round after a broken-off one: find_plugin_from_list, del_list and the loop of
\* thrd_monitor_libs together never leave a moment without an element for them.
THEOREM StaysFound == Spec => []StaysFindable
<1>1. Spec => []ListInv
  BY InitHolds, ListInductive, PTL DEF Spec
<1> QED
  BY <1>1, ListFinds, PTL
=============================================================================
