-------------------------------- MODULE Slab --------------------------------
(***************************************************************************)
(* The slab allocator of my_demo_code/slab/slab_linux_new and its clients. *)
(* One region is cut into units of SLAB_MAX size classes; each class keeps *)
(* a list of free and a list of used units.  A request that no class can   *)
(* serve goes to malloc.  slab_free recycles the head of the used list of  *)
(* the class its argument is in, whichever unit its argument is.           *)
(*                                                                         *)
(* Addresses are offsets from m_mem_unit, the region's start.  A unit's    *)
(* content is all that one client stored, part of it, or nothing.          *)
(***************************************************************************)
EXTENDS Integers, FiniteSets, Sequences, SequencesExt

CONSTANTS
    SLAB_MAX,        \* the number of size classes
    SLAB_UNIT_SIZE,  \* the size of the first class
    MaxNum,          \* m_unit_max_num: how many units each class has
    Handles,         \* the pointers the clients keep
    Sizes            \* the sizes they ask for

Classes == 1..SLAB_MAX

ASSUME SlabAssumption ==
    /\ SLAB_MAX \in Nat \ {0} /\ SLAB_UNIT_SIZE \in Nat \ {0}
    /\ MaxNum \in [Classes -> Nat \ {0}]
    /\ IsFiniteSet(Handles) /\ Sizes \subseteq Nat

Null == -1           \* NULL, an address outside the region
Zero == "zero"       \* memory that was cleared, or never written
Part == "part"       \* memory that holds the beginning of what was stored

ASSUME NamesAssumption == Zero \notin Handles /\ Part \notin Handles

-----------------------------------------------------------------------------
(* The layout slab_create computes, and is_in_slab, which reads it back.   *)

UnitSize[i \in Classes] == IF i = 1 THEN SLAB_UNIT_SIZE ELSE 2 * UnitSize[i - 1]

\* Where class i ends; End[SLAB_MAX] is slab_size_sum.
End[i \in 0..SLAB_MAX] == IF i = 0 THEN 0 ELSE End[i - 1] + MaxNum[i] * UnitSize[i]

\* How many units the first i classes have.
Units[i \in 0..SLAB_MAX] == IF i = 0 THEN 0 ELSE Units[i - 1] + MaxNum[i]

slab_max_num == Units[SLAB_MAX]

\* The loop over all units, after n rounds: count units of class j are placed
\* so far, and each unit is at the tail of its class's list.
Place[n \in 0..slab_max_num] ==
    IF n = 0 THEN [j |-> 1, count |-> 0, offset |-> 0, free |-> [i \in Classes |-> <<>>]]
    ELSE LET p == Place[n - 1]
             j == IF p.count < MaxNum[p.j] THEN p.j ELSE p.j + 1
         IN  [j      |-> j,
              count  |-> IF p.count < MaxNum[p.j] THEN p.count + 1 ELSE 1,
              offset |-> p.offset + UnitSize[j],
              free   |-> [p.free EXCEPT ![j] = Append(@, p.offset)]]

\* The addresses of class i's units in the order slab_create lists them.
UnitList(i) == Place[slab_max_num].free[i]

UnitsOf(i) == ToSet(UnitList(i))

InSlab == UNION {UnitsOf(i) : i \in Classes}

\* The part of the region that is each class's.
Ranges == {[class |-> i, first |-> End[i - 1], end |-> End[i]] : i \in Classes}

\* Mutant: the end of a range counts as inside.
is_in_slab_inclusive(p) ==
    IF \E r \in Ranges : r.first <= p /\ p <= r.end
    THEN (CHOOSE r \in Ranges : r.first <= p /\ p <= r.end).class
    ELSE -1

\* The class whose range holds p, or -1: also for the end of the region, which
\* the first test of the code lets pass.
is_in_slab(p) ==
    IF \E r \in Ranges : r.first <= p /\ p < r.end
    THEN (CHOOSE r \in Ranges : r.first <= p /\ p < r.end).class
    ELSE -1

\* m_unit_size[flag]; for flag = -1 the member before it, which is the last of
\* m_unit_max_num.
SizeAt(flag) == IF flag = -1 THEN MaxNum[SLAB_MAX] ELSE UnitSize[flag]

\* Where malloc puts its blocks, one for each handle and one to copy from: the
\* first of them right behind the region.
Heap == {End[SLAB_MAX] + n : n \in 0..Cardinality(Handles)}

-----------------------------------------------------------------------------
VARIABLES
    phase,   \* "none", "ready", "released"
    free,    \* m_free_mem_objs
    used,    \* m_used_mem_objs
    mem,     \* the content of every unit and malloc block
    ptr,     \* what each client pointer points to, or Null
    size,    \* the size the client last asked for
    stored,  \* the clients that filled their block
    line,      \* history: the handles holding units of a class, oldest first
    outOfTurn, \* history: classes a client gave a unit back to out of its turn
    risk       \* history: clients whose data the code may have lost since

vars == <<phase, free, used, mem, ptr, size, stored, line, outOfTurn, risk>>

Init ==
    /\ phase = "none"
    /\ free = [i \in Classes |-> <<>>] /\ used = [i \in Classes |-> <<>>]
    /\ mem = [p \in InSlab \cup Heap |-> Zero]
    /\ ptr = [h \in Handles |-> Null]
    /\ size = [h \in Handles |-> 0] /\ stored = {}
    /\ line = [i \in Classes |-> <<>>] /\ outOfTurn = {} /\ risk = {}

\* Mutant: the offset advances before the unit gets its address.
slab_create_late ==
    /\ phase = "none"
    /\ phase' = "ready"
    /\ free' = [i \in Classes |-> [k \in 1..MaxNum[i] |-> UnitList(i)[k] + UnitSize[i]]]
    /\ UNCHANGED <<used, mem, ptr, size, stored, line, outOfTurn, risk>>

slab_create ==
    /\ phase = "none"
    /\ phase' = "ready"
    /\ free' = [i \in Classes |-> UnitList(i)]
    /\ UNCHANGED <<used, mem, ptr, size, stored, line, outOfTurn, risk>>

slab_release ==
    /\ phase = "ready"
    /\ phase' = "released"
    /\ UNCHANGED <<free, used, mem, ptr, size, stored, line, outOfTurn, risk>>

-----------------------------------------------------------------------------
(* The two list operations, on the class they pick.                        *)

Fits(s) == {i \in Classes : s <= UnitSize[i] /\ free[i] # <<>>}

\* The smallest class that fits and has a free unit.
IsFirstFit(s, i) == i \in Fits(s) /\ \A j \in Fits(s) : i <= j

\* Mutant: the unit is not put on the used list.
TakeUnitUnlisted(i) ==
    /\ free' = [free EXCEPT ![i] = Tail(@)]
    /\ UNCHANGED used

\* The head of the free list goes to the tail of the used list.
TakeUnit(i) ==
    /\ free' = [free EXCEPT ![i] = Tail(@)]
    /\ used' = [used EXCEPT ![i] = Append(@, Head(free[i]))]

\* Mutant: the unit is not put back on the free list.
RecycleUnitLeaks(i) ==
    /\ used' = [used EXCEPT ![i] = Tail(@)]
    /\ UNCHANGED free

\* The head of the used list goes to the tail of the free list.
RecycleUnit(i) ==
    /\ used' = [used EXCEPT ![i] = Tail(@)]
    /\ free' = [free EXCEPT ![i] = Append(@, Head(used[i]))]

\* What a malloc block gets: the first address no client holds.
IsNextBlock(p) == p \in Heap /\ (\A h \in Handles : ptr[h] # p)
                  /\ \A q \in Heap : q < p => \E h \in Handles : ptr[h] = q

Points(h, p, s) == ptr' = [ptr EXCEPT ![h] = p] /\ size' = [size EXCEPT ![h] = s]

\* Until they give their memory back the clients of S, and those that hold a
\* unit of a class while it is out of turn, may find their data gone.
AtRisk(S) ==
    risk' = {h \in Handles : /\ ptr'[h] # Null
                             /\ h \in risk \cup S \/ is_in_slab(ptr'[h]) \in outOfTurn'}

-----------------------------------------------------------------------------
(* slab_malloc.                                                            *)

MallocUnit(h, s) ==
    /\ phase = "ready" /\ ptr[h] = Null
    /\ \E i \in Classes :
          /\ IsFirstFit(s, i)
          /\ TakeUnit(i)
          /\ mem' = [mem EXCEPT ![Head(free[i])] = Zero]
          /\ Points(h, Head(free[i]), s)
          /\ line' = [line EXCEPT ![i] = Append(@, h)]
    /\ UNCHANGED <<phase, stored, outOfTurn>>
    /\ AtRisk({})

MallocBlock(h, s) ==
    /\ phase = "ready" /\ ptr[h] = Null
    /\ Fits(s) = {}
    /\ \E p \in Heap : IsNextBlock(p) /\ mem' = [mem EXCEPT ![p] = Zero] /\ Points(h, p, s)
    /\ UNCHANGED <<phase, free, used, stored, line, outOfTurn>>
    /\ AtRisk({})

\* The client fills its block.
Store(h) ==
    /\ phase = "ready" /\ ptr[h] # Null /\ size[h] > 0
    /\ mem' = [mem EXCEPT ![ptr[h]] = h]
    /\ stored' = stored \cup {h}
    /\ risk' = {g \in risk : g = h => is_in_slab(ptr[h]) \in outOfTurn}
    /\ UNCHANGED <<phase, free, used, ptr, size, line, outOfTurn>>

-----------------------------------------------------------------------------
(* slab_free.                                                              *)

\* h gives a unit of class i back.  Unless it is the first in line, the unit
\* that is recycled is another client's, and the class is out of turn until all
\* of its units are back.
Turn(h, i) ==
    outOfTurn' = {j \in outOfTurn \cup (IF Head(line[i]) = h THEN {} ELSE {i}) : line'[j] # <<>>}

Leaves(h, i) ==
    /\ \E k \in 1..Len(line[i]) :
          line[i][k] = h /\ line' = [line EXCEPT ![i] = RemoveAt(@, k)]
    /\ Turn(h, i)

\* Mutant: the last used unit is recycled instead of the first.
FreeLastUnit(h) ==
    LET i == is_in_slab(ptr[h]) IN
    /\ phase = "ready" /\ ptr[h] # Null /\ i # -1
    /\ used' = [used EXCEPT ![i] = Front(@)]
    /\ free' = [free EXCEPT ![i] = Append(@, Last(used[i]))]
    /\ mem' = [mem EXCEPT ![Last(used[i])] = Zero]
    /\ Points(h, Null, 0)
    /\ Leaves(h, i) /\ AtRisk({})
    /\ stored' = stored \ {h}
    /\ UNCHANGED phase

FreeUnit(h) ==
    LET i == is_in_slab(ptr[h]) IN
    /\ phase = "ready" /\ ptr[h] # Null /\ i # -1
    /\ RecycleUnit(i)
    /\ mem' = [mem EXCEPT ![Head(used[i])] = Zero]
    /\ Points(h, Null, 0)
    /\ Leaves(h, i) /\ AtRisk({})
    /\ stored' = stored \ {h}
    /\ UNCHANGED phase

FreeBlock(h) ==
    /\ phase = "ready" /\ ptr[h] # Null /\ is_in_slab(ptr[h]) = -1
    /\ mem' = [mem EXCEPT ![ptr[h]] = Zero]
    /\ Points(h, Null, 0)
    /\ stored' = stored \ {h}
    /\ UNCHANGED <<phase, free, used, line, outOfTurn>>
    /\ AtRisk({})

-----------------------------------------------------------------------------
(* slab_realloc: slab_malloc, a copy of m_unit_size[flag] bytes, slab_free. *)

MayRealloc(h) == phase = "ready" /\ ptr[h] # Null

ReallocInPlace(h, s) ==
    LET flag == is_in_slab(ptr[h]) IN
    /\ MayRealloc(h)
    /\ s <= SizeAt(flag)
    /\ size' = [size EXCEPT ![h] = s]
    /\ UNCHANGED <<phase, free, used, mem, ptr, stored, line, outOfTurn, risk>>

\* Mutant: nothing is copied.
CopiedNothing(h, n) == Zero

\* What is found where n bytes of h's block were copied to.
Copied(h, n) == IF mem[ptr[h]] = h /\ size[h] > n THEN Part ELSE mem[ptr[h]]

\* From a unit to a unit: the request does not fit class flag, so the new unit
\* is of a later class.
ReallocToUnit(h, s) ==
    LET flag == is_in_slab(ptr[h]) IN
    /\ MayRealloc(h) /\ flag # -1
    /\ s > SizeAt(flag)
    /\ \E i \in Classes :
          LET new == Head(free[i])  old == Head(used[flag]) IN
          /\ IsFirstFit(s, i)
          /\ used' = [used EXCEPT ![i] = Append(@, new), ![flag] = Tail(@)]
          /\ free' = [free EXCEPT ![i] = Tail(@), ![flag] = Append(@, old)]
          /\ mem' = [mem EXCEPT ![new] = Copied(h, SizeAt(flag)), ![old] = Zero]
          /\ Points(h, new, s)
          /\ \E k \in 1..Len(line[flag]) :
                /\ line[flag][k] = h
                /\ line' = [line EXCEPT ![flag] = RemoveAt(@, k), ![i] = Append(@, h)]
    /\ Turn(h, flag) /\ AtRisk({})
    /\ UNCHANGED <<phase, stored>>

\* From a unit to a malloc block.
ReallocToBlock(h, s) ==
    LET flag == is_in_slab(ptr[h]) IN
    /\ MayRealloc(h) /\ flag # -1
    /\ s > SizeAt(flag) /\ Fits(s) = {}
    /\ \E p \in Heap :
          /\ IsNextBlock(p)
          /\ RecycleUnit(flag)
          /\ mem' = [mem EXCEPT ![p] = Copied(h, SizeAt(flag)), ![Head(used[flag])] = Zero]
          /\ Points(h, p, s)
    /\ Leaves(h, flag) /\ AtRisk({})
    /\ UNCHANGED <<phase, stored>>

\* From a malloc block to a unit or to another block: m_unit_size[-1] bytes of
\* it go along.
ReallocBlock(h, s) ==
    /\ MayRealloc(h) /\ is_in_slab(ptr[h]) = -1
    /\ s > SizeAt(-1)
    /\ \/ \E i \in Classes :
             /\ IsFirstFit(s, i)
             /\ TakeUnit(i)
             /\ mem' = [mem EXCEPT ![Head(free[i])] = Copied(h, SizeAt(-1)), ![ptr[h]] = Zero]
             /\ Points(h, Head(free[i]), s)
             /\ line' = [line EXCEPT ![i] = Append(@, h)]
       \/ /\ Fits(s) = {}
          /\ \E p \in Heap :
                /\ IsNextBlock(p)
                /\ mem' = [mem EXCEPT ![p] = Copied(h, SizeAt(-1)), ![ptr[h]] = Zero]
                /\ Points(h, p, s)
          /\ UNCHANGED <<free, used, line>>
    /\ UNCHANGED <<phase, stored, outOfTurn>>
    /\ AtRisk(IF size[h] > SizeAt(-1) THEN {h} ELSE {})

-----------------------------------------------------------------------------
Next ==
    \/ slab_create \/ slab_release
    \/ \E h \in Handles :
          \/ Store(h) \/ FreeUnit(h) \/ FreeBlock(h)
          \/ \E s \in Sizes :
                \/ MallocUnit(h, s) \/ MallocBlock(h, s)
                \/ ReallocInPlace(h, s) \/ ReallocToUnit(h, s)
                \/ ReallocToBlock(h, s) \/ ReallocBlock(h, s)

Spec == Init /\ [][Next]_vars

-----------------------------------------------------------------------------
(* Properties.                                                             *)

\* Lists hold units of the region, pointers point to units or blocks.
TypeOK ==
    /\ phase \in {"none", "ready", "released"}
    /\ free \in [Classes -> Seq(InSlab)] /\ used \in [Classes -> Seq(InSlab)]
    /\ mem \in [InSlab \cup Heap -> Handles \cup {Zero, Part}]
    /\ ptr \in [Handles -> InSlab \cup Heap \cup {Null}]
    /\ size \in [Handles -> Nat] /\ stored \subseteq Handles
    /\ line \in [Classes -> Seq(Handles)] /\ outOfTurn \subseteq Classes /\ risk \subseteq Handles

\* The units of a class are as many as it should have, none overlaps another,
\* and is_in_slab finds the class of each of their bytes, and no class for a
\* malloc block or for NULL.
Layout ==
    /\ \A i \in Classes :
          /\ UnitSize[i] \in Nat \ {0} /\ UnitList(i) \in Seq(Nat)
          /\ Len(UnitList(i)) = MaxNum[i]
          /\ \A k \in 1..MaxNum[i] : \A b \in 0..(UnitSize[i] - 1) :
                is_in_slab(UnitList(i)[k] + b) = i
    /\ \A i, j \in Classes : \A u \in UnitsOf(i), v \in UnitsOf(j) :
          u < v => u + UnitSize[i] <= v
    /\ \A i \in Classes : IsInjective(UnitList(i))
    /\ Null \notin Heap /\ \A p \in Heap \cup {Null} : is_in_slab(p) = -1

\* When slab_create is done, the loop that placed the units and the loop that
\* looks an address up agree.
LayoutOK == phase # "none" => Layout

\* A unit is on one list of its own class, once: none is lost and none is
\* listed twice, also by the clients that slab_free serves wrongly.
UnitsPartitioned ==
    phase # "none" => \A i \in Classes :
       /\ IsInjective(free[i]) /\ IsInjective(used[i])
       /\ ToSet(free[i]) \cap ToSet(used[i]) = {}
       /\ ToSet(free[i]) \cup ToSet(used[i]) = UnitsOf(i)

\* A class has as many used units as clients hold pointers into it, so
\* slab_free, which takes the head of the used list without a look at whether
\* there is one, never runs on an empty list.
UsedMatchesLive ==
    \A i \in Classes :
       /\ Len(used[i]) = Len(line[i])
       /\ ToSet(line[i]) = {h \in Handles : ptr[h] # Null /\ is_in_slab(ptr[h]) = i}

\* Two clients hold the same memory only in a class that one of them, or a
\* third, gave a unit back to out of turn, and only until all of the class's
\* units are back.
OneOwner ==
    \A g, h \in Handles :
       g # h /\ ptr[g] # Null /\ ptr[g] = ptr[h] => is_in_slab(ptr[g]) \in outOfTurn

\* What a client stored is there until it gives the memory back, also after
\* slab_realloc moved it.  It may be gone only if the client held a unit of a
\* class that was out of turn, or moved more than m_unit_size[-1] bytes out of
\* a malloc block, and has not stored since.
KeepsData == \A h \in stored \ risk : mem[ptr[h]] = h

\* slab_free gives back the memory ptr points to (comm_slab.c:203), so what it
\* did not get stays with its client: no two clients hold the same memory.
NothingShared == \A g, h \in Handles : g # h /\ ptr[g] # Null => ptr[g] # ptr[h]
=============================================================================
