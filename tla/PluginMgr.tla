----------------------------- MODULE PluginMgr -----------------------------
(***************************************************************************)
(* The plugin manager's list of libraries.  Every ten seconds the monitor  *)
(* thread runs find over the directory, adds an element for each library   *)
(* with the name it answers to, and sweeps: elements marked unlock go, and *)
(* those marked lock become unlock, for the next round to replace.  A      *)
(* library that cannot be loaded ends the round there, without a sweep and *)
(* without pclose, so that the stream to find is never given back; one     *)
(* that has no getmod takes the process down.                              *)
(*                                                                         *)
(* main looks a library up by that name, plugin_mod.                       *)
(***************************************************************************)
EXTENDS Integers, Sequences, SequencesExt

CONSTANTS
    Libs,        \* the lib*.so files there may be
    MaxChanges,  \* bound: how often the directory changes
    MaxStreams   \* how many streams popen has to give

ASSUME PluginAssumption == MaxChanges \in Nat /\ MaxStreams \in Nat \ {0}

VARIABLES
    dir,            \* the libraries in the directory
    broken,         \* those of them that cannot be loaded
    bare,           \* those of them that load and have no getmod
    g_plugin_list,  \* the elements: [name, flag, mod], mod telling if it is set
    pc,             \* "sleep", "scan", "sweep" or "crashed"
    todo,           \* what find has yet to name
    at,             \* where the sweep is
    opened,         \* the libraries that were loaded once
    handle,         \* "open", "null" or "stale": not set yet, or closed already
    streams,        \* how many streams were never closed
    changes,        \* how often the directory has changed
    visited,        \* history: what this round named and has stayed as it was
    failed,         \* history: a round was broken off since the last sweep
    known           \* history: what the last full round named, see below

directory == <<dir, broken, bare, changes>>
loader    == <<opened, handle, streams>>
history   == <<visited, failed, known>>
vars == <<directory, loader, history, g_plugin_list, pc, todo, at>>

Element(l, mod) == [name |-> l, flag |-> "lock", mod |-> mod]
Locked(l) == {k \in DOMAIN g_plugin_list : g_plugin_list[k].name = l /\ g_plugin_list[k].flag = "lock"}

-----------------------------------------------------------------------------
(* thrd_monitor_libs.                                                      *)

\* popen works as long as there is a stream to be had.
Find ==
    /\ pc = "sleep" /\ streams < MaxStreams
    /\ pc' = "scan"
    /\ todo' = dir
    /\ visited' = {}
    /\ UNCHANGED <<directory, loader, g_plugin_list, at, failed, known>>

\* find_plugin_from_list: an element that is still locked, after a round that
\* was broken off, is replaced by a new one whose plugin_mod nobody sets.
Replace ==
    /\ pc = "scan"
    /\ \E l \in todo :
        /\ todo' = todo \ {l}
        /\ visited' = visited \cup ({l} \cap (dir \ broken))
        /\ \E k \in Locked(l) :
            /\ \A j \in Locked(l) : k <= j
            /\ g_plugin_list' = Append(RemoveAt(g_plugin_list, k), Element(l, FALSE))
    /\ UNCHANGED <<directory, loader, pc, at, failed, known>>

\* dlopen, getmod and list_add_tail.  A round closes only the handle it opened
\* last, so that dlopen may find a library loaded whose file is gone or broken.
Add ==
    /\ pc = "scan"
    /\ \E l \in todo \cap ((dir \ (broken \cup bare)) \cup opened) :
        /\ Locked(l) = {}
        /\ todo' = todo \ {l}
        /\ opened' = opened \cup {l} /\ handle' = "open"
        /\ visited' = visited \cup ({l} \cap (dir \ broken))
        /\ g_plugin_list' = Append(g_plugin_list, Element(l, TRUE))
    /\ UNCHANGED <<directory, streams, pc, at, failed, known>>

\* The library is broken, or gone since find named it.  The jump to WARNING
\* goes past del_list and pclose.
LoadFails ==
    /\ pc = "scan"
    /\ \E l \in todo \ (dir \ broken) : Locked(l) = {}
    /\ pc' = "sleep"
    /\ todo' = {} /\ visited' = {}
    /\ failed' = TRUE
    /\ handle' = "null" /\ streams' = streams + 1
    /\ UNCHANGED <<directory, opened, g_plugin_list, at, known>>

\* The process is gone, and what main would find with it.
Crash ==
    /\ pc' = "crashed"
    /\ visited' = {} /\ known' = {}
    /\ UNCHANGED <<directory, loader, g_plugin_list, todo, at, failed>>

\* dlsym finds no getmod, and what it returned is called all the same.
CallNoGetmod ==
    /\ pc = "scan"
    /\ \E l \in todo \cap bare : Locked(l) = {}
    /\ Crash

\* A round that loaded nothing, or had no popen, hands dlclose what it found in
\* handle: if that was closed before or never set, anything may happen.
CloseStale ==
    /\ handle = "stale"
    /\ pc = "sleep" \/ (pc = "sweep" /\ at > Len(g_plugin_list))
    /\ Crash

EndScan ==
    /\ pc = "scan" /\ todo = {}
    /\ pc' = "sweep" /\ at' = 1
    /\ known' = IF failed THEN {} ELSE known
    /\ UNCHANGED <<directory, loader, g_plugin_list, todo, visited, failed>>

\* Mutant: both marks are the same to the sweep.
SweepAll ==
    /\ pc = "sweep" /\ at <= Len(g_plugin_list)
    /\ g_plugin_list' = RemoveAt(g_plugin_list, at)
    /\ UNCHANGED <<directory, loader, history, pc, todo, at>>

\* Mutant: a mark is set and never looked at.
SweepNone ==
    /\ pc = "sweep" /\ at <= Len(g_plugin_list)
    /\ g_plugin_list' = [g_plugin_list EXCEPT ![at].flag = "unlock"]
    /\ at' = at + 1
    /\ UNCHANGED <<directory, loader, history, pc, todo>>

\* One element of del_list's walk.
Sweep ==
    /\ pc = "sweep" /\ at <= Len(g_plugin_list)
    /\ IF g_plugin_list[at].flag = "unlock"
       THEN /\ g_plugin_list' = RemoveAt(g_plugin_list, at)
            /\ UNCHANGED at
       ELSE /\ g_plugin_list' = [g_plugin_list EXCEPT ![at].flag = "unlock"]
            /\ at' = at + 1
    /\ UNCHANGED <<directory, loader, history, pc, todo>>

\* The stream and the last handle are closed.
EndSweep ==
    /\ pc = "sweep" /\ at > Len(g_plugin_list)
    /\ pc' = "sleep" /\ at' = 0
    /\ handle' = IF handle = "open" THEN "stale" ELSE handle
    /\ known' = IF failed THEN {} ELSE visited
    /\ failed' = FALSE /\ visited' = {}
    /\ UNCHANGED <<directory, opened, streams, g_plugin_list, todo>>

-----------------------------------------------------------------------------
(* The directory: a library is put there, whole, broken or without a       *)
(* getmod, replaced or taken away, while there is somebody to see it.      *)

Change ==
    /\ pc # "crashed" /\ changes < MaxChanges
    /\ changes' = changes + 1
    /\ \E l \in Libs :
        /\ \/ dir' = dir \ {l} /\ broken' = broken \ {l} /\ bare' = bare \ {l}
           \/ dir' = dir \cup {l} /\ broken' = broken \ {l} /\ bare' \in {bare \ {l}, bare \cup {l}}
           \/ dir' = dir \cup {l} /\ broken' = broken \cup {l} /\ bare' = bare \ {l}
        /\ visited' = visited \ {l} /\ known' = known \ {l}
    /\ UNCHANGED <<loader, g_plugin_list, pc, todo, at, failed>>

-----------------------------------------------------------------------------
Init ==
    /\ dir \in SUBSET Libs /\ broken = {} /\ bare = {}
    /\ g_plugin_list = <<>> /\ pc = "sleep" /\ todo = {} /\ at = 0
    /\ opened = {} /\ handle = "stale" /\ streams = 0
    /\ changes = 0
    /\ visited = {} /\ failed = FALSE /\ known = {}

Monitor == Find \/ Replace \/ Add \/ LoadFails \/ CallNoGetmod \/ CloseStale
           \/ EndScan \/ Sweep \/ EndSweep

Next == Monitor \/ Change

\* The thread goes on as long as it can; a popen that has a stream to give works
\* again and again.
Spec == Init /\ [][Next]_vars /\ WF_vars(Monitor)

-----------------------------------------------------------------------------
(* Properties.                                                             *)

\* get_plugin_name_by_mod
Findable(l) == \E k \in DOMAIN g_plugin_list : g_plugin_list[k].name = l /\ g_plugin_list[k].mod

\* main finds a library at every moment, in the midst of a sweep and when other
\* libraries come, go or are broken, from the first full round that names it on
\* -- up to the first full round after one that was broken off.
StaysFindable == \A l \in known : Findable(l)

\* While the process lives and popen has a stream left, rounds that were broken
\* off leave nothing behind: once all that is there can be loaded main finds just
\* what is there.
Recovers ==
    /\ [](streams < MaxStreams /\ pc # "crashed")
    /\ <>[](dir \cap (broken \cup bare) = {})
    => <>[](\A l \in Libs : Findable(l) <=> l \in dir)
=============================================================================
