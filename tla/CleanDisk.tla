----------------------------- MODULE CleanDisk -----------------------------
(***************************************************************************)
(* cleandisk removes files whose content it has met before.  It walks a    *)
(* tree, looks the digest of every file up in a table, and removes the     *)
(* file when there is a row, or adds one when there is none.               *)
(*                                                                         *)
(* Every read of a file and every write to the database may fail, which    *)
(* the program ignores; it may crash between any two steps and be started  *)
(* again.  A digest stands for the content it is computed from.            *)
(***************************************************************************)
EXTENDS Integers, Sequences

CONSTANTS
    Files, Dirs, Root,
    Entries,    \* what a directory holds: files and directories
    Content,    \* what a file holds
    Unread,     \* the empty string, which stays in file_md5 when ux_md5sum fails
    NoFile,
    MaxFds,     \* how many directories and files the process may hold open
    MaxRuns     \* bound: how often the program is started

ASSUME CleanDiskAssumption ==
    /\ Files \cap Dirs = {} /\ Root \in Dirs /\ NoFile \notin Files
    /\ Entries \in [Dirs -> SUBSET (Files \cup Dirs)]
    /\ \A f \in Files : Content[f] # Unread
    \* A tree: no entry is met twice, and none is the root.
    /\ \A d \in Dirs : Root \notin Entries[d]
    /\ \A d, e \in Dirs : d # e => Entries[d] \cap Entries[e] = {}
    \* Whatever is closed under Entries and holds the root holds every file.
    /\ \A S \in SUBSET (Files \cup Dirs) :
          Root \in S /\ (\A d \in Dirs \cap S : Entries[d] \subseteq S) => Files \subseteq S
    /\ MaxFds \in Nat /\ MaxRuns \in Nat

VARIABLES
    disk,     \* the files there are
    pc,       \* where the program is; "off" when it does not run
    stack,    \* List's recursion: what readdir has yet to return, per level
    file,     \* the file at hand
    file_md5, \* its digest
    tables,   \* db_file_md5 and clean_db as the program sees them
    saved,    \* the same as the last commit left them
    fds,      \* how many descriptors are open
    runs,     \* how often the program was started
    seen,     \* history: the entries this run met
    failed,   \* history: a call of this run failed
    blind     \* history: a file was removed whose content was never read

db   == <<tables, saved>>
past == <<seen, failed, blind>>
vars == <<disk, pc, stack, file, file_md5, tables, saved, fds, runs, seen, failed, blind>>

Empty == [md5 |-> {}, clean |-> {}]
Top   == stack[Len(stack)]

-----------------------------------------------------------------------------
(* main: both tables are dropped and made anew, then the walk begins.      *)

Start ==
    /\ pc = "off" /\ runs < MaxRuns
    /\ runs' = runs + 1
    /\ pc' = "drop"
    /\ seen' = {} /\ failed' = FALSE /\ fds' = 0
    /\ UNCHANGED <<disk, stack, file, file_md5, tables, saved, blind>>

\* Mutant: create table if not exists, without the drop before it.
DropTableNot ==
    /\ pc = "drop"
    /\ pc' = "drop_clean"
    /\ UNCHANGED <<disk, stack, file, file_md5, db, fds, runs, past>>

DropTable ==
    /\ pc = "drop"
    /\ tables' = [tables EXCEPT !.md5 = {}]
    /\ saved' = tables'
    /\ pc' = "drop_clean"
    /\ UNCHANGED <<disk, stack, file, file_md5, fds, runs, past>>

DropCleanTable ==
    /\ pc = "drop_clean"
    /\ tables' = [tables EXCEPT !.clean = {}]
    /\ saved' = tables'
    /\ pc' = "opendir"
    /\ UNCHANGED <<disk, stack, file, file_md5, fds, runs, past>>

\* A failing statement or opendir of main ends the run.
GiveUp ==
    /\ pc \in {"drop", "drop_clean", "opendir"}
    /\ pc' = "off"
    /\ UNCHANGED <<disk, stack, file, file_md5, db, fds, runs, past>>

\* main opens the root to try it, and List opens it again; neither closes it.
OpenRoot ==
    /\ pc = "opendir"
    /\ fds' = 2
    /\ stack' = <<Entries[Root] \cap (disk \cup Dirs)>>
    /\ seen' = {Root}
    /\ pc' = "readdir"
    /\ UNCHANGED <<disk, file, file_md5, db, runs, failed, blind>>

-----------------------------------------------------------------------------
(* List.                                                                   *)

\* Mutant: the list goes on in the new directory alone.
ReadDirForgets ==
    /\ pc = "readdir"
    /\ \E d \in Dirs \cap Top :
        /\ stack' = [stack EXCEPT ![Len(stack)] = Entries[d] \cap (disk \cup Dirs)]
        /\ seen' = seen \cup {d}
        /\ fds' = fds + 1
    /\ UNCHANGED <<disk, pc, file, file_md5, db, runs, failed, blind>>

\* A directory: opendir takes a descriptor that is never given back.
ReadDir ==
    /\ pc = "readdir"
    /\ \E d \in Dirs \cap Top :
        LET rest == [stack EXCEPT ![Len(stack)] = @ \ {d}]
        IN  /\ seen' = seen \cup {d}
            /\ \/ /\ fds < MaxFds
                  /\ stack' = Append(rest, Entries[d] \cap (disk \cup Dirs))
                  /\ fds' = fds + 1
                  /\ UNCHANGED failed
               \/ /\ stack' = rest
                  /\ failed' = (failed \/ fds < MaxFds)
                  /\ UNCHANGED fds
    /\ UNCHANGED <<disk, pc, file, file_md5, db, runs, blind>>

ReadFile ==
    /\ pc = "readdir"
    /\ \E f \in Files \cap Top :
        /\ file' = f
        /\ seen' = seen \cup {f}
        /\ stack' = [stack EXCEPT ![Len(stack)] = @ \ {f}]
    /\ pc' = "md5sum"
    /\ UNCHANGED <<disk, file_md5, db, fds, runs, failed, blind>>

\* readdir returns NULL; the outermost List returns to main, which ends.
EndList ==
    /\ pc = "readdir" /\ Top = {}
    /\ stack' = SubSeq(stack, 1, Len(stack) - 1)
    /\ pc' = IF Len(stack) = 1 THEN "ended" ELSE pc
    /\ UNCHANGED <<disk, file, file_md5, db, fds, runs, past>>

\* db_close: an open transaction is lost.
EndMain ==
    /\ pc = "ended"
    /\ tables' = saved
    /\ pc' = "off"
    /\ UNCHANGED <<disk, stack, file, file_md5, saved, fds, runs, past>>

\* ux_md5sum: fopen fails, or fread does, which leaves the file open.
Md5Sum ==
    /\ pc = "md5sum"
    /\ \/ /\ fds < MaxFds
          /\ file_md5' = Content[file]
          /\ UNCHANGED <<fds, failed>>
       \/ /\ file_md5' = Unread
          /\ fds' \in {fds} \cup (IF fds < MaxFds THEN {fds + 1} ELSE {})
          /\ failed' = (failed \/ fds < MaxFds)
    /\ pc' = "find"
    /\ UNCHANGED <<disk, stack, file, db, runs, seen, blind>>

\* Mutant: the row is inserted but not committed.
InsertOnly(row, name) ==
    /\ tables' = [tables EXCEPT ![name] = @ \cup {row}]
    /\ UNCHANGED <<saved, failed>>

\* begin, insert and commit, whose results are not looked at.  What a commit
\* leaves behind when it fails is committed with the next one.  A transaction
\* that opens needs a descriptor for its journal.
Insert(row, name) ==
    \E inserted, committed \in BOOLEAN :
        /\ inserted => fds < MaxFds \/ tables # saved
        /\ tables' = IF inserted THEN [tables EXCEPT ![name] = @ \cup {row}] ELSE tables
        /\ saved' = IF committed THEN tables' ELSE saved
        /\ failed' = (failed \/ (~(inserted /\ committed) /\ fds < MaxFds))

Found == {row \in tables.md5 : row[1] = file_md5}

\* findmd5fromdb; a query that fails returns no row.
Find ==
    /\ pc = "find"
    /\ \/ /\ Found = {}
          /\ pc' = "add"
          /\ UNCHANGED <<db, failed>>
       \/ /\ pc' = "add"
          /\ failed' = TRUE
          /\ UNCHANGED db
       \/ \E row \in Found :
             /\ Insert(<<row[2], file>>, "clean")
             /\ pc' = "remove"
    /\ UNCHANGED <<disk, stack, file, file_md5, fds, runs, seen, blind>>

\* rm -rf, which may fail as well.
Remove ==
    /\ pc = "remove"
    /\ \/ /\ disk' = disk \ {file}
          /\ blind' = (blind \/ file_md5 = Unread)
          /\ UNCHANGED failed
       \/ /\ failed' = TRUE
          /\ UNCHANGED <<disk, blind>>
    /\ pc' = "readdir"
    /\ UNCHANGED <<stack, file, file_md5, db, fds, runs, seen>>

AddToDb ==
    /\ pc = "add"
    /\ Insert(<<file_md5, file>>, "md5")
    /\ pc' = "readdir"
    /\ UNCHANGED <<disk, stack, file, file_md5, fds, runs, seen, blind>>

\* The process is killed or the machine stops.
Crash ==
    /\ pc # "off"
    /\ pc' = "off"
    /\ stack' = <<>> /\ file' = NoFile /\ file_md5' = Unread /\ fds' = 0
    /\ tables' = saved
    /\ UNCHANGED <<disk, saved, runs, past>>

-----------------------------------------------------------------------------
Init ==
    /\ disk = Files /\ pc = "off"
    /\ stack = <<>> /\ file = NoFile /\ file_md5 = Unread
    /\ tables = Empty /\ saved = Empty
    /\ fds = 0 /\ runs = 0
    /\ seen = {} /\ failed = FALSE /\ blind = FALSE

Main == Start \/ DropTable \/ DropCleanTable \/ OpenRoot \/ GiveUp \/ EndMain
List == ReadDir \/ ReadFile \/ EndList \/ Md5Sum \/ Find \/ Remove \/ AddToDb

Next == Main \/ List \/ Crash

Spec == Init /\ [][Next]_vars

-----------------------------------------------------------------------------
(* Properties.                                                             *)

\* What the program must never do is remove the last copy of a content: over
\* any number of runs, crashes in any place and failing reads, queries and
\* commits, a file that is gone has a copy that is left -- unless a file was
\* removed whose content could not be read (main.c:114 ignores that).
OneCopySurvives ==
    ~blind => \A f \in Files \ disk : \E g \in disk : Content[g] = Content[f]

\* clean_db is the record of what a run removed, written before the file goes
\* (findmd5fromdb before rm): also after a crash it names, for each such file,
\* one that is still there and holds the same, as long as no call failed.
ReportIsTrue ==
    ~failed => \A f \in (seen \cap Files) \ disk :
                  \E g \in disk : <<g, f>> \in saved.clean /\ Content[g] = Content[f]

\* The purpose of the program: a run to the end in which nothing failed and
\* descriptors did not run out leaves no two files of the same content.
LeavesNoDuplicates ==
    pc = "ended" /\ ~failed /\ fds < MaxFds =>
        \A f, g \in disk : Content[f] = Content[g] => f = g
=============================================================================
