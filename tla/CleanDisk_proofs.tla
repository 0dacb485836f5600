-------------------------- MODULE CleanDisk_proofs --------------------------
(***************************************************************************)
(* What cleandisk guarantees for any tree of files, any number of runs,    *)
(* crashes and failing calls.  The argument has three layers: the walk     *)
(* meets every entry once, so that a row of the table always stands for    *)
(* another file than the one at hand; while no call failed, the tables are *)
(* committed and hold no digest of an unread file; and while descriptors   *)
(* last as well, every file met has its row.                               *)
(***************************************************************************)
EXTENDS CleanDisk, SequenceTheorems, TLAPS

Digests == {Unread} \cup {Content[f] : f \in Files}
Tables  == [md5 : SUBSET (Digests \X Files), clean : SUBSET (Files \X Files)]

Before  == {"off", "drop", "drop_clean", "opendir"}
AtFile  == {"md5sum", "find", "remove", "add"}
Walking == {"readdir"} \cup AtFile
States  == Before \cup Walking \cup {"ended"}

TypeOK ==
    /\ disk \subseteq Files /\ pc \in States
    /\ stack \in Seq(SUBSET (Files \cup Dirs))
    /\ file \in Files \cup {NoFile} /\ file_md5 \in Digests
    /\ tables \in Tables /\ saved \in Tables
    /\ fds \in Nat /\ runs \in Nat
    /\ seen \subseteq Files \cup Dirs /\ failed \in BOOLEAN /\ blind \in BOOLEAN

\* An entry whose directory has been opened.
Reached(x) == \E d \in Dirs \cap seen : x \in Entries[d]

\* What the recursion has yet to return is new, still there, and listed once.
PendingOK ==
    pc \in Walking =>
        /\ stack # <<>>
        /\ \A i \in 1..Len(stack) : \A x \in stack[i] :
              x \notin seen /\ Reached(x) /\ (x \in Files => x \in disk)
        /\ \A i, j \in 1..Len(stack) : i # j => stack[i] \cap stack[j] = {}
        /\ \A x \in seen : x = Root \/ Reached(x)

AtHandOK == pc \in AtFile => file \in Files \cap seen \cap disk

DigestOK ==
    /\ pc \in {"find", "remove", "add"} => file_md5 \in {Unread, Content[file]}
    /\ pc = "remove" => \E row \in tables.md5 : row[1] = file_md5

\* A row stands for a file this run met before the one at hand, and which is
\* there with the content the row says.
RowsOK ==
    /\ pc \in {"drop_clean", "opendir"} => tables.md5 = {}
    /\ pc \notin {"off", "drop"} =>
          \A row \in tables.md5 :
             /\ row[2] \in seen /\ (pc \in AtFile => row[2] # file)
             /\ row[1] # Unread => row[2] \in disk /\ Content[row[2]] = row[1]

WalkInv == TypeOK /\ PendingOK /\ AtHandOK /\ DigestOK /\ RowsOK

SafeInv == WalkInv /\ OneCopySurvives

-----------------------------------------------------------------------------
(* Layer 1: one step of the walk.                                          *)

LEMMA Facts ==
    /\ Files \cap Dirs = {} /\ Root \in Dirs /\ NoFile \notin Files
    /\ \A d \in Dirs : Entries[d] \subseteq Files \cup Dirs /\ Root \notin Entries[d]
    /\ \A d, e \in Dirs : d # e => Entries[d] \cap Entries[e] = {}
    /\ Unread \in Digests /\ \A f \in Files : Content[f] # Unread /\ Content[f] \in Digests
BY CleanDiskAssumption DEF Digests

LEMMA TablesShape ==
    ASSUME NEW t \in Tables
    PROVE  /\ t.md5 \subseteq Digests \X Files /\ t.clean \subseteq Files \X Files
           /\ \A S : S \subseteq Digests \X Files =>
                 /\ [t EXCEPT !.md5 = S] \in Tables
                 /\ [t EXCEPT !.md5 = S].md5 = S /\ [t EXCEPT !.md5 = S].clean = t.clean
           /\ \A S : S \subseteq Files \X Files =>
                 /\ [t EXCEPT !.clean = S] \in Tables
                 /\ [t EXCEPT !.clean = S].clean = S /\ [t EXCEPT !.clean = S].md5 = t.md5
BY DEF Tables

\* Insert leaves one of the tables alone and adds at most the row to the other.
LEMMA InsertMd5 ==
    ASSUME tables \in Tables, saved \in Tables, failed \in BOOLEAN,
           NEW row \in Digests \X Files, Insert(row, "md5")
    PROVE  /\ tables' \in Tables /\ saved' \in Tables /\ failed' \in BOOLEAN
           /\ tables'.md5 \in {tables.md5, tables.md5 \cup {row}} /\ tables'.clean = tables.clean
<1>1. tables.md5 \cup {row} \subseteq Digests \X Files
  BY TablesShape
<1>2. PICK inserted, committed \in BOOLEAN :
        /\ tables' = IF inserted THEN [tables EXCEPT !["md5"] = @ \cup {row}] ELSE tables
        /\ saved' = IF committed THEN tables' ELSE saved
        /\ failed' = (failed \/ (~(inserted /\ committed) /\ fds < MaxFds))
  BY DEF Insert
<1>3. tables' \in {tables, [tables EXCEPT !.md5 = tables.md5 \cup {row}]}
  BY <1>2 DEF Tables
<1> QED
  BY <1>1, <1>2, <1>3, TablesShape

LEMMA InsertClean ==
    ASSUME tables \in Tables, saved \in Tables, failed \in BOOLEAN,
           NEW row \in Files \X Files, Insert(row, "clean")
    PROVE  /\ tables' \in Tables /\ saved' \in Tables /\ failed' \in BOOLEAN
           /\ tables'.md5 = tables.md5 /\ tables'.clean \in {tables.clean, tables.clean \cup {row}}
<1>1. tables.clean \cup {row} \subseteq Files \X Files
  BY TablesShape
<1>2. PICK inserted, committed \in BOOLEAN :
        /\ tables' = IF inserted THEN [tables EXCEPT !["clean"] = @ \cup {row}] ELSE tables
        /\ saved' = IF committed THEN tables' ELSE saved
        /\ failed' = (failed \/ (~(inserted /\ committed) /\ fds < MaxFds))
  BY DEF Insert
<1>3. tables' \in {tables, [tables EXCEPT !.clean = tables.clean \cup {row}]}
  BY <1>2 DEF Tables
<1> QED
  BY <1>1, <1>2, <1>3, TablesShape

LEMMA EmptyTables == Empty \in Tables /\ Empty.md5 = {} /\ Empty.clean = {}
BY DEF Tables, Empty

LEMMA StackStep ==
    ASSUME stack \in Seq(SUBSET (Files \cup Dirs)), stack # <<>>
    PROVE  /\ Len(stack) \in Nat \ {0} /\ Top \subseteq Files \cup Dirs
           /\ Top = stack[Len(stack)] /\ Len(stack) \in 1..Len(stack)
           /\ \A S \in SUBSET (Files \cup Dirs) :
                 LET t == [stack EXCEPT ![Len(stack)] = S] IN
                 /\ t \in Seq(SUBSET (Files \cup Dirs)) /\ Len(t) = Len(stack) /\ t # <<>>
                 /\ \A i \in 1..Len(stack) : t[i] = IF i = Len(stack) THEN S ELSE stack[i]
           /\ LET t == SubSeq(stack, 1, Len(stack) - 1) IN
                 /\ t \in Seq(SUBSET (Files \cup Dirs)) /\ Len(t) = Len(stack) - 1
                 /\ \A i \in 1..Len(t) : t[i] = stack[i]
<1>1. /\ Len(stack) \in Nat \ {0} /\ Top \subseteq Files \cup Dirs
      /\ Top = stack[Len(stack)] /\ Len(stack) \in 1..Len(stack)
  BY DEF Top
<1>2. ASSUME NEW S \in SUBSET (Files \cup Dirs)
      PROVE  LET t == [stack EXCEPT ![Len(stack)] = S] IN
                 /\ t \in Seq(SUBSET (Files \cup Dirs)) /\ Len(t) = Len(stack) /\ t # <<>>
                 /\ \A i \in 1..Len(stack) : t[i] = IF i = Len(stack) THEN S ELSE stack[i]
  BY <1>1
<1>3. LET t == SubSeq(stack, 1, Len(stack) - 1) IN
          /\ t \in Seq(SUBSET (Files \cup Dirs)) /\ Len(t) = Len(stack) - 1
          /\ \A i \in 1..Len(t) : t[i] = stack[i]
  <2> DEFINE n == Len(stack) - 1
  <2>1. n \in Nat /\ n - 1 + 1 = n /\ \A i \in 1..n : i \in 1..Len(stack) /\ 1 + i - 1 = i
    BY <1>1
  <2>2. \A i \in 1..n : stack[i] \in SUBSET (Files \cup Dirs)
    BY <2>1
  <2> HIDE DEF n
  <2>3. /\ SubSeq(stack, 1, n) \in Seq(SUBSET (Files \cup Dirs))
        /\ Len(SubSeq(stack, 1, n)) = IF 1 <= n THEN n - 1 + 1 ELSE 0
        /\ \A i \in 1..n - 1 + 1 : SubSeq(stack, 1, n)[i] = stack[1 + i - 1]
    BY <2>1, <2>2, SubSeqProperties
  <2>4. Len(SubSeq(stack, 1, n)) = n
    BY <2>1, <2>3
  <2> QED
    BY <2>1, <2>3, <2>4 DEF n
<1> QED
  BY <1>1, <1>2, <1>3

LEMMA AppendStack ==
    ASSUME NEW t \in Seq(SUBSET (Files \cup Dirs)), NEW S \in SUBSET (Files \cup Dirs)
    PROVE  /\ Append(t, S) \in Seq(SUBSET (Files \cup Dirs)) /\ Append(t, S) # <<>>
           /\ Len(Append(t, S)) = Len(t) + 1
           /\ \A i \in 1..Len(t) + 1 : Append(t, S)[i] = IF i = Len(t) + 1 THEN S ELSE t[i]
OBVIOUS

LEMMA TypeInit == Init => TypeOK
<1> SUFFICES ASSUME Init PROVE TypeOK
  OBVIOUS
<1>1. failed \in BOOLEAN /\ blind \in BOOLEAN
  BY Zenon DEF Init
<1> QED
  BY <1>1, EmptyTables, Facts DEF Init, TypeOK, States, Before

LEMMA TypeStep == TypeOK /\ PendingOK /\ AtHandOK /\ [Next]_vars => TypeOK'
<1> SUFFICES ASSUME TypeOK, PendingOK, AtHandOK, [Next]_vars PROVE TypeOK'
  OBVIOUS
<1> USE Facts DEF TypeOK, States, Before, Walking, AtFile
<1>1. CASE Start
  <2>1. failed' \in BOOLEAN
    BY <1>1, Zenon DEF Start
  <2> QED
    BY <1>1, <2>1 DEF Start
<1>2. CASE DropTable
  BY <1>2, TablesShape DEF DropTable, past
<1>3. CASE DropCleanTable
  BY <1>3, TablesShape DEF DropCleanTable, past
<1>4. CASE GiveUp
  BY <1>4 DEF GiveUp, db, past
<1>5. CASE OpenRoot
  BY <1>5 DEF OpenRoot, db
<1>6. CASE EndMain
  BY <1>6 DEF EndMain, past
<1>7. CASE ReadDir
  <2>1. stack # <<>> /\ pc = "readdir"
    BY <1>7 DEF ReadDir, PendingOK
  <2>2. PICK d \in Dirs \cap Top :
          LET rest == [stack EXCEPT ![Len(stack)] = @ \ {d}]
          IN  /\ seen' = seen \cup {d}
              /\ \/ /\ fds < MaxFds
                    /\ stack' = Append(rest, Entries[d] \cap (disk \cup Dirs))
                    /\ fds' = fds + 1
                    /\ UNCHANGED failed
                 \/ /\ stack' = rest
                    /\ failed' = (failed \/ fds < MaxFds)
                    /\ UNCHANGED fds
    BY <1>7 DEF ReadDir
  <2> DEFINE rest == [stack EXCEPT ![Len(stack)] = Top \ {d}]
  <2>3. rest = [stack EXCEPT ![Len(stack)] = @ \ {d}]
    BY DEF Top
  <2>4. rest \in Seq(SUBSET (Files \cup Dirs))
    BY <2>1, StackStep
  <2>5. stack' \in {rest, Append(rest, Entries[d] \cap (disk \cup Dirs))}
    BY <2>2, <2>3
  <2>6. stack' \in Seq(SUBSET (Files \cup Dirs))
    <3> HIDE DEF rest
    <3> QED
      BY <2>4, <2>5, AppendStack
  <2>7. fds' \in Nat /\ seen' \subseteq Files \cup Dirs
    BY <2>2
  <2>8. failed' \in BOOLEAN
    BY <2>2, Zenon
  <2> QED
    BY <1>7, <2>6, <2>7, <2>8 DEF ReadDir, db
<1>8. CASE ReadFile
  <2>1. stack # <<>> /\ pc = "readdir"
    BY <1>8 DEF ReadFile, PendingOK
  <2>2. PICK f \in Files \cap Top :
          /\ file' = f
          /\ seen' = seen \cup {f}
          /\ stack' = [stack EXCEPT ![Len(stack)] = @ \ {f}]
    BY <1>8 DEF ReadFile
  <2>3. stack' = [stack EXCEPT ![Len(stack)] = Top \ {f}]
    BY <2>2 DEF Top
  <2>4. stack' \in Seq(SUBSET (Files \cup Dirs))
    BY <2>1, <2>3, StackStep
  <2> QED
    BY <1>8, <2>2, <2>4 DEF ReadFile, db
<1>9. CASE EndList
  <2>1. stack # <<>> /\ pc = "readdir"
    BY <1>9 DEF EndList, PendingOK
  <2>2. stack' \in Seq(SUBSET (Files \cup Dirs))
    BY <1>9, <2>1, StackStep DEF EndList
  <2> QED
    BY <1>9, <2>2 DEF EndList, db, past
<1>10. CASE Md5Sum
  <2>1. failed' \in BOOLEAN
    BY <1>10, Zenon DEF Md5Sum
  <2> QED
    BY <1>10, <2>1 DEF Md5Sum, AtHandOK, db
<1>11. CASE Find
  <2>1. pc = "find" /\ file \in Files
    BY <1>11 DEF Find, AtHandOK
  <2>2. CASE UNCHANGED db /\ failed' \in BOOLEAN
    BY <1>11, <2>2 DEF Find, db
  <2>3. CASE \E row \in Found : Insert(<<row[2], file>>, "clean")
    <3>1. PICK row \in Found : Insert(<<row[2], file>>, "clean")
      BY <2>3
    <3>2. <<row[2], file>> \in Files \X Files
      BY <2>1, <3>1, TablesShape DEF Found
    <3>3. tables' \in Tables /\ saved' \in Tables /\ failed' \in BOOLEAN
      BY <3>1, <3>2, InsertClean
    <3> QED
      BY <1>11, <3>3 DEF Find
  <2> QED
    BY <1>11, <2>2, <2>3 DEF Find
<1>12. CASE Remove
  BY <1>12 DEF Remove, db
<1>13. CASE AddToDb
  <2>1. <<file_md5, file>> \in Digests \X Files
    BY <1>13 DEF AddToDb, AtHandOK
  <2>2. tables' \in Tables /\ saved' \in Tables /\ failed' \in BOOLEAN
    BY <1>13, <2>1, InsertMd5 DEF AddToDb
  <2> QED
    BY <1>13, <2>2 DEF AddToDb
<1>14. CASE Crash
  BY <1>14 DEF Crash, past
<1>15. CASE UNCHANGED vars
  BY <1>15 DEF vars
<1> QED
  BY <1>1, <1>2, <1>3, <1>4, <1>5, <1>6, <1>7, <1>8, <1>9, <1>10, <1>11, <1>12, <1>13, <1>14, <1>15
     DEF Next, Main, List
\* Steps that leave the stack and what was met alone.
LEMMA PendingKept ==
    ASSUME TypeOK, PendingOK, pc \in Walking, UNCHANGED <<stack, seen>>,
           disk' = disk \/ (file \in seen /\ disk' = disk \ {file})
    PROVE  PendingOK'
<1>1. stack # <<>> /\ (\A x \in seen : x = Root \/ Reached(x))
  BY DEF PendingOK
<1>2. ASSUME NEW x PROVE Reached(x)' <=> Reached(x)
  BY DEF Reached
<1>3. \A i \in 1..Len(stack) : \A x \in stack[i] :
         x \notin seen /\ Reached(x) /\ (x \in Files => x \in disk)
  BY DEF PendingOK
<1>4. \A i, j \in 1..Len(stack) : i # j => stack[i] \cap stack[j] = {}
  BY DEF PendingOK
<1>5. \A i \in 1..Len(stack') : \A x \in stack'[i] :
         x \notin seen' /\ Reached(x)' /\ (x \in Files => x \in disk')
  BY <1>2, <1>3
<1> QED
  BY <1>1, <1>2, <1>4, <1>5 DEF PendingOK

\* readdir returns e: it goes from the innermost level to what was met.
LEMMA PendingTakes ==
    ASSUME TypeOK, PendingOK, pc = "readdir", NEW e \in Top, disk' = disk,
           stack' = [stack EXCEPT ![Len(stack)] = Top \ {e}],
           seen' = seen \cup {e}
    PROVE  /\ PendingOK' /\ e \notin seen /\ Reached(e) /\ (e \in Files => e \in disk)
           /\ Len(stack') = Len(stack)
           /\ \A i \in 1..Len(stack) : stack'[i] = stack[i] \ {e}
<1>1. /\ stack # <<>> /\ (\A x \in seen : x = Root \/ Reached(x))
      /\ \A i \in 1..Len(stack) : \A x \in stack[i] :
            x \notin seen /\ Reached(x) /\ (x \in Files => x \in disk)
      /\ \A i, j \in 1..Len(stack) : i # j => stack[i] \cap stack[j] = {}
  BY DEF PendingOK, Walking
<1>2. stack \in Seq(SUBSET (Files \cup Dirs))
  BY DEF TypeOK
<1>3. /\ Top = stack[Len(stack)] /\ Len(stack) \in 1..Len(stack)
      /\ stack' # <<>> /\ Len(stack') = Len(stack)
      /\ \A i \in 1..Len(stack) : stack'[i] = IF i = Len(stack) THEN Top \ {e} ELSE stack[i]
  BY <1>1, <1>2, StackStep
<1>4. ASSUME NEW i \in 1..Len(stack) PROVE stack'[i] = stack[i] \ {e}
  BY <1>1, <1>3
<1>5. e \notin seen /\ Reached(e) /\ (e \in Files => e \in disk)
  BY <1>1, <1>3
<1>6. ASSUME NEW x, Reached(x) PROVE Reached(x)'
  BY <1>6 DEF Reached
<1>7. \A i \in 1..Len(stack') : \A x \in stack'[i] :
         x \notin seen' /\ Reached(x)' /\ (x \in Files => x \in disk')
  BY <1>1, <1>3, <1>4, <1>6
<1>8. \A i, j \in 1..Len(stack') : i # j => stack'[i] \cap stack'[j] = {}
  BY <1>1, <1>3, <1>4
<1>9. \A x \in seen' : x = Root \/ Reached(x)'
  BY <1>1, <1>5, <1>6
<1> QED
  BY <1>3, <1>4, <1>5, <1>7, <1>8, <1>9 DEF PendingOK

\* A directory is opened: nothing in it was met or is pending already, because
\* only an opened directory leads to an entry, and only one leads to each.
LEMMA PendingOpens ==
    ASSUME TypeOK, PendingOK, pc = "readdir", NEW d \in Dirs \cap Top, disk' = disk,
           seen' = seen \cup {d},
           stack' = Append([stack EXCEPT ![Len(stack)] = Top \ {d}],
                           Entries[d] \cap (disk \cup Dirs))
    PROVE  PendingOK'
<1> DEFINE rest == [stack EXCEPT ![Len(stack)] = Top \ {d}]
           new  == Entries[d] \cap (disk \cup Dirs)
<1>1. /\ stack # <<>> /\ (\A x \in seen : x = Root \/ Reached(x))
      /\ \A i \in 1..Len(stack) : \A x \in stack[i] :
            x \notin seen /\ Reached(x) /\ (x \in Files => x \in disk)
      /\ \A i, j \in 1..Len(stack) : i # j => stack[i] \cap stack[j] = {}
  BY DEF PendingOK, Walking
<1>2. stack \in Seq(SUBSET (Files \cup Dirs)) /\ disk \subseteq Files
  BY DEF TypeOK
<1>3. /\ Top = stack[Len(stack)] /\ Len(stack) \in 1..Len(stack) /\ Len(stack) \in Nat \ {0}
      /\ rest \in Seq(SUBSET (Files \cup Dirs)) /\ Len(rest) = Len(stack)
      /\ \A i \in 1..Len(stack) : rest[i] = IF i = Len(stack) THEN Top \ {d} ELSE stack[i]
  BY <1>1, <1>2, StackStep
<1>4. new \in SUBSET (Files \cup Dirs)
  BY <1>2
<1> HIDE DEF rest
<1>5. /\ stack' # <<>> /\ Len(stack') = Len(stack) + 1
      /\ stack'[Len(stack) + 1] = new
      /\ \A i \in 1..Len(stack) : stack'[i] = rest[i]
  <2>1. stack' = Append(rest, new)
    BY DEF rest
  <2> HIDE DEF new
  <2>2. /\ Append(rest, new) # <<>> /\ Len(Append(rest, new)) = Len(rest) + 1
        /\ \A i \in 1..Len(rest) + 1 :
              Append(rest, new)[i] = IF i = Len(rest) + 1 THEN new ELSE rest[i]
    BY <1>3, <1>4, AppendStack
  <2>3. \A i \in 1..Len(stack) : i \in 1..Len(rest) + 1 /\ i # Len(rest) + 1
    BY <1>3
  <2>4. Len(rest) + 1 \in 1..Len(rest) + 1
    BY <1>3
  <2> QED
    BY <1>3, <2>1, <2>2, <2>3, <2>4
<1>6. ASSUME NEW i \in 1..Len(stack) PROVE stack'[i] \subseteq stack[i] \ {d}
  BY <1>1, <1>3, <1>5
<1>7. d \notin seen /\ Reached(d) /\ d \in Dirs
  BY <1>1, <1>3
<1>8. ASSUME NEW x \in Entries[d] PROVE ~Reached(x) /\ x # Root /\ x # d
  BY <1>7, Facts DEF Reached
<1>9. ASSUME NEW x PROVE Reached(x) \/ x \in Entries[d] => Reached(x)'
  BY <1>7 DEF Reached
<1>10. ASSUME NEW x \in new PROVE x \notin seen' /\ Reached(x)' /\ (x \in Files => x \in disk')
  BY <1>1, <1>8, <1>9, Facts
<1>11. ASSUME NEW i \in 1..Len(stack), NEW x \in stack'[i]
       PROVE  x \notin seen' /\ Reached(x)' /\ (x \in Files => x \in disk') /\ x \notin new
  BY <1>1, <1>6, <1>8, <1>9
<1>12. \A i \in 1..Len(stack') : i \in 1..Len(stack) \/ (i = Len(stack) + 1 /\ stack'[i] = new)
  BY <1>3, <1>5
<1>13. \A i \in 1..Len(stack') : \A x \in stack'[i] :
          x \notin seen' /\ Reached(x)' /\ (x \in Files => x \in disk')
  BY <1>10, <1>11, <1>12
<1>14. ASSUME NEW i \in 1..Len(stack'), NEW j \in 1..Len(stack'), i # j
       PROVE  stack'[i] \cap stack'[j] = {}
  <2>1. CASE i \in 1..Len(stack) /\ j \in 1..Len(stack)
    BY <1>1, <1>6, <1>14, <2>1
  <2>2. CASE i \in 1..Len(stack) /\ stack'[j] = new
    BY <1>11, <2>2
  <2>3. CASE j \in 1..Len(stack) /\ stack'[i] = new
    BY <1>11, <2>3
  <2> QED
    BY <1>12, <1>14, <2>1, <2>2, <2>3
<1>15. \A x \in seen' : x = Root \/ Reached(x)'
  BY <1>1, <1>7, <1>9
<1> QED
  BY <1>5, <1>13, <1>14, <1>15 DEF PendingOK

LEMMA WalkInit == Init => WalkInv
<1> SUFFICES ASSUME Init PROVE WalkInv
  OBVIOUS
<1>1. TypeOK /\ pc = "off"
  BY TypeInit DEF Init
<1> QED
  BY <1>1 DEF WalkInv, PendingOK, AtHandOK, DigestOK, RowsOK, Walking, AtFile

\* One step of the program keeps the walk's invariant.
LEMMA WalkStep == WalkInv /\ [Next]_vars => WalkInv'
<1> SUFFICES ASSUME WalkInv, [Next]_vars PROVE WalkInv'
  OBVIOUS
<1>0. TypeOK /\ PendingOK /\ AtHandOK /\ DigestOK /\ RowsOK /\ TypeOK'
  BY TypeStep DEF WalkInv
<1> USE <1>0 DEF Walking, AtFile
<1>1. CASE Start
  BY <1>1 DEF Start, WalkInv, PendingOK, AtHandOK, DigestOK, RowsOK
<1>2. CASE DropTable
  <2>1. tables'.md5 = {}
    BY <1>2 DEF DropTable, TypeOK, Tables
  <2> QED
    BY <1>2, <2>1 DEF DropTable, WalkInv, PendingOK, AtHandOK, DigestOK, RowsOK
<1>3. CASE DropCleanTable
  <2>1. tables'.md5 = {}
    BY <1>3 DEF DropCleanTable, TypeOK, Tables, RowsOK
  <2> QED
    BY <1>3, <2>1 DEF DropCleanTable, WalkInv, PendingOK, AtHandOK, DigestOK, RowsOK
<1>4. CASE GiveUp
  BY <1>4 DEF GiveUp, WalkInv, PendingOK, AtHandOK, DigestOK, RowsOK
<1>5. CASE OpenRoot
  <2>1. tables' = tables /\ tables.md5 = {} /\ pc' = "readdir" /\ disk' = disk
    BY <1>5 DEF OpenRoot, RowsOK, db
  <2> DEFINE first == Entries[Root] \cap (disk \cup Dirs)
  <2>2. stack' = <<first>> /\ seen' = {Root} /\ Root \in Dirs
    BY <1>5, Facts DEF OpenRoot
  <2>3. \A x \in first : x \notin seen' /\ Reached(x)' /\ (x \in Files => x \in disk')
    BY <2>1, <2>2, Facts DEF Reached
  <2> HIDE DEF first
  <2>4. PendingOK'
    BY <2>1, <2>2, <2>3 DEF PendingOK
  <2> QED
    BY <2>1, <2>4 DEF WalkInv, AtHandOK, DigestOK, RowsOK
<1>6. CASE EndMain
  BY <1>6 DEF EndMain, WalkInv, PendingOK, AtHandOK, DigestOK, RowsOK
<1>7. CASE ReadDir
  <2>1. /\ pc = "readdir" /\ disk' = disk /\ pc' = pc /\ tables' = tables
    BY <1>7 DEF ReadDir, db
  <2>2. PICK d \in Dirs \cap Top :
          /\ seen' = seen \cup {d}
          /\ \/ stack' = Append([stack EXCEPT ![Len(stack)] = Top \ {d}], Entries[d] \cap (disk \cup Dirs))
             \/ stack' = [stack EXCEPT ![Len(stack)] = Top \ {d}]
    BY <1>7 DEF ReadDir, Top
  <2>3. PendingOK'
    BY <2>1, <2>2, PendingTakes, PendingOpens
  <2> QED
    BY <2>1, <2>2, <2>3 DEF WalkInv, AtHandOK, DigestOK, RowsOK
<1>8. CASE ReadFile
  <2>1. /\ pc = "readdir" /\ disk' = disk /\ pc' = "md5sum" /\ tables' = tables
    BY <1>8 DEF ReadFile, db
  <2>2. PICK f \in Files \cap Top :
          file' = f /\ seen' = seen \cup {f} /\ stack' = [stack EXCEPT ![Len(stack)] = Top \ {f}]
    BY <1>8 DEF ReadFile, Top
  <2>3. PendingOK' /\ f \notin seen /\ f \in disk
    <3>1. f \in Top /\ f \in Files
      OBVIOUS
    <3> QED
      BY <2>1, <2>2, <3>1, PendingTakes
  <2> QED
    BY <2>1, <2>2, <2>3 DEF WalkInv, AtHandOK, DigestOK, RowsOK
<1>9. CASE EndList
  <2>1. /\ pc = "readdir" /\ disk' = disk /\ tables' = tables /\ seen' = seen
        /\ stack' = SubSeq(stack, 1, Len(stack) - 1) /\ pc' \in {"readdir", "ended"}
        /\ pc' = "readdir" => Len(stack) # 1
    BY <1>9 DEF EndList, db, past
  <2>2. stack # <<>> /\ stack \in Seq(SUBSET (Files \cup Dirs))
    BY <2>1 DEF PendingOK, TypeOK
  <2>3. /\ Len(stack) \in Nat \ {0} /\ Len(stack') = Len(stack) - 1
        /\ \A i \in 1..Len(stack') : stack'[i] = stack[i] /\ i \in 1..Len(stack)
    BY <2>1, <2>2, StackStep
  <2>4. pc' = "readdir" => stack' # <<>>
    <3>1. pc' = "readdir" => Len(stack') # 0
      BY <2>1, <2>3
    <3>2. stack' = <<>> => Len(stack') = 0
      OBVIOUS
    <3> QED
      BY <3>1, <3>2
  <2>5. ASSUME NEW x, Reached(x) PROVE Reached(x)'
    BY <2>1, <2>5 DEF Reached
  <2>6. PendingOK'
    BY <2>1, <2>3, <2>4, <2>5 DEF PendingOK
  <2> QED
    BY <2>1, <2>6 DEF WalkInv, AtHandOK, DigestOK, RowsOK
<1>10. CASE Md5Sum
  <2>1. /\ pc = "md5sum" /\ pc' = "find" /\ UNCHANGED <<stack, seen, disk, file, tables>>
        /\ file_md5' \in {Unread, Content[file]}
    BY <1>10 DEF Md5Sum, db
  <2>2. PendingOK'
    BY <2>1, PendingKept
  <2> QED
    BY <2>1, <2>2 DEF WalkInv, AtHandOK, DigestOK, RowsOK
<1>11. CASE Find
  <2>1. /\ pc = "find" /\ UNCHANGED <<stack, seen, disk, file, file_md5>>
        /\ file \in Files /\ tables \in Tables /\ saved \in Tables /\ failed \in BOOLEAN
    BY <1>11 DEF Find, AtHandOK, TypeOK
  <2>2. PendingOK'
    BY <2>1, PendingKept
  <2>3. tables'.md5 = tables.md5 /\ (pc' = "add" \/ (pc' = "remove" /\ Found # {}))
    <3>1. CASE UNCHANGED db /\ pc' = "add"
      BY <3>1 DEF db
    <3>2. CASE pc' = "remove" /\ \E row \in Found : Insert(<<row[2], file>>, "clean")
      <4>1. PICK row \in Found : Insert(<<row[2], file>>, "clean")
        BY <3>2
      <4>2. <<row[2], file>> \in Files \X Files
        BY <2>1, <4>1, TablesShape DEF Found
      <4> QED
        BY <2>1, <3>2, <4>1, <4>2, InsertClean
    <3> QED
      BY <1>11, <3>1, <3>2 DEF Find
  <2>4. pc' = "remove" => \E row \in tables'.md5 : row[1] = file_md5'
    BY <2>1, <2>3 DEF Found
  <2> QED
    BY <2>1, <2>2, <2>3, <2>4 DEF WalkInv, AtHandOK, DigestOK, RowsOK
<1>12. CASE Remove
  <2>1. /\ pc = "remove" /\ pc' = "readdir" /\ UNCHANGED <<stack, seen, file, tables>>
        /\ disk' \in {disk, disk \ {file}} /\ file \in seen
    BY <1>12 DEF Remove, db, AtHandOK
  <2>2. PendingOK'
    BY <2>1, PendingKept
  <2> QED
    BY <2>1, <2>2 DEF WalkInv, AtHandOK, DigestOK, RowsOK
<1>13. CASE AddToDb
  <2>1. /\ pc = "add" /\ pc' = "readdir" /\ UNCHANGED <<stack, seen, file, disk>>
        /\ file \in Files \cap seen \cap disk /\ Insert(<<file_md5, file>>, "md5")
        /\ <<file_md5, file>> \in Digests \X Files
        /\ tables \in Tables /\ saved \in Tables /\ failed \in BOOLEAN
    BY <1>13 DEF AddToDb, AtHandOK, TypeOK
  <2>2. PendingOK'
    BY <2>1, PendingKept
  <2>3. tables'.md5 \in {tables.md5, tables.md5 \cup {<<file_md5, file>>}}
    BY <2>1, InsertMd5
  <2>4. \A row \in tables'.md5 :
           row[2] \in seen' /\ (row[1] # Unread => row[2] \in disk' /\ Content[row[2]] = row[1])
    BY <2>1, <2>3 DEF RowsOK, DigestOK
  <2> QED
    BY <2>1, <2>2, <2>4 DEF WalkInv, AtHandOK, DigestOK, RowsOK
<1>14. CASE Crash
  BY <1>14 DEF Crash, WalkInv, PendingOK, AtHandOK, DigestOK, RowsOK
<1>15. CASE UNCHANGED vars
  <2>1. PendingOK'
    BY <1>15 DEF vars, PendingOK, Reached
  <2> QED
    BY <1>15, <2>1 DEF vars, WalkInv, AtHandOK, DigestOK, RowsOK
<1> QED
  BY <1>1, <1>2, <1>3, <1>4, <1>5, <1>6, <1>7, <1>8, <1>9, <1>10, <1>11, <1>12, <1>13, <1>14, <1>15
     DEF Next, Main, List

\* Only a removal can cost a copy, and what it removes has another one.
LEMMA SafeStep == SafeInv /\ [Next]_vars => OneCopySurvives'
<1> SUFFICES ASSUME SafeInv, [Next]_vars PROVE OneCopySurvives'
  OBVIOUS
<1>1. TypeOK /\ AtHandOK /\ DigestOK /\ RowsOK /\ OneCopySurvives
  BY DEF SafeInv, WalkInv
<1>2. CASE UNCHANGED <<disk, blind>>
  BY <1>1, <1>2 DEF OneCopySurvives
<1>3. CASE Remove
  <2>1. pc = "remove"
    BY <1>3 DEF Remove
  <2>2. file \in Files
    BY <1>1, <2>1 DEF AtHandOK, AtFile
  <2>3. SUFFICES ASSUME ~blind' PROVE \A f \in Files \ disk' : \E g \in disk' : Content[g] = Content[f]
    BY DEF OneCopySurvives
  <2>4. CASE UNCHANGED <<disk, blind>>
    BY <1>2, <2>3, <2>4 DEF OneCopySurvives
  <2>5. CASE disk' = disk \ {file} /\ blind' = (blind \/ file_md5 = Unread)
    <3>1. file_md5 = Content[file] /\ file_md5 # Unread /\ ~blind
      BY <1>1, <2>1, <2>3, <2>5 DEF DigestOK
    <3>2. PICK row \in tables.md5 : row[1] = file_md5
      BY <1>1, <2>1 DEF DigestOK
    <3>3. row[2] \in disk' /\ Content[row[2]] = Content[file]
      BY <1>1, <2>1, <2>5, <3>1, <3>2 DEF RowsOK, AtFile
    <3>4. ASSUME NEW f \in Files \ disk' PROVE \E g \in disk' : Content[g] = Content[f]
      <4>1. CASE f = file
        BY <3>3, <4>1
      <4>2. CASE f # file
        <5>1. PICK g \in disk : Content[g] = Content[f]
          BY <1>1, <2>5, <3>1, <4>2 DEF OneCopySurvives
        <5> QED
          BY <2>5, <3>3, <5>1
      <4> QED
        BY <4>1, <4>2
    <3> QED
      BY <3>4
  <2> QED
    BY <1>3, <2>4, <2>5 DEF Remove
<1> QED
  BY <1>2, <1>3 DEF Next, Main, List, Start, DropTable, DropCleanTable, GiveUp, OpenRoot, EndMain,
     ReadDir, ReadFile, EndList, Md5Sum, Find, AddToDb, Crash, past, vars

\* The types of cleandisk's variables, for any tree.
THEOREM TypeCorrect == Spec => []TypeOK
<1>1. WalkInv => TypeOK
  BY DEF WalkInv
<1> QED
  BY <1>1, WalkInit, WalkStep, PTL DEF Spec

\* Whatever crashes and whatever call fails (main.c:114 apart), in any tree and
\* over any number of runs, no content is lost.
THEOREM NothingLost == Spec => []OneCopySurvives
<1>1. Init => SafeInv
  BY WalkInit DEF Init, SafeInv, OneCopySurvives
<1>2. SafeInv /\ [Next]_vars => SafeInv'
  BY WalkStep, SafeStep DEF SafeInv
<1>3. SafeInv => OneCopySurvives
  BY DEF SafeInv
<1> QED
  BY <1>1, <1>2, <1>3, PTL DEF Spec

-----------------------------------------------------------------------------
(* Layer 2: while no call failed.                                          *)

SyncedOK == ~failed \/ pc \in Before => tables = saved

\* A digest is missing only when descriptors have run out, and then no row can
\* be written.
ReadOK ==
    ~failed =>
        /\ pc \in {"find", "remove", "add"} => (file_md5 = Unread <=> fds >= MaxFds)
        /\ pc = "remove" => file_md5 # Unread
        /\ pc \notin {"off", "drop"} => \A row \in tables.md5 : row[1] # Unread

RecordOK ==
    ~failed =>
        /\ pc = "remove" =>
              \E g \in Files : <<g, file>> \in saved.clean /\ <<file_md5, g>> \in tables.md5
        /\ pc \in Walking \cup {"ended"} =>
              \A f \in (seen \cap Files) \ disk :
                 \E g \in disk : <<g, f>> \in saved.clean /\ <<Content[f], g>> \in tables.md5

NotMetYet == pc \in {"drop", "drop_clean", "opendir"} => seen = {}

ReportInv == SyncedOK /\ ReadOK /\ RecordOK /\ NotMetYet /\ ReportIsTrue

LEMMA InsertSynced ==
    ASSUME NEW row, NEW name \in {"md5", "clean"}, tables \in Tables, tables = saved,
           failed \in BOOLEAN, ~failed', Insert(row, name)
    PROVE  /\ ~failed /\ tables' = saved'
           /\ fds < MaxFds => tables' = [tables EXCEPT ![name] = @ \cup {row}]
           /\ ~(fds < MaxFds) => tables' = tables
<1>1. PICK inserted, committed \in BOOLEAN :
        /\ inserted => fds < MaxFds \/ tables # saved
        /\ tables' = IF inserted THEN [tables EXCEPT ![name] = @ \cup {row}] ELSE tables
        /\ saved' = IF committed THEN tables' ELSE saved
        /\ failed' = (failed \/ (~(inserted /\ committed) /\ fds < MaxFds))
  BY DEF Insert
<1>2. ~failed /\ ((inserted /\ committed) \/ ~(fds < MaxFds))
  BY <1>1
<1>3. CASE inserted /\ committed
  BY <1>1, <1>2, <1>3
<1>4. CASE ~(fds < MaxFds)
  <2>1. ~inserted
    BY <1>1, <1>4
  <2> QED
    BY <1>1, <1>2, <1>4, <2>1
<1> QED
  BY <1>2, <1>3, <1>4

LEMMA ReportInit == Init => ReportInv
BY DEF Init, ReportInv, SyncedOK, ReadOK, RecordOK, NotMetYet, ReportIsTrue, Walking, AtFile

LEMMA ReportStep == WalkInv /\ ReportInv /\ [Next]_vars => ReportInv'
<1> SUFFICES ASSUME WalkInv, ReportInv, [Next]_vars PROVE ReportInv'
  OBVIOUS
<1>0. /\ TypeOK /\ AtHandOK /\ DigestOK /\ RowsOK
      /\ SyncedOK /\ ReadOK /\ RecordOK /\ NotMetYet /\ ReportIsTrue
  BY DEF WalkInv, ReportInv
<1>a. MaxFds \in Nat /\ fds \in Nat
  BY <1>0, CleanDiskAssumption DEF TypeOK
<1> USE DEF Walking, AtFile, Before
\* Where nothing is read, written or removed, only where we are matters.
<1>1. CASE Start
  BY <1>0, <1>1 DEF Start, ReportInv, SyncedOK, ReadOK, RecordOK, NotMetYet, ReportIsTrue
<1>2. CASE DropTable
  <2>1. tables'.md5 = {} /\ tables' = saved' /\ pc = "drop" /\ pc' = "drop_clean" /\ seen' = seen
    BY <1>0, <1>2 DEF DropTable, TypeOK, Tables, past
  <2> QED
    BY <1>0, <2>1 DEF ReportInv, SyncedOK, ReadOK, RecordOK, NotMetYet, ReportIsTrue
<1>3. CASE DropCleanTable
  <2>1. tables'.md5 = {} /\ tables' = saved' /\ pc = "drop_clean" /\ pc' = "opendir" /\ seen' = seen
    BY <1>0, <1>3 DEF DropCleanTable, TypeOK, Tables, RowsOK, past
  <2> QED
    BY <1>0, <2>1 DEF ReportInv, SyncedOK, ReadOK, RecordOK, NotMetYet, ReportIsTrue
<1>4. CASE GiveUp
  BY <1>0, <1>4 DEF GiveUp, db, past, ReportInv, SyncedOK, ReadOK, RecordOK, NotMetYet, ReportIsTrue
<1>5. CASE OpenRoot
  <2>1. /\ pc = "opendir" /\ pc' = "readdir" /\ UNCHANGED <<tables, saved, failed, disk>>
        /\ seen' \cap Files = {} /\ tables = saved
    BY <1>0, <1>5, Facts DEF OpenRoot, db, SyncedOK
  <2> QED
    BY <1>0, <2>1 DEF ReportInv, SyncedOK, ReadOK, RecordOK, NotMetYet, ReportIsTrue
<1>6. CASE EndMain
  <2>1. pc = "ended" /\ pc' = "off" /\ tables' = saved /\ UNCHANGED <<saved, seen, failed, disk>>
    BY <1>6 DEF EndMain, past
  <2> QED
    BY <1>0, <2>1 DEF ReportInv, SyncedOK, ReadOK, RecordOK, NotMetYet, ReportIsTrue
<1>7. CASE ReadDir
  <2>1. /\ pc = "readdir" /\ pc' = pc /\ UNCHANGED <<tables, saved, disk>>
    BY <1>7 DEF ReadDir, db
  <2>2. PICK d \in Dirs \cap Top : seen' = seen \cup {d} /\ (~failed' => ~failed)
    <3>1. PICK d \in Dirs \cap Top :
            LET rest == [stack EXCEPT ![Len(stack)] = @ \ {d}]
            IN  /\ seen' = seen \cup {d}
                /\ \/ /\ fds < MaxFds
                      /\ stack' = Append(rest, Entries[d] \cap (disk \cup Dirs))
                      /\ fds' = fds + 1
                      /\ UNCHANGED failed
                   \/ /\ stack' = rest
                      /\ failed' = (failed \/ fds < MaxFds)
                      /\ UNCHANGED fds
      BY <1>7 DEF ReadDir
    <3>2. ~failed' => ~failed
      BY <3>1
    <3> QED
      BY <3>1, <3>2
  <2>3. seen' \cap Files = seen \cap Files
    BY <2>2, Facts
  <2> QED
    BY <1>0, <2>1, <2>2, <2>3 DEF ReportInv, SyncedOK, ReadOK, RecordOK, NotMetYet, ReportIsTrue
<1>8. CASE ReadFile
  <2>1. /\ pc = "readdir" /\ pc' = "md5sum" /\ UNCHANGED <<tables, saved, disk, failed>>
    BY <1>8 DEF ReadFile, db
  <2>2. PICK f \in Files \cap Top : seen' = seen \cup {f} /\ file' = f
    BY <1>8 DEF ReadFile
  <2>3. f \in disk
    <3>1. PendingOK /\ stack # <<>> /\ stack \in Seq(SUBSET (Files \cup Dirs))
      BY <2>1 DEF WalkInv, PendingOK, TypeOK
    <3>2. Top = stack[Len(stack)] /\ Len(stack) \in 1..Len(stack)
      BY <3>1, StackStep
    <3> QED
      BY <2>1, <2>2, <3>1, <3>2 DEF PendingOK
  <2> QED
    BY <1>0, <2>1, <2>2, <2>3 DEF ReportInv, SyncedOK, ReadOK, RecordOK, NotMetYet, ReportIsTrue
<1>9. CASE EndList
  <2>1. /\ pc = "readdir" /\ pc' \in {"readdir", "ended"}
        /\ UNCHANGED <<tables, saved, disk, failed, seen>>
    BY <1>9 DEF EndList, db, past
  <2> QED
    BY <1>0, <2>1 DEF ReportInv, SyncedOK, ReadOK, RecordOK, NotMetYet, ReportIsTrue
<1>10. CASE Md5Sum
  <2>1. /\ pc = "md5sum" /\ pc' = "find" /\ UNCHANGED <<tables, saved, disk, seen, file>>
    BY <1>10 DEF Md5Sum, db
  <2>2. file \in Files /\ Content[file] # Unread
    BY <1>0, <2>1, Facts DEF AtHandOK
  <2>3. ~failed' => ~failed /\ (file_md5' = Unread <=> fds' >= MaxFds)
    <3>1. CASE fds < MaxFds /\ file_md5' = Content[file] /\ UNCHANGED <<fds, failed>>
      BY <1>a, <2>2, <3>1
    <3>2. CASE /\ file_md5' = Unread
               /\ fds' \in {fds} \cup (IF fds < MaxFds THEN {fds + 1} ELSE {})
               /\ failed' = (failed \/ fds < MaxFds)
      <4>1. CASE fds < MaxFds
        BY <3>2, <4>1
      <4>2. CASE ~(fds < MaxFds)
        <5>1. fds' = fds /\ fds >= MaxFds
          BY <1>a, <3>2, <4>2
        <5>2. ~failed' => ~failed
          BY <3>2
        <5> QED
          BY <3>2, <5>1, <5>2
      <4> QED
        BY <4>1, <4>2
    <3> QED
      BY <1>10, <3>1, <3>2 DEF Md5Sum
  <2> QED
    BY <1>0, <2>1, <2>3 DEF ReportInv, SyncedOK, ReadOK, RecordOK, NotMetYet, ReportIsTrue
<1>11. CASE Find
  <2>1. /\ pc = "find" /\ UNCHANGED <<seen, disk, file, file_md5, fds>>
        /\ file \in Files /\ file \in disk /\ tables \in Tables /\ saved \in Tables /\ failed \in BOOLEAN
    BY <1>0, <1>11 DEF Find, AtHandOK, TypeOK
  <2>2. CASE UNCHANGED db /\ pc' = "add" /\ (~failed' => ~failed)
    BY <1>0, <2>1, <2>2 DEF db, ReportInv, SyncedOK, ReadOK, RecordOK, NotMetYet, ReportIsTrue
  <2>3. CASE pc' = "remove" /\ \E row \in Found : Insert(<<row[2], file>>, "clean")
    <3>1. PICK row \in Found : Insert(<<row[2], file>>, "clean")
      BY <2>3
    <3>2. /\ row \in tables.md5 /\ row[1] = file_md5 /\ row[2] \in Files /\ row = <<file_md5, row[2]>>
      BY <2>1, <3>1, TablesShape DEF Found
    <3>3. CASE ~failed'
      <4>1. tables = saved /\ ~failed
        <5>1. ~failed
          BY <3>1, <3>3 DEF Insert
        <5> QED
          BY <1>0, <5>1 DEF SyncedOK
      <4>2. /\ tables' = saved'
            /\ fds < MaxFds => tables' = [tables EXCEPT !["clean"] = @ \cup {<<row[2], file>>}]
        BY <2>1, <3>1, <3>3, <4>1, InsertSynced
      <4>3. file_md5 # Unread /\ fds < MaxFds
        BY <1>0, <1>a, <2>1, <3>2, <4>1 DEF ReadOK
      <4>4. tables'.md5 = tables.md5 /\ tables'.clean = tables.clean \cup {<<row[2], file>>}
        <5>1. tables' = [tables EXCEPT !.clean = tables.clean \cup {<<row[2], file>>}]
          BY <4>2, <4>3
        <5>2. tables.clean \cup {<<row[2], file>>} \subseteq Files \X Files
          BY <2>1, <3>2, TablesShape
        <5> QED
          BY <2>1, <5>1, <5>2, TablesShape
      <4>5. SyncedOK' /\ ReadOK' /\ NotMetYet'
        BY <1>0, <2>1, <2>3, <4>1, <4>2, <4>3, <4>4 DEF SyncedOK, ReadOK, NotMetYet
      <4>6. RecordOK'
        BY <1>0, <2>1, <2>3, <3>2, <4>1, <4>2, <4>4 DEF RecordOK
      <4>7. ReportIsTrue'
        BY <1>0, <2>1, <4>1, <4>2, <4>4 DEF ReportIsTrue
      <4> QED
        BY <4>5, <4>6, <4>7 DEF ReportInv
    <3>4. CASE failed'
      BY <2>3, <3>4 DEF ReportInv, SyncedOK, ReadOK, RecordOK, NotMetYet, ReportIsTrue
    <3> QED
      BY <3>3, <3>4
  <2>4. UNCHANGED failed \/ failed' = TRUE => (~failed' => ~failed)
    OBVIOUS
  <2> QED
    BY <1>11, <2>2, <2>3, <2>4 DEF Find
<1>12. CASE Remove
  <2>1. /\ pc = "remove" /\ pc' = "readdir" /\ UNCHANGED <<seen, file, tables, saved>>
        /\ disk' = disk \ {file} \/ (disk' = disk /\ failed')
        /\ ~failed' => ~failed
    BY <1>12 DEF Remove, db
  <2>2. CASE failed'
    BY <2>1, <2>2 DEF ReportInv, SyncedOK, ReadOK, RecordOK, NotMetYet, ReportIsTrue
  <2>3. CASE ~failed'
    <3>1. disk' = disk \ {file} /\ ~failed /\ file_md5 = Content[file] /\ file \in Files
      BY <1>0, <2>1, <2>3 DEF ReadOK, DigestOK, AtHandOK
    \* A row never stands for the file that goes.
    <3>2. ASSUME NEW c, NEW g, <<c, g>> \in tables.md5 PROVE g \in disk' /\ Content[g] = c
      <4>1. <<c, g>>[2] = g /\ <<c, g>>[1] = c
        OBVIOUS
      <4>2. c # Unread /\ g # file
        BY <1>0, <2>1, <3>1, <3>2, <4>1 DEF ReadOK, RowsOK
      <4> QED
        BY <1>0, <2>1, <3>1, <3>2, <4>1, <4>2 DEF RowsOK
    <3>3. \A f \in (seen \cap Files) \ disk' :
             \E g \in disk' : <<g, f>> \in saved.clean /\ <<Content[f], g>> \in tables.md5
      <4>1. TAKE f \in (seen \cap Files) \ disk'
      <4>2. CASE f = file
        BY <1>0, <2>1, <3>1, <3>2, <4>2 DEF RecordOK
      <4>3. CASE f # file
        BY <1>0, <2>1, <3>1, <3>2, <4>3 DEF RecordOK
      <4> QED
        BY <4>2, <4>3
    <3>4. RecordOK' /\ ReportIsTrue'
      BY <2>1, <3>2, <3>3 DEF RecordOK, ReportIsTrue
    <3> QED
      BY <1>0, <2>1, <3>1, <3>4 DEF ReportInv, SyncedOK, ReadOK, NotMetYet
  <2> QED
    BY <2>2, <2>3
<1>13. CASE AddToDb
  <2>1. /\ pc = "add" /\ pc' = "readdir" /\ UNCHANGED <<seen, file, disk, fds>>
        /\ file \in Files \cap seen \cap disk /\ Insert(<<file_md5, file>>, "md5")
        /\ tables \in Tables /\ saved \in Tables /\ failed \in BOOLEAN
        /\ <<file_md5, file>> \in Digests \X Files
    BY <1>0, <1>13 DEF AddToDb, AtHandOK, TypeOK
  <2>2. CASE failed'
    BY <2>1, <2>2 DEF ReportInv, SyncedOK, ReadOK, RecordOK, NotMetYet, ReportIsTrue
  <2>3. CASE ~failed'
    <3>1. ~failed /\ tables = saved
      <4>1. ~failed
        BY <2>1, <2>3 DEF Insert
      <4> QED
        BY <1>0, <4>1 DEF SyncedOK
    <3>2. /\ tables' = saved' /\ tables'.clean = tables.clean
          /\ tables'.md5 \in {tables.md5, tables.md5 \cup {<<file_md5, file>>}}
      BY <2>1, <2>3, <3>1, InsertSynced, InsertMd5
    <3>3. tables'.md5 = tables.md5 \/ file_md5 # Unread
      <4>1. CASE fds < MaxFds
        BY <1>0, <1>a, <2>1, <3>1, <4>1 DEF ReadOK
      <4>2. CASE ~(fds < MaxFds)
        BY <2>1, <2>3, <3>1, <4>2, InsertSynced
      <4> QED
        BY <4>1, <4>2
    <3>4. ReadOK'
      BY <1>0, <2>1, <3>1, <3>2, <3>3 DEF ReadOK
    <3>5. RecordOK' /\ ReportIsTrue'
      BY <1>0, <2>1, <3>1, <3>2 DEF RecordOK, ReportIsTrue
    <3> QED
      BY <2>1, <3>2, <3>4, <3>5 DEF ReportInv, SyncedOK, NotMetYet
  <2> QED
    BY <2>2, <2>3
<1>14. CASE Crash
  <2>1. pc' = "off" /\ tables' = saved /\ UNCHANGED <<saved, seen, failed, disk>>
    BY <1>14 DEF Crash, past
  <2> QED
    BY <1>0, <2>1 DEF ReportInv, SyncedOK, ReadOK, RecordOK, NotMetYet, ReportIsTrue
<1>15. CASE UNCHANGED vars
  BY <1>0, <1>15 DEF vars, ReportInv, SyncedOK, ReadOK, RecordOK, NotMetYet, ReportIsTrue
<1> QED
  BY <1>1, <1>2, <1>3, <1>4, <1>5, <1>6, <1>7, <1>8, <1>9, <1>10, <1>11, <1>12, <1>13, <1>14, <1>15
     DEF Next, Main, List

\* What clean_db says of a run in which no call failed is true, after a crash as
\* well: every file that is gone has a row, and the row names one that is left.
THEOREM ReportHolds == Spec => []ReportIsTrue
<1>1. Init => WalkInv /\ ReportInv
  BY WalkInit, ReportInit
<1>2. WalkInv /\ ReportInv /\ [Next]_vars => (WalkInv /\ ReportInv)'
  BY WalkStep, ReportStep
<1>3. WalkInv /\ ReportInv => ReportIsTrue
  BY DEF ReportInv
<1> QED
  BY <1>1, <1>2, <1>3, PTL DEF Spec

-----------------------------------------------------------------------------
(* Layer 3: while descriptors last as well.                                *)

AllWell == ~failed /\ fds < MaxFds

\* Every entry of an opened directory was met, is pending, or was gone.
Pending(x) == \E i \in 1..Len(stack) : x \in stack[i]
Settled(x) == x \in seen \/ x \in Files \ disk \/ Pending(x)
WalkClosed ==
    AllWell /\ pc \in Walking \cup {"ended"} =>
        Root \in seen /\ \A d \in Dirs \cap seen : \A x \in Entries[d] : Settled(x)

\* Every file that was met and is left has a row, and no two rows are alike.
RowEach ==
    AllWell /\ pc \in Walking \cup {"ended"} =>
        /\ \A f \in seen \cap disk : (pc \in AtFile /\ f = file) \/ <<Content[f], f>> \in tables.md5
        /\ \A r, s \in tables.md5 : r[1] = s[1] => r = s
        /\ pc = "add" => Found = {}

WholeInv == WalkClosed /\ RowEach /\ (pc = "ended" => stack = <<>>)

\* The end of a run leaves nothing pending, so everything was met, by the last
\* conjunct of CleanDiskAssumption.
LEMMA WholeImplies == WalkInv /\ WholeInv => LeavesNoDuplicates
<1> SUFFICES ASSUME WalkInv, WholeInv, pc = "ended", ~failed, fds < MaxFds,
                    NEW f \in disk, NEW g \in disk, Content[f] = Content[g]
             PROVE  f = g
  BY DEF LeavesNoDuplicates
<1>1. seen \subseteq Files \cup Dirs /\ disk \subseteq Files /\ stack = <<>>
  BY DEF WalkInv, TypeOK, WholeInv
<1> DEFINE all == seen \cup (Files \ disk)
<1>2. \A x : ~Pending(x)
  BY <1>1 DEF Pending
<1>3. Root \in all /\ \A d \in Dirs \cap all : Entries[d] \subseteq all
  <2>1. AllWell /\ WalkClosed
    BY DEF AllWell, WholeInv
  <2>2. Root \in seen /\ \A d \in Dirs \cap seen : \A x \in Entries[d] : Settled(x)
    BY <2>1 DEF WalkClosed
  <2>3. Dirs \cap all = Dirs \cap seen
    BY Facts
  <2> QED
    BY <1>2, <2>2, <2>3 DEF Settled
<1>4. Files \subseteq all
  <2>1. all \in SUBSET (Files \cup Dirs)
    BY <1>1
  <2> HIDE DEF all
  <2> QED
    BY <1>3, <2>1, CleanDiskAssumption
<1>5. f \in seen /\ g \in seen
  BY <1>1, <1>4
<1>6. /\ <<Content[f], f>> \in tables.md5 /\ <<Content[g], g>> \in tables.md5
      /\ \A r, s \in tables.md5 : r[1] = s[1] => r = s
  BY <1>5 DEF WholeInv, RowEach, AllWell, AtFile
<1> QED
  BY <1>6

LEMMA WholeStep == WalkInv /\ ReportInv /\ WholeInv /\ [Next]_vars => WholeInv'
<1> SUFFICES ASSUME WalkInv, ReportInv, WholeInv, [Next]_vars PROVE WholeInv'
  OBVIOUS
<1>0. /\ TypeOK /\ PendingOK /\ AtHandOK /\ DigestOK /\ RowsOK
      /\ SyncedOK /\ ReadOK /\ WalkClosed /\ RowEach /\ (pc = "ended" => stack = <<>>)
  BY DEF WalkInv, ReportInv, WholeInv
<1>a. MaxFds \in Nat /\ fds \in Nat /\ disk \subseteq Files /\ seen \subseteq Files \cup Dirs
  BY <1>0, CleanDiskAssumption DEF TypeOK
<1>b. ASSUME UNCHANGED <<seen, stack>>, disk' = disk \/ disk' = disk \ {file}, NEW x, Settled(x)
      PROVE  Settled(x)'
  BY <1>0, <1>a, <1>b DEF Settled, Pending, TypeOK
<1> USE DEF Walking, AtFile
<1>1. CASE pc' \notin Walking \cup {"ended"}
  BY <1>1 DEF WholeInv, WalkClosed, RowEach
<1>2. CASE OpenRoot
  <2>1. /\ pc' = "readdir" /\ seen' = {Root} /\ stack' = <<Entries[Root] \cap (disk \cup Dirs)>>
        /\ UNCHANGED <<disk, tables>> /\ tables.md5 = {}
    BY <1>0, <1>2 DEF OpenRoot, db, RowsOK
  <2>2. \A x \in Entries[Root] : Settled(x)'
    <3>1. \A x \in Entries[Root] : x \in Files \ disk \/ x \in stack'[1]
      BY <2>1, Facts
    <3>2. 1 \in 1..Len(stack')
      BY <2>1
    <3> QED
      BY <2>1, <3>1, <3>2 DEF Settled, Pending
  <2>3. Root \notin Files
    BY Facts
  <2> QED
    BY <1>a, <2>1, <2>2, <2>3 DEF WholeInv, WalkClosed, RowEach
<1>3. CASE ReadDir
  <2>1. pc = "readdir" /\ pc' = pc /\ UNCHANGED <<disk, tables>>
    BY <1>3 DEF ReadDir, db
  <2>2. PICK d \in Dirs \cap Top :
          LET rest == [stack EXCEPT ![Len(stack)] = @ \ {d}]
          IN  /\ seen' = seen \cup {d}
              /\ \/ /\ fds < MaxFds
                    /\ stack' = Append(rest, Entries[d] \cap (disk \cup Dirs))
                    /\ fds' = fds + 1
                    /\ UNCHANGED failed
                 \/ /\ stack' = rest
                    /\ failed' = (failed \/ fds < MaxFds)
                    /\ UNCHANGED fds
    BY <1>3 DEF ReadDir
  <2> DEFINE rest == [stack EXCEPT ![Len(stack)] = Top \ {d}]
  <2>3. rest = [stack EXCEPT ![Len(stack)] = @ \ {d}]
    BY DEF Top
  <2>4. seen' \cap disk' = seen \cap disk
    BY <1>a, <2>1, <2>2, Facts
  <2>5. CASE AllWell'
    <3>1. /\ AllWell /\ seen' = seen \cup {d}
          /\ stack' = Append(rest, Entries[d] \cap (disk \cup Dirs))
      <4> HIDE DEF rest
      <4>1. ~failed' /\ fds' < MaxFds
        BY <2>5 DEF AllWell
      <4>2. CASE fds < MaxFds /\ stack' = Append(rest, Entries[d] \cap (disk \cup Dirs)) /\ UNCHANGED failed
        BY <2>2, <4>1, <4>2 DEF AllWell
      <4>3. CASE failed' = (failed \/ fds < MaxFds) /\ UNCHANGED fds
        BY <4>1, <4>3
      <4> QED
        BY <2>2, <2>3, <4>2, <4>3
    <3>2. stack # <<>> /\ stack \in Seq(SUBSET (Files \cup Dirs))
      BY <1>0, <2>1 DEF PendingOK, TypeOK
    <3>3. /\ rest \in Seq(SUBSET (Files \cup Dirs)) /\ Len(rest) = Len(stack) /\ Len(stack) \in Nat
          /\ Top = stack[Len(stack)]
          /\ \A i \in 1..Len(stack) : rest[i] = IF i = Len(stack) THEN Top \ {d} ELSE stack[i]
      BY <3>2, StackStep
    <3> HIDE DEF rest
    <3>4. Entries[d] \cap (disk \cup Dirs) \in SUBSET (Files \cup Dirs)
      BY <1>a
    <3>5. /\ Len(stack') = Len(rest) + 1
          /\ \A i \in 1..Len(rest) + 1 :
                stack'[i] = IF i = Len(rest) + 1 THEN Entries[d] \cap (disk \cup Dirs) ELSE rest[i]
      BY <3>1, <3>3, <3>4, AppendStack
    <3>6. ASSUME NEW x, Pending(x) PROVE x = d \/ Pending(x)'
      <4>1. PICK i \in 1..Len(stack) : x \in stack[i]
        BY <3>6 DEF Pending
      <4>2. x = d \/ x \in rest[i]
        BY <3>3, <4>1
      <4>3. i \in 1..Len(stack') /\ stack'[i] = rest[i]
        BY <3>3, <3>5, <4>1
      <4> QED
        BY <4>2, <4>3 DEF Pending
    <3>7. ASSUME NEW x \in Entries[d] PROVE x \in Files \ disk \/ Pending(x)'
      <4>1. Len(rest) + 1 \in 1..Len(stack')
        BY <3>3, <3>5
      <4>2. stack'[Len(rest) + 1] = Entries[d] \cap (disk \cup Dirs)
        BY <3>3, <3>5, <4>1
      <4> QED
        BY <4>1, <4>2, Facts DEF Pending
    <3>8. Root \in seen /\ \A e \in Dirs \cap seen : \A x \in Entries[e] : Settled(x)
      BY <1>0, <2>1, <3>1 DEF WalkClosed
    <3>9. \A e \in Dirs \cap seen' : \A x \in Entries[e] : Settled(x)'
      BY <2>1, <3>1, <3>6, <3>7, <3>8 DEF Settled
    <3> QED
      BY <1>0, <2>1, <2>4, <3>1, <3>8, <3>9 DEF WholeInv, WalkClosed, RowEach
  <2>6. CASE ~AllWell'
    BY <2>1, <2>6 DEF WholeInv, WalkClosed, RowEach
  <2> QED
    BY <2>5, <2>6
<1>4. CASE ReadFile
  <2>1. pc = "readdir" /\ pc' = "md5sum" /\ UNCHANGED <<disk, tables, fds, failed>>
    BY <1>4 DEF ReadFile, db
  <2>2. PICK f \in Files \cap Top :
          file' = f /\ seen' = seen \cup {f} /\ stack' = [stack EXCEPT ![Len(stack)] = Top \ {f}]
    BY <1>4 DEF ReadFile, Top
  <2>3. f \in Top
    OBVIOUS
  <2>4. Len(stack') = Len(stack) /\ \A i \in 1..Len(stack) : stack'[i] = stack[i] \ {f}
    BY <1>0, <2>1, <2>2, <2>3, PendingTakes
  <2>5. ASSUME NEW x, Settled(x) PROVE Settled(x)'
    BY <2>1, <2>2, <2>4, <2>5 DEF Settled, Pending
  <2>6. f \notin Dirs
    BY Facts
  <2> QED
    BY <1>0, <2>1, <2>2, <2>5, <2>6 DEF WholeInv, WalkClosed, RowEach, AllWell
<1>5. CASE EndList
  <2>1. /\ pc = "readdir" /\ UNCHANGED <<disk, tables, fds, failed, seen>> /\ Top = {}
        /\ stack' = SubSeq(stack, 1, Len(stack) - 1) /\ pc' \in {"readdir", "ended"}
        /\ pc' = "ended" => Len(stack) = 1
    BY <1>5 DEF EndList, db, past
  <2>2. stack # <<>> /\ stack \in Seq(SUBSET (Files \cup Dirs))
    BY <1>0, <2>1 DEF PendingOK, TypeOK
  <2>3. /\ Len(stack) \in Nat \ {0} /\ Len(stack') = Len(stack) - 1 /\ Top = stack[Len(stack)]
        /\ stack' \in Seq(SUBSET (Files \cup Dirs))
        /\ \A i \in 1..Len(stack') : stack'[i] = stack[i]
    BY <2>1, <2>2, StackStep
  <2>4. pc' = "ended" => stack' = <<>>
    <3>1. pc' = "ended" => Len(stack') = 0
      BY <2>1, <2>3
    <3> QED
      BY <2>3, <3>1, EmptySeq
  <2>5. ASSUME NEW x, Settled(x) PROVE Settled(x)'
    <3>1. ASSUME NEW i \in 1..Len(stack), x \in stack[i] PROVE i \in 1..Len(stack') /\ x \in stack'[i]
      <4>1. i # Len(stack)
        BY <2>1, <2>3, <3>1
      <4> QED
        BY <2>3, <3>1, <4>1
    <3> QED
      BY <2>1, <2>5, <3>1 DEF Settled, Pending
  <2> QED
    BY <1>0, <2>1, <2>4, <2>5 DEF WholeInv, WalkClosed, RowEach, AllWell
<1>6. CASE Md5Sum
  <2>1. pc = "md5sum" /\ pc' = "find" /\ UNCHANGED <<disk, tables, seen, stack, file>>
    BY <1>6 DEF Md5Sum, db
  <2>2. AllWell' => AllWell
    BY <1>6, <1>a DEF Md5Sum, AllWell
  <2> QED
    BY <1>0, <1>b, <2>1, <2>2 DEF WholeInv, WalkClosed, RowEach
<1>7. CASE Find
  <2>1. pc = "find" /\ UNCHANGED <<disk, seen, stack, file, file_md5, fds>> /\ pc' \in {"add", "remove"}
    BY <1>7 DEF Find
  <2>2. tables'.md5 = tables.md5 /\ (AllWell' => AllWell) /\ (pc' = "add" /\ AllWell' => Found = {})
    <3>1. CASE UNCHANGED db /\ pc' = "add" /\ ((Found = {} /\ UNCHANGED failed) \/ failed' = TRUE)
      BY <2>1, <3>1 DEF db, AllWell
    <3>2. CASE pc' = "remove" /\ \E row \in Found : Insert(<<row[2], file>>, "clean")
      <4>1. PICK row \in Found : Insert(<<row[2], file>>, "clean")
        BY <3>2
      <4>2. /\ file \in Files /\ tables \in Tables /\ saved \in Tables /\ failed \in BOOLEAN
        BY <1>0, <2>1 DEF AtHandOK, TypeOK
      <4>3. <<row[2], file>> \in Files \X Files
        BY <4>1, <4>2, TablesShape DEF Found
      <4>4. ~failed' => ~failed
        BY <4>1 DEF Insert
      <4> QED
        BY <2>1, <3>2, <4>1, <4>2, <4>3, <4>4, InsertClean DEF AllWell
    <3> QED
      BY <1>7, <3>1, <3>2 DEF Find
  <2>3. Found' = Found
    BY <2>1, <2>2 DEF Found
  <2> QED
    BY <1>0, <1>b, <2>1, <2>2, <2>3 DEF WholeInv, WalkClosed, RowEach
<1>8. CASE Remove
  <2>1. /\ pc = "remove" /\ pc' = "readdir" /\ UNCHANGED <<tables, seen, stack, file, fds>>
        /\ disk' = disk \ {file} \/ (disk' = disk /\ failed')
        /\ ~failed' => ~failed
    BY <1>8 DEF Remove, db
  <2>2. AllWell' => AllWell /\ disk' = disk \ {file}
    BY <2>1 DEF AllWell
  <2> QED
    BY <1>0, <1>b, <2>1, <2>2 DEF WholeInv, WalkClosed, RowEach
<1>9. CASE AddToDb
  <2>1. /\ pc = "add" /\ pc' = "readdir" /\ UNCHANGED <<seen, stack, file, disk, fds, file_md5>>
        /\ file \in Files \cap seen \cap disk /\ Insert(<<file_md5, file>>, "md5")
        /\ tables \in Tables /\ saved \in Tables /\ failed \in BOOLEAN
        /\ <<file_md5, file>> \in Digests \X Files
    BY <1>0, <1>9 DEF AddToDb, AtHandOK, TypeOK
  <2>2. CASE ~AllWell'
    BY <2>1, <2>2 DEF WholeInv, WalkClosed, RowEach
  <2>3. CASE AllWell'
    <3>1. ~failed' /\ ~failed /\ fds < MaxFds /\ AllWell /\ tables = saved
      <4>1. ~failed' /\ ~failed /\ fds < MaxFds
        BY <2>1, <2>3 DEF AllWell, Insert
      <4> QED
        BY <1>0, <4>1 DEF SyncedOK, AllWell
    <3>2. tables'.md5 = tables.md5 \cup {<<file_md5, file>>}
      <4>1. tables' = [tables EXCEPT !["md5"] = @ \cup {<<file_md5, file>>}]
        BY <2>1, <3>1, InsertSynced
      <4> QED
        BY <2>1, <4>1 DEF Tables
    <3>3. file_md5 = Content[file]
      BY <1>0, <1>a, <2>1, <3>1 DEF ReadOK, DigestOK
    <3>4. /\ \A f \in seen \cap disk : f = file \/ <<Content[f], f>> \in tables.md5
          /\ \A r, s \in tables.md5 : r[1] = s[1] => r = s
          /\ \A r \in tables.md5 : r[1] # file_md5
      BY <1>0, <2>1, <3>1 DEF RowEach, Found
    <3>5. RowEach'
      <4>1. \A f \in seen' \cap disk' : <<Content[f], f>> \in tables'.md5
        BY <2>1, <3>2, <3>3, <3>4
      <4>2. \A r, s \in tables'.md5 : r[1] = s[1] => r = s
        BY <3>2, <3>4
      <4> QED
        BY <2>1, <4>1, <4>2 DEF RowEach
    <3> QED
      BY <1>0, <1>b, <2>1, <3>1, <3>5 DEF WholeInv, WalkClosed
  <2> QED
    BY <2>2, <2>3
<1>10. CASE UNCHANGED vars
  <2>1. Found' = Found
    BY <1>10 DEF vars, Found
  <2> QED
    BY <1>0, <1>b, <1>10, <2>1 DEF vars, WholeInv, WalkClosed, RowEach, AllWell
<1>11. CASE Start \/ DropTable \/ DropCleanTable \/ GiveUp \/ EndMain \/ Crash
  <2>1. pc' \in {"drop", "drop_clean", "opendir", "off"}
    BY <1>11 DEF Start, DropTable, DropCleanTable, GiveUp, EndMain, Crash
  <2> QED
    BY <1>1, <2>1
<1> QED
  BY <1>2, <1>3, <1>4, <1>5, <1>6, <1>7, <1>8, <1>9, <1>10, <1>11 DEF Next, Main, List

\* What cleandisk is for: a run to the end that met no failure leaves one file
\* of each content, in a tree of any shape and depth.
THEOREM Deduplicated == Spec => []LeavesNoDuplicates
<1> DEFINE I == WalkInv /\ ReportInv /\ WholeInv
<1>1. Init => I
  <2>1. Init => WholeInv
    BY DEF Init, WholeInv, WalkClosed, RowEach, Walking, AtFile
  <2> QED
    BY <2>1, WalkInit, ReportInit
<1>2. I /\ [Next]_vars => I'
  BY WalkStep, ReportStep, WholeStep
<1>3. I => LeavesNoDuplicates
  BY WholeImplies
<1> QED
  BY <1>1, <1>2, <1>3, PTL DEF Spec
=============================================================================
