------------------------ MODULE HostPrograms_proofs -------------------------
(***************************************************************************)
(* What holds of the two programs that change a host and leave it as they  *)
(* found it, mydocker and the plugin web server, for any number of runs,   *)
(* volumes, servers, plugins and pages.                                    *)
(***************************************************************************)
EXTENDS MyDocker, PluginWeb, SequencesExt, SequenceTheorems, TLAPS

-----------------------------------------------------------------------------
(* mydocker.  As long as runs come one at a time on a bare mount point and *)
(* no umount fails, what is mounted follows from where the one run is,     *)
(* whichever mounts and starts failed.  When umounts fail and runs break   *)
(* off, every mount that no run at work will take down is of a volume that *)
(* is known to be left.                                                    *)

Before == {"idle", "write_layer", "mount_point", "volume", "start"}
After  == {"umount_volume", "umount", "remove_mnt", "remove_write_layer"}

DockerType ==
    /\ run \in [Runs -> [pc : Before \cup {"wait", "done"} \cup After, tty : BOOLEAN,
                         volume : Volumes \cup {NoVolume}]]
    /\ box \in [Runs -> {"none", "alive", "gone"}]
    /\ spoiled \subseteq Runs

\* What may be mounted while r is at work: the layer or, when its mount
\* failed, only the directory, and on top of it the volume or nothing.
MountsOf(r) ==
    /\ run[r].pc \in {"write_layer", "mount_point", "remove_mnt", "remove_write_layer"} => levels = Bare
    /\ run[r].pc \in {"volume", "umount"} => levels \in {Bare, <<{}, {}>>}
    /\ run[r].pc = "volume" => run[r].volume # NoVolume
    /\ run[r].pc \in {"start", "wait", "umount_volume"} =>
        \/ levels \in {Bare, <<{}, {}>>}
        \/ run[r].volume # NoVolume /\ levels \in {<<{r}>>, <<{}, {r}>>}

MountInv ==
    untidy \cap {"overlap", "leftover", "refused"} = {} =>
        /\ \A q, r \in Runs : run[q].pc \notin Ended /\ run[r].pc \notin Ended => q = r
        /\ \A r \in Runs : MountsOf(r)

\* A container starts after its work space is made, and one with a tty has
\* ended before the work space is taken down.
BoxInv ==
    /\ \A r \in Runs : run[r].pc \in Before => box[r] = "none" /\ r \notin spoiled
    /\ \A r \in Runs : run[r].tty /\ run[r].pc \in After => box[r] # "alive"

TidyInv ==
    untidy = {} =>
        /\ (\A r \in Runs : run[r].pc \in Ended) => levels = Bare /\ ~mnt /\ ~writeLayer
        /\ \A r \in Runs : run[r].pc = "remove_write_layer" => ~mnt
        /\ \A r \in Runs : run[r].tty /\ run[r].pc = "done" => box[r] # "alive"
        /\ \A r \in spoiled : ~run[r].tty

\* Where a run with its volume mounted is.
Mounted == {"start", "wait", "umount_volume"}

LeftInv ==
    /\ levels \in Seq(SUBSET Runs) /\ levels # <<>>
    /\ \A r \in Runs : run[r].pc = "volume" => run[r].volume # NoVolume
    /\ \A k \in 1..Len(levels) : \A q \in levels[k] :
          run[q].pc \in Mounted \cup After \cup {"done"} /\ run[q].volume # NoVolume
    /\ "overlap" \notin untidy =>
        /\ lost \subseteq left
        /\ \A q, r \in Runs : run[q].pc \notin Ended /\ run[r].pc \notin Ended => q = r
        /\ \A k \in 1..Len(levels) : \A q \in levels[k] :
              run[q].volume \in left \/ (run[q].pc \in Mounted /\ k = Len(levels))

DockerInv == DockerType /\ MountInv /\ BoxInv /\ TidyInv /\ LeftInv

\* A step to another place in Run changes nothing else of the run.
LEMMA GoesFacts ==
    ASSUME DockerType, NEW r \in Runs, NEW p \in Before \cup {"wait", "done"} \cup After, Goes(r, p)
    PROVE  /\ run' \in [Runs -> [pc : Before \cup {"wait", "done"} \cup After, tty : BOOLEAN,
                                 volume : Volumes \cup {NoVolume}]]
           /\ run'[r].pc = p
           /\ \A q \in Runs : q # r => run'[q] = run[q]
           /\ \A q \in Runs : run'[q].tty = run[q].tty /\ run'[q].volume = run[q].volume
<1> DEFINE PCs == Before \cup {"wait", "done"} \cup After
<1>1. run' = [run EXCEPT ![r] = [run[r] EXCEPT !.pc = p]]
  BY DEF Goes
<1>2. run \in [Runs -> [pc : PCs, tty : BOOLEAN, volume : Volumes \cup {NoVolume}]]
  BY DEF DockerType
<1> HIDE DEF PCs
<1>3. p \in PCs
  BY DEF PCs
<1> QED
  BY <1>1, <1>2, <1>3 DEF PCs

\* The mounts of one run, level by level.
LEMMA LevelFacts ==
    ASSUME NEW r
    PROVE  /\ Bare = <<{}>>
           /\ Append(Bare, {}) = <<{}, {}>>
           /\ Len(Bare) = 1 /\ Bare[1] = {}
           /\ Len(<<{}, {}>>) = 2 /\ <<{}, {}>>[2] = {}
           /\ Len(<<{r}>>) = 1 /\ <<{r}>>[1] = {r}
           /\ Len(<<{}, {r}>>) = 2 /\ <<{}, {r}>>[2] = {r}
           /\ [Bare EXCEPT ![1] = {} \cup {r}] = <<{r}>>
           /\ [<<{}, {}>> EXCEPT ![2] = {} \cup {r}] = <<{}, {r}>>
           /\ [<<{r}>> EXCEPT ![1] = {r} \ {r}] = Bare
           /\ [<<{}, {r}>> EXCEPT ![2] = {r} \ {r}] = <<{}, {}>>
           /\ SubSeq(<<{}, {}>>, 1, 2 - 1) = Bare
<1>1. Bare = <<{}>>
  BY DEF Bare
<1>2. {} \cup {r} = {r} /\ {r} \ {r} = {}
  OBVIOUS
<1>3. [<<{}>> EXCEPT ![1] = {r}] = <<{r}>>
  OBVIOUS
<1>4. [<<{}, {}>> EXCEPT ![2] = {r}] = <<{}, {r}>>
  OBVIOUS
<1>5. [<<{r}>> EXCEPT ![1] = {}] = <<{}>>
  OBVIOUS
<1>6. [<<{}, {r}>> EXCEPT ![2] = {}] = <<{}, {}>>
  OBVIOUS
<1>7. SubSeq(<<{}, {}>>, 1, 2 - 1) = <<{}>>
  <2> DEFINE s == <<{}, {}>>
             t == SubSeq(s, 1, 1)
  <2>1. s \in Seq({{}}) /\ Len(s) = 2 /\ s[1] = {}
    OBVIOUS
  <2> HIDE DEF s
  <2>2. t \in Seq({{}}) /\ Len(t) = 1 /\ t[1] = {}
    BY <2>1
  <2>3. <<{}>> \in Seq({{}}) /\ Len(<<{}>>) = 1 /\ <<{}>>[1] = {}
    OBVIOUS
  <2> HIDE DEF t
  <2>4. t = <<{}>>
    BY <2>2, <2>3, SeqEqual
  <2> QED
    BY <2>4 DEF s, t
<1>8. Append(<<{}>>, {}) = <<{}, {}>>
  <2> DEFINE s == <<{}>>
             t == Append(s, {})
  <2>1. s \in Seq({{}}) /\ Len(s) = 1 /\ s[1] = {}
    OBVIOUS
  <2> HIDE DEF s
  <2>1a. {} \in {{}}
    OBVIOUS
  <2>2. /\ t \in Seq({{}}) /\ Len(t) = Len(s) + 1
        /\ \A i \in 1..Len(s) : t[i] = s[i]
        /\ t[Len(s) + 1] = {}
    BY <2>1, <2>1a, AppendProperties
  <2>3. Len(t) = 2 /\ t[1] = {} /\ t[2] = {}
    BY <2>1, <2>2
  <2> DEFINE u == <<{}, {}>>
  <2>4. u \in Seq({{}}) /\ Len(u) = 2 /\ u[1] = {} /\ u[2] = {}
    OBVIOUS
  <2> HIDE DEF t, u
  <2>5. Len(t) = Len(u) /\ \A i \in 1..Len(t) : t[i] = u[i]
    <3>1. \A i \in 1..2 : i = 1 \/ i = 2
      OBVIOUS
    <3> QED
      BY <2>3, <2>4, <3>1
  <2>6. t = u
    BY <2>2, <2>4, <2>5, SeqEqual
  <2> QED
    BY <2>6 DEF s, t, u
<1>9. /\ Len(<<{}>>) = 1 /\ <<{}>>[1] = {}
      /\ Len(<<{}, {}>>) = 2 /\ <<{}, {}>>[2] = {}
      /\ Len(<<{r}>>) = 1 /\ <<{r}>>[1] = {r}
      /\ Len(<<{}, {r}>>) = 2 /\ <<{}, {r}>>[2] = {r}
  OBVIOUS
<1> HIDE DEF Bare
<1> QED
  BY <1>1, <1>2, <1>3, <1>4, <1>5, <1>6, <1>7, <1>8, <1>9

\* A step of the one run at work disturbs only what is said of that run.
LEMMA OneAtWork ==
    ASSUME DockerType, MountInv, NEW r \in Runs, NEW p \in Before \cup {"wait", "done"} \cup After,
           Goes(r, p), run[r].pc \notin Ended, untidy \subseteq untidy',
           /\ untidy \cap {"overlap", "leftover", "refused"} = {}
           /\ untidy' \cap {"overlap", "leftover", "refused"} = {}
           /\ MountsOf(r)
           => MountsOf(r)'
    PROVE  MountInv'
<1> SUFFICES ASSUME untidy' \cap {"overlap", "leftover", "refused"} = {}
             PROVE  /\ \A q, s \in Runs : run'[q].pc \notin Ended /\ run'[s].pc \notin Ended => q = s
                    /\ \A q \in Runs : MountsOf(q)'
  BY DEF MountInv, Ended
<1>1. untidy \cap {"overlap", "leftover", "refused"} = {}
  OBVIOUS
<1>2. MountsOf(r)'
  BY <1>1 DEF MountInv
<1>3. \A q \in Runs : q # r => run[q].pc \in Ended /\ run'[q].pc \in Ended
  BY <1>1, GoesFacts DEF MountInv
<1>4. ASSUME NEW q \in Runs, q # r PROVE MountsOf(q)'
  <2>1. run'[q].pc \in {"idle", "done"}
    BY <1>3, <1>4 DEF Ended
  <2> QED
    BY <2>1 DEF MountsOf
<1> QED
  BY <1>2, <1>3, <1>4

LEMMA DockerTypeStep ==
    ASSUME DockerType, DockerNext PROVE DockerType'
<1> USE DEF Before, After
<1>1. ASSUME NEW r \in Runs, Run(r) PROVE DockerType'
  BY <1>1 DEF Run, DockerType
<1>2. ASSUME NEW r \in Runs, NewWorkSpace(r) \/ DeleteWorkSpace(r) \/ Wait(r) \/ Kill(r)
      PROVE  DockerType'
  <2>1. PICK p \in Before \cup {"wait", "done"} \cup After : Goes(r, p)
    BY <1>2 DEF NewWorkSpace, DeleteWorkSpace, Wait, Kill, BreaksOff, CreateWriteLayer,
      CreateMountPoint, MountVolume, UmountVolume, Umount, RemoveMnt,
      DeleteWriteLayer
  <2>2. box' = box /\ spoiled' \subseteq Runs
    BY <1>2 DEF DockerType, NewWorkSpace, DeleteWorkSpace, Wait, Kill, CreateWriteLayer,
      CreateMountPoint, MountVolume, UmountVolume, Umount, RemoveMnt,
      DeleteWriteLayer
  <2> QED
    BY <2>1, <2>2, GoesFacts DEF DockerType
<1>3. ASSUME NEW r \in Runs, Start(r) PROVE DockerType'
  <2>1. PICK p \in Before \cup {"wait", "done"} \cup After : Goes(r, p)
    BY <1>3 DEF Start, BreaksOff
  <2>2. box' \in [Runs -> {"none", "alive", "gone"}] /\ spoiled' = spoiled
    BY <1>3 DEF Start, DockerType
  <2> QED
    BY <2>1, <2>2, GoesFacts DEF DockerType
<1>4. ASSUME NEW r \in Runs, ContainerExits(r) PROVE DockerType'
  BY <1>4 DEF ContainerExits, DockerType
<1>5. ASSUME BeginCommit \/ EndCommit PROVE DockerType'
  BY <1>5 DEF BeginCommit, EndCommit, DockerType
<1> QED
  BY <1>1, <1>2, <1>3, <1>4, <1>5 DEF DockerNext

LEMMA MountStep ==
    ASSUME DockerType, MountInv, DockerNext PROVE MountInv'
<1> DEFINE PCs == Before \cup {"wait", "done"} \cup After
<1>0. \A p \in {"write_layer", "mount_point", "volume", "start", "wait", "umount_volume", "umount",
                "remove_mnt", "remove_write_layer", "done"} : p \in PCs /\ (p \in Ended <=> p = "done")
  BY DEF Before, After, Ended
<1> HIDE DEF PCs
<1>1. ASSUME NEW r \in Runs, Run(r) PROVE MountInv'
  <2> SUFFICES ASSUME untidy' \cap {"overlap", "leftover", "refused"} = {} PROVE MountInv'
    BY DEF MountInv
  <2>1. untidy \cap {"overlap", "leftover", "refused"} = {} /\ levels = Bare /\ \A q \in Runs : run[q].pc \in Ended
    BY <1>1 DEF Run, Bare
  <2>2. /\ run'[r].pc = "write_layer" /\ \A q \in Runs : q # r => run'[q] = run[q]
        /\ levels' = levels
    BY <1>1 DEF Run, DockerType
  <2>3. \A q \in Runs : MountsOf(q)'
    BY <2>1, <2>2 DEF MountsOf, Ended, Bare
  <2> QED
    BY <2>1, <2>2, <2>3 DEF MountInv
<1>2. ASSUME NEW r \in Runs, CreateWriteLayer(r) PROVE MountInv'
  <2>1. MountsOf(r) => MountsOf(r)'
    BY <1>0, <1>2, GoesFacts DEF CreateWriteLayer, MountsOf, Bare, PCs
  <2> QED
    BY <1>0, <1>2, <2>1, OneAtWork DEF CreateWriteLayer, PCs
<1>3. ASSUME NEW r \in Runs, CreateMountPoint(r) PROVE MountInv'
  <2>1. PICK p \in {"volume", "start"} : Goes(r, p) /\ (p = "volume" => run[r].volume # NoVolume)
    BY <1>3 DEF CreateMountPoint
  <2>2. run'[r].pc \in {"volume", "start"} /\ (run'[r].pc = "volume" => run'[r].volume # NoVolume)
    BY <1>0, <2>1, GoesFacts DEF PCs
  <2>3. MountsOf(r) => levels' \in {Bare, <<{}, {}>>}
    BY <1>3, LevelFacts DEF CreateMountPoint, MountsOf
  <2>4. MountsOf(r) => MountsOf(r)'
    BY <2>2, <2>3 DEF MountsOf, Bare
  <2> QED
    BY <1>0, <1>3, <2>1, <2>4, OneAtWork DEF CreateMountPoint, PCs
<1>4. ASSUME NEW r \in Runs, MountVolume(r) PROVE MountInv'
  <2>1. run'[r].pc = "start" /\ run'[r].volume = run[r].volume
    BY <1>0, <1>4, GoesFacts DEF MountVolume, PCs
  <2>2. ASSUME MountsOf(r) PROVE MountsOf(r)'
    <3>1. run[r].volume # NoVolume /\ levels \in {Bare, <<{}, {}>>}
      BY <1>4, <2>2 DEF MountVolume, MountsOf
    <3>2. levels' = levels \/ levels' = [levels EXCEPT ![Len(levels)] = levels[Len(levels)] \cup {r}]
      BY <1>4 DEF MountVolume, SetTop, Top
    <3>3. CASE levels = Bare
      <4>1. levels' = Bare \/ levels' = <<{r}>>
        BY <3>2, <3>3, LevelFacts
      <4> QED
        BY <2>1, <3>1, <4>1 DEF MountsOf, Bare
    <3>4. CASE levels = <<{}, {}>>
      <4>1. levels' = <<{}, {}>> \/ levels' = <<{}, {r}>>
        BY <3>2, <3>4, LevelFacts
      <4> QED
        BY <2>1, <3>1, <4>1 DEF MountsOf, Bare
    <3> QED
      BY <3>1, <3>3, <3>4
  <2> QED
    BY <1>0, <1>4, <2>2, OneAtWork DEF MountVolume, PCs
<1>5. ASSUME NEW r \in Runs, Start(r) PROVE MountInv'
  <2>1. PICK p \in {"wait", "done"} : Goes(r, p)
    BY <1>5 DEF Start, BreaksOff
  <2>2. run'[r].pc \in {"wait", "done"} /\ run'[r].volume = run[r].volume /\ levels' = levels
    BY <1>0, <1>5, <2>1, GoesFacts DEF PCs, Start
  <2>3. MountsOf(r) => MountsOf(r)'
    BY <1>5, <2>2 DEF MountsOf, Start, Bare
  <2> QED
    BY <1>0, <1>5, <2>1, <2>3, OneAtWork DEF Start, BreaksOff, PCs
<1>6. ASSUME NEW r \in Runs, Wait(r) PROVE MountInv'
  <2>1. PICK p \in {"umount", "umount_volume"} :
          Goes(r, p) /\ (p = "umount" => run[r].volume = NoVolume)
    BY <1>6 DEF Wait
  <2>2. /\ run'[r].pc \in {"umount", "umount_volume"} /\ (run'[r].pc = "umount" => run[r].volume = NoVolume)
        /\ run'[r].volume = run[r].volume /\ levels' = levels
    BY <1>0, <1>6, <2>1, GoesFacts DEF PCs, Wait
  <2>3. MountsOf(r) => MountsOf(r)'
    BY <1>6, <2>2 DEF MountsOf, Wait, Bare
  <2> QED
    BY <1>0, <1>6, <2>1, <2>3, OneAtWork DEF Wait, PCs
<1>7. ASSUME NEW r \in Runs, UmountVolume(r) PROVE MountInv'
  <2>1. run'[r].pc = "umount"
    BY <1>0, <1>7, GoesFacts DEF UmountVolume, PCs
  <2>2. ASSUME MountsOf(r), untidy' \cap {"overlap", "leftover", "refused"} = {} PROVE MountsOf(r)'
    <3> DEFINE n == Len(levels)
               T == levels[n]
    <3>1. \/ \E q \in T : levels' = [levels EXCEPT ![n] = T \ {q}]
          \/ levels' = levels /\ \A q \in T : run[q].volume # run[r].volume
      BY <1>7, <2>2 DEF UmountVolume, Refused, SetTop, Top
    <3>2. levels \in {Bare, <<{}, {}>>, <<{r}>>, <<{}, {r}>>}
      BY <1>7, <2>2 DEF UmountVolume, MountsOf
    <3>3. levels' \in {Bare, <<{}, {}>>}
      <4>1. CASE levels = Bare
        <5>1. T = {}
          BY <4>1, LevelFacts
        <5> QED
          BY <3>1, <4>1, <5>1
      <4>2. CASE levels = <<{}, {}>>
        <5>1. T = {}
          BY <4>2, LevelFacts
        <5> QED
          BY <3>1, <4>2, <5>1
      <4>3. CASE levels = <<{r}>>
        <5>1. T = {r} /\ n = 1
          BY <4>3, LevelFacts
        <5>2. levels' = [levels EXCEPT ![1] = {r} \ {r}]
          BY <3>1, <5>1
        <5> QED
          BY <4>3, <5>2, LevelFacts
      <4>4. CASE levels = <<{}, {r}>>
        <5>1. T = {r} /\ n = 2
          BY <4>4, LevelFacts
        <5>2. levels' = [levels EXCEPT ![2] = {r} \ {r}]
          BY <3>1, <5>1
        <5> QED
          BY <4>4, <5>2, LevelFacts
      <4> QED
        BY <3>2, <4>1, <4>2, <4>3, <4>4
    <3> QED
      BY <2>1, <3>3 DEF MountsOf, Bare
  <2>3. Goes(r, "umount") /\ untidy \subseteq untidy' /\ run[r].pc = "umount_volume"
    BY <1>7 DEF UmountVolume, Refused
  <2> QED
    BY <1>0, <2>2, <2>3, OneAtWork DEF PCs
<1>8. ASSUME NEW r \in Runs, Umount(r) PROVE MountInv'
  <2>1. run'[r].pc = "remove_mnt"
    BY <1>0, <1>8, GoesFacts DEF Umount, PCs
  <2>2. ASSUME MountsOf(r), untidy' \cap {"overlap", "leftover", "refused"} = {} PROVE MountsOf(r)'
    <3>0. ~Refused
      BY <2>2 DEF Refused
    <3>2. CASE levels = Bare
      BY <1>8, <2>1, <3>2, LevelFacts DEF Umount, MountsOf, Bare
    <3>3. CASE levels = <<{}, {}>>
      <4>0. Len(levels) = 2 /\ levels[2] = {}
        BY <3>3, LevelFacts
      <4>1. levels' = SubSeq(levels, 1, 2 - 1)
        BY <1>8, <3>0, <4>0 DEF Umount, Front
      <4>2. levels' = Bare
        BY <3>3, <4>1, LevelFacts
      <4> QED
        BY <2>1, <4>2 DEF MountsOf, Bare
    <3> QED
      BY <1>8, <2>2, <3>2, <3>3 DEF Umount, MountsOf
  <2>3. Goes(r, "remove_mnt") /\ untidy \subseteq untidy' /\ run[r].pc = "umount"
    BY <1>8 DEF Umount, Refused
  <2> QED
    BY <1>0, <2>2, <2>3, OneAtWork DEF PCs
<1>9. ASSUME NEW r \in Runs, RemoveMnt(r) PROVE MountInv'
  <2>1. run'[r].pc = "remove_write_layer" /\ levels' = levels
    BY <1>0, <1>9, GoesFacts DEF RemoveMnt, PCs
  <2>2. ASSUME MountsOf(r) PROVE MountsOf(r)'
    BY <1>9, <2>1, <2>2 DEF RemoveMnt, MountsOf, Bare
  <2>3. Goes(r, "remove_write_layer") /\ untidy \subseteq untidy' /\ run[r].pc = "remove_mnt"
    BY <1>9 DEF RemoveMnt, Refused
  <2> QED
    BY <1>0, <2>2, <2>3, OneAtWork DEF PCs
<1>10. ASSUME NEW r \in Runs, DeleteWriteLayer(r) \/ Kill(r) PROVE MountInv'
  <2>1. Goes(r, "done") /\ untidy \subseteq untidy' /\ levels' = levels
    BY <1>10 DEF DeleteWriteLayer, Kill, BreaksOff, Refused
  <2>2. run[r].pc \notin Ended
    BY <1>10 DEF DeleteWriteLayer, Kill, BreaksOff, Ended
  <2>3. run'[r].pc = "done"
    BY <1>0, <2>1, GoesFacts DEF PCs
  <2>4. MountsOf(r)'
    BY <2>3 DEF MountsOf
  <2> QED
    BY <1>0, <2>1, <2>2, <2>4, OneAtWork DEF PCs
<1>11. ASSUME UNCHANGED <<run, levels, untidy>> PROVE MountInv'
  BY <1>11 DEF MountInv, MountsOf, Bare
<1>12. ASSUME BeginCommit \/ EndCommit \/ \E r \in Runs : ContainerExits(r)
       PROVE  UNCHANGED <<run, levels, untidy>>
  BY <1>12 DEF BeginCommit, EndCommit, ContainerExits
<1> QED
  BY <1>1, <1>2, <1>3, <1>4, <1>5, <1>6, <1>7, <1>8, <1>9, <1>10, <1>11, <1>12
  DEF DockerNext, NewWorkSpace, DeleteWorkSpace

LEMMA BoxStep ==
    ASSUME DockerType, BoxInv, DockerNext PROVE BoxInv'
<1> DEFINE PCs == Before \cup {"wait", "done"} \cup After
<1>1. ASSUME NEW r \in Runs, Run(r) PROVE BoxInv'
  <2>1. /\ run'[r].pc = "write_layer" /\ run[r].pc = "idle" /\ \A q \in Runs : q # r => run'[q] = run[q]
        /\ UNCHANGED <<box, spoiled>>
    BY <1>1 DEF Run, DockerType
  <2> QED
    BY <2>1 DEF BoxInv, Before, After
<1>2. ASSUME NEW r \in Runs, NEW p \in PCs, Goes(r, p), p \in Before => run[r].pc \in Before,
             run[r].tty /\ p \in After => box'[r] # "alive",
             \A q \in Runs : q # r => box'[q] = box[q], run'[r].pc \in Before => box'[r] = box[r],
             \A q \in Runs : q \in spoiled' /\ q \notin spoiled => box'[q] = "alive"
      PROVE  BoxInv'
  <2>1. /\ run'[r].pc = p /\ \A q \in Runs : q # r => run'[q] = run[q]
        /\ \A q \in Runs : run'[q].tty = run[q].tty
    BY <1>2, GoesFacts
  <2>2. ASSUME NEW q \in Runs, run'[q].pc \in Before PROVE box'[q] = "none" /\ q \notin spoiled'
    <3>1. run[q].pc \in Before /\ box'[q] = box[q]
      BY <1>2, <2>1, <2>2
    <3> QED
      BY <1>2, <3>1 DEF BoxInv
  <2>3. ASSUME NEW q \in Runs, run'[q].tty, run'[q].pc \in After PROVE box'[q] # "alive"
    BY <1>2, <2>1, <2>3 DEF BoxInv
  <2> QED
    BY <2>2, <2>3 DEF BoxInv
<1> USE DEF Before, After
<1>3. ASSUME NEW r \in Runs, NewWorkSpace(r) PROVE BoxInv'
  <2>1. PICK p \in {"mount_point", "volume", "start"} : Goes(r, p)
    BY <1>3 DEF NewWorkSpace, CreateWriteLayer, CreateMountPoint, MountVolume
  <2>2. run[r].pc \in Before /\ box' = box /\ spoiled' = spoiled
    BY <1>3 DEF NewWorkSpace, CreateWriteLayer, CreateMountPoint, MountVolume
  <2> QED
    BY <1>2, <2>1, <2>2
<1>4. ASSUME NEW r \in Runs, Start(r) PROVE BoxInv'
  <2>1. PICK p \in {"wait", "done"} : Goes(r, p)
    BY <1>4 DEF Start, BreaksOff
  <2>2. (\A q \in Runs : q # r => box'[q] = box[q]) /\ spoiled' = spoiled
    BY <1>4 DEF Start, DockerType
  <2>3. run'[r].pc \notin Before
    BY <2>1, GoesFacts
  <2> QED
    BY <1>2, <2>1, <2>2, <2>3
<1>5. ASSUME NEW r \in Runs, Wait(r) PROVE BoxInv'
  <2>1. PICK p \in {"umount", "umount_volume"} : Goes(r, p)
    BY <1>5 DEF Wait
  <2>2. (run[r].tty => box[r] = "gone") /\ box' = box /\ spoiled' = spoiled
    BY <1>5 DEF Wait
  <2> QED
    BY <1>2, <2>1, <2>2
<1>6. ASSUME NEW r \in Runs, DeleteWorkSpace(r) PROVE BoxInv'
  <2>1. PICK p \in {"umount", "remove_mnt", "remove_write_layer", "done"} : Goes(r, p)
    BY <1>6 DEF DeleteWorkSpace, UmountVolume, Umount, RemoveMnt, DeleteWriteLayer
  <2>2. /\ run[r].pc \in After /\ box' = box
        /\ \A q \in Runs : q \in spoiled' /\ q \notin spoiled => box[q] = "alive"
    BY <1>6 DEF DeleteWorkSpace, UmountVolume, Umount, RemoveMnt, DeleteWriteLayer
  <2> QED
    BY <1>2, <2>1, <2>2 DEF BoxInv
<1>7. ASSUME NEW r \in Runs, Kill(r) PROVE BoxInv'
  BY <1>2, <1>7 DEF Kill, BreaksOff
<1>8. ASSUME NEW r \in Runs, ContainerExits(r) PROVE BoxInv'
  BY <1>8 DEF ContainerExits, BoxInv, DockerType
<1>9. ASSUME BeginCommit \/ EndCommit PROVE BoxInv'
  BY <1>9 DEF BeginCommit, EndCommit, BoxInv
<1> QED
  BY <1>1, <1>3, <1>4, <1>5, <1>6, <1>7, <1>8, <1>9 DEF DockerNext

LEMMA TidyStep ==
    ASSUME DockerType, MountInv, BoxInv, TidyInv, DockerNext PROVE TidyInv'
<1> DEFINE PCs == Before \cup {"wait", "done"} \cup After
<1> SUFFICES ASSUME untidy' = {} PROVE TidyInv'
  BY DEF TidyInv
<1>0. untidy = {} /\ ~ \E r \in Runs : Kill(r)
  BY DEF DockerNext, NewWorkSpace, DeleteWorkSpace, Run, CreateWriteLayer,
    CreateMountPoint, MountVolume, Start, Wait, UmountVolume, Umount,
    RemoveMnt, DeleteWriteLayer, ContainerExits, Kill, BreaksOff, Refused, BeginCommit, EndCommit
<1>0a. MountInv /\ untidy \cap {"overlap", "leftover", "refused"} = {}
  BY <1>0
\* A run that goes on and does not end disturbs little.
<1>1. ASSUME NEW r \in Runs, NEW p \in PCs \ {"idle", "done"}, Goes(r, p),
             spoiled' = spoiled, p = "remove_write_layer" => ~mnt',
             \A q \in Runs : run[q].pc = "done" => box'[q] = box[q],
             run[r].pc # "remove_write_layer" /\ run[r].pc \notin Ended
      PROVE  TidyInv'
  <2>1. /\ run'[r].pc = p /\ \A q \in Runs : q # r => run'[q] = run[q]
        /\ \A q \in Runs : run'[q].tty = run[q].tty
    BY <1>1, GoesFacts
  <2>2. \A q \in Runs : q # r => run[q].pc \in Ended
    BY <1>0a, <1>1 DEF MountInv
  <2>3. run'[r].pc \notin Ended
    BY <1>1, <2>1 DEF Ended
  <2>4. ASSUME NEW q \in Runs, run'[q].pc = "remove_write_layer" PROVE ~mnt'
    BY <1>1, <2>1, <2>2, <2>4 DEF Ended
  <2>5. ASSUME NEW q \in Runs, run'[q].tty, run'[q].pc = "done" PROVE box'[q] # "alive"
    BY <1>0, <1>1, <2>1, <2>3, <2>5 DEF TidyInv, Ended
  <2>6. ASSUME NEW q \in spoiled' PROVE ~run'[q].tty
    BY <1>0, <1>1, <2>1, <2>6 DEF TidyInv, DockerType
  <2> QED
    BY <2>3, <2>4, <2>5, <2>6 DEF TidyInv
<1>2. ASSUME NEW r \in Runs, Run(r) PROVE TidyInv'
  <2>1. /\ run'[r].pc = "write_layer" /\ run[r].pc = "idle" /\ \A q \in Runs : q # r => run'[q] = run[q]
        /\ UNCHANGED <<box, spoiled, mnt>>
    BY <1>2 DEF Run, DockerType
  <2>2. r \notin spoiled
    BY <2>1 DEF BoxInv, Before
  <2>3. spoiled \subseteq Runs
    BY DEF DockerType
  <2> QED
    BY <1>0, <2>1, <2>2, <2>3 DEF TidyInv, Ended
<1> USE DEF Before, After
<1>3. ASSUME NEW r \in Runs, NewWorkSpace(r) PROVE TidyInv'
  <2>1. PICK p \in {"mount_point", "volume", "start"} : Goes(r, p)
    BY <1>3 DEF NewWorkSpace, CreateWriteLayer, CreateMountPoint, MountVolume
  <2>2. /\ run[r].pc \notin Ended /\ run[r].pc # "remove_write_layer"
        /\ box' = box /\ spoiled' = spoiled
    BY <1>3 DEF NewWorkSpace, CreateWriteLayer, CreateMountPoint, MountVolume, Ended
  <2> QED
    BY <1>1, <2>1, <2>2
<1>4. ASSUME NEW r \in Runs, Start(r) PROVE TidyInv'
  <2>1. Goes(r, "wait") /\ spoiled' = spoiled /\ run[r].pc = "start"
    BY <1>4 DEF Start, BreaksOff
  <2>2. \A q \in Runs : run[q].pc = "done" => box'[q] = box[q]
    BY <1>4, <2>1 DEF Start, DockerType
  <2> QED
    BY <1>1, <2>1, <2>2 DEF Ended
<1>5. ASSUME NEW r \in Runs, Wait(r) PROVE TidyInv'
  <2>1. PICK p \in {"umount", "umount_volume"} : Goes(r, p)
    BY <1>5 DEF Wait
  <2>2. run[r].pc = "wait" /\ box' = box /\ spoiled' = spoiled
    BY <1>5 DEF Wait
  <2> QED
    BY <1>1, <2>1, <2>2 DEF Ended
<1>6. ASSUME NEW r \in Runs, UmountVolume(r) \/ Umount(r) PROVE TidyInv'
  <2>1. PICK p \in {"umount", "remove_mnt"} : Goes(r, p)
    BY <1>6 DEF UmountVolume, Umount
  <2>2. run[r].pc \in {"umount", "umount_volume"} /\ box' = box /\ spoiled' = spoiled
    BY <1>6 DEF UmountVolume, Umount
  <2> QED
    BY <1>1, <2>1, <2>2 DEF Ended
<1>7. ASSUME NEW r \in Runs, RemoveMnt(r) PROVE TidyInv'
  <2>1. /\ Goes(r, "remove_write_layer") /\ run[r].pc = "remove_mnt" /\ box' = box /\ spoiled' = spoiled
        /\ (levels = Bare => ~mnt')
    BY <1>7 DEF RemoveMnt, Refused, Bare
  <2>2. levels = Bare
    BY <1>0a, <2>1 DEF MountInv, MountsOf
  <2> QED
    BY <1>1, <2>1, <2>2 DEF Ended
<1>8. ASSUME NEW r \in Runs, DeleteWriteLayer(r) PROVE TidyInv'
  <2>1. /\ Goes(r, "done") /\ run[r].pc = "remove_write_layer" /\ UNCHANGED <<box, levels, mnt>>
        /\ ~writeLayer' /\ spoiled' = spoiled \cup {q \in Runs : box[q] = "alive"}
    BY <1>8 DEF DeleteWriteLayer, Refused
  <2>2. /\ run'[r].pc = "done" /\ \A q \in Runs : q # r => run'[q] = run[q]
        /\ \A q \in Runs : run'[q].tty = run[q].tty
    BY <2>1, GoesFacts
  <2>3. levels = Bare /\ ~mnt
    BY <1>0, <1>0a, <2>1 DEF MountInv, MountsOf, TidyInv
  <2>4. levels' = Bare' /\ ~mnt'
    BY <2>1, <2>3 DEF Bare
  <2>5. \A q \in Runs : q # r => run[q].pc \in {"idle", "done"}
    BY <1>0a, <2>1 DEF MountInv, Ended
  <2>6. ASSUME NEW q \in Runs, run[q].tty PROVE box[q] # "alive"
    <3>1. run[q].pc \in {"idle", "done", "remove_write_layer"}
      BY <2>1, <2>5
    <3> QED
      BY <1>0, <2>6, <3>1 DEF TidyInv, BoxInv
  <2>7. ASSUME NEW q \in Runs PROVE run'[q].pc # "remove_write_layer"
    BY <2>2, <2>5
  <2>8. ASSUME NEW q \in spoiled' PROVE ~run'[q].tty
    BY <1>0, <2>1, <2>2, <2>6, <2>8 DEF TidyInv, DockerType
  <2>9. ASSUME NEW q \in Runs, run'[q].tty PROVE box'[q] # "alive"
    BY <2>1, <2>2, <2>6, <2>9
  <2> QED
    BY <2>1, <2>4, <2>7, <2>8, <2>9 DEF TidyInv
<1>9. ASSUME NEW r \in Runs, ContainerExits(r) PROVE TidyInv'
  <2>1. UNCHANGED <<run, levels, mnt, writeLayer, spoiled>> /\ \A q \in Runs : box'[q] = "alive" => box[q] = "alive"
    BY <1>9 DEF ContainerExits, DockerType
  <2> QED
    BY <1>0, <2>1 DEF TidyInv, Bare
<1>10. ASSUME BeginCommit \/ EndCommit PROVE TidyInv'
  BY <1>0, <1>10 DEF BeginCommit, EndCommit, TidyInv, Bare
<1> QED
  BY <1>0, <1>2, <1>3, <1>4, <1>5, <1>6, <1>7, <1>8, <1>9, <1>10 DEF DockerNext, DeleteWorkSpace

\* A step of a run that is at work keeps what is left in view, when it mounts no
\* volume but its own, and its own only where it will be taken down.
LEMMA LeftOne ==
    ASSUME DockerType, LeftInv, NEW r \in Runs, NEW p \in Before \cup {"wait", "done"} \cup After,
           Goes(r, p), run[r].pc \notin Ended, untidy \subseteq untidy', left \subseteq left',
           levels' \in Seq(SUBSET Runs), levels' # <<>>, p = "volume" => run[r].volume # NoVolume,
           \A k \in 1..Len(levels') : \A q \in levels'[k] :
              q # r => \E j \in 1..Len(levels) : q \in levels[j],
           \A k \in 1..Len(levels') : r \in levels'[k] =>
              /\ p \in Mounted \cup After \cup {"done"} /\ run[r].volume # NoVolume
              /\ "overlap" \notin untidy => run[r].volume \in left' \/ (p \in Mounted /\ k = Len(levels')),
           "overlap" \notin untidy => lost' \subseteq left'
    PROVE  LeftInv'
<1>1. /\ run'[r].pc = p /\ \A q \in Runs : q # r => run'[q] = run[q]
      /\ \A q \in Runs : run'[q].volume = run[q].volume
  BY GoesFacts
<1>2. \A k \in 1..Len(levels') : \A q \in levels'[k] : q \in Runs
  OBVIOUS
<1>3. ASSUME NEW k \in 1..Len(levels'), NEW q \in levels'[k]
      PROVE  run'[q].pc \in Mounted \cup After \cup {"done"} /\ run'[q].volume # NoVolume
  <2>1. CASE q = r
    BY <1>1, <1>3, <2>1
  <2>2. CASE q # r
    BY <1>1, <1>2, <1>3, <2>2 DEF LeftInv
  <2> QED
    BY <2>1, <2>2
<1>4. ASSUME "overlap" \notin untidy'
      PROVE  /\ lost' \subseteq left'
             /\ \A q, s \in Runs : run'[q].pc \notin Ended /\ run'[s].pc \notin Ended => q = s
             /\ \A k \in 1..Len(levels') : \A q \in levels'[k] :
                   run'[q].volume \in left' \/ (run'[q].pc \in Mounted /\ k = Len(levels'))
  <2>1. "overlap" \notin untidy
    BY <1>4
  <2>2. \A q \in Runs : q # r => run[q].pc \in Ended
    BY <2>1 DEF LeftInv
  <2>3. ASSUME NEW k \in 1..Len(levels'), NEW q \in levels'[k]
        PROVE  run'[q].volume \in left' \/ (run'[q].pc \in Mounted /\ k = Len(levels'))
    <3>1. CASE q = r
      BY <1>1, <2>1, <2>3, <3>1
    <3>2. CASE q # r
      <4>1. PICK j \in 1..Len(levels) : q \in levels[j]
        BY <2>3, <3>2
      <4>2. q \in Runs /\ run[q].pc \notin Mounted
        BY <1>2, <2>2, <2>3, <3>2 DEF Ended, Mounted
      <4>3. run[q].volume \in left
        BY <2>1, <4>1, <4>2 DEF LeftInv
      <4>4. run'[q].volume = run[q].volume
        BY <1>1, <4>2
      <4> QED
        BY <4>3, <4>4
    <3> QED
      BY <3>1, <3>2
  <2>4. ASSUME NEW q \in Runs, NEW s \in Runs, run'[q].pc \notin Ended, run'[s].pc \notin Ended
        PROVE  q = s
    BY <1>1, <2>2, <2>4
  <2> QED
    BY <2>1, <2>3, <2>4
<1>5. \A q \in Runs : run'[q].pc = "volume" => run'[q].volume # NoVolume
  BY <1>1 DEF LeftInv
<1> QED
  BY <1>3, <1>4, <1>5 DEF LeftInv

\* Where r's volume is, seen from r.
LEMMA OwnMount ==
    ASSUME LeftInv, NEW r \in Runs, "overlap" \notin untidy, NEW k \in 1..Len(levels), r \in levels[k],
           run[r].volume \notin left
    PROVE  run[r].pc \in Mounted /\ r \in Top
<1>1. run[r].pc \in Mounted /\ k = Len(levels)
  BY DEF LeftInv
<1> QED
  BY <1>1 DEF Top

LEMMA LeftStep ==
    ASSUME DockerType, LeftInv, DockerNext PROVE LeftInv'
<1> DEFINE PCs == Before \cup {"wait", "done"} \cup After
<1>0. /\ \A p \in {"write_layer", "mount_point", "volume", "start", "wait", "umount_volume", "umount",
                   "remove_mnt", "remove_write_layer", "done"} : p \in PCs /\ (p \in Ended <=> p = "done")
      /\ \A p \in {"write_layer", "mount_point", "volume"} : p \notin Mounted \cup After \cup {"done"}
      /\ \A p \in {"start", "wait", "umount_volume"} : p \in Mounted
      /\ \A p \in {"umount", "remove_mnt", "remove_write_layer", "done"} :
            p \in After \cup {"done"} /\ p \notin Mounted
  BY DEF Before, After, Ended, Mounted
<1>0a. /\ levels \in Seq(SUBSET Runs) /\ levels # <<>> /\ Len(levels) \in 1..Len(levels)
       /\ Top \subseteq Runs /\ \A k \in 1..Len(levels) : \A q \in levels[k] : q \in Runs
  <2>1. levels \in Seq(SUBSET Runs) /\ levels # <<>>
    BY DEF LeftInv
  <2> QED
    BY <2>1 DEF Top
<1> HIDE DEF PCs
\* A step that leaves the mounts alone.
<1>1. ASSUME NEW r \in Runs, NEW p \in PCs, Goes(r, p), run[r].pc \notin Ended,
             untidy \subseteq untidy', left \subseteq left', levels' = levels,
             run[r].pc \in Mounted \cup After => p \in Mounted \cup After \cup {"done"},
             p = "volume" => run[r].volume # NoVolume,
             run[r].pc \in Mounted /\ r \in Top /\ run[r].volume # NoVolume =>
                p \in Mounted \/ run[r].volume \in left',
             "overlap" \notin untidy => lost' \subseteq left'
      PROVE  LeftInv'
  <2>1. ASSUME NEW k \in 1..Len(levels), r \in levels[k]
        PROVE  /\ p \in Mounted \cup After \cup {"done"} /\ run[r].volume # NoVolume
               /\ "overlap" \notin untidy => run[r].volume \in left' \/ (p \in Mounted /\ k = Len(levels))
    <3>1. run[r].pc \in Mounted \cup After /\ run[r].volume # NoVolume
      BY <1>1, <2>1 DEF LeftInv, Ended
    <3>2. ASSUME "overlap" \notin untidy, run[r].volume \notin left'
          PROVE  p \in Mounted /\ k = Len(levels)
      <4>1. run[r].volume \notin left
        BY <1>1, <3>2
      <4>2. run[r].pc \in Mounted /\ r \in Top /\ k = Len(levels)
        BY <2>1, <3>2, <4>1, OwnMount DEF LeftInv
      <4> QED
        BY <1>1, <3>1, <3>2, <4>2
    <3>3. p \in Mounted \cup After \cup {"done"}
      BY <1>1, <3>1
    <3> QED
      BY <3>1, <3>2, <3>3
  <2>2. p \in Before \cup {"wait", "done"} \cup After
    BY <1>1 DEF PCs
  <2> QED
    BY <1>0a, <1>1, <2>1, <2>2, LeftOne
<1>2. ASSUME NEW r \in Runs, Run(r) PROVE LeftInv'
  <2>1. /\ run'[r].pc = "write_layer" /\ run[r].pc = "idle" /\ \A q \in Runs : q # r => run'[q] = run[q]
        /\ UNCHANGED <<levels, left, lost>> /\ untidy \subseteq untidy'
    BY <1>2 DEF Run, DockerType
  <2>2. "overlap" \notin untidy' => \A q \in Runs : run[q].pc \in Ended
    BY <1>2 DEF Run
  <2>3. \A k \in 1..Len(levels) : r \notin levels[k]
    BY <2>1 DEF LeftInv, Mounted, After
  <2>4. \A k \in 1..Len(levels) : \A q \in levels[k] : q \in Runs /\ run'[q] = run[q]
    BY <1>0a, <2>1, <2>3
  <2>5. ASSUME "overlap" \notin untidy', NEW q \in Runs, NEW s \in Runs,
               run'[q].pc \notin Ended, run'[s].pc \notin Ended
        PROVE  q = s
    BY <2>1, <2>2, <2>5
  <2> QED
    BY <2>1, <2>4, <2>5 DEF LeftInv
<1>3. ASSUME NEW r \in Runs, CreateWriteLayer(r) PROVE LeftInv'
  <2>1. /\ Goes(r, "mount_point") /\ run[r].pc = "write_layer" /\ levels' = levels
        /\ UNCHANGED <<left, lost, untidy>>
    BY <1>3 DEF CreateWriteLayer
  <2> QED
    BY <1>0, <1>1, <2>1 DEF LeftInv, Mounted, After
<1>4. ASSUME NEW r \in Runs, CreateMountPoint(r) PROVE LeftInv'
  <2>1. PICK p \in {"volume", "start"} : Goes(r, p) /\ (p = "volume" => run[r].volume # NoVolume)
    BY <1>4 DEF CreateMountPoint
  <2>2. /\ run[r].pc = "mount_point" /\ run[r].pc \notin Mounted \cup After \cup {"done"}
        /\ UNCHANGED <<left, lost, untidy>>
        /\ levels' = Append(levels, {}) \/ levels' = levels
    BY <1>0, <1>4 DEF CreateMountPoint
  <2>3. {} \in SUBSET Runs
    OBVIOUS
  <2>4. /\ levels' \in Seq(SUBSET Runs) /\ levels' # <<>>
        /\ \A k \in 1..Len(levels') : levels'[k] = {} \/ (k \in 1..Len(levels) /\ levels'[k] = levels[k])
    <3>1. CASE levels' = levels
      BY <1>0a, <3>1
    <3>2. CASE levels' = Append(levels, {})
      <4> DEFINE n == Append(levels, {})
      <4>1. /\ n \in Seq(SUBSET Runs) /\ n # <<>> /\ Len(n) = Len(levels) + 1 /\ n[Len(levels) + 1] = {}
            /\ \A k \in 1..Len(levels) : n[k] = levels[k]
        BY <1>0a, <2>3, AppendProperties
      <4>2. \A k \in 1..(Len(levels) + 1) : k \in 1..Len(levels) \/ k = Len(levels) + 1
        BY <1>0a
      <4> HIDE DEF n
      <4>3. levels' = n
        BY <3>2 DEF n
      <4> QED
        BY <4>1, <4>2, <4>3
    <3> QED
      BY <2>2, <3>1, <3>2
  <2>5. \A k \in 1..Len(levels') : r \notin levels'[k]
    BY <2>2, <2>4 DEF LeftInv
  <2>6. \A k \in 1..Len(levels') : \A q \in levels'[k] : \E j \in 1..Len(levels) : q \in levels[j]
    BY <2>4
  <2>7. p \in Before \cup {"wait", "done"} \cup After /\ run[r].pc \notin Ended
    BY <1>0, <2>1, <2>2 DEF PCs
  <2>8. "overlap" \notin untidy => lost' \subseteq left'
    BY <2>2 DEF LeftInv
  <2> QED
    BY <2>1, <2>2, <2>4, <2>5, <2>6, <2>7, <2>8, LeftOne
<1>5. ASSUME NEW r \in Runs, MountVolume(r) PROVE LeftInv'
  <2>1. /\ Goes(r, "start") /\ run[r].pc = "volume" /\ run[r].volume # NoVolume
        /\ UNCHANGED <<left, lost, untidy>>
        /\ levels' = levels \/ levels' = [levels EXCEPT ![Len(levels)] = Top \cup {r}]
    BY <1>5 DEF MountVolume, SetTop, LeftInv
  <2>2. CASE levels' = levels
    BY <1>0, <1>1, <2>1, <2>2 DEF LeftInv, Mounted, After
  <2>3. CASE levels' = [levels EXCEPT ![Len(levels)] = Top \cup {r}]
    <3>1. Top \cup {r} \in SUBSET Runs
      BY <1>0a
    <3>2. /\ levels' \in Seq(SUBSET Runs) /\ Len(levels') = Len(levels) /\ levels' # <<>>
          /\ \A k \in 1..Len(levels) :
                levels'[k] = levels[k] \/ (k = Len(levels) /\ levels'[k] = levels[k] \cup {r})
      <4> DEFINE s == Top \cup {r}
                 n == [levels EXCEPT ![Len(levels)] = s]
      <4>1. s \in SUBSET Runs
        BY <3>1
      <4>2. s = levels[Len(levels)] \cup {r}
        BY DEF Top
      <4>3. levels' = n
        BY <2>3
      <4> HIDE DEF s
      <4>4. /\ n \in Seq(SUBSET Runs) /\ Len(n) = Len(levels)
            /\ \A k \in 1..Len(levels) : n[k] = IF k = Len(levels) THEN s ELSE levels[k]
        BY <1>0a, <4>1, ExceptSeq
      <4> HIDE DEF n
      <4>5. n # <<>>
        BY <1>0a, <4>4
      <4> QED
        BY <4>2, <4>3, <4>4, <4>5
    <3>3. \A k \in 1..Len(levels) : r \notin levels[k]
      BY <1>0, <2>1 DEF LeftInv
    <3>4. \A k \in 1..Len(levels') : r \in levels'[k] => k = Len(levels')
      BY <3>2, <3>3
    <3>5. \A k \in 1..Len(levels') : \A q \in levels'[k] :
             q # r => \E j \in 1..Len(levels) : q \in levels[j]
      BY <3>2
    <3>6. "start" \in Before \cup {"wait", "done"} \cup After /\ run[r].pc \notin Ended /\ "start" \in Mounted
      BY <1>0, <2>1 DEF PCs
    <3>7. "overlap" \notin untidy => lost' \subseteq left'
      BY <2>1 DEF LeftInv
    <3> QED
      BY <2>1, <3>2, <3>4, <3>5, <3>6, <3>7, LeftOne
  <2> QED
    BY <2>1, <2>2, <2>3
<1>6. ASSUME NEW r \in Runs, Start(r) \/ Kill(r) PROVE LeftInv'
  <2>1. /\ run[r].pc \notin Ended /\ levels' = levels /\ lost' = lost
        /\ \/ run[r].pc = "start" /\ Goes(r, "wait") /\ UNCHANGED <<left, untidy>>
           \/ BreaksOff(r)
    BY <1>0, <1>6 DEF Start, Kill
  <2>2. CASE run[r].pc = "start" /\ Goes(r, "wait") /\ UNCHANGED <<left, untidy>>
    BY <1>0, <1>1, <2>1, <2>2 DEF LeftInv
  <2>3. CASE BreaksOff(r)
    <3>1. /\ Goes(r, "done") /\ untidy \subseteq untidy' /\ left \subseteq left'
          /\ r \in Top => run[r].volume \in left'
      BY <2>3 DEF BreaksOff
    <3>2. "overlap" \notin untidy => lost' \subseteq left'
      BY <2>1, <3>1 DEF LeftInv
    <3>3. "done" \in PCs /\ "done" # "volume"
      BY <1>0
    <3> QED
      BY <1>1, <2>1, <3>1, <3>2, <3>3
  <2> QED
    BY <2>1, <2>2, <2>3
<1>7. ASSUME NEW r \in Runs, Wait(r) PROVE LeftInv'
  <2>1. PICK p \in {"umount", "umount_volume"} :
          Goes(r, p) /\ (p = "umount" => run[r].volume = NoVolume)
    BY <1>7 DEF Wait
  <2>2. run[r].pc = "wait" /\ levels' = levels /\ UNCHANGED <<left, lost, untidy>>
    BY <1>7 DEF Wait
  <2>3. p \in PCs /\ p # "volume" /\ p \in Mounted \cup After /\ (p \in Mounted \/ p = "umount")
    BY <1>0, <2>1
  <2>4. "overlap" \notin untidy => lost' \subseteq left'
    BY <2>2 DEF LeftInv
  <2> QED
    BY <1>0, <1>1, <2>1, <2>2, <2>3, <2>4
<1>8. ASSUME NEW r \in Runs, UmountVolume(r) PROVE LeftInv'
  <2>1. /\ Goes(r, "umount") /\ run[r].pc = "umount_volume" /\ lost' = lost
        /\ untidy \subseteq untidy' /\ left \subseteq left'
    BY <1>8 DEF UmountVolume, Refused
  <2>2. "overlap" \notin untidy => lost' \subseteq left'
    BY <2>1 DEF LeftInv
  <2>3. CASE levels' = levels /\ (r \in Top => run[r].volume \in left')
    BY <1>0, <1>1, <2>1, <2>2, <2>3
  <2>4. CASE \E q \in Top : run[q].volume = run[r].volume /\ SetTop(Top \ {q})
    <3>1. PICK q \in Top : /\ run[q].volume = run[r].volume
                           /\ levels' = [levels EXCEPT ![Len(levels)] = Top \ {q}]
      BY <2>4 DEF SetTop
    <3>2. Top \ {q} \in SUBSET Runs /\ q \in Runs
      BY <1>0a
    <3>3. /\ levels' \in Seq(SUBSET Runs) /\ Len(levels') = Len(levels) /\ levels' # <<>>
          /\ \A k \in 1..Len(levels) :
                /\ levels'[k] \subseteq levels[k]
                /\ k = Len(levels) => levels'[k] = Top \ {q}
      <4> DEFINE s == Top \ {q}
                 n == [levels EXCEPT ![Len(levels)] = s]
      <4>1. s \in SUBSET Runs
        BY <3>2
      <4>2. s \subseteq levels[Len(levels)] /\ s = Top \ {q}
        BY DEF Top
      <4>3. levels' = n
        BY <3>1
      <4> HIDE DEF s
      <4>4. /\ n \in Seq(SUBSET Runs) /\ Len(n) = Len(levels)
            /\ \A k \in 1..Len(levels) : n[k] = IF k = Len(levels) THEN s ELSE levels[k]
        BY <1>0a, <4>1, ExceptSeq
      <4> HIDE DEF n
      <4>5. n # <<>>
        BY <1>0a, <4>4
      <4> QED
        BY <4>2, <4>3, <4>4, <4>5
    <3>4. ASSUME NEW k \in 1..Len(levels'), r \in levels'[k], "overlap" \notin untidy
          PROVE  run[r].volume \in left
      <4>1. SUFFICES ASSUME run[r].volume \notin left PROVE FALSE
        OBVIOUS
      <4>2. k \in 1..Len(levels) /\ r \in levels[k]
        BY <3>3, <3>4
      <4>3. k = Len(levels) /\ r \in Top
        BY <3>4, <4>1, <4>2, OwnMount DEF LeftInv
      <4>4. q # r
        BY <3>3, <3>4, <4>2, <4>3
      <4>5. run[q].pc \in Ended
        BY <1>0, <2>1, <3>2, <3>4, <4>4 DEF LeftInv
      <4>6. run[q].volume \in left
        BY <1>0a, <3>4, <4>5, <3>1 DEF LeftInv, Top, Mounted, Ended
      <4> QED
        BY <3>1, <4>1, <4>6
    <3>5. \A k \in 1..Len(levels') : r \in levels'[k] => run[r].volume # NoVolume
      BY <3>3 DEF LeftInv
    <3>6. "umount" \in Before \cup {"wait", "done"} \cup After /\ run[r].pc \notin Ended /\ "umount" \in After
      BY <1>0, <2>1 DEF PCs, After
    <3>7. \A k \in 1..Len(levels') : \A x \in levels'[k] :
             x # r => \E j \in 1..Len(levels) : x \in levels[j]
      BY <3>3
    <3>8. \A k \in 1..Len(levels') : r \in levels'[k] =>
             /\ "umount" \in Mounted \cup After \cup {"done"} /\ run[r].volume # NoVolume
             /\ "overlap" \notin untidy =>
                   run[r].volume \in left' \/ ("umount" \in Mounted /\ k = Len(levels'))
      BY <2>1, <3>4, <3>5, <3>6
    <3>9. levels' \in Seq(SUBSET Runs) /\ levels' # <<>> /\ "umount" # "volume"
      BY <3>3
    <3> QED
      BY <2>1, <2>2, <3>6, <3>7, <3>8, <3>9, LeftOne
  <2> QED
    BY <1>8, <2>3, <2>4 DEF UmountVolume
<1>9. ASSUME NEW r \in Runs, Umount(r) PROVE LeftInv'
  <2>1. /\ Goes(r, "remove_mnt") /\ run[r].pc = "umount" /\ UNCHANGED <<left, lost>>
        /\ untidy \subseteq untidy'
        /\ levels' = levels \/ (Len(levels) > 1 /\ levels' = SubSeq(levels, 1, Len(levels) - 1))
    BY <1>9 DEF Umount, Refused, Front
  <2>1a. run[r].pc \notin Mounted
    BY <1>0, <2>1
  <2>2. "overlap" \notin untidy => lost' \subseteq left'
    BY <2>1 DEF LeftInv
  <2>3. /\ levels' \in Seq(SUBSET Runs) /\ levels' # <<>>
        /\ \A k \in 1..Len(levels') : k \in 1..Len(levels) /\ levels'[k] = levels[k]
    <3>1. CASE levels' = levels
      BY <1>0a, <3>1
    <3>2. CASE Len(levels) > 1 /\ levels' = SubSeq(levels, 1, Len(levels) - 1)
      <4> DEFINE n == SubSeq(levels, 1, Len(levels) - 1)
      <4>1. Len(levels) \in Nat /\ Len(levels) - 1 \in 1..Len(levels)
        BY <1>0a, <3>2
      <4>2. /\ n \in Seq(SUBSET Runs) /\ Len(n) = Len(levels) - 1
            /\ \A k \in 1..(Len(levels) - 1) : n[k] = levels[k]
        BY <1>0a, <4>1
      <4>3. levels' = n
        BY <3>2
      <4> HIDE DEF n
      <4>4. n # <<>> /\ \A k \in 1..Len(n) : k \in 1..Len(levels)
        BY <4>1, <4>2
      <4> QED
        BY <4>2, <4>3, <4>4
    <3> QED
      BY <2>1, <3>1, <3>2
  <2>4. \A k \in 1..Len(levels') : r \in levels'[k] =>
           run[r].volume # NoVolume /\ ("overlap" \notin untidy => run[r].volume \in left)
    BY <2>1a, <2>3 DEF LeftInv
  <2>5. /\ "remove_mnt" \in Before \cup {"wait", "done"} \cup After /\ run[r].pc \notin Ended
        /\ "remove_mnt" \in After
    BY <1>0, <2>1 DEF PCs, After
  <2>6. \A k \in 1..Len(levels') : \A q \in levels'[k] : \E j \in 1..Len(levels) : q \in levels[j]
    BY <2>3
  <2>7. \A k \in 1..Len(levels') : r \in levels'[k] =>
           /\ "remove_mnt" \in Mounted \cup After \cup {"done"} /\ run[r].volume # NoVolume
           /\ "overlap" \notin untidy =>
                 run[r].volume \in left' \/ ("remove_mnt" \in Mounted /\ k = Len(levels'))
    BY <2>1, <2>4, <2>5
  <2>8. levels' \in Seq(SUBSET Runs) /\ levels' # <<>> /\ "remove_mnt" # "volume" /\ left \subseteq left'
    BY <2>1, <2>3
  <2> QED
    BY <2>1, <2>2, <2>5, <2>6, <2>7, <2>8, LeftOne
<1>10. ASSUME NEW r \in Runs, RemoveMnt(r) PROVE LeftInv'
  <2>1. /\ Goes(r, "remove_write_layer") /\ run[r].pc = "remove_mnt" /\ UNCHANGED <<left, levels>>
        /\ untidy \subseteq untidy' /\ lost' = lost \cup {run[q].volume : q \in Top}
    BY <1>10 DEF RemoveMnt, Refused
  <2>2. ASSUME "overlap" \notin untidy PROVE lost' \subseteq left'
    <3>1. \A q \in Top : q \in Runs /\ run[q].pc \notin Mounted
      BY <1>0, <1>0a, <2>1, <2>2 DEF LeftInv, Ended, Mounted
    <3>2. \A q \in Top : run[q].volume \in left
      BY <1>0a, <2>2, <3>1 DEF LeftInv, Top
    <3> QED
      BY <2>1, <2>2, <3>2 DEF LeftInv
  <2> QED
    BY <1>0, <1>1, <2>1, <2>2
<1>11. ASSUME NEW r \in Runs, DeleteWriteLayer(r) PROVE LeftInv'
  <2>1. /\ Goes(r, "done") /\ run[r].pc = "remove_write_layer" /\ UNCHANGED <<left, levels, lost>>
        /\ untidy \subseteq untidy'
    BY <1>11 DEF DeleteWriteLayer, Refused
  <2>2. "overlap" \notin untidy => lost' \subseteq left'
    BY <2>1 DEF LeftInv
  <2> QED
    BY <1>0, <1>1, <2>1, <2>2
<1>12. ASSUME BeginCommit \/ EndCommit \/ \E r \in Runs : ContainerExits(r) PROVE LeftInv'
  <2>1. UNCHANGED <<run, levels, left, lost, untidy>>
    BY <1>12 DEF BeginCommit, EndCommit, ContainerExits
  <2> QED
    BY <2>1 DEF LeftInv
<1> QED
  BY <1>2, <1>3, <1>4, <1>5, <1>6, <1>7, <1>8, <1>9, <1>10, <1>11, <1>12
  DEF DockerNext, NewWorkSpace, DeleteWorkSpace

LEMMA DockerInvariant == DockerSpec => []DockerInv
<1>1. DockerInit => DockerInv
  <2>1. DockerInit => LeftInv
    <3> SUFFICES ASSUME DockerInit PROVE LeftInv
      OBVIOUS
    <3>1. {} \in SUBSET Runs
      OBVIOUS
    <3>2. levels \in Seq(SUBSET Runs) /\ levels # <<>> /\ Len(levels) = 1 /\ levels[1] = {}
      BY <3>1 DEF DockerInit, Bare
    <3> QED
      BY <3>2 DEF DockerInit, LeftInv, Ended
  <2> QED
    BY <2>1 DEF DockerInit, DockerInv, DockerType, MountInv, MountsOf, BoxInv, TidyInv, Before, After, Bare, Ended
<1>2. DockerInv /\ [DockerNext]_dockerVars => DockerInv'
  <2> SUFFICES ASSUME DockerInv, [DockerNext]_dockerVars PROVE DockerInv'
    OBVIOUS
  <2>1. CASE DockerNext
    BY <2>1, DockerTypeStep, MountStep, BoxStep, TidyStep, LeftStep DEF DockerInv
  <2>2. CASE UNCHANGED dockerVars
    <3>1. LeftInv'
      BY <2>2 DEF dockerVars, DockerInv, LeftInv
    <3> QED
      BY <2>2, <3>1 DEF dockerVars, DockerInv, DockerType, MountInv, MountsOf, BoxInv, TidyInv, Bare
  <2> QED
    BY <2>1, <2>2
<1> QED
  BY <1>1, <1>2, PTL DEF DockerSpec

\* As long as runs come one at a time, the files of a volume are deleted on the
\* host only after the umount of that very volume failed or its run was broken
\* off, whatever other command failed and whoever was killed.
THEOREM VolumesKept == DockerSpec => []VolumeKept
<1>1. DockerInv => VolumeKept
  BY DEF DockerInv, LeftInv, VolumeKept
<1> QED
  BY <1>1, DockerInvariant, PTL

\* Runs that come one at a time, are not broken off and have no umount or remove
\* fail leave no mount, no mount point and no write layer on the host, and take
\* nothing from a container that one with a tty waits for.
THEOREM LeavesClean == DockerSpec => []CleanExit
<1>1. DockerInv => CleanExit
  BY DEF DockerInv, TidyInv, CleanExit, Bare
<1> QED
  BY <1>1, DockerInvariant, PTL

-----------------------------------------------------------------------------
(* The plugin web server.                                                  *)

Files  == {Plugins[k] : k \in DOMAIN Plugins}
pages  == {Pages[k] : k \in DOMAIN Pages}
links  == {plugin_list[k] : k \in DOMAIN plugin_list}
names(F) == {Name[f] : f \in Loads \cap F}

WebType ==
    /\ server \in [Servers -> [pc : {"idle", "readdir", "load", "pages", "watch", "clean"}, todo : SUBSET (Files \cup pages)]]
    /\ found \in [Servers -> SUBSET Files] /\ kept \in [Servers -> SUBSET Files]
    /\ dir \subseteq Files
    /\ plugin_list \in Seq(names(Files))
    /\ Running \in {0, 1} /\ overlapped \in BOOLEAN

\* What a Server that has nothing beside it has registered so far: the files
\* it has seen to and that were there all the while, and then the pages.
Registered(s, files, pgs) ==
    /\ names(files) \cup pgs \subseteq DOMAIN routes
    /\ DOMAIN routes \subseteq names(found[s]) \cup pgs
    /\ links \subseteq DOMAIN routes
    /\ \A f \in Shown \cap files : Name[f] \in links

SoFar(s) ==
    /\ server[s].pc = "readdir" => DOMAIN routes = {}
    /\ server[s].pc = "load" =>
        /\ server[s].todo \subseteq found[s] /\ kept[s] \subseteq found[s] \cap dir
        /\ Registered(s, kept[s] \ server[s].todo, {})
    /\ server[s].pc = "pages" => server[s].todo \subseteq pages /\ Registered(s, kept[s], pages \ server[s].todo)
    /\ server[s].pc = "watch" => Registered(s, kept[s], pages)

AloneInv ==
    ~overlapped =>
        /\ \A s, t \in Servers : server[s].pc # "idle" /\ server[t].pc # "idle" => s = t
        /\ (\A s \in Servers : server[s].pc = "idle") => DOMAIN routes = {}
        /\ \A s \in Servers : SoFar(s)

LEMMA HandleFacts ==
    ASSUME NEW p, NEW f, HandleFunc(p, f)
    PROVE  DOMAIN routes' = DOMAIN routes \cup {p}
BY DEF HandleFunc

\* What First takes is in the set, and in the list.
LEMMA FirstFacts ==
    ASSUME NEW list, NEW S, NEW f \in First(list, S)
    PROVE  f \in S /\ f \in {list[k] : k \in DOMAIN list}
BY DEF First

LEMMA WebTypeStep ==
    ASSUME WebType, Next PROVE WebType'
<1> USE DEF WebType
<1>1. ASSUME NEW s \in Servers, NEW st \in [pc : {"idle", "readdir", "load", "pages", "watch", "clean"},
                                            todo : SUBSET (Files \cup pages)],
             server' = [server EXCEPT ![s] = st]
      PROVE  server' \in [Servers -> [pc : {"idle", "readdir", "load", "pages", "watch", "clean"},
                                      todo : SUBSET (Files \cup pages)]]
  BY <1>1
<1>2. ASSUME Main PROVE WebType'
  <2>1. CASE Look
    BY <2>1 DEF Look, seen
  <2>2. CASE GoServer
    <3>1. PICK s \in Servers : server[s].pc = "idle" /\ server' = [server EXCEPT ![s] = [server[s] EXCEPT !.pc = "readdir"]]
      BY <2>2 DEF GoServer
    <3>2. overlapped' \in BOOLEAN
      BY <2>2 DEF GoServer
    <3> QED
      BY <1>1, <2>2, <3>1, <3>2 DEF GoServer, seen
  <2> QED
    BY <1>2, <2>1, <2>2 DEF Main
<1>3. ASSUME NEW s \in Servers, ReadDir(s) PROVE WebType'
  BY <1>3 DEF ReadDir
<1>4. ASSUME NEW s \in Servers, Load(s) PROVE WebType'
  <2>1. PICK f \in First(Plugins, server[s].todo) :
          /\ server' = [server EXCEPT ![s] = [server[s] EXCEPT !.todo = server[s].todo \ {f}]]
          /\ IF f \in Loads \cap dir
             THEN plugin_list' = IF f \in Shown THEN Append(plugin_list, Name[f]) ELSE plugin_list
             ELSE plugin_list' = plugin_list
    BY <1>4 DEF Load
  <2>2. f \in Files
    BY FirstFacts DEF Files
  <2>3. plugin_list' \in Seq(names(Files))
    <3>1. f \in Loads => Name[f] \in names(Files)
      BY <2>2 DEF names
    <3> DEFINE N == names(Files)
    <3>2. plugin_list \in Seq(N)
      OBVIOUS
    <3> HIDE DEF N
    <3>3. Name[f] \in N => Append(plugin_list, Name[f]) \in Seq(N)
      BY <3>2, AppendProperties
    <3> QED
      BY <2>1, <3>1, <3>2, <3>3 DEF N
  <2> QED
    BY <1>1, <1>4, <2>1, <2>3 DEF Load, seen
<1>5. ASSUME NEW s \in Servers, EndLoad(s) PROVE WebType'
  BY <1>5 DEF EndLoad, seen, pages
<1>6. ASSUME NEW s \in Servers, AddPage(s) PROVE WebType'
  <2>1. PICK p : server' = [server EXCEPT ![s] = [server[s] EXCEPT !.todo = server[s].todo \ {p}]]
    BY <1>6 DEF AddPage
  <2> QED
    BY <1>1, <1>6, <2>1 DEF AddPage, seen
<1>7. ASSUME NEW s \in Servers, Serve(s) \/ Watch(s) \/ Clean(s) PROVE WebType'
  <2>1. CASE Serve(s)
    BY <1>1, <2>1 DEF Serve, seen
  <2>2. CASE Watch(s)
    BY <1>1, <2>2 DEF Watch, seen
  <2>3. CASE Clean(s)
    BY <1>1, <2>3 DEF Clean, Idle
  <2> QED
    BY <1>7, <2>1, <2>2, <2>3
<1>8. ASSUME restart \/ uploadfile \/ RemoveFile PROVE WebType'
  <2>1. CASE restart
    BY <2>1 DEF restart, seen
  <2>2. CASE uploadfile
    BY <2>2 DEF uploadfile, seen, Files
  <2>3. CASE RemoveFile
    BY <2>3 DEF RemoveFile
  <2> QED
    BY <1>8, <2>1, <2>2, <2>3
<1> QED
  BY <1>2, <1>3, <1>4, <1>5, <1>6, <1>7, <1>8 DEF Next, Server, Outside

LEMMA SomeServerStep ==
    ASSUME WebType, SomeServerWatches, Next PROVE SomeServerWatches'
<1> SUFFICES ASSUME Running' = 1 PROVE \E s \in Servers : server'[s].pc = "watch"
  BY DEF SomeServerWatches
<1>1. ASSUME NEW s \in Servers, Serve(s) PROVE server'[s].pc = "watch"
  BY <1>1 DEF Serve, WebType
<1>2. ASSUME NEW s \in Servers, ReadDir(s) \/ Load(s) \/ EndLoad(s) \/ AddPage(s) \/ Watch(s) \/ Clean(s)
      PROVE  Running = 1 /\ \A t \in Servers : server[t].pc = "watch" => server'[t].pc = "watch"
  BY <1>2 DEF ReadDir, Load, EndLoad, AddPage, Watch, Clean, WebType
<1>3. ASSUME GoServer
      PROVE  Running = 1 /\ \A t \in Servers : server[t].pc = "watch" => server'[t].pc = "watch"
  BY <1>3 DEF GoServer, WebType
<1>4. ASSUME Look \/ uploadfile \/ RemoveFile PROVE Running = 1 /\ server' = server
  BY <1>4 DEF Look, uploadfile, RemoveFile
<1>5. ~restart
  BY DEF restart
<1> QED
  BY <1>1, <1>2, <1>3, <1>4, <1>5 DEF Next, Main, Server, Outside, SomeServerWatches

\* What is registered stays registered when routes and links do.
LEMMA SameRoutes ==
    ASSUME NEW s, NEW F, NEW pgs, Registered(s, F, pgs), routes' = routes, plugin_list' = plugin_list,
           found'[s] = found[s]
    PROVE  Registered(s, F, pgs)'
BY DEF Registered, links, names

\* A new link is the only new one.
LEMMA AppendLinks ==
    ASSUME NEW S, NEW l \in Seq(S), NEW e \in S
    PROVE  LET m == Append(l, e) IN {m[k] : k \in DOMAIN m} = {l[k] : k \in DOMAIN l} \cup {e}
<1> DEFINE m == Append(l, e)
<1>1. m \in Seq(S) /\ Len(m) = Len(l) + 1 /\ (\A k \in 1..Len(l) : m[k] = l[k]) /\ m[Len(l) + 1] = e
  BY AppendProperties
<1>2. DOMAIN l = 1..Len(l) /\ DOMAIN m = 1..Len(m) /\ Len(l) \in Nat
  BY <1>1, LenProperties
<1> HIDE DEF m
<1>3. 1..(Len(l) + 1) = 1..Len(l) \cup {Len(l) + 1}
  BY <1>2
<1>4. {m[k] : k \in 1..Len(l)} = {l[k] : k \in 1..Len(l)}
  BY <1>1
<1>5. {m[k] : k \in 1..(Len(l) + 1)} = {m[k] : k \in 1..Len(l)} \cup {e}
  BY <1>1, <1>3
<1> QED
  BY <1>1, <1>2, <1>4, <1>5 DEF m

LEMMA AloneStep ==
    ASSUME WebAssumption, WebType, AloneInv, Next PROVE AloneInv'
<1> SUFFICES ASSUME ~overlapped' PROVE AloneInv'
  BY DEF AloneInv
<1>0. ~overlapped
  BY DEF Next, Main, Server, Outside, Look, GoServer, ReadDir, Load, EndLoad, AddPage, Serve, Watch, Clean, restart,
    uploadfile, RemoveFile, WebType
\* The Server that takes a step is the only one.
<1>1. ASSUME NEW s \in Servers, server[s].pc # "idle", \A t \in Servers : t # s => server'[t] = server[t],
             server'[s].pc # "idle", SoFar(s)'
      PROVE  AloneInv'
  <2>1. \A t \in Servers : t # s => server'[t].pc = "idle"
    BY <1>0, <1>1 DEF AloneInv
  <2>2. ASSUME NEW t \in Servers, t # s PROVE SoFar(t)'
    BY <2>1, <2>2 DEF SoFar
  <2> QED
    BY <1>1, <2>1, <2>2 DEF AloneInv
<1>2. ASSUME GoServer PROVE AloneInv'
  <2>1. PICK s \in Servers : server[s].pc = "idle" /\ server' = [server EXCEPT ![s].pc = "readdir"]
    BY <1>2 DEF GoServer
  <2>2. /\ server'[s].pc = "readdir" /\ \A t \in Servers : t # s => server'[t] = server[t]
        /\ routes' = routes
    BY <1>2, <2>1 DEF GoServer, WebType
  <2>3. \A t \in Servers : server[t].pc = "idle"
    BY <1>2 DEF GoServer, WebType
  <2>4. DOMAIN routes = {}
    BY <1>0, <2>3 DEF AloneInv
  <2>5. \A t \in Servers : SoFar(t)'
    BY <2>2, <2>3, <2>4 DEF SoFar
  <2> QED
    BY <2>2, <2>3, <2>5 DEF AloneInv
<1>3. ASSUME NEW s \in Servers, ReadDir(s) PROVE AloneInv'
  <2>1. /\ server[s].pc = "readdir"
        /\ server'[s] = [pc |-> "load", todo |-> dir] /\ \A t \in Servers : t # s => server'[t] = server[t]
        /\ plugin_list' = <<>> /\ found'[s] = dir /\ kept'[s] = dir /\ routes' = routes /\ dir' = dir
    BY <1>3 DEF ReadDir, WebType
  <2>2. DOMAIN routes = {}
    BY <1>0, <2>1 DEF AloneInv, SoFar
  <2>3. links' = {}
    BY <2>1 DEF links
  <2>4. names(dir \ dir) = {} /\ Shown \cap (dir \ dir) = {}
    BY DEF names
  <2>5. Registered(s, dir \ dir, {})'
    BY <2>1, <2>2, <2>3, <2>4 DEF Registered, names
  <2>6. SoFar(s)'
    BY <2>1, <2>5 DEF SoFar
  <2> QED
    BY <1>1, <2>1, <2>6
<1>4. ASSUME NEW s \in Servers, Load(s) PROVE AloneInv'
  <2>1. PICK f \in First(Plugins, server[s].todo) :
          /\ IF f \in Loads \cap dir
             THEN /\ HandleFunc(Name[f], f)
                  /\ plugin_list' = IF f \in Shown THEN Append(plugin_list, Name[f]) ELSE plugin_list
             ELSE UNCHANGED <<routes, plugin_list>>
          /\ server' = [server EXCEPT ![s].todo = server[s].todo \ {f}]
    BY <1>4 DEF Load
  <2>2. /\ server[s].pc = "load" /\ server'[s].pc = "load" /\ server'[s].todo = server[s].todo \ {f}
        /\ \A t \in Servers : t # s => server'[t] = server[t]
        /\ UNCHANGED <<found, kept, dir>>
    BY <1>4, <2>1 DEF Load, WebType, seen
  <2> DEFINE F == kept[s] \ server[s].todo
             G == kept[s] \ (server[s].todo \ {f})
  <2>3. server[s].todo \subseteq found[s] /\ kept[s] \subseteq found[s] \cap dir /\ Registered(s, F, {})
    BY <1>0, <2>2 DEF AloneInv, SoFar
  <2>4. f \in server[s].todo
    BY FirstFacts
  <2>5. Registered(s, G, {})'
    <3>1. CASE f \in Loads \cap dir
      <4>1. DOMAIN routes' = DOMAIN routes \cup {Name[f]}
        BY <2>1, <3>1, HandleFacts
      <4>2. links' = links \/ (links' = links \cup {Name[f]} /\ f \in Shown)
        <5>1. plugin_list \in Seq(names(Files)) /\ Name[f] \in names(Files)
          BY <3>1, <2>3 DEF WebType, names, WebAssumption, Files
        <5>2. plugin_list' = plugin_list \/ (plugin_list' = Append(plugin_list, Name[f]) /\ f \in Shown)
          <6>1. plugin_list' = IF f \in Shown THEN Append(plugin_list, Name[f]) ELSE plugin_list
            BY <2>1, <3>1
          <6> QED
            BY <6>1
        <5>3. plugin_list' = Append(plugin_list, Name[f]) => links' = links \cup {Name[f]}
          BY <5>1, AppendLinks DEF links
        <5> QED
          BY <5>2, <5>3 DEF links
      <4>3. f \in Shown => Name[f] \in links'
        <5>1. plugin_list \in Seq(names(Files)) /\ Name[f] \in names(Files)
          BY <3>1, <2>3 DEF WebType, names, WebAssumption, Files
        <5>2. f \in Shown => plugin_list' = Append(plugin_list, Name[f])
          BY <2>1, <3>1
        <5>3. plugin_list' = Append(plugin_list, Name[f]) => links' = links \cup {Name[f]}
          BY <5>1, AppendLinks DEF links
        <5> QED
          BY <5>2, <5>3
      <4>4. G \subseteq F \cup {f} /\ f \in found[s]
        BY <2>3, <2>4
      <4>5. names(G) \subseteq names(F) \cup {Name[f]} /\ Name[f] \in names(found[s])
        BY <3>1, <4>4 DEF names
      <4>6. \A g \in Shown \cap G : Name[g] \in links'
        BY <2>3, <4>2, <4>3, <4>4 DEF Registered
      <4>7. /\ names(G) \cup {} \subseteq DOMAIN routes'
            /\ DOMAIN routes' \subseteq names(found[s]) \cup {}
            /\ links' \subseteq DOMAIN routes'
        BY <2>3, <4>1, <4>2, <4>5 DEF Registered
      <4> QED
        BY <2>2, <4>6, <4>7 DEF Registered, names
    <3>2. CASE f \notin Loads \cap dir
      <4>1. names(G) \subseteq names(F) /\ Shown \cap G \subseteq F
        BY <2>3, <3>2 DEF names, WebAssumption
      <4>2. UNCHANGED <<routes, plugin_list, found>>
        BY <2>1, <2>2, <3>2
      <4>3. Registered(s, G, {})
        BY <2>3, <4>1 DEF Registered
      <4> QED
        BY <2>2, <4>2, <4>3, SameRoutes
    <3> QED
      BY <3>1, <3>2
  <2>6. SoFar(s)'
    BY <2>2, <2>3, <2>5 DEF SoFar
  <2> QED
    BY <1>1, <2>2, <2>6
<1>5. ASSUME NEW s \in Servers, EndLoad(s) PROVE AloneInv'
  <2>1. /\ server[s].pc = "load" /\ server[s].todo = {} /\ server'[s] = [pc |-> "pages", todo |-> pages]
        /\ \A t \in Servers : t # s => server'[t] = server[t]
        /\ UNCHANGED <<found, kept, routes, plugin_list>>
    BY <1>5 DEF EndLoad, WebType, seen, pages
  <2>2. Registered(s, kept[s] \ {}, {})
    BY <1>0, <2>1 DEF AloneInv, SoFar
  <2>3. kept[s] \ {} = kept[s] /\ pages \ pages = {} /\ pages' = pages
    BY DEF pages
  <2>4. Registered(s, kept[s], {})'
    BY <2>1, <2>2, <2>3, SameRoutes
  <2>5. SoFar(s)'
    BY <2>1, <2>3, <2>4 DEF SoFar
  <2> QED
    BY <1>1, <2>1, <2>5
<1>6. ASSUME NEW s \in Servers, AddPage(s) PROVE AloneInv'
  <2>1. PICK p \in First(Pages, server[s].todo) :
          HandleFunc(p, p) /\ server' = [server EXCEPT ![s].todo = server[s].todo \ {p}]
    BY <1>6 DEF AddPage
  <2>2. /\ server[s].pc = "pages" /\ server'[s].pc = "pages" /\ server'[s].todo = server[s].todo \ {p}
        /\ \A t \in Servers : t # s => server'[t] = server[t]
        /\ UNCHANGED <<found, kept, plugin_list>>
    BY <1>6, <2>1 DEF AddPage, WebType, seen
  <2>3. p \in server[s].todo /\ p \in pages
    BY FirstFacts DEF pages
  <2>4. server[s].todo \subseteq pages /\ Registered(s, kept[s], pages \ server[s].todo)
    BY <1>0, <2>2 DEF AloneInv, SoFar
  <2>5. DOMAIN routes' = DOMAIN routes \cup {p}
    BY <2>1, HandleFacts
  <2>6. pages \ (server[s].todo \ {p}) = (pages \ server[s].todo) \cup {p}
    BY <2>3
  <2>7. Registered(s, kept[s], (pages \ server[s].todo) \cup {p})'
    BY <2>2, <2>4, <2>5 DEF Registered, links, names, pages
  <2>8. SoFar(s)'
    BY <2>2, <2>4, <2>6, <2>7 DEF SoFar, pages
  <2> QED
    BY <1>1, <2>2, <2>8
<1>7. ASSUME NEW s \in Servers, Serve(s) PROVE AloneInv'
  <2>1. /\ server[s].pc = "pages" /\ server[s].todo = {} /\ server'[s].pc = "watch"
        /\ \A t \in Servers : t # s => server'[t] = server[t]
        /\ UNCHANGED <<found, kept, routes, plugin_list>>
    BY <1>7 DEF Serve, WebType, seen
  <2>2. Registered(s, kept[s], pages \ {}) /\ pages \ {} = pages /\ pages' = pages
    BY <1>0, <2>1 DEF AloneInv, SoFar, pages
  <2>3. Registered(s, kept[s], pages)'
    BY <2>1, <2>2, SameRoutes
  <2>4. SoFar(s)'
    BY <2>1, <2>2, <2>3 DEF SoFar
  <2> QED
    BY <1>1, <2>1, <2>4
<1>8. ASSUME NEW s \in Servers, Watch(s) PROVE AloneInv'
  <2>1. server[s].pc = "watch" /\ server'[s].pc = "clean" /\ \A t \in Servers : t # s => server'[t] = server[t]
    BY <1>8 DEF Watch, WebType
  <2>2. SoFar(s)'
    BY <2>1 DEF SoFar
  <2> QED
    BY <1>1, <2>1, <2>2
<1>9. ASSUME NEW s \in Servers, Clean(s) PROVE AloneInv'
  <2>1. /\ server[s].pc = "clean" /\ server'[s].pc = "idle" /\ routes' = <<>>
        /\ \A t \in Servers : t # s => server'[t] = server[t]
    BY <1>9 DEF Clean, WebType, Idle
  <2>2. \A t \in Servers : server'[t].pc = "idle"
    BY <1>0, <2>1 DEF AloneInv
  <2>3. DOMAIN routes' = {}
    BY <2>1
  <2>4. \A t \in Servers : SoFar(t)'
    BY <2>2 DEF SoFar
  <2> QED
    BY <2>2, <2>3, <2>4 DEF AloneInv
<1>10. ASSUME Look \/ restart \/ uploadfile \/ RemoveFile PROVE AloneInv'
  <2>1. UNCHANGED <<server, routes, plugin_list, found, overlapped>>
    BY <1>10 DEF Look, restart, uploadfile, RemoveFile, seen
  <2>2. ASSUME NEW s \in Servers
        PROVE  /\ kept'[s] \subseteq kept[s] /\ (server[s].pc # "load" => kept'[s] = kept[s])
               /\ server[s].pc = "load" /\ kept[s] \subseteq dir => kept'[s] \subseteq dir'
    <3>1. CASE Look \/ restart \/ uploadfile
      BY <3>1 DEF Look, restart, uploadfile, seen
    <3>2. CASE RemoveFile
      BY <3>2 DEF RemoveFile
    <3> QED
      BY <1>10, <3>1, <3>2
  <2>3. ASSUME NEW s \in Servers, SoFar(s) PROVE SoFar(s)'
    <3>1. CASE server[s].pc = "load"
      <4> DEFINE F == kept[s] \ server[s].todo
                 G == kept'[s] \ server[s].todo
      <4>1. names(G) \subseteq names(F) /\ G \subseteq F
        BY <2>2 DEF names
      <4>2. Registered(s, G, {})
        BY <2>3, <3>1, <4>1 DEF SoFar, Registered
      <4>3. Registered(s, kept[s] \ server[s].todo, {})'
        BY <2>1, <4>2 DEF Registered, links, names
      <4> QED
        BY <2>1, <2>2, <2>3, <3>1, <4>3 DEF SoFar
    <3>2. CASE server[s].pc = "pages"
      <4>1. Registered(s, kept[s], pages \ server[s].todo)'
        BY <2>1, <2>2, <2>3, <3>2 DEF SoFar, Registered, links, names, pages
      <4> QED
        BY <2>1, <2>3, <3>2, <4>1 DEF SoFar, pages
    <3>3. CASE server[s].pc = "watch"
      <4>1. Registered(s, kept[s], pages)'
        BY <2>1, <2>2, <2>3, <3>3 DEF SoFar, Registered, links, names, pages
      <4> QED
        BY <2>1, <3>3, <4>1 DEF SoFar
    <3> QED
      BY <2>1, <2>3, <3>1, <3>2, <3>3 DEF SoFar
  <2> QED
    BY <2>1, <2>3 DEF AloneInv
<1> QED
  BY <1>2, <1>3, <1>4, <1>5, <1>6, <1>7, <1>8, <1>9, <1>10 DEF Next, Main, Server, Outside

LEMMA WebInvariant == ASSUME WebAssumption PROVE Spec => [](WebType /\ AloneInv /\ SomeServerWatches)
<1> DEFINE Inv == WebType /\ AloneInv /\ SomeServerWatches
<1>1. Init => Inv
  <2> SUFFICES ASSUME Init PROVE Inv
    OBVIOUS
  <2>1. WebType
    <3>1. server \in [Servers -> [pc : {"idle", "readdir", "load", "pages", "watch", "clean"}, todo : SUBSET (Files \cup pages)]]
      BY DEF Init, Idle
    <3>2. found \in [Servers -> SUBSET Files] /\ kept \in [Servers -> SUBSET Files] /\ dir \subseteq Files
      BY DEF Init, Files
    <3>3. plugin_list \in Seq(names(Files))
      BY DEF Init
    <3> QED
      BY <3>1, <3>2, <3>3 DEF Init, WebType
  <2>2. \A s \in Servers : server[s].pc = "idle"
    BY DEF Init, Idle
  <2>3. DOMAIN routes = {}
    BY DEF Init
  <2>4. AloneInv
    BY <2>2, <2>3 DEF AloneInv, SoFar
  <2>5. SomeServerWatches
    BY DEF Init, SomeServerWatches
  <2> QED
    BY <2>1, <2>4, <2>5
<1>2. Inv /\ [Next]_vars => Inv'
  <2> SUFFICES ASSUME Inv, [Next]_vars PROVE Inv'
    OBVIOUS
  <2>1. CASE Next
    BY <2>1, WebTypeStep, AloneStep, SomeServerStep
  <2>2. CASE UNCHANGED vars
    BY <2>2 DEF vars, WebType, AloneInv, SoFar, Registered, links, names, pages, Files, SomeServerWatches
  <2> QED
    BY <2>1, <2>2
<1> HIDE DEF Inv
<1>3. Spec => []Inv
  BY <1>1, <1>2, PTL DEF Spec
<1> QED
  BY <1>3 DEF Inv

\* For any number of Servers, plugins and pages: as long as no Server was
\* started before the last one had wiped its routes, a Server that watches
\* serves the plugins that were there all the while, none that was not, the
\* pages, and no link that leads nowhere.
THEOREM ServesTheDirectory == Spec => []AloneIsExact
<1>1. WebType /\ AloneInv => AloneIsExact
  <2> SUFFICES ASSUME AloneInv, ~overlapped, NEW s \in Servers, server[s].pc = "watch"
               PROVE  Registered(s, kept[s], pages)
    BY DEF AloneIsExact, Registered, names, pages, links
  <2> QED
    BY DEF AloneInv, SoFar
<1> QED
  BY <1>1, WebInvariant, WebAssumption, PTL

\* However many Servers overlap, a Running server has one that watches.
THEOREM RunningIsWatched == Spec => []SomeServerWatches
BY WebInvariant, WebAssumption, PTL

=============================================================================
