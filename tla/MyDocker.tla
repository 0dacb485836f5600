------------------------------ MODULE MyDocker ------------------------------
(***************************************************************************)
(* The life of a container in mydocker: run makes a write layer, mounts it *)
(* over the busybox layer on /root/mnt and the volume inside, starts the   *)
(* container, waits for it when it has a tty, and takes all of it down.    *)
(* Every path is fixed, so that runs at one time share them, and a failing *)
(* command is only logged, whatever it failed for.  commit packs /root/mnt *)
(* meanwhile.                                                              *)
(*                                                                         *)
(* Mounts on /root/mnt lie on one another: levels[1] is the directory, the *)
(* last level is the one that paths lead to, and each level holds the runs *)
(* whose volume is mounted in it.  Mounts are taken to be private, as in   *)
(* the kernel's default: what a container mounts stays in its namespace.   *)
(***************************************************************************)
EXTENDS Integers, Sequences, SequencesExt

CONSTANTS
    Runs,      \* calls of mydocker run
    Volumes,   \* what -v may name: a directory of the host and where it goes
    NoVolume

ASSUME DockerAssumption == NoVolume \notin Volumes

VARIABLES
    run,         \* the runs: [pc, tty, volume]
    box,         \* the containers: "none", "alive" or "gone"
    levels,      \* what is mounted on /root/mnt
    mnt,         \* whether the directory is there
    writeLayer,  \* whether /root/writeLayer is there
    packing,     \* the level in which commit's tar works, or 0
    left,        \* history: volumes left mounted: umount failed, or their run broke off
    lost,        \* history: volumes whose files were deleted on the host
    spoiled,     \* history: containers whose write layer went while they ran
    untidy       \* history: what went wrong so far

dockerVars == <<run, box, levels, mnt, writeLayer, packing, left, lost, spoiled, untidy>>

Top == levels[Len(levels)]
Bare == <<{}>>
Ended == {"idle", "done"}
Goes(r, pc) == run' = [run EXCEPT ![r].pc = pc]
SetTop(s)   == levels' = [levels EXCEPT ![Len(levels)] = s]

-----------------------------------------------------------------------------
(* NewParentProcess: NewWorkSpace.                                         *)

Run(r) ==
    /\ run[r].pc = "idle"
    /\ \E tty \in BOOLEAN, v \in Volumes \cup {NoVolume} :
        run' = [run EXCEPT ![r] = [pc |-> "write_layer", tty |-> tty, volume |-> v]]
    /\ untidy' = untidy \cup (IF \E q \in Runs : run[q].pc \notin Ended THEN {"overlap"} ELSE {})
                        \cup (IF levels # Bare THEN {"leftover"} ELSE {})
    /\ UNCHANGED <<box, levels, mnt, writeLayer, packing, left, lost, spoiled>>

CreateWriteLayer(r) ==
    /\ run[r].pc = "write_layer"
    /\ writeLayer' \in {TRUE, writeLayer}
    /\ Goes(r, "mount_point")
    /\ UNCHANGED <<box, levels, mnt, packing, left, lost, spoiled, untidy>>

CreateMountPoint(r) ==
    /\ run[r].pc = "mount_point"
    /\ mnt' \in {TRUE, mnt}
    /\ \/ mnt' /\ levels' = Append(levels, {})
       \/ UNCHANGED levels
    /\ Goes(r, IF run[r].volume = NoVolume THEN "start" ELSE "volume")
    /\ UNCHANGED <<box, writeLayer, packing, left, lost, spoiled, untidy>>

MountVolume(r) ==
    /\ run[r].pc = "volume"
    /\ \/ mnt /\ SetTop(Top \cup {r})
       \/ UNCHANGED levels
    /\ Goes(r, "start")
    /\ UNCHANGED <<box, mnt, writeLayer, packing, left, lost, spoiled, untidy>>

-----------------------------------------------------------------------------
(* Run: Start, and Wait when there is a tty.                               *)

\* The run ends here, with its volume mounted or not.
BreaksOff(r) ==
    /\ Goes(r, "done")
    /\ untidy' = untidy \cup {"broken"}
    /\ left' = left \cup (IF r \in Top THEN {run[r].volume} ELSE {})

\* When Start fails, parent.Process is nil and Apply panics.
Start(r) ==
    /\ run[r].pc = "start"
    /\ \/ /\ mnt
          /\ box' = [box EXCEPT ![r] = "alive"]
          /\ Goes(r, "wait")
          /\ UNCHANGED <<left, untidy>>
       \/ BreaksOff(r) /\ UNCHANGED box
    /\ UNCHANGED <<levels, mnt, writeLayer, packing, lost, spoiled>>

Wait(r) ==
    /\ run[r].pc = "wait"
    /\ run[r].tty => box[r] = "gone"
    /\ Goes(r, IF run[r].volume = NoVolume THEN "umount" ELSE "umount_volume")
    /\ UNCHANGED <<box, levels, mnt, writeLayer, packing, left, lost, spoiled, untidy>>

ContainerExits(r) ==
    /\ box[r] = "alive"
    /\ box' = [box EXCEPT ![r] = "gone"]
    /\ UNCHANGED <<run, levels, mnt, writeLayer, packing, left, lost, spoiled, untidy>>

-----------------------------------------------------------------------------
(* DeleteWorkSpace.                                                        *)

\* Mutant: the path of the volume is not the one it was mounted on.
UmountElsewhere(r) ==
    /\ run[r].pc = "umount_volume"
    /\ Goes(r, "umount")
    /\ UNCHANGED <<box, levels, mnt, writeLayer, packing, left, lost, spoiled, untidy>>

Refused == untidy' = untidy \cup {"refused"}

\* umount of the volume may fail for any reason; it always does when what is
\* visible now has no such mount.
UmountVolume(r) ==
    /\ run[r].pc = "umount_volume"
    /\ \/ \E q \in Top :
           /\ run[q].volume = run[r].volume
           /\ \/ SetTop(Top \ {q}) /\ UNCHANGED <<left, untidy>>
              \/ left' = left \cup {run[r].volume} /\ Refused /\ UNCHANGED levels
       \/ /\ \A q \in Top : run[q].volume # run[r].volume
          /\ UNCHANGED <<levels, left, untidy>>
    /\ Goes(r, "umount")
    /\ UNCHANGED <<box, mnt, writeLayer, packing, lost, spoiled>>

\* umount of the top level: it may fail for any reason, and does when there is
\* a mount or tar's working directory in it.
Umount(r) ==
    /\ run[r].pc = "umount"
    /\ \/ /\ Len(levels) > 1 /\ Top = {} /\ packing # Len(levels)
          /\ levels' = Front(levels)
          /\ UNCHANGED untidy
       \/ Len(levels) > 1 /\ Refused /\ UNCHANGED levels
       \/ Len(levels) = 1 /\ UNCHANGED <<levels, untidy>>
    /\ Goes(r, "remove_mnt")
    /\ UNCHANGED <<box, mnt, writeLayer, packing, left, lost, spoiled>>

\* os.RemoveAll goes into whatever is still mounted; only a directory that is
\* no mount point and holds none goes away itself.
RemoveMnt(r) ==
    /\ run[r].pc = "remove_mnt"
    /\ lost' = lost \cup {run[q].volume : q \in Top}
    /\ \/ mnt' = (mnt /\ levels # Bare) /\ UNCHANGED untidy
       \/ Refused /\ UNCHANGED mnt
    /\ Goes(r, "remove_write_layer")
    /\ UNCHANGED <<box, levels, writeLayer, packing, left, spoiled>>

\* Mutant: a path without its separator, as in DeleteReadOnlyLayer.
DeleteNoLayer(r) ==
    /\ run[r].pc = "remove_write_layer"
    /\ Goes(r, "done")
    /\ UNCHANGED <<box, levels, mnt, writeLayer, packing, left, lost, spoiled, untidy>>

\* DeleteReadOnlyLayer looks for /rootbusybox/, which is not there; then Exit.
DeleteWriteLayer(r) ==
    /\ run[r].pc = "remove_write_layer"
    /\ \/ writeLayer' = FALSE /\ UNCHANGED untidy
       \/ Refused /\ UNCHANGED writeLayer
    /\ spoiled' = spoiled \cup {q \in Runs : box[q] = "alive"}
    /\ Goes(r, "done")
    /\ UNCHANGED <<box, levels, mnt, packing, left, lost>>

-----------------------------------------------------------------------------
(* What happens to them.                                                   *)

\* The run is killed, its container with it or not.
Kill(r) ==
    /\ run[r].pc \notin Ended
    /\ BreaksOff(r)
    /\ UNCHANGED <<box, levels, mnt, writeLayer, packing, lost, spoiled>>

\* commitContainer: tar -C /root/mnt
BeginCommit ==
    /\ packing = 0 /\ mnt
    /\ packing' = Len(levels)
    /\ UNCHANGED <<run, box, levels, mnt, writeLayer, left, lost, spoiled, untidy>>

EndCommit ==
    /\ packing # 0
    /\ packing' = 0
    /\ UNCHANGED <<run, box, levels, mnt, writeLayer, left, lost, spoiled, untidy>>

-----------------------------------------------------------------------------
DockerInit ==
    /\ run = [r \in Runs |-> [pc |-> "idle", tty |-> TRUE, volume |-> NoVolume]]
    /\ box = [r \in Runs |-> "none"]
    /\ levels = Bare /\ mnt = FALSE /\ writeLayer = FALSE
    /\ packing = 0
    /\ left = {} /\ lost = {} /\ spoiled = {} /\ untidy = {}

NewWorkSpace(r)    == CreateWriteLayer(r) \/ CreateMountPoint(r) \/ MountVolume(r)
DeleteWorkSpace(r) == UmountVolume(r) \/ Umount(r) \/ RemoveMnt(r) \/ DeleteWriteLayer(r)

DockerNext ==
    \/ \E r \in Runs : \/ Run(r) \/ NewWorkSpace(r) \/ Start(r) \/ Wait(r) \/ DeleteWorkSpace(r)
                       \/ ContainerExits(r) \/ Kill(r)
    \/ BeginCommit \/ EndCommit

DockerSpec == DockerInit /\ [][DockerNext]_dockerVars

-----------------------------------------------------------------------------
(* Properties.                                                             *)

\* A volume's files live on the host.  Of runs that come one at a time, a run
\* deletes them there (container_process.go:235) only if that volume was left
\* mounted: its own umount failed, or the run it was for was broken off.  No
\* other mount, umount or remove that fails, and no commit, costs them.
VolumeKept == "overlap" \notin untidy => lost \subseteq left

\* Runs that come one at a time, are not broken off and have no umount or remove
\* fail take down all that they mounted, the mount point and the write layer,
\* also when a mount failed, and take nothing from a container that runs, unless
\* it is a detached one, whose run does not wait for it.  (The busybox layer and
\* the cgroup stay: DeleteReadOnlyLayer looks for /rootbusybox/, and os.Exit
\* skips the deferred Destroy.)
CleanExit ==
    untidy = {} =>
        /\ (\A r \in Runs : run[r].pc \in Ended) => levels = Bare /\ ~mnt /\ ~writeLayer
        /\ \A r \in spoiled : ~run[r].tty
=============================================================================
