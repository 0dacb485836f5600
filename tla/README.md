# Verification of jiuyinzhenjing

The repository is a collection of programs written while learning C, Linux, Go
and networking.  Most of them are one-page exercises; about a dozen have state
that several threads, callers, processes or machines share and that can go wrong
in ways no run of the program shows.  This directory holds TLA+ models of those
programs, the TLC configurations that check them on small instances, and proofs
that TLAPS checks for every value of the constants.

`tlc -config X.cfg MCM.tla` repeats a run, `tlapm M_proofs.tla` a proof.
`PROJECT.json` lists runs, theorems, hazards and the lines of code behind each
definition.

## 1. The system and its parts

The programs do not call each other.  What each keeps, does and shares:

| part | state | operations | who interacts, and how | what is hard |
|---|---|---|---|---|
| **job thread pool** `C语言知识/threadpool` | a job list with a count that is also a closed flag (-1), a thread list, a status | init, add job, add threads, the worker loop, destroy(wait) | workers, callers and main over a mutex, a condition variable, a read-write lock; `pthread_cancel` | status checked before, and list changed under another lock; cancellation inside critical sections; destroy polling |
| **task thread pool** `pthread_test/thread_pool` | a task list, two counters under different locks, an exit flag read with none | create, add, the worker loop, main's polling, release | workers, callers, owner over three mutexes and a condition | a wait without a predicate; two counters polled one after the other; creation failing half-way |
| **websocket echo server** `032_go_websocket_imooc` (a second copy in `022_go_web/wsserver`) | per connection two buffered channels, a close channel with a flag and a mutex | InitConnection, ReadLoop, WriteLoop, ReadMessage, WriteMessage, Close, the handler, the heartbeat | four goroutines per connection and a peer, over channels and a socket | who closes, how often, and whether every blocked goroutine hears of it; a peer that does not read |
| **slab allocator** `slab/slab_linux_new` | a region cut into size classes, a free and a used list for each | create, malloc, realloc, free, release, is_in_slab | sequential; the *clients'* order of calls is the environment | address arithmetic written twice; free ignores which unit it is given; realloc of a block from malloc |
| **channel sort pipeline** `016_ccmouse_sortdemo` | one bounded channel per stage, sockets between stages | read a chunk, sort, send and receive over TCP, merge n ways, write, print | goroutines in a tree over channels; connections | ends of input at different times; chunks that are not whole; short reads; a reader abandoned by its consumer |
| **cleandisk** `cleandisk` | an SQLite table of digests, a table of removals, the file tree | drop and create tables, walk, digest, look up, record, remove | the process against disk and database; it can be killed between any two steps | record-then-remove; errors that are ignored; unreadable files with an empty digest; descriptors never closed |
| **plugin web server** `022_go_web` | a running flag, the registered routes, the index's links, the http listeners | main's one-second loop, Server, the restart and upload handlers | main, Servers and request goroutines over plain variables | several Servers loading at once; routes wiped after they were registered |
| **mydocker** `gosrc/mydocker` | overlay directories, mounts and a cgroup at fixed paths; nothing is recorded | init, run, commit, dus (there is no stop, remove or exec) | one process per command and the containers, sharing the file system | a run half done; two runs at once; a commit meanwhile; a detached container |
| **plugin manager** `plugin/main` | a list of loaded plugins with a mark each | the monitor thread's scan, load, replace, sweep; main's lookup by name | two threads, one list, no lock | a round that is broken off; a library replaced before its element is swept; elements freed under a reader |
| **deferred free** `plugin/main/comm/src/secure_memory.c` | a list of blocks with the time they were given up | `free_s`, the sweeping thread | nobody: its only caller, `memory_test`, is commented out | a list initialised by the thread that consumes it |
| **music library** `012_go_music` | an array of songs | add, find, remove | sequential | index arithmetic of a removal |
| **tinix** `tinix` | a task table, the current task | timer trap, switch | interrupt handler and tasks | written mostly against hardware |

The rest is listed in `PROJECT.json` with the reason it is not modelled: copies
and earlier stages of the above, one-page demos with no state of their own,
formatting and I/O, and third-party code.

What each is to do, in a sentence: the **pools** start each accepted job once and
in order, and can be taken down; a **connection** echoes in order, closes once
and leaves no goroutine; the **slab** keeps its units a partition and gives none
of them to two clients; the **sort** delivers each value once, in order;
**cleandisk** never removes the last copy; the **web server** serves what the
directory holds and always runs again; **mydocker** leaves the host as it was;
the **plugin manager** keeps finding what stays.  The code does not do all of
that: section 4 says where it falls short, and the properties say exactly how far it goes.

## 2. What is modelled

| module | models | uses |
|---|---|---|
| `JobService` | the abstract specification of both thread pools: a FIFO line, each job started at most once, a started job never freed | |
| `JobPool`, `MCJobPool`, `JobPool_proofs` | `threadpool/thread-pool.c` used as in `example.c` | instantiates `JobService` |
| `TaskPool`, `MCTaskPool`, `TaskPool_proofs` | `thread_pool/thread_pool.c` used as in `main.c` | instantiates `JobService` |
| `EchoService` | the abstract specification of a connection: messages come back in order, a bounded number of them is held | |
| `WsConn`, `MCWsConn`, `WsConn_proofs` | `impl/connection.go` and the handler in `server.go` | instantiates `EchoService` |
| `Slab`, `MCSlab`, `Slab_proofs` | `comm_slab.c` with its clients | |
| `SortPipeline`, `MCSortPipeline`, `SortPipeline_proofs` | `sort.go` and `pipeline/node.go`, `pipeline/net_node.go` | |
| `CleanDisk`, `MCCleanDisk`, `CleanDisk_proofs` | `cleandisk`'s `main.c`, with `db_interface.c` and `uxmd5.c` as it uses them | |
| `PluginWeb`, `MCPluginWeb`, `HostPrograms_proofs` | `main.go`, `server.go` and the handlers; `net/http` as `notes.md` patches it | |
| `MyDocker`, `MCMyDocker`, `HostPrograms_proofs` | `run.go`, `container_process.go`, `commit.go` | |
| `PluginMgr`, `MCPluginMgr`, `PluginMgr_proofs` | `plugin_mgr.c`'s monitor thread, and what main's lookup finds | |

Definitions that start with a comment `Mutant:` are plausible bugs in the
definition that follows them.  No specification uses them; replacing the
definition by its mutant must violate the property named in `PROJECT.json`,
which shows that the property depends on that piece of code.

### JobPool

A variable stands for each field: `jobs` and `jobNum` for the job queue,
`threads` for the thread queue, `status`.  `pc[w]` is a worker's place in
`thread_work`, `client[c]` the call a client is in, `mpc` main's place in
`thread_pool_init` and `thread_pool_destroy`.

A critical section in which nothing blocks is one step.  `add_job_to_job_queue`
is three (`AddCheck` under the status lock, `AddEnqueue` under the job mutex,
`AddBroadcast` after the unlock), because another thread can run in between.  So
is `thread_pool_destroy`: `DestroyBegin`, `CloseQueue`, `CloseBroadcast`, then
`CancelHead` and `JoinHead` for each thread.  `del_thread_from_thread_queue`
holds `thread_queue_mutex` all along, which is what `ThreadQueueLocked` says to
`GrowThread`.  A `select`-poll in destroy(1) that finds jobs left changes
nothing, so `CloseQueue` is just not enabled until the count allows it.

`pthread_cond_wait` and `printf` are cancellation points inside the worker's
critical section.  A worker that acts on a cancel request there dies with the
mutex locked: `DieHoldingMutex`, the only step that leaves `jobMutex` taken.  It
may happen wherever the C library can act on a request: on the way into the
wait, in it, and in the `printf` of `:212` that follows a wake-up, which comes to
`write`.  Clients call at any time, also during and after destroy.

`done`, `freed`, `accepted`, `rejected` and `late` (jobs linked after the queue was
closed) are history variables: no guard but that of adding a job once reads them.

### TaskPool

Three mutexes guard three things, none of them is held across a blocking call
except `task_cond_lock` in the wait, so each critical section is one step and no
lock needs a variable.  The worker's loop is `TestExit`, `Wait`, `Woken`, then
`PopTask`, `CountRunning`, `RunTask` until `FindNone`.  `Wait` looks at nothing,
as in the code.  The owner is main: it stops adding (`Close`), polls
`task_num` (`SeeNoTask`), then `curr_running_task_num` (`SeeNoneRunning`), and
releases (`SetExit`, `ExitBroadcast`, `JoinAndFree`); `Close(FALSE)` is an owner
that releases without polling, and `CreateFails` the error path of
`thread_pool_create`, which releases what there is.

### WsConn

One connection with its four goroutines.  Each channel operation and each call
on the socket is one step; `Close` is four (`CloseSock`, `Lock`, `CloseChan` and
`Mark` or `AlreadyClosed`, `Unlock`), because three goroutines may run it at once.
A `select` has two steps, and if both are enabled either may be taken, as Go
does.  `closes` counts executions of `close(closeChan)`; a count of 2 is a panic.

The socket is external: `PeerSends`, `PeerStalls` (the peer stops or resumes
draining its end) and `PeerGoes`, which also stands for a frame the library
rejects.  What arrived before may still be read or be lost, a write may be
buffered although the peer has gone; after our own `Close` every call fails.

### Slab

Addresses are offsets into the region.  The layout is computed twice in the
code, by the loop that places the units and by the ranges `is_in_slab` compares
with; the model keeps both (`Place` and `End`).  A unit's content is the handle
of the client that stored into it, `Zero`, or `Part` if only the beginning
survived.  Clients call in any order and pass units and malloc blocks to `slab_realloc`.
malloc is external: it returns the lowest address
behind the region that no client holds, so that the first block is at the very
end of the region, the address the first test of `is_in_slab` lets pass.

Three history variables name the two ways the allocator goes wrong, and no guard
reads them to prevent either.  `line[i]` is who holds units of class i, oldest first.
`outOfTurn` are the classes a client other than the first in line gave a unit
back to; a class leaves the set when all of its units are back.  `risk` are the clients
that have held a unit of such a class, or were moved out of a malloc block larger
than what `m_unit_size[-1]` says, and have not stored since.

### SortPipeline

`job` is one call of `createPipeline` or `createNetPipeline`: a file, the number
of chunks, and whether TCP lies between.  Each channel keeps what was ever sent
on it and how much of that was received, so that the buffer is what lies in
between and the properties can speak of all that passed.  A channel operation of
a goroutine is one step: `ReadValue` and `EndSource` for `ReaderSource` (over a
file, a connection or `large.out`), `Collect`, `SortInts`, `SendSorted` for
`InMemSort`, `SinkValue` and `Relay` for the two ends of a connection, `Receive`
(twice) and `SendSmaller` for `Merge`, then `writeToFile` and `printFile`.
`MergeN` is a recursive function that gives the tree of merges.

Values are read word by word from bytes.  `Read` may return less than a word
from a connection: `ReadValue` then decodes new and old bytes of the buffer, as
the code does, and `short` records that it happened.  `sort.Ints` is any sorted
permutation.  `Encode` and `Decode` are constants assumed inverse to each other.

Nobody looks at errors, and any call may fail.  `ReadFails` ends a file early, as
`node.go:85` does on any error; `Breaks` breaks a connection with any part of what is on
it lost, after which the receiver reads what is left and ends, and the sender
goes on taking values and drops them (`DropValue`, `node.go:98`); `WriteFails`
leaves `large.out` with a beginning of its bytes (`node.go:98`, and
`sort.go:81` for the flush).  `failed` records that any of them happened.

### CleanDisk

A digest stands for the content it is computed from; two contents of one digest
are not modelled.  `stack` is `List`'s recursion: what `readdir` has yet to
return at each level, in any order.  `tables` are the two tables as the program
sees them and `saved` as the last commit left them, so that a crash, or the end
of the program with a transaction open, loses exactly what was not committed.
`Insert` is begin, insert and commit, each of which may fail unseen.  Every
`opendir` takes a descriptor that is never given back; without one nothing can
be read and no transaction opened.  `Crash` may come between any two steps, and
`Start` again drops both tables.

### PluginWeb

`server[s]` is one goroutine that runs `Server`: read the directory, load each
plugin and register its page, add the pages, serve, watch `Running`, wipe.
Nothing in the code keeps two of them apart, and the model does not either.
`net/http` is external and patched (`notes.md`): registering a pattern a second
time leaves the first handler.  `restart` and `uploadfile` are requests, which need
a listener; `RemoveFile` is whoever looks after the directory.

### MyDocker

`levels` is what is mounted on `/root/mnt`, one mount on another, each with the
runs whose volume is mounted in it; a path leads to the last.  A run's steps are
the functions of `NewWorkSpace` and `DeleteWorkSpace`, with `Start` and `Wait`
between.  Any mkdir, mount, umount or remove may fail at any time and is only
logged, as in the code: whatever holds the mount busy, and whatever the error is,
the model does not ask for a reason.  `RemoveMnt` is `os.RemoveAll`, which goes
into whatever is mounted still.  `commit`'s `tar` keeps the level it works in busy
as well.  A run may be killed anywhere (`BreaksOff`).  `untidy` collects what went wrong:
runs that overlap, mounts left over from an earlier run, a umount or remove that
was refused, a run that broke off.  `left` are the volumes that were left mounted,
because their own umount failed or their run broke off.

### PluginMgr

`g_plugin_list` is a sequence of elements with a name, a mark and whether
`plugin_mod` is set.  A round is `Find`, then for each library `Replace` (its
element is locked still), `Add` (loaded and appended), `LoadFails` (which ends
the round without a sweep) or `CallNoGetmod` (a library that loads and has no
`getmod`: the null pointer is called and the process is gone), then the sweep,
one element of `del_list`'s walk at a time, since main can look in between.  The
directory changes at any moment, also between `find` and `dlopen`.

`streams` counts the streams of rounds that were broken off, which nobody closes;
`Find` needs one of `MaxStreams`, and when they are gone no round begins any more.
`handle` is what the round will hand to `dlclose`: the library it opened last, NULL,
or a handle that was closed already or never set, in which case anything may happen
(`CloseStale`).  `known` is the history variable the property is about: the
libraries the last full round named and that have stayed as they were since.

## 3. The runs

Distinct states are those of a run with the bounds given.

| run | instance | shows |
|---|---|---|
| `jobpool` | 2 threads (1 from init, the rest from clients that grow the pool by up to 2, one more than there are threads left, so that `pthread_create` fails), 2 clients that call before, during and after destroy, 2 jobs, destroy(0) and destroy(1); 143 355 states | the count is the length of the list, less one after closing; no sleeper misses work; one owner per job; the pool implements `JobService`; destroy(1) leaves no job of its list undone; what lives after destroy was linked since; destroy returns unless a worker died with the mutex |
| `jobpool_hang` | 2 threads from init, nobody else, destroy(0) | **violated**: destroy does not always return |
| `taskpool` | 2 threads (or fewer, if creation fails), 2 callers, 3 tasks, with and without polling; 23 450 states | what main drained is done when the pool is freed; no worker is left then; `JobService`; a worker that is awake empties the list; release returns if its broadcast misses nobody |
| `taskpool_lostwakeup` | 2 threads, 1 caller, 2 tasks | **violated**: an added task is not always run |
| `wsconn` | channels of 1, 5 messages; 240 270 states | `Close` is safe from three goroutines; in-order echo with bounded memory; all four goroutines end; messages come back |
| `slab` | the real eight classes and twenty units, 3 clients that call in any order, sizes 500 and 1000, units and malloc blocks passed to realloc; 188 017 states | the lists stay a partition of the units; `slab_free` never takes the head of an empty list; memory is shared and data lost only as section 4 says; placing and looking up agree on every byte |
| `slab_shared` | the same with 2 clients | **violated**: two clients hold the same unit |
| `sort` | 5 files of 0 to 6 words sorted where they are and 2 over connections, words of 2 bytes, 1 to 4 chunks, channels of 1, connections of 3 bytes, print limit 2, any read, write or connection failing; 111 380 states | the output is sorted; no value is in it more often than in the input, and when nothing failed it is exactly the input; main returns |
| `cleandisk` | 5 files of 2 contents in 3 nested directories, 2 runs, 5 descriptors, any call failing, a crash anywhere; 3 780 232 states | one copy of each content survives; the table of removals is true at every moment; a clean run leaves no duplicates |
| `web` | 2 Servers at a time, 2 plugins that come and go, any number of restarts; 238 448 states | the routes are those of the directory while Servers do not overlap; a Running server is watched; every restart leads to a Running server |
| `mydocker` | 2 runs, with or without tty and with either of 2 volumes or none, commits, kills, any mkdir, mount, umount and remove failing; 825 306 states | runs one at a time lose only files of volumes that were left mounted, and clean up when nothing is refused |
| `plugin` | 3 libraries, 3 changes of the directory at any moment, 2 streams to lose; 1 138 382 states | main finds a library all the while; in the end it finds just what is there, if the process lives and popen has a stream |

**Why the bounds are enough.**  Every race in the pools is
between at most two workers and two callers: one worker dies or is created while
the other takes, sleeps or is joined.  Two jobs give an order that could be
reversed and a queue that is not empty after a take.  In `wsconn` five messages
are what it takes to fill both channels (1 each) and the hands of reader, handler
and writer at the same time, so back-pressure reaches the peer.  In `slab`
sizes 500 and 1000 fall into the seventh class, which has two units, and the eighth,
which has one, so three clients exhaust both: the next class is tried, and then
malloc.  Classes before the seventh would add the same steps with other numbers;
that all eight are laid out right is checked byte by byte.  In `sort` a channel of one place is full after each value, three and four
chunks give both shapes of the merge tree (a leaf beside a merge, two merges),
and three bytes on a connection cut a two-byte word in two.  In `cleandisk` the
three copies of one content lie at three depths, five descriptors run out
inside the walk (two for the root, one for each directory below, the last for a
file or a journal, unless a failing `fread` has left it open), and a second run starts on whatever the first left.  In `web` a second
Server is all the overlap there can be between a look and a load; a third would
repeat it.  In `plugin` three changes are one to break a library,
one to mend it and one to take it or another away, and two lost streams are one after
which rounds go on and one after which they do not.

`CHECK_DEADLOCK FALSE` is set everywhere because the programs end or may rest: a
pool that was destroyed, a connection whose goroutines have returned, a sorted
file, a container that is gone take no further step.

**What the violated runs show.**  Each quotes the claim it refutes in
`PROJECT.json`.

- `jobpool_hang`: `DestroyReturns`.  Both workers sleep.  destroy's broadcast wakes
  them, destroy cancels the first, which has just got the mutex and dies in the
  printf of `thread-pool.c:212`; the second never gets the mutex, so that
  `pthread_join` waits for it for ever.
- `taskpool_lostwakeup`: `AddedTasksRun`.  The wait of `thread_pool.c:21` has no
  predicate; a broadcast that comes before it is lost, and the task stays on the
  list until another one is added.
- `slab_shared`: `NothingShared`.  `slab_free` recycles the head of the used list,
  not the unit its argument points to.  Two clients hold one unit each, the
  second frees its own, asks again, and is given the first one's.

## 4. What the models brought to light

These follow from behaviours of the models; each is why a property is stated
with the condition it has, or with the instance it is checked on.

*Pools.*
- destroy need not return (`jobpool_hang`).  A worker that dies with the mutex is
  the only reason (`DestroyReturnsUnlessOrphaned`), and only a worker that has just been
  woken can, unless an add came late (`NoSleeperCancelled`).
- An add that read the active status may enqueue after destroy(1) stored -1,
  which brings the count to 0: the workers see an empty queue and sleep.  The add
  returns 0 and the job is never run, although destroy(1) is to wait for all
  jobs (`thread-pool.c:423`).  `WaitCompletesJobs` and
  `AcceptedJobsFinish` except such jobs by name (`late`).
- A client past the status check of `add_thread_to_thread_queue` can create a
  thread after destroy has joined all of them; it is on the thread list, and nobody
  joins it (`NoThreadOutlivesPool`).
- release's one broadcast can miss a worker between its test of `exit` and its
  wait; the join then hangs (`ReleaseReturnsUnlessMissed`).
- Both counters of the task pool are 0 while a worker is between
  `thread_pool.c:38` and `:43`, so polling does not tell that the pool is idle;
  the joins in release make up for it (`DrainedPoolIsDone`).

*Slab.*
- `slab_free` recycles the oldest unit of the class its argument is in, not the
  argument (`comm_slab.c:213-215`): with clients that free in another order, as the
  allocator's own `slab.c` does, two get the same unit (`slab_shared`).  The damage
  stays in that class and ends when all of its units are back (`OneOwner`).
- `slab_realloc` of a block from malloc copies as much as `m_unit_size[-1]` says,
  which is the last of `m_unit_max_num`, 1 (`comm_slab.c:236-241`).  These are the
  only two ways to lose data (`KeepsData`).

*Sort.*
- A short `Read` from a connection spoils a value and shifts all that follow; a
  file that the chunks do not divide loses its rest (`short`, `Aligned`).
- The reader takes every error for the end of the data (`node.go:85`) and writers look at none
  (`node.go:98`, `sort.go:81`): values are lost and nobody is told.  None is made up
  and their order stands (`ResultExact`, `OutputSorted`).
- printFile leaves its reader blocked; only the end of the process frees it.

*cleandisk.*
- Unreadable files share the empty digest, so the second is removed as a copy of
  the first (`blind`).
- Once descriptors run out, which takes a tree of about a thousand directories,
  every digest is empty; rows are not stored either, for the journal cannot be
  opened, so that nothing more is removed unless a row of the empty digest was
  stored before.

*Plugin web server.*
- After a restart main mostly looks before the old Server does, starts a new one,
  and that one sets `Running` back to 1: the old Server never sees 0, never wipes,
  and a plugin that was removed stays served, against `server.go:107-108`.
- If both look in time, the old Server's wipe can take the new one's routes.
- A restart clicked while a Server is loading is lost.
`AloneIsExact` therefore speaks of Servers that do not overlap.

*mydocker.*
- A detached run does not wait, and deletes the work space its container has just
  been started in (`run.go:43-50`).
- When the umount of a volume fails, for whatever reason, it is logged and the run goes
  on: `os.RemoveAll("/root/mnt")` deletes the volume's files on the host
  (`container_process.go:221-235`).  The same happens to a volume that a run
  broken off earlier has left mounted, and to another run's.  `VolumeKept` says that with
  runs one at a time nothing else costs a volume its files.
- `DeleteReadOnlyLayer` looks for `/rootbusybox/`, a missing separator;
  `os.Exit` skips the deferred `Destroy` of the cgroup; a failing `Start` is
  followed by a nil pointer.

*Plugin manager.*
- After a round that was broken off, the next full round finds every element
  still locked and replaces it by one whose `plugin_mod` nobody sets; main finds
  none of those libraries until the round after it (`known` is then empty).
- A round that is broken off jumps past `pclose` (`plugin_mgr.c:107`, `:119`): one
  stream, descriptor and child less each time, until `popen` fails for good and
  the list stays as it is.  `Recovers` holds as long as one stream is left.
- A library without `getmod` takes the process down (`plugin_mgr.c:111-112`).
- A round closes only the handle it opened last, which may be one it closed
  before or, in a first round that opens nothing, one never set.

## 5. Fairness

- **Pools.**  Weak fairness of main, of each client inside a call and of each
  worker: threads that can run are scheduled and callbacks return.  A critical
  section being one step, weak fairness also says that a thread is not kept out
  of a free mutex for ever; glibc does not promise this, but a loop that barges
  in always blocks or does work in between.  No fairness for starting a call,
  for destroy, or for spurious wake-ups: nothing relies on them.
- **WsConn.**  Weak fairness of the four goroutines (Go's scheduler is
  preemptive and fair), but none for the peer.  Strong fairness of `PutOut`: the
  handler and the heartbeat compete for places in `outChan`, and a blocked Go
  sender queues first-come first-served, so it gets a place if places come free
  again and again.  Strong fairness of `WriteOk`: a write gets through to a peer
  that drains its end again and again.  `EchoEventually` is conditional on
  such a peer, `AllEnd` on none.
- **SortPipeline.**  `WF_vars(Works)`: some goroutine that can go on does.  It is
  the weakest fairness there is, and enough because every step passes a value on
  or ends a stage, so that a pipeline that never stops is finite.  Nothing has to
  fail, so failing steps have no fairness; a writer on a broken connection drops its
  values and ends.
- **PluginWeb.**  Weak fairness of main and of each Server: both are loops that
  sleep a second.  None for requests or for the directory.
- **PluginMgr.**  Weak fairness of the monitor thread.  `Recovers` is conditional
  on a process that lives, on a popen that has a stream left and on a directory in
  which, from some moment on, everything can be loaded.
- **Slab**, **CleanDisk** and **MyDocker** have only safety properties: the first
  is sequential, the others may be killed at any moment.

The two violated liveness runs use the same fairness, so their counterexamples are
not threads that were never scheduled.

## 6. What is proved

The theorems hold for every number of threads, callers, jobs, channel capacity,
messages, classes, clients, chunks, files, libraries, runs and servers; the assumptions on
constants are the named `ASSUME`s in the modules.

**JobPool_proofs.**  `TypeCorrect`, `CountCorrect`, `OneOwner` and `NoMissedWork`
are proved one on the other: the count needs only types; that a job has one owner needs
that worker's hands, the list and the client's hands are disjoint, step by step;
`NoMissedWork` says that whoever made the count non-zero still owes a broadcast.
`Refinement` maps the list to the line and the workers' hands to the running
jobs: `AddEnqueue` is `Submit`, `Take` with a job is `Start`, `Run` is `Finish`,
`CloseQueue` with wait = 0 is `Discard`, everything else stutters.
`DestroyInv` is about destroy against clients that call whenever they like and
workers that may die with the mutex: nobody is cancelled before the queue is
closed, what a closed queue holds came late, after the closing broadcast
nobody sleeps unless something came late, and a living worker is on the thread
list.  `DestroyWaits`, `NoneCancelledAsleep` and `NoThreadLeft` follow without any
assumption; the second also uses the count, which is -1 in a closed queue
that nobody added to.

**TaskPool_proofs.**  `PoolInv` relates the counters to the list and to the
workers inside a callback, and `thread_num` to the threads that exist;
`OwnInv` places each task in one of list, hands, done, freed; `DrainInv` says
that the list stays empty once main has seen `task_num` at 0.  From them
`TypeCorrect` (so no counter is ever negative), `NoneLeft`, `Drained`, `Refinement`.

**WsConn_proofs.**  `CloseInv` says that who stands between lock and unlock owns
the mutex, that `closes` and `isClosed` differ only between the two
statements, and that the socket is closed before; `CloseCorrect` follows.
`DataInv` gives the place of every message: counting back from what was read,
the reader's hands, `inChan`, the handler's hands, `outChan` (in order, with
heartbeats in between), the writer's hands, what was written.  Counting the
places bounds the messages held by `2 * Cap + 3`; `Echoes` is the refinement of
`EchoService`.

**Slab_proofs.**  `SlabInv` is, class by class, `ClassInv`: free and used list
are disjoint, repeat nothing, make up the class's units, and the used list is as
long as the line of its holders.  `Partition` and `NeverEmptyHanded` follow for
clients that call in any order.  `QueueInv` adds that in a class
that is in turn the k-th holder in the line points to the k-th used unit, and that
malloc blocks are apart; giving a unit back out of turn takes the class out of what it
claims, and a class whose units are all back satisfies it again.  `SoleOwner`
follows with no assumption on the clients.  `DataKept` needs on top `KeepInv`:
a client that holds a unit of a class out of turn is at risk, and a unit is as
large as its holder asked for, so that what is copied out of it is everything.  Each
step writes only where its client points, to what it was given, or to the unit it
recycles, and in a class in turn that unit is its own or held by nobody
(`Recycles`, `OthersKeep`).

All of them rest on `LayoutHolds`, which is also the theorem `LayoutRight`: for any
number of classes, any unit size and any numbers of units, the loop that places
the units puts those of class i exactly into the range `is_in_slab` gives to i,
none twice and none left over.  The offsets (`End`, `UnitSize`, `Units`) and the
loop (`Place`) are recursive functions, and the library's induction theorems
cannot be instantiated.  What is used instead is the least-number principle in a
form without an operator parameter: a set of naturals that holds the predecessor
of each of its positive members holds 0 or is empty (`Least`, `Descent`).  A
recursive function is a `CHOOSE`, so that a function with those equations exists
has to be shown as well (`StepsExist`).  `Rounds` then says in closed form what
the loop has placed after n turns, and `PlaceIsRounds` that the loop does so.

**SortPipeline_proofs.**  `Sorted`: what reaches `writeToFile` is in order, for any
file, number of chunks, channel capacity, window and word size, as long as no
`Read` was short and whatever fails.  `OrderInv` follows the values through the stages: what a sorter
has sent is a beginning of its sorted array; the bytes on a connection are the
words that were sent and not yet read (`WireOK`); the relay has passed on what
it received (`NetOK`); and `MergeOK`, the heart of it: what a merge has sent is
ascending, a head it holds is a value its input has delivered and is not smaller
than anything sent, and if the last value sent came from an input whose next
head is not there yet, that input delivered something as large.  With ascending
inputs the next head is then no smaller either, whichever input ends first.

`Exact` (`ResultExact`): no value reaches `writeToFile` more often than the file has
it; and if nothing failed the result is the file's values, each as often as the file has
it, `large.out` is their bytes, and `printFile` shows the first of them.
`ExactInv` goes stage by stage: a chunk is read from its place in the file, word
by word (`SourceExact`); a sorter has sent a part of what it collected, and a relay
has passed on what it took (`SortExact`, `ConnExact`); for each value, and for all
values together, what a merge has sent and holds is what it has received from its
two inputs (`MergeExact`); and a stage that has left has emptied its inputs.  Almost
all of it stands whatever fails; only that a closed reader has read its whole chunk and
that what was written is on disk need that nothing did.  What a failure costs is a
tail: every stage still passes on a beginning of what it got (`NumPart`), so that
counts can only shrink from the chunks to the root of the tree (`SortAtMost`,
`NetAtMost`, `HalvesAtMost`).  When nothing failed they are equal (`SortWhole`,
`NetWhole`, `HalvesWhole`).
`Calm` says that a closed channel gets nothing more and a reader that has left takes nothing
more, which is why each stage need only look at its own step.  The sums are
added up over the tree by halves (`ByHalves`), and
`Sizes` and `Places` show that the chunks are the file without gap or overlap if
the count divides the number of values (`Aligned`, as the property says).
`Num` counts occurrences by cardinality, so that a count splits where a sequence
does (`NumSplit`) without induction; `BytesSpell` reads the fold that turns values into
bytes word by word.

**CleanDisk_proofs.**  Three layers.  `WalkInv`: what the recursion has yet to return
is listed once, new to this run and still on disk, so that the file at hand
never is the file a row names, and a row whose digest was read names a file that is
there with that content.  From it `NothingLost` (`OneCopySurvives`), for any tree,
any number of runs and crashes and any failing calls.  `ReportInv`: while no call
has failed, what is in the tables is committed and no digest is empty, so
`ReportHolds`.  `WholeInv`: while descriptors last as well, every entry of an opened
directory is seen or pending, every file seen and still there has its row, and
no two rows share a digest; at the end, by the assumption that the tree is
connected, every file has been seen: `Deduplicated`.

**PluginMgr_proofs.**  `StaysFound`.  `ListInv` has three parts.  Between sweeps, what the
last full round named is answered for by an unlocked element (`OldInv`): adding
appends and replacing takes only locked elements.  A round that has been whole
so far has locked an element for each library it has named, and nothing else is
locked (`RoundInv`), so that it replaces nothing.  In the sweep each has an
element, unlocked behind the sweep's place and locked at or before it (`SweepInv`), and
the sweep deletes only unlocked ones it comes to.

**HostPrograms_proofs**, mydocker.  Any mkdir, mount, umount or remove may fail in
both.  `VolumesKept` is about any runs that come one at a time, on whatever earlier
ones have left: `LeftInv` says that a volume is mounted only for the one run at work, in the
topmost level, or is in `left`; a run's own umount takes it down or puts it into
`left`, and so does breaking off, so that `os.RemoveAll` meets only volumes of `left`.
`LeavesClean` is about runs of which nothing was refused: the place of the one run
says what is mounted (`MountInv`), which is at most its layer and on it its volume,
and nothing once the umounts are past.  `BoxInv` relates the container to the
place, and `TidyInv` says which broken ends are recorded in `untidy`.

**HostPrograms_proofs**, web.  `ServesTheDirectory` (`AloneIsExact`): as long as no
Server was started before the last had returned, `AloneInv` says that before a
Server no plugin's route is left, that after its k-th step it has
registered what it has seen of the directory and nothing that was not in it, and
that the index page links to each plugin that shows itself and to nothing that
has no route.  `RunningIsWatched` (`SomeServerWatches`): while
`Running` is 1, some Server still looks at it, however many run at once; it is
inductive together with the types, since a Server leaves only when it has read 0.

**Only model-checked**: what holds under fairness (`DestroyReturnsUnlessOrphaned`,
`AcceptedJobsFinish`, `AwakeWorkerDrains`, `ReleaseReturnsUnlessMissed`, `AllEnd`,
`EchoEventually`, `MainReturns`, `RunsAgain`, `Recovers`), since liveness and
`ENABLED` are out of the provers' reach.  Every invariant the passing runs check is the
statement of a theorem.

## 7. Not modelled

*In the modelled components.*  Failing `malloc`; the moment at which TCP notices
that a peer has vanished; the contents of messages and of jobs; logging and
printing, except that a printf may be a cancellation point; weak memory
(`pool->exit` is read without a lock, and a read returns the old or the new
value); `slab_release` while clients hold units, after which they take no step; a
second `thread_pool_init` after destroy, as no program makes one; two runs of
cleandisk at once, which share `/opt/data.db`, a tree that changes during the
walk, and digests that collide; in the web server the detour over a child
process, an upload that overwrites the file of a plugin in use, and the data
races of its variables as such; in mydocker the cgroups, which `os.Exit`
leaves behind, the busybox layer, which nothing removes, what `init` does in its
own mount namespace, and a host with shared mounts; main's walk over the plugin
list while the monitor frees its elements, which is undefined behaviour of a single
pointer; in the slab, writing behind the end of a malloc block that `slab_realloc` has
"grown" in place; in the sort the panics that end the program when a file cannot be
opened or an address not be listened on or dialled, and a `Read` of a file that
returns part of a word before an error (files are read short only at their end).

*Components.*  The deferred free has no caller.  The music library, the vote
system and the data-structure lessons are sequential and small.  tinix, lucasOS
and the kernel modules work on hardware or kernel interfaces.  The other demos
are straight-line I/O, or copies and earlier stages of what is modelled.  Most of
the repository's lines are third-party code (SQLite and OpenSSL headers,
protobuf-c, the SGI STL, node and go vendor trees, a vendored BBS), lessons and
data, which is why the share of lines behind a definition is small.
`PROJECT.json` gives the reason for each.

## 8. Plan

1. Action properties of the pools and of the slab (what no step may do to a thread that is
   joined or to a unit that is held), proved from the invariants there are.
2. The hazards in `PROJECT.json` that no property covers, such as main's walk over
   elements the plugin monitor frees.
3. The **music library** and the **tinix** scheduler as small sequential models, if
   they turn out to have a property worth a run.
