# Formal models of Linux_Kernel_Dev

TLA+ models of the programs of this repository, the TLC runs that check them on
small instances, and TLAPS proofs for instances of any size. `PROJECT.json`
lists components, runs, mutants, the map from definitions to source lines,
findings, hazards and theorems.

## 1. The system

Four independent projects. Three are kernel modules driven through a proc file;
the fourth is a set of user programs on a disk image.

| Part | Source | State | Operations | What makes it hard |
|---|---|---|---|---|
| RMS scheduler (MP2) | `RMS_Linux_Schedular/mp2.c` | PCB list, `currtask`, per-task `RMSstate` and timer, dispatcher thread | `R`, `Y`, `D` commands, `timercb`, `dispatcher`, `mp2_exit` | a kernel thread that sleeps and is woken, timers that write state without the mutex, PCBs freed while timers run, tasks that put themselves to sleep |
| CPU usage tracker (MP1) | `CPU_Usage_Tracker/mp1.c` | list of pids and CPU times, timer, work item | write (register), read, `timercb`, `work_func`, exit | a self-rearming timer that queues work, against teardown; reads split over calls |
| Page fault profiler (MP3) | `Virtual_Memory_Page_Fault_Profiler/mp3.c`, `monitor.c` | pid list, delayed work, shared sample buffer | `R`, `U`, `workhandler`, `mmap`, exit; the monitor | start and cancel of the work outside the mutex; a user program that reads and writes the buffer without synchronisation |
| File system tools | `Myfsck/myfsck.c`, `mkfs.c`, `lsfs.c` | a disk image | one pass of checks; building an image; listing | arithmetic at block boundaries, reference counts, the directory graph |

The user programs (`userapp.c` twice, `work.c`) only issue commands that the
models let any process issue.

Correctness, per part:

- **MP2**: a small admitted task set is schedulable; the dispatcher runs the
  READY task of shortest period; a released task is woken, and only then; no PCB
  is used after it is freed or freed twice, and none is lost except in known
  ways; unloading ends.
- **MP1**: each pid is tracked once; a dead process disappears; a reader sees
  the list; nothing asynchronous survives the teardown, and unloading frees all.
- **MP3**: registered processes are sampled, sampling stops with the last one;
  samples are whole groups of four; what uses the freed buffer is known.
- **Myfsck**: an image passes exactly when it is consistent; images built by
  `mkfs` pass.

## 2. Modules

| Module | Models |
|---|---|
| `RmsUtilization` | the admission arithmetic of `taskregister()` |
| `RmsRegistry` | abstract specification: the task list as register and deregister change it |
| `RmsScheduler` | all threads of `mp2.c` |
| `RmsRegistryProofs` | admission control, proved; sums and products over finite sets |
| `RmsRefinement` | `RmsScheduler` implements `RmsRegistry` |
| `Lists` | `list_del()` on a list read as a sequence; stacks of calls |
| `ListLemmas` | lemmas on sequences that the proofs share, and on `LinkMap` |
| `RmsSchedulerProofs` | types, ownership of the PCBs, memory safety, preemption, allocation, proved |
| `RmsPromiseProofs` | the refinement, and the dispatcher on one core: what it leaves at rest, whom it wakes, whom it promotes, proved |
| `CpuTracker` | `mp1.c` |
| `CpuTrackerProofs` | its safety properties, proved |
| `Profiler` | `mp3.c` and `monitor.c` |
| `ProfilerProofs` | its safety properties, proved: threads and list, then the buffer |
| `FsImage` | the disk format of `fs.h`, and what a consistent image is |
| `Fsck` | `myfsck.c` as an operator from images to verdicts |
| `LinkMap` | `fetchHardLink()` of `mkfs.c`: the map of hard links |
| `Mkfs` | `mkfs.c`, one action per turn of its `readdir` loop |
| `FsTools` | `mkfs`, a fault, `myfsck` and `lsfs.c` on one image |
| `FsckPassProofs` | the first pass of `myfsck`, proved; loops with an early exit |
| `FsToolsProofs` | its second pass and its verdict, and the hard links of `mkfs`, proved |
| `MC*` | instances for TLC |

A definition whose comment starts with "Mutant" is a deliberately wrong version
of the one after it. It is used by no specification; substituting it must break
the property `PROJECT.json` names.

### RmsScheduler

Threads interleave where the code takes or releases `mp2mutex`, touches shared
state without it, or may sleep. A critical section that touches only state
guarded by the mutex is one step.

| Code | Actions |
|---|---|
| `threadfunc`, `dispatcher` | `DispStart` `DispLock` `DispScan` (one list element) `DispKeep` / `DispRun` / `DispPreempt` (the decision) `DispPromote` `DispDemote` `DispSetState` `DispCheck` `DispWoken` |
| `timercb` | `TimerExpire` `TimerReady` `TimerWake` |
| `taskregister` | `TaskRegister` `TaskRegisterZero` (the early return on a zero argument) `TaskRegisterOops` (the cache is gone) |
| `taskyield` | `TaskYield` `YieldWake` `YieldSetState` `YieldReturn` |
| `deregister` | `Deregister` `DeregDemote` `DeregFree` `DeregFreeNull` `DeregWake` |
| `mp2_exit`, `cleanuplist` | `ExitStop` `ExitStopped` `ExitLock` `ExitDetach` `ExitFree` `ExitUnlock` `ExitDestroy` `ExitProcRemove` `ExitDone` |

Pointers are model values of `Pcb`; `slab` is the set that is allocated. Time is
abstracted: a pending timer may expire at any moment, so every order of expiries
is covered and no property depends on how long a job runs. `SMP = FALSE` is one
core with kernel preemption (the callbacks of timers run to completion),
`SMP = TRUE` several cores. `ForeignPid` lets a process register or deregister
another one, which the command syntax permits. `missed` is a history variable:
a wake-up arrived between the dispatcher's scan and its sleep.

`mp2_exit` empties the list and destroys the cache before it removes the proc
entry, so commands can still come in between. They are modelled. `late` is a
history variable: the PCBs registered after `cleanuplist`, or not freed because
`mp2cache` was NULL. `kmem_cache_alloc(NULL)` faults; the process ends inside
`my_write`, holding no lock, and `proc_remove` then waits for it for ever.
`kmem_cache_free(NULL, x)` returns or faults, depending on the kernel, and frees
nothing. Both modules that have a cache are modelled this way.

### CpuTracker

`timercb` is two steps (`schedule_work`, `mod_timer`), `work_func` one step per
list element under the mutex. `idregister` is split at the lock and, for a
duplicate, at the unlock: `adding` and `refused` hold the nodes of the calls in
progress. `oops` says that a call has died on the NULL cache, `late` is as in
`RmsScheduler`. Processes run, exit, and pids are reused. A line of the proc file is one unit of the offset of
`my_read`; a reader may ask for one or several lines per call. `dirty` is a
history variable: a line changed since the reader was at offset 0.

### Profiler

The delayed work item is idle, on its timer, or queued, and may be running at
the same time. `cancel_delayed_work_sync` is two steps; between them the item
cannot be queued, as the kernel documents. The four stores of a sample are four
steps, and so are the loads and stores of the monitor. A slot holds EMPTY (-1)
or a pair of a sample's stamp and a field number: what the fields contain does
not matter to any property, which sample they belong to does. `raced` is a
history variable: an `R` entered the list while a `U` was still cancelling.

Commands come in at any moment until `proc_remove`, the last step of `mp3_exit`.
`late` is a history variable: the `queue_delayed_work` of an `R` came after
`mp3_exit` had cancelled the work. Before `destroy_workqueue` it still queues,
and the handler may re-arm itself on a timer that outlives the workqueue; after
it the writer faults (`RegisterFaults`). Then anything may happen. The model goes
on with one outcome, and `FreedUnusedUnlessLate` says that there is no other way
to get there. A monitor that has the device open holds a reference on the module
(`ExitBegin`). One assumption on the environment is a guard: with
`MonitorLive = FALSE` the monitor and a profiling session do not overlap
(`SessionsApart`).

### FsImage, Fsck, Mkfs, FsTools

The format is scaled, not simplified: `NINODES`, `NBLOCKS`, `SIZE`, `NDIRECT`,
`W` (directory entries or block pointers per block), `IPB` (inodes per block)
and `BPB` (bitmap bits per block) are constants, and the layout arithmetic is
that of `fs.h`. A block is `W` words. A word is an entry (inode number and kind
of name) or a pointer; names other than `.` and `..` are one value, because no
tool looks at them.

| Code | Definitions |
|---|---|
| `myfsck.c` `helper`, `check_size`, the walks | `Fsck`: one operator per loop body and `Scan` for the loops over inodes, blocks and entries, in the order of the code; the first error ends a scan, as `exit` does. `myfsck(im)` is the message |
| `mkfs.c` `main`, `add_dir`, `iappend`, `ialloc`, `balloc`, `fetchHardLink` | `MkfsTree` `MkfsNoTree` `MkfsUnreadable` `ReaddirDir` `ReaddirFile` `ReaddirEnd` `ReaddirFails`; `dirs` is the recursion, `links` the list of hard links |
| `lsfs.c` `ls_dir`, `walk_dirblock` | `LsStart` `LsEntry` `LsReturn`; `listing` is the recursion |

Two actions belong to no tool. `MoveDir` is a file system in use that moves a
directory, also under its own descendant, which makes cycles and unreachable
directories. `Corrupt` changes one metadata field of the image. Together they
make images no `mkfs` builds, so that each of the 17 verdicts of `myfsck` occurs.

`Consistent` in `FsImage` is the reference: conditions on the whole image,
stated with quantifiers and without the order and the counters of the code.
`AcceptsExactlyConsistent` compares the two in both directions. It needs two
exceptions (`BlindSpot`): `myfsck` never asks that the root is in use, so an
image with no inode in use passes, and an entry that names inode number
`ninodes`, one past the table, is counted and never looked at. `MessageIsTrue`
is about the message: chosen in mid-scan, it is true of the whole image
(`TrueMessage`). One message says less than it seems to: a directory from which
the walk along `..` does not come to the root may still be reached through
another name, when it has two.

`IsImage` says which images are in question: of the size of the disk, with any
types, sizes, addresses, pointers, bits and names in them, and with inode numbers
in directories up to the `ninodes` of the image, which is the last element of the
arrays of `myfsck`. It is part of `TypeOK`, and a fault keeps it.

`BuiltImageVerdict` says what `myfsck` makes of undamaged images. It accepts
them, with three exceptions that are as the code has them. Without a tree `mkfs`
writes a root without entries. The size of a directory whose entries exactly
fill its blocks is one block too large (`mkfs.c:250`). And `ialloc` gives out
number `ninodes` too (`mkfs.c:343`), which has a slot in the table but is in no
scan of `myfsck`: if the file or directory with that number has blocks, the
bitmap marks blocks that nobody seems to use; if not, the image passes. An image
of a `mkfs` that failed half-way is always refused, because the bitmap is written
last.
`HardLinksShared` has one exception too: when the first node of the list of hard
links is used up, the whole list is lost (`mkfs.c:64`) and later names of the
files in it become copies.

`mkfs` does not check that inodes and blocks remain. `RoomFor` bounds the model
to trees whose blocks fit and whose inode numbers go up to `NINODES`; larger ones
make `myfsck` index past its arrays, and are left out.

## 3. Runs

All bounds are in the `.cfg` files.

| Run | Instance | Shows |
|---|---|---|
| `rms_registry` | 4 pids, periods 0, 3, 5, 7, 8, times -1 to 3, words of 20 bits | small admitted sets pass exact time-demand analysis; truncation hides less than 1/1000 per task; the admitted sum stays within the bound |
| `rms_smp` | several cores, 2 processes, 2 PCBs, foreign commands, zero arguments | memory safety, single teardown, which PCBs are lost, the inductive invariant, refinement of `RmsRegistry` |
| `rms_up` | one core, 2 processes, periods 3 and 5 | one RUNNING task, rate-monotonic choice, promotion, preemption only by shorter periods, wake-up only at release; the two inductive invariants behind the proofs |
| `rms_live` | several cores, 2 processes, 1 PCB, fair | a READY task is dispatched; unloading gets to `proc_remove` |
| `tracker` | 2 pids, 2 nodes, CPU times 0 and 1, reads of 1 or 2 lines, fair | list safety, quiet teardown, all nodes freed, undisturbed reads, removal of the dead |
| `profiler` | 2 writers, 2 pids, a buffer of 2 samples, 3 stamps, fair | sampling starts and stops, whole groups across the wrap, monitor lines, how freed memory can be used |
| `fs_tools` | 5 inodes, 7 data blocks of 4 words, 1 direct address and an indirect block, 2 host files of 0, 1 or 5 words with up to 2 names | the checker against the reference definition, its messages, its verdict on built images, hard links, the listing |

Violations: the code does something else than its documentation says.

| Run | What happens |
|---|---|
| `rms_wakeup_lost` | `threadfunc` sets its sleep state after the pass, so a timer that expires during the pass leaves its task READY with the CPU idle. `QuiescentDispatch` is the same property with this one exception and holds. |
| `rms_task_stays_asleep` | `taskyield` wakes the dispatcher before it sets its own sleep state; if the task is dispatched in between, it sleeps on as `currtask`. |
| `rms_unload_hangs` | `cleanuplist` deletes the timers of sleeping tasks and wakes none, so `proc_remove` waits for their system calls for ever. `UnloadReachesProcRemove` shows that everything before it ends. |
| `profiler_sampling_lost` | `deregister` cancels after the unlock and removes the work a concurrent `taskregister` has just queued. `SamplingRunsUnlessRaced` shows this is the only way. |
| `profiler_torn_sample` | a monitor that starts while a sample is stored starts in the middle of the group. |

Why the bounds suffice. Two processes and two PCBs allow every pair of threads
to meet on one PCB or on two; a PCB can be freed and allocated again while an
old pointer could still exist. Two different periods give preemption, two equal
ones (`rms_smp`) ties. A buffer of two samples wraps after every second one; three stamps tell a
sample from its neighbour and from the one it overwrites. Words of 20 bits keep
the wrap-around of `comp_time*1000` within TLC's integers. The bounds on
liveness are the weakest point: `rms_live` has one PCB, so two tasks never
compete there; competition is covered by `rms_up`, for safety. An instance of `rms_live` with
two PCBs (949,400 states) gave the same result. In `rms_registry`
sets have at most 4 tasks, of the 15 that `SmallSetsAreSchedulable` is about; the
overload that larger sets can reach is the subject of a theorem (section 4). In
`tracker` the proc file is never longer than the buffer of `my_read`, so its
truncation (`mp1.c:106`) is modelled and not exercised.

For `fs_tools`, four usable inodes allow the root, a directory in a directory and a
file, or two files with two names each; a fifth file or directory gets number
`NINODES`. A block of four entries is exactly full
with `.`, `..` and two names, and the next entry needs a second block, through
the indirect block. A file of five words uses the indirect block as well. The
run has 341,142 states; an instance with 3 words per block and 8 blocks (391,643)
gave the same results.

Deadlock is not checked where unloading or the last tool ends: there the system
really stops.

Fairness. The kernel runs runnable threads, expired timers and queued work, so
these are weakly fair. Nothing forces a process to issue a command, to exit, or
anyone to unload the module; an unload that has begun goes on.

Not covered by a run, and met while modelling:

- truncation admits tasks 1/36 and 2/3 (exact utilisation 0.694) as 693
  (`mp2.c:168`);
- a period and time of -1 are converted to unsigned and admitted with
  utilisation 0 (`mp2.c:321`);
- a task that yields keeps `SCHED_FIFO` while it sleeps (`mp2.c:241`);
- a zero argument leaks the PCB just allocated (`mp2.c:167`), and a command
  between `cleanuplist` and `proc_remove` leaves a PCB behind (`mp2.c:444`;
  `RMS_Linux_Schedular/README.md:16` has the proc interface deleted first).
  `OnlyKnownLeaks` names these two and shows that there are no others;
- a registration between `cleanuplist` and `proc_remove` leaves a node behind
  (`mp1.c:196`), the exception of `UnloadFreesAll`;
- an `R` between the cancel and `proc_remove` makes the freed workqueue and
  buffer be used (`mp3.c:428`), the exception of `FreedUnusedUnlessLate`;
- a tree of as many names as there are inodes is built and then refused
  (`mkfs.c:343`), an exception of `BuiltImageVerdict`;
- `taskregister` in MP3 does not reset the buffer its comment says it resets
  (`mp3.c:95`).

## 4. Proofs

`RmsSchedulerProofs` proves, for any sets of processes, PCBs and arguments, any
word size, one or several cores, with or without foreign commands
(`ConstAssumption`, `UlongModAssumption`; these hold for the next module too):

- `TypeCorrect`: `Spec => []TypeOK`;
- `OwnershipInvariant`: `Spec => []IndInv`;
- `MemorySafety`: `Spec => []NoUseAfterFree`;
- `FreedOnce`: `Spec => []NoDoubleFree`;
- `SingleRunner`: `Spec => []OneRunning`.

`NoUseAfterFree` is not inductive. It says that pointers lead to allocated PCBs,
but not why a free by one thread leaves the pointers of the others alone.
`IndInv` adds ownership: the list has no duplicates and only allocated PCBs
(`ListInv`); a PCB under teardown is off the list and belongs to one thread
(`TargetInv`); the dispatcher's pointers are to listed PCBs while it may follow
them, and `cleanuplist` runs only once the thread is gone (`DispInv`); armed
timers and running callbacks are those of allocated PCBs (`TimerInv`), which is
what `del_timer_sync` before the free ensures. There is one lemma per group of
actions (`IndDispatcher`, `IndTimer`, `IndRegister`, ...), `IndStep` combines
them. `ListLemmas` holds what appending, removing and taking the tail do to the
entries of a duplicate-free sequence. TLC checks `IndInv` in `rms_smp`.

The last part of the module proves, from the same invariant,

- `PreemptionRule`: `Spec => PreemptOnlyByShorter`. It rests on `CurrAwake`:
  while the dispatcher lives, `currtask` is not SLEEPING, because `taskyield`
  lets go of it in the critical section that puts it to sleep. So the branch of
  `dispatcher` for a sleeping current task never displaces one;
- `LeaksAreKnown`: `Spec => []OnlyKnownLeaks`, for all arguments, zero included.
  A PCB that is allocated and neither registered, nor in the hands of a thread
  that frees it, nor `late`, is one that was never filled in. The addition is
  `BlankInv`: a PCB that is not allocated is blank, so that the one
  `TaskRegisterZero` leaves behind can be told from those that were registered.

`RmsPromiseProofs` proves `Refinement`: `Spec => ImplementsRegistry`. The
mapping reads the list as task records. Five operations touch the list or the
contents of a PCB (`QuietStep`); registering appends one record, unlinking in
`deregister` and `cleanuplist` removes one, freeing is invisible because the
freed PCB is off the list (`IndInv`). The one addition to the invariant is
`Described`: a listed PCB holds the pid of a process, not the blank of a free
one.

Its second part proves, on one core (`~SMP`) and for any number of tasks,

- `OneCoreInvariant`: `Spec => []OneCoreInv`;
- `RestsRateMonotonic`: `Spec => []QuiescentDispatch`;
- `WokenAtRelease`: `Spec => WokenOnlyAtRelease`.

`QuiescentDispatch` speaks only of states at rest, so everything that happens on
the way there has to be in the invariant. `OneCoreInv` says that a READY task is
never forgotten: while the dispatcher is asleep and no wake-up was missed, a
READY task that outranks the current one has a thread on its way to wake the
dispatcher (`SettledInv`, `WakeComing`). During a pass, `ScanInv` says what the
part of the list already scanned has contributed: no READY task in it has a
shorter period than `nexttask`. A timer callback that makes a task READY behind
the scan is either still to wake the dispatcher or has raised `missed`.
`PassInv` says what the dispatcher holds in hand, `ReleaseInv` that an armed
timer belongs to a SLEEPING task, and `PidInv` that no two listed PCBs describe
one process.
The hypothesis is needed: on several cores TLC finds a task that becomes READY
while another core decides, and a stale promotion that wakes a process which has
yielded again. Commands for other processes are allowed.

Its last part proves, on one core and with processes that name only themselves
(`~SMP`, `~ForeignPid`),

- `PoliciesTracked`: `Spec => []PolicyInv`;
- `CurrentPromoted`: `Spec => []CurrentIsPromoted`. `PolicyInv` adds
  that a displaced task is not the one just chosen, so that the demotion after
  the unlock does not undo the promotion, and that a process being deregistered
  has no second PCB whose promotion the demotion in `deregister` would undo. TLC
  refutes the property without either hypothesis.

`RmsRegistryProofs` proves, for any number of tasks and any arguments,

- `RegistryTypeCorrect`: `Spec => []TypeOK`;
- `AdmissionInvariant`: `Spec => []AdmittedInv`;
- `AdmissionSlack`: `Spec => []TruncationSlack`;
- `NotOvercommitted`: up to 307 registered tasks the exact utilisation is at
  most one;
- `LightTasksAdmitted`: what lies beyond. A task whose time is below one
  thousandth of its period is admitted whatever is registered, so enough of them
  overload the CPU;
- `IntArgsDoNotWrap`: `NoWrap` holds when longs have at least 2000 times the
  range of ints and no period is negative, as on the target.

All but the first and the last assume `NoWrap`: the sums of `taskregister` are
exact, or large enough to be refused. With a negative period and a negative time
it fails, and so do the properties (see the list in section 3). `TruncationSlack`
is not inductive: removing a task must lower the sum that was tested, which is
`AdmittedInv`. The argument is then arithmetic. Each truncated utilisation `u`
satisfies `1000*c + 1 <= (u + 1)*p`; multiplied by the product of the other
periods and summed over the list this is the claim. Sum and product are folds
over the positions of the list that are defined by recursion over sets. The
lemmas about them (any element may be taken out first, indices may be renamed)
are proved by minimal counterexample, as described below for `myfsck`.

`CpuTrackerProofs` proves, for any sets of pids and nodes, any CPU times, read
lengths and capacity, `TrackerTypes` (`TypeOK`), `ListSafety` (`TrackedSafely`),
`QuietTeardown` (`QuietAfterTeardown`), `UnloadFrees` (`UnloadFreesAll`) and
`ReadersGetTheFile` (`ReadIsSnapshot`). The inductive invariant `TrackerInv` adds that the list and
the worker's scan are duplicate-free and name allocated nodes, each with a pid
of its own (`Owned`), which of timer and work item each step of the teardown has
silenced (`Quiet`), that an allocated node is listed, in the hands of one call or
late, and that after `cleanuplist` only late ones are listed (`Held`), and that
an undisturbed reader holds the lines before its
offset (`ReadSoFar`).

`ProfilerProofs` proves, for any pids, writers, stamps and any buffer size that
is a multiple of four, `ProfilerTypes` (`TypeOK`), `OnlyLateUsesFreed`
(`FreedUnusedUnlessLate`) and `SamplingIsKept` (`SamplingRunsUnlessRaced`). The
invariant `ProfilerInv` adds that the work item is quiet once `mp3_exit` has
cancelled it and no late `R` has queued it again (`Stopped`), that the pids `workhandler` has still to sample are
listed, and all of them as long as none was found alive (`Scanned`), and that a non-empty list has its work queued, running or about to
be queued unless an `R` met a cancel (`Kept`).

The second part of the module proves `SamplesStayWhole` (`GroupsWhole`) and
`LinesAreSamples` (`MonitorPrintsSamples`) when the monitor does not overlap
with sampling (`~MonitorLive`; without it the second is false, see
`profiler_torn_sample`). `BufferInv` adds that the two never overlap (`Apart`),
that only the group being stored may be incomplete (`Storing`), and that the
monitor starts a line at a group boundary and clears the group it prints
(`Reading`). The assumption
that EMPTY is not a field of a sample is part of `ProfilerAssumption`.

`FsckPassProofs` and `FsToolsProofs` prove `VerdictIsRight`: for every geometry
that satisfies `FsAssumption` and every `im` with `IsImage(im)`,

- `myfsck(im)` is one of `Verdicts`;
- `Consistent(im)` implies that it is `"ok"`;
- `"ok"` implies `Consistent(im)` or `BlindSpot(im)`;
- `TrueMessage(im, myfsck(im))`.

`CheckerIsRight` carries this over to the behaviours of `FsTools`: from
`Spec /\ []IsImage(fs)` follow `[]AcceptsExactlyConsistent` and
`[]MessageIsTrue`. Moves and faults
keep `IsImage(fs)` by their guard (`Damaged`); that `mkfs` keeps it is checked by
TLC, as part of `TypeOK`.

The checker is loops inside loops, each with an exit, and the claim relates what
they count to sets defined over the whole image. The proof has three layers.

1. A loop. `Scan` is a recursive function over the elements passed. `RunExists`
   and `RunEnds` say that a run of such a function exists and that its end
   satisfies what each step carries on. Both rest on `CountUp`, which is proved
   by minimal counterexample: a non-empty collection of subsets of a finite set
   has a minimal member (`MinimalSubset`), so no induction rule with an operator
   as parameter is needed.
2. The first pass. The invariant says what the arrays hold in terms of the set
   `U` of block uses and the set `E` of directory entries passed so far:
   `BlocksSeen` (visited is the image of `U`, without collisions), `RefsSeen`
   (counts are cardinalities of entries in `E`), `DotDotSeen`, `EntrySeen`, and
   `InodeSeen` for the counters of the inode in hand. There is one lemma per loop
   body (`DotStep`, `ChildStep`, `ClaimStep`, `ContentStep`, ...) and one per
   loop (`TraverseDirent`, `ContentBlocks`, `FirstPass`). A body that stops has
   found a violation of a condition on the whole image; a pass that ends has
   established all conditions that concern blocks and formats (`FirstHalf`).
3. The second pass and the walk. When the first pass has ended, `dotdot` and
   `entry` are the parents that the image has (`DotDots`, `ParentIs`).
   `ReachesRoot` says that the walk with the array `seen` answers yes exactly
   when the start is in every set that holds the root and each directory whose
   `..` is in the set; the recursion is on the directories not yet seen. `WalkBack` turns this into
   reachability from the root along entries, given that every directory is named
   once. `SecondPass` then decides the conditions on references.

The last part of `FsToolsProofs` proves, for any host files, sizes and link
counts and any image (`HostAssumption`), `HardLinkMap` (`LinkInv`) and
`HardLinksAreShared` (`HardLinksShared`). `HardLinksShared` is not inductive:
nothing in it says why a file that is not in the map has no inode yet. `LinkInv`
counts names. For a file that was not dropped, the names given so far and those
its node still expects add up to `st_nlink`, and a file that has left the map has
had all of them; so a name whose file is not found is the first one. Two files
never share an inode because every number given out is below `freeinode`, a
variable that only `ialloc` moves. What `fetchHardLink()` does to the map is in
`LinkMap` and the lemmas about it in `ListLemmas`. TLC checks `LinkInv` in
`fs_tools`.

Only model-checked:

- liveness, and everything that depends on fairness, which the prover does not
  cover;
- `FsTools!TypeOK`: it bounds sizes and blocks by what fits the instance, which
  `RoomFor` ensures for the trees of the run and the code does not ensure at all;
- `BuiltImageVerdict` and `ListsEachOnce`: they need what `mkfs` writes word by
  word, and in which order `lsfs` meets the entries of an accepted image. Both
  are properties of sequences built by nested recursion, which only an induction
  over the host tree or the directory tree would reach;
- `SmallSetsAreSchedulable`: by `AdmissionSlack` an admitted set of `n` tasks has
  a utilisation below `0.693 + n/1000`, which up to 15 tasks is below the bound of
  Liu and Layland; their theorem, and the real numbers in it, are not formalised.
  For larger sets the property is not claimed, see `LightTasksAdmitted`.

## 5. Not modelled, and why

- Module loading: the models start when the init function has returned. In all
  three modules the proc entry exists before the mutex and the list are
  initialised, and error paths of `mp3_init` leave entries behind. What a
  command then does is a use of uninitialised memory, of which nothing can be
  stated.
- The exit of a process that is registered with MP2: the PCB keeps a plain
  pointer to its `task_struct` (`mp2.c:169`), and what follows is up to the
  kernel.
- What a thread does after it has used freed memory: the models stop the process
  (`oops`) or, for the workqueue of MP3, go on with one outcome.
- The fault counts and CPU times inside a sample, and how `mp3_given.h` reads
  and clears them.
- The session a sample belongs to: `taskregister` in MP3 keeps old samples
  (`mp3.c:124`), and the model keeps them as well, without telling sessions
  apart.
- The page mapping of `mymmap`, character device registration and `my_read` of
  MP3, whose code is that of MP1 with other lines.
- Trees that do not fit the image in `mkfs`, and inode numbers beyond
  `ninodes` in `myfsck`.
- `work.c`, the timing output of the user programs, logging, and the text
  format of the proc files: workload and presentation.
