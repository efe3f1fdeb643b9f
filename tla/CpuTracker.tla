----------------------------- MODULE CpuTracker -----------------------------
(***************************************************************************)
(* CPU_Usage_Tracker/mp1.c: a list of tracked processes, a self-rearming   *)
(* timer that queues a work item, the work item that refreshes CPU times   *)
(* and drops dead processes, readers and writers of /proc/mp1/status, and  *)
(* unloading.  The CPU time of a process is a small counter; a line of     *)
(* the proc file is one unit of its read offset.                           *)
(***************************************************************************)
EXTENDS Lists, FiniteSetsExt

CONSTANTS
  Pid,       \* process ids
  Node,      \* listnode objects of the slab cache
  MaxTime,   \* bound on the CPU time of a process
  Cap,       \* lines that fit into the buffer of my_read()
  ReadLen,   \* lengths, in lines, a reader may ask for
  NULL

ASSUME TrackerAssumption ==
  /\ NULL \notin Pid /\ NULL \notin Node
  /\ MaxTime \in Nat /\ Cap \in Nat \ {0} /\ ReadLen \subseteq Nat \ {0}

VARIABLES
  mp1list,   \* mp1listhead: nodes in list order
  slab,      \* nodes allocated from mp1cache
  node,      \* pid and cpu_time of each node
  adding,    \* idregister(): nodes of the calls on the way to the lock
  refused,   \* idregister(): duplicates, unlocked and about to be freed
  oops,      \* a call has died inside my_write() on the NULL cache
  late,      \* history: nodes listed after cleanuplist(), or not freed because
             \* mp1cache was already NULL
  timer,     \* "idle" or "pending"
  tcb,       \* timercb(): "idle", "entered" or "rearm"
  queued,    \* the work item is pending on the workqueue
  wpc,       \* work_func(): "idle", "lock" or "scan"
  rest,      \* work_func(): nodes still to visit
  utime,     \* utime of each process, or NULL when there is no such process
  rpos,      \* the reader's file offset, in lines
  rout,      \* the lines it has been given since offset 0, until one changes
  reof,      \* my_read() has returned 0
  dirty,     \* history: a line of the file changed since offset 0
  epc        \* where test_module_exit() is

callVars  == <<adding, refused, oops>>
listVars  == <<mp1list, slab, node, late, callVars>>
workVars  == <<wpc, rest>>
readVars  == <<rpos, rout, reof>>
vars == <<mp1list, slab, node, adding, refused, oops, late, timer, tcb, queued, wpc,
          rest, utime, rpos, rout, reof, dirty, epc>>

Listnode(pid, cpu_time) == [pid |-> pid, cpu_time |-> cpu_time]
Tracked    == Range(mp1list)
MutexFree  == wpc # "scan"
ProcOpen   == epc # "gone"

\* How far test_module_exit() is: cleanuplist() has run; mp1cache is not yet
\* NULL.
Cleaned    == epc \in {"destroy", "close", "gone"}
CacheAlive == epc \notin {"close", "gone"}

\* The contents of freed nodes are never read again: the model blanks them.
KmemCacheFree(nodes) ==
  /\ slab' = slab \ nodes /\ late' = late \ nodes
  /\ node' = [n \in Node |-> IF n \in nodes THEN Listnode(NULL, 0) ELSE node[n]]

\* History: what the reader has so far no longer belongs to one file content.
LinesChange == dirty' = TRUE /\ rout' = << >>

\* The text my_read() formats: one line per node, as many as fit.
Lines == [i \in 1 .. Min({Len(mp1list), Cap}) |-> node[mp1list[i]]]

\* test_module_init() has armed the timer and returned.
Init ==
  /\ mp1list = << >> /\ slab = {} /\ node = [n \in Node |-> Listnode(NULL, 0)]
  /\ adding = {} /\ refused = {} /\ oops = FALSE /\ late = {}
  /\ timer = "pending" /\ tcb = "idle" /\ queued = FALSE
  /\ wpc = "idle" /\ rest = << >>
  /\ utime = [p \in Pid |-> 0]
  /\ rpos = 0 /\ rout = << >> /\ reof = FALSE /\ dirty = FALSE
  /\ epc = "loaded"

-----------------------------------------------------------------------------
(* The timer and the work item.                                            *)

TimerExpire ==
  /\ timer = "pending" /\ tcb = "idle"
  /\ timer' = "idle" /\ tcb' = "entered"
  /\ UNCHANGED <<listVars, queued, workVars, utime, readVars, dirty, epc>>

\* schedule_work(): no effect when the item is already pending.
TimerSchedule ==
  /\ tcb = "entered"
  /\ queued' = TRUE /\ tcb' = "rearm"
  /\ UNCHANGED <<listVars, timer, workVars, utime, readVars, dirty, epc>>

\* Mutant: the callback does not re-arm the timer.
TimerNoRearm ==
  /\ tcb = "rearm" /\ tcb' = "idle"
  /\ UNCHANGED <<listVars, timer, queued, workVars, utime, readVars, dirty, epc>>

\* mod_timer(&timer,jiffies+5*HZ)
TimerRearm ==
  /\ tcb = "rearm"
  /\ timer' = "pending" /\ tcb' = "idle"
  /\ UNCHANGED <<listVars, queued, workVars, utime, readVars, dirty, epc>>

WorkStart ==
  /\ queued /\ wpc = "idle"
  /\ queued' = FALSE /\ wpc' = "lock"
  /\ UNCHANGED <<listVars, timer, tcb, rest, utime, readVars, dirty, epc>>

WorkLock ==
  /\ wpc = "lock"
  /\ wpc' = "scan" /\ rest' = mp1list
  /\ UNCHANGED <<listVars, timer, tcb, queued, utime, readVars, dirty, epc>>

\* Mutant: the result of get_cpu_use() is not tested.
WorkUpdateUnchecked ==
  /\ wpc = "scan" /\ rest # << >>
  /\ node' = [node EXCEPT ![Head(rest)].cpu_time = utime[node[Head(rest)].pid]]
  /\ rest' = Tail(rest)
  /\ IF node' = node THEN UNCHANGED <<dirty, rout>> ELSE LinesChange
  /\ UNCHANGED <<mp1list, slab, late, callVars, timer, tcb, queued, wpc, utime, rpos,
                 reof, epc>>

\* get_cpu_use() finds the process: store its utime.
WorkUpdate ==
  /\ wpc = "scan" /\ rest # << >>
  /\ utime[node[Head(rest)].pid] # NULL
  /\ node' = [node EXCEPT ![Head(rest)].cpu_time = utime[node[Head(rest)].pid]]
  /\ rest' = Tail(rest)
  /\ IF node' = node THEN UNCHANGED <<dirty, rout>> ELSE LinesChange
  /\ UNCHANGED <<mp1list, slab, late, callVars, timer, tcb, queued, wpc, utime, rpos,
                 reof, epc>>

\* Mutant: list_del() is missing.
WorkReapNoUnlink ==
  /\ wpc = "scan" /\ rest # << >>
  /\ utime[node[Head(rest)].pid] = NULL
  /\ KmemCacheFree({Head(rest)})
  /\ rest' = Tail(rest) /\ LinesChange
  /\ UNCHANGED <<mp1list, callVars, timer, tcb, queued, wpc, utime, rpos, reof, epc>>

\* get_cpu_use() returns -1: list_del() and kmem_cache_free().
WorkReap ==
  /\ wpc = "scan" /\ rest # << >>
  /\ utime[node[Head(rest)].pid] = NULL
  /\ mp1list' = Del(mp1list, Head(rest))
  /\ KmemCacheFree({Head(rest)})
  /\ rest' = Tail(rest) /\ LinesChange
  /\ UNCHANGED <<callVars, timer, tcb, queued, wpc, utime, rpos, reof, epc>>

WorkUnlock ==
  /\ wpc = "scan" /\ rest = << >>
  /\ wpc' = "idle"
  /\ UNCHANGED <<listVars, timer, tcb, queued, rest, utime, readVars, dirty, epc>>

Timercb == TimerSchedule \/ TimerRearm
Worker  == WorkStart \/ WorkLock \/ WorkUpdate \/ WorkReap \/ WorkUnlock

-----------------------------------------------------------------------------
(* Users: my_write(), my_read(), and the life of the tracked processes.    *)

\* idregister(), before the lock: any pid, alive or not.
IdRegister(pid) ==
  /\ ProcOpen /\ CacheAlive
  /\ \E n \in Node \ slab :
       /\ slab' = slab \cup {n} /\ adding' = adding \cup {n}
       /\ node' = [node EXCEPT ![n] = Listnode(pid, 0)]
  /\ UNCHANGED <<mp1list, refused, oops, late, timer, tcb, queued, workVars, utime,
                 readVars, dirty, epc>>

\* kmem_cache_alloc() on the NULL cache: the process dies inside my_write().
IdRegisterOops ==
  /\ ProcOpen /\ ~CacheAlive
  /\ oops' = TRUE
  /\ UNCHANGED <<mp1list, slab, node, adding, refused, late, timer, tcb, queued,
                 workVars, utime, readVars, dirty, epc>>

\* idregister(), under the lock.
IdInsert(n) ==
  /\ n \in adding /\ MutexFree
  /\ adding' = adding \ {n}
  /\ IF \E m \in Tracked : node[m].pid = node[n].pid
     THEN refused' = refused \cup {n} /\ UNCHANGED <<mp1list, late, dirty, rout>>
     ELSE /\ mp1list' = Append(mp1list, n) /\ LinesChange
          /\ late' = IF Cleaned THEN late \cup {n} ELSE late
          /\ UNCHANGED refused
  /\ UNCHANGED <<slab, node, oops, timer, tcb, queued, workVars, utime, rpos, reof, epc>>

\* Mutant: a duplicate is not freed.
IdRefuseNoFree(n) ==
  /\ n \in refused
  /\ refused' = refused \ {n}
  /\ UNCHANGED <<mp1list, slab, node, late, adding, oops, timer, tcb, queued, workVars,
                 utime, readVars, dirty, epc>>

\* A duplicate's node is freed after the unlock.  Without the cache,
\* kmem_cache_free() returns or faults, depending on the kernel, and the node
\* is not freed.
IdRefuse(n) ==
  /\ n \in refused
  /\ refused' = refused \ {n}
  /\ \/ CacheAlive /\ KmemCacheFree({n}) /\ UNCHANGED oops
     \/ /\ ~CacheAlive /\ late' = late \cup {n} /\ oops' \in {oops, TRUE}
        /\ UNCHANGED <<slab, node>>
  /\ UNCHANGED <<mp1list, adding, timer, tcb, queued, workVars, utime, readVars, dirty,
                 epc>>

\* The reader opens the file, or seeks back to its start.
ReadOpen ==
  /\ ProcOpen
  /\ rpos' = 0 /\ rout' = << >> /\ reof' = FALSE /\ dirty' = FALSE
  /\ UNCHANGED <<listVars, timer, tcb, queued, workVars, utime, epc>>

\* Mutant: copy_to_user() copies from kbuf, not from kbuf+*p.
MyReadFromStart(len) ==
  /\ ProcOpen /\ MutexFree /\ ~reof
  /\ LET left == Len(Lines) - rpos
         cnt  == Min({left, len})
     IN  IF left <= 0
         THEN reof' = TRUE /\ UNCHANGED <<rpos, rout>>
         ELSE /\ rpos' = rpos + cnt
              /\ rout' = IF dirty THEN rout ELSE rout \o SubSeq(Lines, 1, cnt)
              /\ UNCHANGED reof
  /\ UNCHANGED <<listVars, timer, tcb, queued, workVars, utime, dirty, epc>>

\* One read(): format under the mutex, then hand out what the offset leaves.
MyRead(len) ==
  /\ ProcOpen /\ MutexFree /\ ~reof
  /\ LET left == Len(Lines) - rpos
         cnt  == Min({left, len})
     IN  IF left <= 0
         THEN reof' = TRUE /\ UNCHANGED <<rpos, rout>>
         ELSE /\ rpos' = rpos + cnt
              /\ rout' = IF dirty THEN rout
                         ELSE rout \o SubSeq(Lines, rpos + 1, rpos + cnt)
              /\ UNCHANGED reof
  /\ UNCHANGED <<listVars, timer, tcb, queued, workVars, utime, dirty, epc>>

\* A process runs, exits, or its pid is given to a new process.
ProcessStep(pid) ==
  /\ \/ utime[pid] # NULL /\ utime[pid] < MaxTime
        /\ utime' = [utime EXCEPT ![pid] = @ + 1]
     \/ utime[pid] # NULL /\ utime' = [utime EXCEPT ![pid] = NULL]
     \/ utime[pid] = NULL /\ utime' = [utime EXCEPT ![pid] = 0]
  /\ UNCHANGED <<listVars, timer, tcb, queued, workVars, readVars, dirty, epc>>

-----------------------------------------------------------------------------
(* Unloading: test_module_exit().                                          *)

ExitMove(from, to) ==
  /\ epc = from /\ epc' = to
  /\ UNCHANGED <<queued, workVars, utime, rpos, reof>>

ExitBegin ==
  /\ ExitMove("loaded", "deltimer")
  /\ UNCHANGED <<listVars, timer, tcb, dirty, rout>>

\* Mutant: del_timer(), which does not wait for a running callback.
ExitDelTimerNoSync ==
  /\ ExitMove("deltimer", "flush")
  /\ timer' = "idle"
  /\ UNCHANGED <<listVars, tcb, dirty, rout>>

\* del_timer_sync(): wait for a running callback, then disarm what it armed.
ExitDelTimer ==
  /\ tcb = "idle" /\ ExitMove("deltimer", "flush")
  /\ timer' = "idle"
  /\ UNCHANGED <<listVars, tcb, dirty, rout>>

\* flush_work(): wait until the item is neither queued nor running.
ExitFlush ==
  /\ ~queued /\ wpc = "idle" /\ ExitMove("flush", "clean")
  /\ UNCHANGED <<listVars, timer, tcb, dirty, rout>>

\* cleanuplist()
ExitClean ==
  /\ MutexFree /\ ExitMove("clean", "destroy")
  /\ mp1list' = << >> /\ KmemCacheFree(Tracked)
  /\ LinesChange
  /\ UNCHANGED <<callVars, timer, tcb>>

\* kmem_cache_destroy(), then proc_remove(), which waits for calls in progress.
ExitDestroy ==
  /\ ExitMove("destroy", "close")
  /\ UNCHANGED <<listVars, timer, tcb, dirty, rout>>

ExitProcRemove ==
  /\ adding = {} /\ refused = {} /\ ~oops
  /\ ExitMove("close", "gone")
  /\ UNCHANGED <<listVars, timer, tcb, dirty, rout>>

ModuleExit ==
  \/ ExitBegin \/ ExitDelTimer \/ ExitFlush \/ ExitClean \/ ExitDestroy
  \/ ExitProcRemove

-----------------------------------------------------------------------------

Next ==
  \/ TimerExpire \/ Timercb \/ Worker \/ ModuleExit \/ ReadOpen
  \/ \E pid \in Pid : IdRegister(pid) \/ ProcessStep(pid)
  \/ IdRegisterOops
  \/ \E n \in Node : IdInsert(n) \/ IdRefuse(n)
  \/ \E len \in ReadLen : MyRead(len)

Spec == Init /\ [][Next]_vars

\* Timers expire, callbacks and workers run.  Users and rmmod may do nothing.
FairSpec == Spec /\ WF_vars(TimerExpire) /\ WF_vars(Timercb) /\ WF_vars(Worker)

-----------------------------------------------------------------------------
(* Properties                                                              *)

TypeOK ==
  /\ mp1list \in Seq(Node) /\ slab \subseteq Node
  /\ node \in [Node -> [pid : Pid \cup {NULL}, cpu_time : 0 .. MaxTime]]
  /\ adding \subseteq Node /\ refused \subseteq Node /\ late \subseteq Node
  /\ oops \in BOOLEAN
  /\ timer \in {"idle", "pending"} /\ tcb \in {"idle", "entered", "rearm"}
  /\ queued \in BOOLEAN /\ wpc \in {"idle", "lock", "scan"} /\ rest \in Seq(Node)
  /\ utime \in [Pid -> 0 .. MaxTime \cup {NULL}]
  /\ rpos \in Nat /\ rout \in Seq([pid : Pid, cpu_time : 0 .. MaxTime])
  /\ reof \in BOOLEAN /\ dirty \in BOOLEAN
  /\ epc \in {"loaded", "deltimer", "flush", "clean", "destroy", "close", "gone"}

\* The list, and what is left of the worker's scan while work_func() frees
\* nodes from under itself, only name allocated nodes; no pid is listed twice.
TrackedSafely ==
  /\ Tracked \subseteq slab /\ Range(rest) \subseteq Tracked
  /\ \A i, j \in DOMAIN mp1list :
       node[mp1list[i]].pid = node[mp1list[j]].pid => i = j

\* "no asynchronous work is still touching memory after teardown": once
\* del_timer_sync() and flush_work() have returned, no timer is armed and no
\* callback or work item is pending or running.
QuietAfterTeardown ==
  epc \in {"clean", "destroy", "close", "gone"} =>
    timer = "idle" /\ tcb = "idle" /\ ~queued /\ wpc = "idle"

\* "Cleans up all kernel resources correctly on module unload": cleanuplist()
\* leaves no node on the list and, once proc_remove() has returned, every node
\* has been freed, whatever raced with unloading.  The exception is a node
\* whose call got through the proc file after cleanuplist().
UnloadFreesAll ==
  /\ Cleaned => Tracked \subseteq late
  /\ epc = "gone" => slab \subseteq late

\* A reader that reaches end of file while no line changed has been given
\* the file, each line once, however it split its reads.
ReadIsSnapshot == reof /\ ~dirty => rout = Lines

\* "Automatically removes processes that are no longer alive": an entry whose
\* process is gone leaves the list, unless the pid is reused first.
DeadAreRemoved ==
  \A n \in Node :
    n \in Tracked /\ utime[node[n].pid] = NULL
      ~> \/ n \notin Tracked \/ utime[node[n].pid] # NULL \/ epc # "loaded"
=============================================================================
