---------------------------- MODULE RmsScheduler ----------------------------
(***************************************************************************)
(* RMS_Linux_Schedular/mp2.c: the rate-monotonic scheduler as its threads  *)
(* run it.  The dispatcher kernel thread, one timer per task, the user     *)
(* processes inside my_write() and mp2_exit() interleave at the points     *)
(* where the code takes or releases mp2mutex, reads or writes shared state *)
(* without it, or may sleep.                                               *)
(*                                                                         *)
(* A critical section that touches only state guarded by mp2mutex is one   *)
(* step.  The scan of dispatcher() is one step per list element, because   *)
(* timercb() changes RMSstate without the mutex.  Time is abstracted: a    *)
(* pending timer may expire at any moment.                                 *)
(***************************************************************************)
EXTENDS RmsUtilization, Lists

CONSTANTS
  Pid,          \* processes; each one may issue commands and be a task
  Pcb,          \* objects of the slab cache (allocation fails when all are used)
  PeriodArg,    \* PERIOD arguments of the R command
  CompArg,      \* COMPUTATION arguments of the R command
  SMP,          \* TRUE: several cores.  FALSE: one core, preemptible kernel
  ForeignPid,   \* TRUE: a process may register or deregister another one
  NULL

ASSUME ConstAssumption ==
  /\ NULL \notin Pcb /\ NULL \notin Pid
  /\ PeriodArg \subseteq Int /\ CompArg \subseteq Int
  /\ SMP \in BOOLEAN /\ ForeignPid \in BOOLEAN

VARIABLES
  mp2list,    \* mp2listhead: the registered PCBs in list order
  slab,       \* PCBs allocated from mp2cache
  pcb,        \* pid, period and comp_time of each PCB
  late,       \* history: PCBs registered after cleanuplist(), or not freed
              \* because mp2cache was already NULL
  RMSstate,   \* SLEEPING, READY or RUNNING, per PCB
  timer,      \* the PCB's timer_list: "idle" or "pending"
  callback,   \* timercb() on the PCB: "idle", "entered" or "waking"
  currtask,   \* the PCB the dispatcher chose last, or NULL
  dpc,        \* where the dispatcher thread is
  dstate,     \* task state of the dispatcher thread
  scan,       \* dispatcher(): list elements still to look at
  nexttask,   \* dispatcher(): best READY task found so far, or NULL
  protask,    \* dispatcher(): protaskptr, the process to promote, or NULL
  demtask,    \* dispatcher(): demtaskptr, the process to demote, or NULL
  missed,     \* history: wakethread() came between the scan and the sleep
  pc,         \* where each process is inside my_write()
  tstate,     \* Linux task state of each process
  policy,     \* Linux scheduling policy of each process
  target,     \* deregister(): the PCB being torn down by each process
  epc,        \* where mp2_exit() is
  etarget     \* cleanuplist(): the PCB being torn down

listVars   == <<mp2list, slab, pcb, late>>
tmrVars    == <<timer, callback>>
locals     == <<scan, nexttask, protask, demtask>>
\* What no step of the dispatcher, a timer, a process or mp2_exit() changes.
dispFrame  == <<listVars, tmrVars, pc, target, epc, etarget>>
timerFrame == <<listVars, currtask, dpc, locals, pc, target, tstate, policy,
                epc, etarget>>
procFrame  == <<dpc, locals, epc, etarget>>
exitFrame  == <<callback, currtask, dpc, locals, missed, pc,
                target, tstate>>
vars == <<mp2list, slab, pcb, late, RMSstate, timer, callback, currtask, dpc, dstate,
          scan, nexttask, protask, demtask, missed, pc, tstate, policy, target,
          epc, etarget>>

-----------------------------------------------------------------------------
(* Types and the initial state: mp2_init() has returned, the dispatcher    *)
(* thread exists and has not run yet.                                      *)

RMSStates == {"SLEEPING", "READY", "RUNNING"}
PcbOrNull == Pcb \cup {NULL}
DispPcs   == {"start", "lock", "scan", "promote", "demote", "setstate",
              "check", "sched", "exited"}
ProcPcs   == {"user", "y_wake", "y_set", "y_sched", "d_demote", "d_timer", "d_wake",
              "oops"}
ExitPcs   == {"loaded", "stopping", "lock", "cleaning", "detached", "destroy",
              "close", "closing", "gone"}
Ulongs    == 0 .. UlongMod - 1
PidOrNull == Pid \cup {NULL}
TaskRec   == [pid : PidOrNull, period : Ulongs, comp_time : Ulongs]

Blank     == Task(NULL, 0, 0)   \* contents of a free PCB

Registered == Range(mp2list)
TaskOf(b)  == pcb[b].pid    \* the process linux_task points to

Init ==
  /\ mp2list = << >> /\ slab = {} /\ late = {}
  /\ pcb = [b \in Pcb |-> Blank]
  /\ RMSstate = [b \in Pcb |-> "SLEEPING"]
  /\ timer = [b \in Pcb |-> "idle"] /\ callback = [b \in Pcb |-> "idle"]
  /\ currtask = NULL
  /\ dpc = "start" /\ dstate = "RUNNING"
  /\ scan = << >> /\ nexttask = NULL /\ protask = NULL /\ demtask = NULL
  /\ missed = FALSE
  /\ pc = [p \in Pid |-> "user"] /\ tstate = [p \in Pid |-> "RUNNING"]
  /\ policy = [p \in Pid |-> "NORMAL"] /\ target = [p \in Pid |-> NULL]
  /\ epc = "loaded" /\ etarget = NULL

-----------------------------------------------------------------------------
(* Who may run.  On one core the SCHED_FIFO 99 dispatcher preempts every   *)
(* process, and a timer callback (softirq) runs to its end before any      *)
(* thread continues.                                                       *)

NoCallback == \A b \in Pcb : callback[b] = "idle"
DispOffCpu == \/ dpc \in {"start", "exited"}
              \/ dpc = "sched" /\ dstate = "INTERRUPTIBLE"
DispRuns   == SMP \/ NoCallback
ThreadRuns == SMP \/ (NoCallback /\ DispOffCpu)

\* mp2mutex: only cleanuplist() and the dispatcher hold it across steps.
MutexFree  == dpc # "scan" /\ epc \notin {"cleaning", "detached"}

\* The dispatcher's pass, from taking the mutex up to set_current_state().
InPass == dpc \in {"scan", "promote", "demote", "setstate"}

\* kthread_stop() has set the stop flag.
ShouldStop == epc # "loaded"

\* dispathread is non-NULL until kthread_stop() has returned.
Dispathread == epc \in {"loaded", "stopping"}

\* How far mp2_exit() is: the proc file can be written until proc_remove(),
\* which comes after cleanuplist() and after mp2cache=NULL.
ProcOpen   == epc \notin {"closing", "gone"}
CacheAlive == epc \notin {"close", "closing", "gone"}
Cleaned    == epc \in {"destroy", "close", "closing", "gone"}

\* wake_up_process(dispathread): a no-op unless the thread sleeps.
Wakethread ==
  /\ dstate' = IF Dispathread THEN "RUNNING" ELSE dstate
  /\ missed' = (missed \/ (Dispathread /\ InPass))

NoWake == UNCHANGED <<dstate, missed>>

-----------------------------------------------------------------------------
(* The dispatcher thread: threadfunc() and dispatcher().  The locals of    *)
(* dispatcher() are NULL before it sets them and after their last use.     *)

\* sched_setattr_nocheck(current), then the loop condition.
DispStart ==
  /\ dpc = "start" /\ DispRuns
  /\ dpc' = IF ShouldStop THEN "exited" ELSE "lock"
  /\ UNCHANGED <<dispFrame, locals, RMSstate, currtask, dstate, missed,
                 tstate, policy>>

DispLock ==
  /\ dpc = "lock" /\ DispRuns /\ MutexFree
  /\ dpc' = "scan"
  /\ scan' = mp2list
  /\ UNCHANGED <<dispFrame, RMSstate, currtask, dstate, nexttask, protask, demtask,
                 missed, tstate, policy>>

\* Mutant: the scan takes every task for READY.
DispScanAnyState ==
  /\ dpc = "scan" /\ scan # << >> /\ DispRuns
  /\ nexttask' = IF \/ nexttask = NULL
                    \/ pcb[Head(scan)].period < pcb[nexttask].period
                 THEN Head(scan) ELSE nexttask
  /\ scan' = Tail(scan)
  /\ UNCHANGED <<dispFrame, RMSstate, currtask, dpc, dstate, protask,
                 demtask, missed, tstate, policy>>

\* One turn of list_for_each_entry: READY and strictly shorter period wins.
DispScan ==
  /\ dpc = "scan" /\ scan # << >> /\ DispRuns
  /\ nexttask' = IF /\ RMSstate[Head(scan)] = "READY"
                    /\ \/ nexttask = NULL
                       \/ pcb[Head(scan)].period < pcb[nexttask].period
                 THEN Head(scan) ELSE nexttask
  /\ scan' = Tail(scan)
  /\ UNCHANGED <<dispFrame, RMSstate, currtask, dpc, dstate, protask,
                 demtask, missed, tstate, policy>>

CurrIdle    == currtask # NULL => RMSstate[currtask] = "SLEEPING"
CurrRunning == currtask # NULL /\ RMSstate[currtask] = "RUNNING"
\* Mutant: equal periods preempt.
OutrankedOrEqual ==
  nexttask # NULL /\ pcb[currtask].period >= pcb[nexttask].period
Outranked   == nexttask # NULL /\ pcb[currtask].period > pcb[nexttask].period

\* Nothing to do: no candidate, the current task keeps the CPU, or the
\* current task is neither SLEEPING nor RUNNING.
DispKeep ==
  /\ dpc = "scan" /\ scan = << >> /\ DispRuns
  /\ ~(CurrIdle /\ nexttask # NULL)
  /\ ~(CurrRunning /\ Outranked)
  /\ dpc' = "setstate" /\ nexttask' = NULL
  /\ UNCHANGED <<dispFrame, RMSstate, currtask, dstate, scan, protask, demtask,
                 missed, tstate, policy>>

DispRun ==
  /\ dpc = "scan" /\ scan = << >> /\ DispRuns
  /\ CurrIdle /\ nexttask # NULL
  /\ currtask' = nexttask /\ protask' = TaskOf(nexttask)
  /\ RMSstate' = [RMSstate EXCEPT ![nexttask] = "RUNNING"]
  /\ dpc' = "promote" /\ nexttask' = NULL
  /\ UNCHANGED <<dispFrame, dstate, scan, demtask, missed, tstate, policy>>

\* Mutant: the preempted task is left RUNNING.
DispPreemptKeepsState ==
  /\ dpc = "scan" /\ scan = << >> /\ DispRuns
  /\ CurrRunning /\ Outranked
  /\ currtask' = nexttask
  /\ protask' = TaskOf(nexttask) /\ demtask' = TaskOf(currtask)
  /\ RMSstate' = [RMSstate EXCEPT ![nexttask] = "RUNNING"]
  /\ dpc' = "promote" /\ nexttask' = NULL
  /\ UNCHANGED <<dispFrame, dstate, scan, missed, tstate, policy>>

\* Mutant: the displaced task is promoted and the chosen one demoted.
DispPreemptSwapped ==
  /\ dpc = "scan" /\ scan = << >> /\ DispRuns
  /\ CurrRunning /\ Outranked
  /\ currtask' = nexttask
  /\ protask' = TaskOf(currtask) /\ demtask' = TaskOf(nexttask)
  /\ RMSstate' = [RMSstate EXCEPT ![currtask] = "READY", ![nexttask] = "RUNNING"]
  /\ dpc' = "promote" /\ nexttask' = NULL
  /\ UNCHANGED <<dispFrame, dstate, scan, missed, tstate, policy>>

DispPreempt ==
  /\ dpc = "scan" /\ scan = << >> /\ DispRuns
  /\ CurrRunning /\ Outranked
  /\ currtask' = nexttask
  /\ protask' = TaskOf(nexttask) /\ demtask' = TaskOf(currtask)
  /\ RMSstate' = [RMSstate EXCEPT ![currtask] = "READY", ![nexttask] = "RUNNING"]
  /\ dpc' = "promote" /\ nexttask' = NULL
  /\ UNCHANGED <<dispFrame, dstate, scan, missed, tstate, policy>>

\* promote_task(): SCHED_FIFO 98 and wake_up_process(), after the unlock.
DispPromote ==
  /\ dpc = "promote" /\ DispRuns
  /\ policy' = [policy EXCEPT ![protask] = "FIFO"]
  /\ tstate' = [tstate EXCEPT ![protask] = "RUNNING"]
  /\ dpc' = IF demtask # NULL THEN "demote" ELSE "setstate"
  /\ protask' = NULL
  /\ UNCHANGED <<dispFrame, RMSstate, currtask, dstate, scan, nexttask, demtask,
                 missed>>

DispDemote ==
  /\ dpc = "demote" /\ DispRuns
  /\ policy' = [policy EXCEPT ![demtask] = "NORMAL"]
  /\ dpc' = "setstate" /\ demtask' = NULL
  /\ UNCHANGED <<dispFrame, RMSstate, currtask, dstate, scan, nexttask, protask,
                 missed, tstate>>

\* set_current_state(TASK_INTERRUPTIBLE); a wake-up received before is lost.
DispSetState ==
  /\ dpc = "setstate" /\ DispRuns
  /\ dstate' = "INTERRUPTIBLE" /\ dpc' = "check"
  /\ UNCHANGED <<dispFrame, locals, RMSstate, currtask, missed, tstate,
                 policy>>

\* Mutant: schedule() without testing kthread_should_stop() again.
DispNoCheck ==
  /\ dpc = "check" /\ DispRuns
  /\ dpc' = "sched"
  /\ UNCHANGED <<dispFrame, locals, RMSstate, currtask, dstate, missed, tstate,
                 policy>>

\* The second kthread_should_stop() test, then schedule().
DispCheck ==
  /\ dpc = "check" /\ DispRuns
  /\ IF ShouldStop THEN dpc' = "exited" /\ dstate' = "RUNNING"
                   ELSE dpc' = "sched" /\ UNCHANGED dstate
  /\ UNCHANGED <<dispFrame, locals, RMSstate, currtask, missed, tstate,
                 policy>>

\* schedule() returns once the thread is runnable again; loop condition.
DispWoken ==
  /\ dpc = "sched" /\ dstate = "RUNNING" /\ DispRuns
  /\ dpc' = IF ShouldStop THEN "exited" ELSE "lock"
  /\ missed' = FALSE
  /\ UNCHANGED <<dispFrame, locals, RMSstate, currtask, dstate, tstate, policy>>

Dispatcher ==
  \/ DispStart \/ DispLock \/ DispScan \/ DispKeep \/ DispRun \/ DispPreempt
  \/ DispPromote \/ DispDemote \/ DispSetState \/ DispCheck \/ DispWoken

-----------------------------------------------------------------------------
(* The timers: timercb() in softirq context, without the mutex.            *)

TimerExpire(b) ==
  /\ timer[b] = "pending" /\ callback[b] = "idle" /\ (SMP \/ NoCallback)
  /\ timer' = [timer EXCEPT ![b] = "idle"]
  /\ callback' = [callback EXCEPT ![b] = "entered"]
  /\ UNCHANGED <<timerFrame, RMSstate, dstate, missed>>

\* atomic_set(&temp->RMSstate,READY)
TimerReady(b) ==
  /\ callback[b] = "entered"
  /\ RMSstate' = [RMSstate EXCEPT ![b] = "READY"]
  /\ callback' = [callback EXCEPT ![b] = "waking"]
  /\ UNCHANGED <<timerFrame, timer, dstate, missed>>

\* Mutant: timercb() does not call wakethread().
TimerNoWake(b) ==
  /\ callback[b] = "waking"
  /\ callback' = [callback EXCEPT ![b] = "idle"]
  /\ UNCHANGED <<timerFrame, RMSstate, timer, dstate, missed>>

TimerWake(b) ==
  /\ callback[b] = "waking"
  /\ Wakethread
  /\ callback' = [callback EXCEPT ![b] = "idle"]
  /\ UNCHANGED <<timerFrame, RMSstate, timer>>

Timercb(b) == TimerReady(b) \/ TimerWake(b)

-----------------------------------------------------------------------------
(* The processes: commands written to /proc/mp2/status by my_write().      *)

InUser(p) == pc[p] = "user" /\ ThreadRuns
Named(p)  == IF ForeignPid THEN Pid ELSE {p}
TaskList  == [i \in DOMAIN mp2list |-> pcb[mp2list[i]]]

\* Mutant: the registered tasks are not searched for the pid.
TaskRegisterTwice(p, q, period, comp_time) ==
  /\ InUser(p) /\ ProcOpen /\ CacheAlive /\ MutexFree
  /\ \E b \in Pcb \ slab :
       LET t == Task(q, Ulong(period), Ulong(comp_time))
       IN  /\ t.period # 0 /\ UtilSum(Append(TaskList, t)) <= UtilBound
           /\ mp2list' = Append(mp2list, b)
           /\ slab' = slab \cup {b}
           /\ pcb' = [pcb EXCEPT ![b] = t]
           /\ late' = IF Cleaned THEN late \cup {b} ELSE late
           /\ RMSstate' = [RMSstate EXCEPT ![b] = "SLEEPING"]
  /\ UNCHANGED <<procFrame, tmrVars, currtask, dstate, missed, pc, tstate,
                 policy, target>>

\* taskregister(): allocate, fill in, test admission, list_add_tail().  A
\* refusal because of a duplicate or the bound frees the PCB: no change.
TaskRegister(p, q, period, comp_time) ==
  /\ InUser(p) /\ ProcOpen /\ CacheAlive /\ MutexFree
  /\ \E b \in Pcb \ slab :
       LET t == Task(q, Ulong(period), Ulong(comp_time))
       IN  /\ Admits(TaskList, t)
           /\ mp2list' = Append(mp2list, b)
           /\ slab' = slab \cup {b}
           /\ pcb' = [pcb EXCEPT ![b] = t]
           /\ late' = IF Cleaned THEN late \cup {b} ELSE late
           /\ RMSstate' = [RMSstate EXCEPT ![b] = "SLEEPING"]
  /\ UNCHANGED <<procFrame, tmrVars, currtask, dstate, missed, pc, tstate,
                 policy, target>>

\* taskregister() with a zero argument returns without freeing the PCB.
TaskRegisterZero(p, period, comp_time) ==
  /\ InUser(p) /\ ProcOpen /\ CacheAlive
  /\ Ulong(period) = 0 \/ Ulong(comp_time) = 0
  /\ \E b \in Pcb \ slab : slab' = slab \cup {b}
  /\ UNCHANGED <<procFrame, tmrVars, mp2list, pcb, late, RMSstate, currtask,
                 dstate, missed, pc, tstate, policy, target>>

\* kmem_cache_alloc() on the NULL cache: the process faults and ends there,
\* inside my_write().
TaskRegisterOops(p) ==
  /\ InUser(p) /\ ProcOpen /\ ~CacheAlive
  /\ pc' = [pc EXCEPT ![p] = "oops"]
  /\ UNCHANGED <<procFrame, listVars, tmrVars, RMSstate, currtask, dstate, missed,
                 tstate, policy, target>>

\* Mutant: taskyield() keeps currtask.
TaskYieldKeepsCurrtask(p) ==
  /\ InUser(p) /\ ProcOpen /\ MutexFree
  /\ \E i \in DOMAIN mp2list :
       /\ TaskOf(mp2list[i]) = p
       /\ RMSstate' = [RMSstate EXCEPT ![mp2list[i]] = "SLEEPING"]
       /\ timer' = [timer EXCEPT ![mp2list[i]] = "pending"]
  /\ pc' = [pc EXCEPT ![p] = "y_wake"]
  /\ UNCHANGED <<procFrame, listVars, callback, currtask, dstate, missed, tstate,
                 policy, target>>

\* taskyield() up to the unlock; a process yields only for itself.
TaskYield(p) ==
  /\ InUser(p) /\ ProcOpen /\ MutexFree
  /\ \E i \in DOMAIN mp2list :
       LET b == mp2list[i]
       IN  /\ TaskOf(b) = p
           /\ RMSstate' = [RMSstate EXCEPT ![b] = "SLEEPING"]
           /\ timer' = [timer EXCEPT ![b] = "pending"]
           /\ currtask' = IF b = currtask THEN NULL ELSE currtask
  /\ pc' = [pc EXCEPT ![p] = "y_wake"]
  /\ UNCHANGED <<procFrame, listVars, callback, dstate, missed, tstate,
                 policy, target>>

YieldWake(p) ==
  /\ pc[p] = "y_wake" /\ ThreadRuns
  /\ Wakethread
  /\ pc' = [pc EXCEPT ![p] = "y_set"]
  /\ UNCHANGED <<procFrame, listVars, tmrVars, RMSstate, currtask, tstate,
                 policy, target>>

\* Mutant: the task sleeps interruptibly.
YieldSetInterruptible(p) ==
  /\ pc[p] = "y_set" /\ ThreadRuns
  /\ tstate' = [tstate EXCEPT ![p] = "INTERRUPTIBLE"]
  /\ pc' = [pc EXCEPT ![p] = "y_sched"]
  /\ UNCHANGED <<procFrame, listVars, tmrVars, RMSstate, currtask, dstate,
                 missed, policy, target>>

\* set_current_state(TASK_UNINTERRUPTIBLE), then schedule().
YieldSetState(p) ==
  /\ pc[p] = "y_set" /\ ThreadRuns
  /\ tstate' = [tstate EXCEPT ![p] = "UNINTERRUPTIBLE"]
  /\ pc' = [pc EXCEPT ![p] = "y_sched"]
  /\ UNCHANGED <<procFrame, listVars, tmrVars, RMSstate, currtask, dstate,
                 missed, policy, target>>

YieldReturn(p) ==
  /\ pc[p] = "y_sched" /\ tstate[p] = "RUNNING" /\ ThreadRuns
  /\ pc' = [pc EXCEPT ![p] = "user"]
  /\ UNCHANGED <<procFrame, listVars, tmrVars, RMSstate, currtask, dstate,
                 missed, tstate, policy, target>>

\* kmem_cache_free(): the PCB goes back to the cache, its contents are lost.
KmemCacheFree(b) ==
  /\ slab' = slab \ {b} /\ late' = late \ {b}
  /\ pcb' = [pcb EXCEPT ![b] = Blank]
  /\ RMSstate' = [RMSstate EXCEPT ![b] = "SLEEPING"]

\* Mutants: del_timer() does not wait; the PCB is not freed.
TimerDelFree(b) ==
  timer' = [timer EXCEPT ![b] = "idle"] /\ KmemCacheFree(b)
TimerSyncNoFree(b) ==
  /\ callback[b] = "idle"
  /\ timer' = [timer EXCEPT ![b] = "idle"]
  /\ UNCHANGED <<slab, pcb, late, RMSstate>>

\* del_timer_sync() waits for a running timercb() and disarms the timer, then
\* the PCB is freed.
TimerSyncFree(b) ==
  /\ callback[b] = "idle"
  /\ timer' = [timer EXCEPT ![b] = "idle"]
  /\ KmemCacheFree(b)

\* Mutant: deregister() does not unlink the PCB.
DeregisterNoUnlink(p, q) ==
  /\ InUser(p) /\ ProcOpen /\ MutexFree
  /\ \E i \in DOMAIN mp2list :
       /\ TaskOf(mp2list[i]) = q
       /\ target' = [target EXCEPT ![p] = mp2list[i]]
       /\ currtask' = IF mp2list[i] = currtask THEN NULL ELSE currtask
  /\ pc' = [pc EXCEPT ![p] = "d_demote"]
  /\ UNCHANGED <<procFrame, listVars, tmrVars, RMSstate, dstate, missed, tstate,
                 policy>>

\* deregister() up to the unlock.
Deregister(p, q) ==
  /\ InUser(p) /\ ProcOpen /\ MutexFree
  /\ \E i \in DOMAIN mp2list :
       /\ TaskOf(mp2list[i]) = q
       /\ mp2list' = DelAt(mp2list, i)
       /\ target' = [target EXCEPT ![p] = mp2list[i]]
       /\ currtask' = IF mp2list[i] = currtask THEN NULL ELSE currtask
  /\ pc' = [pc EXCEPT ![p] = "d_demote"]
  /\ UNCHANGED <<procFrame, tmrVars, slab, pcb, late, RMSstate, dstate, missed,
                 tstate, policy>>

DeregDemote(p) ==
  /\ pc[p] = "d_demote" /\ ThreadRuns
  /\ policy' = [policy EXCEPT ![TaskOf(target[p])] = "NORMAL"]
  /\ pc' = [pc EXCEPT ![p] = "d_timer"]
  /\ UNCHANGED <<procFrame, listVars, tmrVars, RMSstate, currtask, dstate,
                 missed, tstate, target>>

DeregFree(p) ==
  /\ pc[p] = "d_timer" /\ ThreadRuns /\ CacheAlive
  /\ TimerSyncFree(target[p])
  /\ target' = [target EXCEPT ![p] = NULL]
  /\ pc' = [pc EXCEPT ![p] = "d_wake"]
  /\ UNCHANGED <<procFrame, mp2list, callback, currtask, dstate, missed, tstate,
                 policy>>

\* The same with mp2cache NULL.  Depending on the kernel, kmem_cache_free()
\* returns or faults; either way the PCB is not freed.
DeregFreeNull(p) ==
  /\ pc[p] = "d_timer" /\ ThreadRuns /\ ~CacheAlive
  /\ callback[target[p]] = "idle"
  /\ timer' = [timer EXCEPT ![target[p]] = "idle"]
  /\ late' = late \cup {target[p]} /\ target' = [target EXCEPT ![p] = NULL]
  /\ \E next \in {"d_wake", "oops"} : pc' = [pc EXCEPT ![p] = next]
  /\ UNCHANGED <<procFrame, mp2list, slab, pcb, RMSstate, callback, currtask, dstate,
                 missed, tstate, policy>>

\* Mutant: deregister() never wakes the dispatcher.
DeregNoWake(p) ==
  /\ pc[p] = "d_wake" /\ ThreadRuns
  /\ NoWake
  /\ pc' = [pc EXCEPT ![p] = "user"]
  /\ UNCHANGED <<procFrame, listVars, tmrVars, RMSstate, currtask, tstate,
                 policy, target>>

\* if(!currtask) wakethread(), read without the mutex.
DeregWake(p) ==
  /\ pc[p] = "d_wake" /\ ThreadRuns
  /\ IF currtask = NULL THEN Wakethread ELSE NoWake
  /\ pc' = [pc EXCEPT ![p] = "user"]
  /\ UNCHANGED <<procFrame, listVars, tmrVars, RMSstate, currtask, tstate,
                 policy, target>>

\* A command that my_write() parses; malformed ones change nothing.
MyWrite(p) ==
  \/ \E q \in Named(p), period \in PeriodArg, comp_time \in CompArg :
       TaskRegister(p, q, period, comp_time)
  \/ \E period \in PeriodArg, comp_time \in CompArg :
       TaskRegisterZero(p, period, comp_time)
  \/ TaskRegisterOops(p) \/ TaskYield(p)
  \/ \E q \in Named(p) : Deregister(p, q)

\* The rest of a command, once it is under way.
Syscall(p) ==
  \/ YieldWake(p) \/ YieldSetState(p) \/ YieldReturn(p)
  \/ DeregDemote(p) \/ DeregFree(p) \/ DeregFreeNull(p) \/ DeregWake(p)

-----------------------------------------------------------------------------
(* Unloading: mp2_exit() and cleanuplist().                                *)

\* kthread_stop(): set the stop flag and wake the thread, then wait for it.
ExitStop ==
  /\ epc = "loaded" /\ ThreadRuns
  /\ epc' = "stopping" /\ dstate' = "RUNNING"
  /\ UNCHANGED <<exitFrame, listVars, RMSstate, timer, policy, etarget>>

\* A step that only moves mp2_exit() on.
ExitMove(from, to) ==
  /\ epc = from /\ ThreadRuns
  /\ epc' = to
  /\ UNCHANGED <<exitFrame, listVars, RMSstate, timer, dstate, policy, etarget>>

\* The thread has returned; dispathread=NULL.
ExitStopped == dpc = "exited" /\ ExitMove("stopping", "lock")

ExitLock == MutexFree /\ ExitMove("lock", "cleaning")

\* list_del() and demote_task() on the first element.
ExitDetach ==
  /\ epc = "cleaning" /\ mp2list # << >> /\ ThreadRuns
  /\ mp2list' = Tail(mp2list) /\ etarget' = Head(mp2list)
  /\ policy' = [policy EXCEPT ![TaskOf(Head(mp2list))] = "NORMAL"]
  /\ epc' = "detached"
  /\ UNCHANGED <<exitFrame, slab, pcb, late, RMSstate, timer, dstate>>

\* del_timer_sync() with the mutex held, then kmem_cache_free().
ExitFree ==
  /\ epc = "detached" /\ ThreadRuns
  /\ TimerSyncFree(etarget)
  /\ etarget' = NULL /\ epc' = "cleaning"
  /\ UNCHANGED <<exitFrame, mp2list, dstate, policy>>

\* The list is empty: mutex_unlock().
ExitUnlock == mp2list = << >> /\ ExitMove("cleaning", "destroy")

\* kmem_cache_destroy(); mp2cache=NULL
ExitDestroy == ExitMove("destroy", "close")

\* proc_remove(): no new call enters my_write() ...
ExitProcRemove == ExitMove("close", "closing")

\* ... and it returns once no call is inside.
ExitDone == (\A p \in Pid : pc[p] = "user") /\ ExitMove("closing", "gone")

Mp2Exit ==
  \/ ExitStop \/ ExitStopped \/ ExitLock \/ ExitDetach \/ ExitFree \/ ExitUnlock
  \/ ExitDestroy \/ ExitProcRemove \/ ExitDone

-----------------------------------------------------------------------------

Next ==
  \/ Dispatcher
  \/ \E b \in Pcb : TimerExpire(b) \/ Timercb(b)
  \/ \E p \in Pid : MyWrite(p) \/ Syscall(p)
  \/ Mp2Exit

Spec == Init /\ [][Next]_vars

\* The kernel schedules runnable threads and runs expired timers.  Nothing
\* forces a process to issue a command, or anyone to unload the module.
Fairness ==
  /\ WF_vars(Dispatcher)
  /\ \A b \in Pcb : WF_vars(TimerExpire(b)) /\ WF_vars(Timercb(b))
  /\ \A p \in Pid : WF_vars(Syscall(p))
  /\ WF_vars(Mp2Exit /\ epc # "loaded")

FairSpec == Spec /\ Fairness

-----------------------------------------------------------------------------
(* Properties                                                              *)

TypeOK ==
  /\ mp2list \in Seq(Pcb) /\ slab \subseteq Pcb /\ pcb \in [Pcb -> TaskRec]
  /\ late \subseteq PcbOrNull
  /\ RMSstate \in [Pcb -> RMSStates]
  /\ timer \in [Pcb -> {"idle", "pending"}]
  /\ callback \in [Pcb -> {"idle", "entered", "waking"}]
  /\ currtask \in PcbOrNull
  /\ dpc \in DispPcs /\ dstate \in {"RUNNING", "INTERRUPTIBLE"}
  /\ scan \in Seq(Pcb) /\ nexttask \in PcbOrNull
  /\ protask \in PidOrNull /\ demtask \in PidOrNull /\ missed \in BOOLEAN
  /\ pc \in [Pid -> ProcPcs]
  /\ tstate \in [Pid -> {"RUNNING", "UNINTERRUPTIBLE"}]
  /\ policy \in [Pid -> {"NORMAL", "FIFO"}] /\ target \in [Pid -> PcbOrNull]
  /\ epc \in ExitPcs /\ etarget \in PcbOrNull

\* No thread can reach a PCB that kmem_cache_free() has given back: not
\* through the list, the dispatcher's scan, nexttask or currtask, a teardown
\* in deregister() or cleanuplist(), or a timer that is armed or running.
NoUseAfterFree ==
  /\ Registered \subseteq slab
  /\ dpc # "exited" /\ currtask # NULL => currtask \in slab
  /\ dpc = "scan" => Range(scan) \cup ({nexttask} \ {NULL}) \subseteq slab
  /\ \A p \in Pid : target[p] # NULL => target[p] \in slab
  /\ etarget # NULL => etarget \in slab
  /\ \A b \in Pcb : timer[b] = "pending" \/ callback[b] # "idle" => b \in slab

\* A PCB is torn down by one thread only and never while it is on the list:
\* deregister() and cleanuplist() racing on one pid do not free it twice.
NoDoubleFree ==
  /\ \A p \in Pid : target[p] # NULL =>
       /\ target[p] \notin Registered /\ target[p] # etarget
       /\ \A q \in Pid \ {p} : target[q] # target[p]
  /\ etarget \notin Registered

\* At most one registered task is RUNNING, and it is currtask, whatever
\* timercb() writes to RMSstate while dispatcher() looks at it.
OneRunning ==
  \A b \in Registered : RMSstate[b] = "RUNNING" => b = currtask

\* The ways in which mp2.c loses a PCB, and no other: the return of
\* taskregister() for a zero argument, before the PCB is filled in, and the
\* commands that get through the proc file after mp2_exit() has cleaned up the
\* list.  Every other allocated PCB is being torn down or is registered, and
\* cleanuplist() leaves none registered.
OnlyKnownLeaks ==
  \A b \in slab \ late :
    \/ b \in {etarget} \cup {target[p] : p \in Pid}
    \/ b \in Registered /\ ~Cleaned
    \/ pcb[b] = Blank

\* The dispatcher sleeps, and nobody is on the way to wake it.
Quiescent ==
  /\ epc = "loaded" /\ dpc = "sched" /\ dstate = "INTERRUPTIBLE" /\ NoCallback
  /\ \A p \in Pid : pc[p] \in {"user", "y_set", "y_sched"}

\* No READY task waits behind an idle CPU or a task of longer period.
RateMonotonic ==
  \A b \in Registered : RMSstate[b] = "READY" =>
    currtask # NULL /\ pcb[currtask].period <= pcb[b].period

\* When everything has come to rest, dispatcher() has applied the
\* rate-monotonic rule, unless a wake-up fell into one of its passes.
QuiescentDispatch == Quiescent /\ ~missed => RateMonotonic

\* The same without the exception: the timer callback "wakes up the
\* dispatcher to re-schedule" whenever it makes a task READY.
WakeupReschedules == Quiescent => RateMonotonic

\* The task the dispatcher chose is RUNNING and has real-time policy.
CurrentIsPromoted ==
  Quiescent /\ currtask # NULL =>
    RMSstate[currtask] = "RUNNING" /\ policy[TaskOf(currtask)] = "FIFO"

\* A task is "awakened when the next cycle arrives": once dispatched, its
\* process is not left asleep in taskyield().
DispatchedIsAwake ==
  Quiescent /\ currtask # NULL /\ pc[TaskOf(currtask)] # "y_set" =>
    tstate[TaskOf(currtask)] = "RUNNING"

\* The CPU passes from one task directly to another only by preemption: the
\* new task has a strictly shorter period and the old one stays READY for its
\* turn.  Equal periods never displace each other.
PreemptOnlyByShorter ==
  [][currtask # NULL /\ currtask' # NULL /\ currtask' # currtask =>
       /\ pcb[currtask'].period < pcb[currtask].period
       /\ currtask \in Registered /\ RMSstate'[currtask] = "READY"]_vars

\* A process asleep in taskyield() is woken only as the task the dispatcher
\* has just chosen, and only after the timer of its period has expired.
WokenOnlyAtRelease ==
  [][\A p \in Pid : tstate[p] = "UNINTERRUPTIBLE" /\ tstate'[p] = "RUNNING" =>
       /\ currtask # NULL /\ TaskOf(currtask) = p
       /\ RMSstate[currtask] = "RUNNING" /\ timer[currtask] = "idle"]_vars

\* A READY task does not wait forever while the CPU is idle, unless a wake-up
\* fell into a pass of the dispatcher.
DispatchProgress ==
  \A b \in Pcb :
    b \in Registered /\ RMSstate[b] = "READY" /\ currtask = NULL
      ~> \/ currtask # NULL \/ b \notin Registered \/ RMSstate[b] # "READY"
         \/ missed \/ epc # "loaded"

\* kthread_stop() and the timer teardown under mp2mutex always come to an
\* end: mp2_exit() gets as far as removing the proc entry.
UnloadReachesProcRemove == epc = "stopping" ~> epc \in {"closing", "gone"}

\* Once begun, unloading completes and "the proc interface is deleted", except
\* that it cannot after a process has faulted inside my_write().
UnloadCompletes ==
  epc = "stopping" ~> epc = "gone" \/ \E p \in Pid : pc[p] = "oops"

-----------------------------------------------------------------------------
(* The inductive invariant behind NoUseAfterFree, NoDoubleFree and         *)
(* OneRunning: who may hold a pointer to which PCB, and when.              *)

\* list_add_tail() never links a PCB that is already linked.
ListInv ==
  /\ IsInjective(mp2list)
  /\ Registered \subseteq slab

\* A PCB under teardown is allocated, unlinked and owned by one thread.
TargetInv ==
  /\ \A p \in Pid :
       /\ pc[p] \in {"d_demote", "d_timer"} <=> target[p] # NULL
       /\ target[p] # NULL => target[p] \in slab /\ target[p] \notin Registered
       /\ \A q \in Pid : target[p] # NULL /\ target[p] = target[q] => p = q
       /\ target[p] # NULL => target[p] # etarget
  /\ epc = "detached" <=> etarget # NULL
  /\ etarget # NULL => etarget \in slab /\ etarget \notin Registered

\* The dispatcher's pointers are to linked PCBs while it may follow them:
\* unlinking needs the mutex, and cleanuplist() runs after the thread is gone.
DispInv ==
  /\ dpc # "exited" => epc \in {"loaded", "stopping"}
  /\ dpc # "exited" /\ currtask # NULL => currtask \in Registered
  /\ dpc = "scan" => Range(scan) \subseteq Registered
  /\ nexttask # NULL => dpc = "scan" /\ nexttask \in Registered

TimerInv ==
  \A b \in Pcb : timer[b] = "pending" \/ callback[b] # "idle" => b \in slab

\* Memory ownership in all threads at once, as the code keeps it: inductive.
IndInv == ListInv /\ TargetInv /\ DispInv /\ TimerInv /\ OneRunning

-----------------------------------------------------------------------------
(* The inductive invariants behind QuiescentDispatch, CurrentIsPromoted    *)
(* and WokenOnlyAtRelease, on one core: there no process runs while the    *)
(* dispatcher is in its pass, and no thread runs during timercb().         *)

\* A listed PCB describes a process, and no two describe the same one.
PidInv ==
  \A b \in Registered :
    TaskOf(b) \in Pid /\ \A c \in Registered : TaskOf(c) = TaskOf(b) => c = b

\* taskyield() arms a timer only for a task it puts to sleep.
ReleaseInv ==
  \A b \in Pcb :
    /\ timer[b] = "pending" \/ callback[b] = "entered" => RMSstate[b] = "SLEEPING"
    /\ callback[b] # "idle" => timer[b] = "idle"

\* What dispatcher() holds in hand: the task it chose last runs, its candidate
\* is READY, and the process it is about to promote is that of currtask.
PassInv ==
  /\ dpc # "exited" /\ currtask # NULL => RMSstate[currtask] = "RUNNING"
  /\ nexttask # NULL => RMSstate[nexttask] = "READY"
  /\ dpc = "promote" => currtask # NULL /\ protask = TaskOf(currtask)

\* The part of the list already scanned: a READY task there is no better than
\* the candidate, unless it became READY behind the scan.
ScanInv ==
  dpc = "scan" /\ ~missed =>
    \A b \in Registered \ Range(scan) : RMSstate[b] = "READY" =>
      \/ callback[b] = "waking"
      \/ nexttask # NULL /\ pcb[nexttask].period <= pcb[b].period

\* Someone who will wake the dispatcher: a timer callback, or a process that
\* took the CPU from currtask by taskyield() or deregister().
WakeComing ==
  \/ \E b \in Pcb : callback[b] = "waking"
  \/ /\ currtask = NULL
     /\ \E p \in Pid : pc[p] \in {"y_wake", "d_demote", "d_timer", "d_wake"}

\* From the decision of a pass until the next wake-up the rate-monotonic rule
\* holds, or someone is on the way to wake the dispatcher.
SettledInv ==
  /\ epc = "loaded" /\ ~missed
  /\ \/ dpc \in {"promote", "demote", "setstate"}
     \/ dpc \in {"check", "sched"} /\ dstate = "INTERRUPTIBLE"
  => RateMonotonic \/ WakeComing

OneCoreInv == PidInv /\ ReleaseInv /\ PassInv /\ ScanInv /\ SettledInv

\* Without commands on foreign pids: who has the CPU has SCHED_FIFO from its
\* promotion on.  The process to demote is another one, and a process that
\* deregisters is not registered again before it has demoted itself.
PolicyInv ==
  /\ dpc \notin {"promote", "exited"} /\ currtask # NULL =>
       policy[TaskOf(currtask)] = "FIFO"
  /\ demtask # NULL => dpc \in {"promote", "demote"} /\ demtask # TaskOf(currtask)
  /\ \A p \in Pid : target[p] # NULL =>
       TaskOf(target[p]) = p /\ \A b \in Registered : TaskOf(b) # p
=============================================================================
