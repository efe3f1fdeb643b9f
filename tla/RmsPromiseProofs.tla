-------------------------- MODULE RmsPromiseProofs --------------------------
(***************************************************************************)
(* What mp2.c promises, for any sets of processes, PCBs and arguments.     *)
(* The scheduler implements the registry: every step changes the list,     *)
(* read as task records, as RmsRegistry allows or not at all.  On one core *)
(* the dispatcher decides well: when the scheduler rests the               *)
(* rate-monotonic rule holds, a process is woken only at its release, and  *)
(* the running one is promoted.                                            *)
(***************************************************************************)
EXTENDS RmsRefinement, RmsSchedulerProofs

\* A PCB on the list describes a process: the pid that taskregister() stored.
Described == \A b \in Registered : pcb[b].pid \in Pid

-----------------------------------------------------------------------------
(* The operators of the two specifications are the same.                   *)

LEMMA SameSum ==
  ASSUME NEW f
  PROVE  Registry!SumFunction(f) = SumFunction(f)
BY DEF Registry!SumFunction, SumFunction, Registry!SumFunctionOnSet, SumFunctionOnSet,
       Registry!FoldFunctionOnSet, FoldFunctionOnSet, Registry!MapThenFoldSet, MapThenFoldSet

LEMMA SameUtilSum ==
  ASSUME NEW ts
  PROVE  Registry!UtilSum(ts) = UtilSum(ts)
BY SameSum DEF Registry!UtilSum, UtilSum, Util, Registry!Util, UtilScale, Registry!UtilScale

LEMMA SameAdmits ==
  ASSUME NEW ts, NEW t, Admits(ts, t)
  PROVE  Registry!Admits(ts, t)
BY SameUtilSum DEF Registry!Admits, Admits, Registry!IsRegistered, IsRegistered,
                   Registry!UtilBound, UtilBound

LEMMA SameTask ==
  ASSUME NEW pid, NEW period, NEW comp_time
  PROVE  Registry!Task(pid, Registry!Ulong(period), Registry!Ulong(comp_time))
           = Task(pid, Ulong(period), Ulong(comp_time))
BY DEF Registry!Task, Task, Registry!Ulong, Ulong

-----------------------------------------------------------------------------
(* The list as task records.                                               *)

LEMMA TaskListMap ==
  /\ TaskList = MapSeq(mp2list, pcb)
  /\ TaskList' = MapSeq(mp2list', pcb')
BY DEF TaskList, MapSeq

\* A step that leaves the list and its entries alone leaves the tasks alone.
LEMMA SameTasks ==
  ASSUME TypeOK, UNCHANGED mp2list, \A b \in Registered : pcb'[b] = pcb[b]
  PROVE  TaskList' = TaskList
<1>1. mp2list \in Seq(Pcb) /\ \A b \in Range(mp2list) : pcb'[b] = pcb[b]
  BY DEF TypeOK, Registered
<1>2. MapSeq(mp2list, pcb') = MapSeq(mp2list, pcb)
  BY <1>1, MapSeqSame
<1> QED BY <1>2, TaskListMap

\* list_add_tail() of a PCB that is not linked adds its task.
LEMMA LinkTask ==
  ASSUME TypeOK, NEW b \in Pcb, mp2list' = Append(mp2list, b),
         \A c \in Registered : pcb'[c] = pcb[c]
  PROVE  TaskList' = Append(TaskList, pcb'[b])
<1>1. mp2list \in Seq(Pcb)
  BY DEF TypeOK
<1>2. MapSeq(mp2list, pcb') = MapSeq(mp2list, pcb)
  BY <1>1, MapSeqSame DEF Registered
<1>3. MapSeq(Append(mp2list, b), pcb') = Append(MapSeq(mp2list, pcb'), pcb'[b])
  BY <1>1, MapSeqAppend
<1> QED BY <1>2, <1>3, TaskListMap, Zenon

\* list_del() of a PCB removes its task.
LEMMA UnlinkTask ==
  ASSUME TypeOK, NEW i \in DOMAIN mp2list, UNCHANGED pcb,
         mp2list' = DelAt(mp2list, i), TaskOf(mp2list[i]) \in Pid
  PROVE  Registry!Next
<1>1. mp2list \in Seq(Pcb)
  BY DEF TypeOK
<1>2. MapSeq(DelAt(mp2list, i), pcb) = DelAt(MapSeq(mp2list, pcb), i)
  BY <1>1, MapSeqRemove
<1>3. TaskList' = DelAt(TaskList, i)
  BY <1>2, TaskListMap
<1>4. i \in DOMAIN TaskList /\ TaskList[i].pid = TaskOf(mp2list[i])
  BY DEF TaskList, TaskOf
<1>5. Registry!Deregister(TaskOf(mp2list[i]))
  BY <1>3, <1>4 DEF Registry!Deregister, Registry!DelAt, DelAt
<1> QED BY <1>5 DEF Registry!Next

\* Only five operations touch the list or the contents of a PCB.
LEMMA QuietStep ==
  ASSUME [Next]_vars
  PROVE  \/ UNCHANGED <<mp2list, pcb>>
         \/ \E p \in Pid, q \in Pid, period \in PeriodArg, comp_time \in CompArg :
              TaskRegister(p, q, period, comp_time)
         \/ \E p \in Pid, q \in Pid : Deregister(p, q)
         \/ \E p \in Pid : DeregFree(p)
         \/ ExitDetach
         \/ ExitFree
<1>1. CASE UNCHANGED vars
  BY <1>1 DEF vars
<1>2. CASE Dispatcher
  BY <1>2 DEF Dispatcher, DispStart, DispLock, DispScan, DispKeep, DispRun, DispPreempt,
              DispPromote, DispDemote, DispSetState, DispCheck, DispWoken, dispFrame, listVars
<1>3. ASSUME NEW b \in Pcb, TimerExpire(b) \/ Timercb(b) PROVE UNCHANGED <<mp2list, pcb>>
  BY <1>3 DEF TimerExpire, Timercb, TimerReady, TimerWake, timerFrame, listVars
<1>4. ASSUME NEW p \in Pid, MyWrite(p)
      PROVE  \/ UNCHANGED <<mp2list, pcb>>
             \/ \E q \in Pid, period \in PeriodArg, comp_time \in CompArg :
                  TaskRegister(p, q, period, comp_time)
             \/ \E q \in Pid : Deregister(p, q)
  <2>1. Named(p) \subseteq Pid
    BY DEF Named
  <2>2. CASE \E period \in PeriodArg, comp_time \in CompArg :
               TaskRegisterZero(p, period, comp_time)
    BY <2>2 DEF TaskRegisterZero
  <2>3. CASE TaskYield(p) \/ TaskRegisterOops(p)
    BY <2>3 DEF TaskYield, TaskRegisterOops, listVars
  <2> QED BY <1>4, <2>1, <2>2, <2>3 DEF MyWrite
<1>5. ASSUME NEW p \in Pid, Syscall(p) PROVE UNCHANGED <<mp2list, pcb>> \/ DeregFree(p)
  BY <1>5 DEF Syscall, YieldWake, YieldSetState, YieldReturn, DeregDemote, DeregFreeNull,
              DeregWake, listVars
<1>6. CASE Mp2Exit
  BY <1>6 DEF Mp2Exit, ExitStop, ExitStopped, ExitLock, ExitUnlock, ExitDestroy,
              ExitProcRemove, ExitDone, ExitMove, listVars
<1> QED BY <1>1, <1>2, <1>3, <1>4, <1>5, <1>6 DEF Next

-----------------------------------------------------------------------------
(* Every step.                                                             *)

\* taskregister() is the registry's Register.
LEMMA RegisterStep ==
  ASSUME TypeOK, IndInv, Described, NEW p \in Pid, NEW q \in Pid,
         NEW period \in PeriodArg, NEW comp_time \in CompArg,
         TaskRegister(p, q, period, comp_time)
  PROVE  Registry!Next /\ Described'
<1> DEFINE t == Task(q, Ulong(period), Ulong(comp_time))
<1>1. Admits(TaskList, t)
  BY DEF TaskRegister
<1>2. PICK b \in Pcb \ slab :
        mp2list' = Append(mp2list, b) /\ pcb' = [pcb EXCEPT ![b] = t]
  BY DEF TaskRegister
<1>3. b \in Pcb /\ b \notin Registered /\ Registered \subseteq Pcb
  BY DEF IndInv, ListInv, TypeOK, Registered, Range
<1>4. t.pid = q
  BY DEF Task
<1> HIDE DEF t
<1>5. TaskList' = Append(TaskList, t)
  <2>1. pcb'[b] = t /\ \A c \in Registered : pcb'[c] = pcb[c]
    BY <1>2, <1>3 DEF TypeOK
  <2> QED BY <1>2, <1>3, <2>1, LinkTask
<1>6. Registry!Register(q, period, comp_time)
  <2>1. t = Registry!Task(q, Registry!Ulong(period), Registry!Ulong(comp_time))
    BY SameTask DEF t
  <2>2. Registry!Admits(TaskList, t)
    BY <1>1, SameAdmits
  <2> QED BY <1>5, <2>1, <2>2 DEF Registry!Register
<1>7. Described'
  <2>1. Registered' = Registered \cup {b}
    BY <1>2, <1>3, AppendEntries DEF Registered, IndInv, ListInv, TypeOK
  <2>2. pcb'[b].pid = q /\ \A c \in Registered : pcb'[c] = pcb[c]
    BY <1>2, <1>3, <1>4 DEF TypeOK
  <2> QED BY <2>1, <2>2 DEF Described
<1> QED BY <1>6, <1>7 DEF Registry!Next

\* deregister() is the registry's Deregister.
LEMMA DeregisterStep ==
  ASSUME TypeOK, IndInv, Described, NEW p \in Pid, NEW q \in Pid, Deregister(p, q)
  PROVE  Registry!Next /\ Described'
<1>1. PICK i \in DOMAIN mp2list :
        TaskOf(mp2list[i]) = q /\ mp2list' = DelAt(mp2list, i)
  BY DEF Deregister
<1>2. UNCHANGED pcb
  BY DEF Deregister
<1>3. Registered' \subseteq Registered
  BY <1>1, DelAtEntries DEF Registered, IndInv, ListInv, TypeOK
<1>4. Described'
  BY <1>2, <1>3 DEF Described
<1> QED BY <1>1, <1>2, <1>4, UnlinkTask

\* Each turn of cleanuplist() deregisters the first task.
LEMMA DetachStep ==
  ASSUME TypeOK, IndInv, Described, ExitDetach
  PROVE  Registry!Next /\ Described'
<1>1. /\ mp2list # << >> /\ mp2list' = Tail(mp2list) /\ UNCHANGED pcb
      /\ mp2list \in Seq(Pcb)
  BY DEF ExitDetach, TypeOK
<1>2. /\ 1 \in DOMAIN mp2list /\ Tail(mp2list) = DelAt(mp2list, 1)
  BY <1>1, TailIsDelAt
<1>3. /\ mp2list[1] \in Registered /\ Registered' \subseteq Registered
  BY <1>1, <1>2, DelAtEntries DEF Registered, IndInv, ListInv
<1>4. TaskOf(mp2list[1]) \in Pid /\ Described'
  BY <1>1, <1>3 DEF Described, TaskOf
<1> QED BY <1>1, <1>2, <1>4, UnlinkTask

\* kmem_cache_free() in deregister() and in cleanuplist() is invisible.
LEMMA FreeStep ==
  ASSUME TypeOK, IndInv, Described, ExitFree \/ \E p \in Pid : DeregFree(p)
  PROVE  TaskList' = TaskList /\ Described'
<1>1. PICK b \in Pcb \ Registered : TimerSyncFree(b)
  BY DEF ExitFree, DeregFree, IndInv, TargetInv, TypeOK
<1>2. UNCHANGED mp2list
  BY DEF ExitFree, DeregFree
<1>3. Registered' = Registered /\ Registered \subseteq Pcb
  BY <1>2 DEF Registered, TypeOK, Range
<1>4. \A c \in Registered : pcb'[c] = pcb[c]
  BY <1>1, <1>3 DEF TimerSyncFree, KmemCacheFree, TypeOK
<1> QED BY <1>2, <1>3, <1>4, SameTasks DEF Described

LEMMA RegistryStep ==
  TypeOK /\ IndInv /\ Described /\ [Next]_vars => [Registry!Next]_TaskList /\ Described'
<1> SUFFICES ASSUME TypeOK, IndInv, Described, [Next]_vars
             PROVE  [Registry!Next]_TaskList /\ Described'
  OBVIOUS
<1>1. CASE UNCHANGED <<mp2list, pcb>>
  BY <1>1 DEF TaskList, Described, Registered
<1> QED BY <1>1, QuietStep, RegisterStep, DeregisterStep, DetachStep, FreeStep

LEMMA RegistryInit == Init => Registry!Init /\ Described
<1> SUFFICES ASSUME Init PROVE Registry!Init /\ Described
  OBVIOUS
<1>1. mp2list = << >>
  BY DEF Init
<1> QED BY <1>1 DEF TaskList, Registry!Init, Described, Registered, Range

\* Whatever the interleaving of taskregister(), deregister(), cleanuplist(),
\* the dispatcher and the timers, the list changes only as the registry
\* allows: an admitted task joins at the end, or one task leaves.
THEOREM Refinement == Spec => ImplementsRegistry
<1>1. Spec => []TypeOK /\ []IndInv
  BY TypeCorrect, OwnershipInvariant, PTL
<1> QED BY <1>1, RegistryInit, RegistryStep, PTL DEF Spec, ImplementsRegistry, Registry!Spec

-----------------------------------------------------------------------------
(* Who is registered                                                       *)

\* taskregister() searches the list for the pid before it links a PCB, and a
\* linked PCB is never rewritten.
LEMMA PidStep == TypeOK /\ IndInv /\ PidInv /\ [Next]_vars => PidInv'
<1> SUFFICES ASSUME TypeOK, IndInv, PidInv, [Next]_vars PROVE PidInv'
  OBVIOUS
<1>0. Registered \subseteq slab /\ Registered \subseteq Pcb
  BY DEF IndInv, ListInv, TypeOK
<1>1. CASE UNCHANGED <<mp2list, pcb>>
  BY <1>1 DEF PidInv, Registered, TaskOf
<1>2. ASSUME NEW p \in Pid, NEW q \in Pid, NEW period, NEW comp_time,
             TaskRegister(p, q, period, comp_time)
      PROVE  PidInv'
  <2> DEFINE t == Task(q, Ulong(period), Ulong(comp_time))
  <2>1. PICK b \in Pcb \ slab : /\ mp2list' = Append(mp2list, b)
                                /\ pcb' = [pcb EXCEPT ![b] = t]
                                /\ Admits(TaskList, t)
    BY <1>2 DEF TaskRegister
  <2>2. t.pid = q
    BY DEF Task
  <2> HIDE DEF t
  <2>3. Registered' = Registered \cup {b}
    BY <2>1, AppendEntries DEF Registered, IndInv, ListInv, TypeOK
  <2>4. \A c \in Registered : TaskOf(c) # q
    <3>1. \A i \in DOMAIN mp2list : pcb[mp2list[i]].pid # q
      BY <2>1, <2>2 DEF Admits, IsRegistered, TaskList
    <3> QED BY <3>1 DEF Registered, Range, TaskOf
  <2>5. /\ TaskOf(b)' = q
        /\ \A c \in Registered : TaskOf(c)' = TaskOf(c)
    BY <1>0, <2>1, <2>2 DEF TaskOf, TypeOK
  <2> QED BY <2>3, <2>4, <2>5 DEF PidInv
<1>3. CASE Registered' \subseteq Registered /\ UNCHANGED pcb
  BY <1>3 DEF PidInv, TaskOf
<1>4. ASSUME NEW p \in Pid, NEW q, Deregister(p, q) PROVE PidInv'
  <2>1. PICK i \in DOMAIN mp2list : mp2list' = DelAt(mp2list, i)
    BY <1>4 DEF Deregister
  <2>2. Registered' \subseteq Registered
    BY <2>1, DelAtEntries DEF Registered, IndInv, ListInv, TypeOK
  <2>3. UNCHANGED pcb
    BY <1>4 DEF Deregister
  <2> QED BY <1>3, <2>2, <2>3
<1>5. ASSUME NEW b \in Pcb \ Registered, TimerSyncFree(b), UNCHANGED mp2list
      PROVE  PidInv'
  <2>1. Registered' = Registered
    BY <1>5 DEF Registered
  <2>2. \A c \in Registered : TaskOf(c)' = TaskOf(c)
    BY <1>0, <1>5 DEF TimerSyncFree, KmemCacheFree, TaskOf, TypeOK
  <2> QED BY <2>1, <2>2 DEF PidInv
<1>6. ASSUME NEW p \in Pid, DeregFree(p) PROVE PidInv'
  <2>1. target[p] \in Pcb \ Registered
    BY <1>6 DEF DeregFree, IndInv, TargetInv, TypeOK
  <2> QED BY <1>5, <1>6, <2>1 DEF DeregFree
<1>7. CASE ExitDetach
  <2>1. mp2list # << >> /\ mp2list' = Tail(mp2list) /\ UNCHANGED pcb
    BY <1>7 DEF ExitDetach
  <2>2. Registered' \subseteq Registered
    BY <2>1, TailSubset DEF Registered, TypeOK
  <2> QED BY <1>3, <2>1, <2>2
<1>8. CASE ExitFree
  <2>1. etarget \in Pcb \ Registered
    BY <1>8 DEF ExitFree, IndInv, TargetInv, TypeOK
  <2> QED BY <1>5, <1>8, <2>1 DEF ExitFree
<1>9. CASE UNCHANGED vars \/ Dispatcher \/ \E b \in Pcb : TimerExpire(b) \/ Timercb(b)
  <2>1. UNCHANGED <<mp2list, pcb>>
    BY <1>9 DEF vars, Dispatcher, DispStart, DispLock, DispScan, DispKeep, DispRun,
                DispPreempt, DispPromote, DispDemote, DispSetState, DispCheck,
                DispWoken, dispFrame, TimerExpire, Timercb, TimerReady, TimerWake,
                timerFrame, listVars
  <2> QED BY <1>1, <2>1
<1>10. ASSUME NEW p \in Pid, MyWrite(p) PROVE PidInv'
  <2>1. Named(p) \subseteq Pid
    BY DEF Named
  <2>2. CASE TaskYield(p) \/ TaskRegisterOops(p)
    BY <1>1, <2>2 DEF TaskYield, TaskRegisterOops, listVars
  <2>3. ASSUME NEW period, NEW comp_time, TaskRegisterZero(p, period, comp_time)
        PROVE  PidInv'
    BY <1>1, <2>3 DEF TaskRegisterZero
  <2> QED BY <1>2, <1>4, <1>10, <2>1, <2>2, <2>3 DEF MyWrite
<1>11. ASSUME NEW p \in Pid, Syscall(p) PROVE PidInv'
  BY <1>1, <1>6, <1>11 DEF Syscall, YieldWake, YieldSetState, YieldReturn, DeregDemote,
                           DeregFreeNull, DeregWake, listVars
<1>12. CASE Mp2Exit
  BY <1>1, <1>7, <1>8, <1>12
     DEF Mp2Exit, ExitStop, ExitStopped, ExitLock, ExitUnlock, ExitDestroy,
         ExitProcRemove, ExitDone, ExitMove, listVars
<1> QED BY <1>9, <1>10, <1>11, <1>12 DEF Next

-----------------------------------------------------------------------------
(* Decisions of the dispatcher on one core                                 *)

\* What holds whenever a process or mp2_exit() takes a step on one core.
LEMMA OneCoreThread ==
  ASSUME ~SMP, ThreadRuns
  PROVE  /\ NoCallback /\ dpc \in {"start", "exited", "sched"}
         /\ dpc = "sched" => dstate = "INTERRUPTIBLE"
BY DEF ThreadRuns, DispOffCpu

LEMMA PeriodNat ==
  ASSUME TypeOK, NEW b \in Pcb
  PROVE  pcb[b].period \in Nat
BY UlongModAssumption DEF TypeOK, TaskRec, Ulongs

\* timercb() only makes a sleeping task READY, so it disturbs neither the
\* current task nor the candidate of a scan.
LEMMA OneCoreTimer ==
  ASSUME ~SMP, TypeOK, IndInv, OneCoreInv, NEW b \in Pcb, TimerExpire(b) \/ Timercb(b)
  PROVE  ReleaseInv' /\ PassInv' /\ ScanInv' /\ SettledInv'
<1> USE DEF OneCoreInv
<1>1. /\ UNCHANGED <<mp2list, pcb, currtask, dpc, scan, nexttask, protask, pc, epc>>
  BY DEF TimerExpire, Timercb, TimerReady, TimerWake, timerFrame, listVars, locals
<1>0. Registered' = Registered /\ Registered \subseteq Pcb
  BY <1>1 DEF Registered, Range, TypeOK
<1>2. CASE TimerExpire(b)
  <2>1. /\ timer[b] = "pending" /\ callback[b] = "idle" /\ UNCHANGED <<RMSstate, dstate, missed>>
        /\ timer' = [timer EXCEPT ![b] = "idle"]
        /\ callback' = [callback EXCEPT ![b] = "entered"]
    BY <1>2 DEF TimerExpire
  <2>2. \A c \in Pcb : callback[c] = "waking" => callback'[c] = "waking"
    BY <2>1 DEF TypeOK
  <2>3. ReleaseInv'
    BY <2>1 DEF ReleaseInv, TypeOK
  <2>4. PassInv'
    BY <1>1, <2>1 DEF PassInv, TaskOf
  <2>5. ScanInv'
    BY <1>0, <1>1, <2>1, <2>2 DEF ScanInv
  <2>6. SettledInv'
    BY <1>0, <1>1, <2>1, <2>2 DEF SettledInv, RateMonotonic, WakeComing
  <2> QED BY <2>3, <2>4, <2>5, <2>6
<1>3. CASE TimerReady(b)
  <2>1. /\ callback[b] = "entered" /\ UNCHANGED <<timer, dstate, missed>>
        /\ RMSstate' = [RMSstate EXCEPT ![b] = "READY"]
        /\ callback' = [callback EXCEPT ![b] = "waking"]
    BY <1>3 DEF TimerReady
  <2>2. RMSstate[b] = "SLEEPING" /\ timer[b] = "idle"
    BY <2>1 DEF ReleaseInv
  <2>3. /\ callback'[b] = "waking" /\ RMSstate'[b] = "READY"
        /\ \A c \in Pcb \ {b} : callback'[c] = callback[c] /\ RMSstate'[c] = RMSstate[c]
    BY <2>1 DEF TypeOK
  <2>4. ReleaseInv'
    BY <2>1, <2>2, <2>3 DEF ReleaseInv
  <2>5. PassInv'
    BY <1>1, <2>2, <2>3 DEF PassInv, TaskOf, TypeOK, PcbOrNull
  <2>6. ScanInv'
    BY <1>0, <1>1, <2>1, <2>3 DEF ScanInv
  <2>7. SettledInv'
    BY <1>1, <2>3 DEF SettledInv, WakeComing
  <2> QED BY <2>4, <2>5, <2>6, <2>7
<1>4. CASE TimerWake(b)
  <2>1. /\ UNCHANGED <<timer, RMSstate>> /\ Wakethread /\ callback[b] = "waking"
        /\ callback' = [callback EXCEPT ![b] = "idle"]
    BY <1>4 DEF TimerWake
  <2>2. ReleaseInv'
    BY <2>1 DEF ReleaseInv, TypeOK
  <2>3. PassInv'
    BY <1>1, <2>1 DEF PassInv, TaskOf
  <2>4. ScanInv'
    BY <1>0, <1>1, <2>1 DEF ScanInv, Wakethread, Dispathread, InPass, IndInv, DispInv
  <2>5. SettledInv'
    BY <1>1, <2>1 DEF SettledInv, Wakethread, Dispathread, InPass
  <2> QED BY <2>2, <2>3, <2>4, <2>5
<1> QED BY <1>2, <1>3, <1>4 DEF Timercb

\* The steps of the dispatcher that decide nothing.
LEMMA OneCoreLoop ==
  ASSUME ~SMP, TypeOK, IndInv, OneCoreInv,
         \/ DispStart \/ DispLock \/ DispPromote \/ DispDemote
         \/ DispSetState \/ DispCheck \/ DispWoken
  PROVE  ReleaseInv' /\ PassInv' /\ ScanInv' /\ SettledInv'
<1> USE DEF OneCoreInv
<1>1. /\ UNCHANGED <<mp2list, pcb, RMSstate, timer, callback, currtask, nexttask, epc, pc>>
      /\ dpc # "exited" /\ Registered' = Registered
  BY DEF DispStart, DispLock, DispPromote, DispDemote, DispSetState, DispCheck,
         DispWoken, dispFrame, listVars, tmrVars, locals, Registered
<1>2. dpc' # "promote" /\ (dpc' = "scan" => Registered \ Range(scan') = {})
  BY DEF DispStart, DispLock, DispPromote, DispDemote, DispSetState, DispCheck,
         DispWoken, Registered
<1>3. ReleaseInv' /\ PassInv' /\ ScanInv'
  BY <1>1, <1>2 DEF ReleaseInv, PassInv, ScanInv
<1>4. (RateMonotonic \/ WakeComing) => (RateMonotonic \/ WakeComing)'
  BY <1>1 DEF RateMonotonic, WakeComing
<1>5. CASE DispPromote \/ DispDemote \/ DispSetState
  BY <1>3, <1>1, <1>4, <1>5 DEF SettledInv, DispPromote, DispDemote, DispSetState
<1>6. CASE DispCheck
  BY <1>3, <1>1, <1>4, <1>6 DEF SettledInv, DispCheck, ShouldStop
<1>7. CASE DispStart \/ DispLock \/ DispWoken
  BY <1>3, <1>7 DEF SettledInv, DispStart, DispLock, DispWoken
<1> QED BY <1>3, <1>5, <1>6, <1>7

LEMMA OneCoreScan ==
  ASSUME ~SMP, TypeOK, IndInv, OneCoreInv, DispScan
  PROVE  ReleaseInv' /\ PassInv' /\ ScanInv' /\ SettledInv'
<1> USE DEF OneCoreInv
<1>1. /\ UNCHANGED <<mp2list, pcb, RMSstate, timer, callback, currtask, dpc, missed>>
      /\ dpc = "scan" /\ scan # << >> /\ scan' = Tail(scan) /\ Registered' = Registered
      /\ nexttask' = IF /\ RMSstate[Head(scan)] = "READY"
                        /\ \/ nexttask = NULL
                           \/ pcb[Head(scan)].period < pcb[nexttask].period
                     THEN Head(scan) ELSE nexttask
  BY DEF DispScan, dispFrame, listVars, tmrVars, Registered
<1>2. /\ Head(scan) \in Pcb /\ Head(scan) # NULL
      /\ Range(scan) \subseteq Range(Tail(scan)) \cup {Head(scan)}
  BY <1>1, TailSubset, HeadTailSet, ConstAssumption DEF TypeOK
<1>3. ReleaseInv' /\ SettledInv'
  BY <1>1 DEF ReleaseInv, SettledInv
<1>4. PassInv'
  BY <1>1 DEF PassInv
<1>5. ASSUME ~missed, NEW b \in Registered, b \notin Range(Tail(scan)),
             RMSstate[b] = "READY", callback[b] # "waking"
      PROVE  nexttask' # NULL /\ pcb[nexttask'].period <= pcb[b].period
  <2>1. b \in Pcb /\ pcb[b].period \in Nat /\ pcb[Head(scan)].period \in Nat
        /\ (nexttask # NULL => pcb[nexttask].period \in Nat)
    <3>1. b \in Pcb /\ (nexttask # NULL => nexttask \in Pcb)
      BY DEF TypeOK, Registered, Range, PcbOrNull
    <3> QED BY <1>2, <3>1, PeriodNat
  <2>2. CASE b = Head(scan)
    BY <1>1, <1>2, <1>5, <2>1, <2>2
  <2>3. CASE b # Head(scan)
    <3>1. nexttask # NULL /\ pcb[nexttask].period <= pcb[b].period
      BY <1>1, <1>2, <1>5, <2>3 DEF ScanInv
    <3> QED BY <1>1, <1>2, <2>1, <3>1
  <2> QED BY <2>2, <2>3
<1>6. ScanInv'
  BY <1>1, <1>5 DEF ScanInv
<1> QED BY <1>3, <1>4, <1>6

\* The end of the scan: the candidate is the best READY task there is, and
\* either it gets the CPU or the current task is at least as good.
LEMMA OneCoreDecide ==
  ASSUME ~SMP, TypeOK, IndInv, OneCoreInv, DispKeep \/ DispRun \/ DispPreempt
  PROVE  ReleaseInv' /\ PassInv' /\ ScanInv' /\ SettledInv'
<1> USE DEF OneCoreInv
<1>1. /\ UNCHANGED <<mp2list, pcb, timer, callback, missed>>
      /\ dpc = "scan" /\ scan = << >> /\ Registered' = Registered /\ NoCallback
      /\ dpc' \in {"setstate", "promote"} /\ nexttask' = NULL
  BY DEF DispKeep, DispRun, DispPreempt, dispFrame, listVars, tmrVars, Registered, DispRuns
<1>2. /\ Registered \subseteq Pcb /\ \A b \in Pcb : pcb[b].period \in Nat
      /\ nexttask # NULL => nexttask \in Registered
      /\ currtask # NULL => currtask \in Registered /\ RMSstate[currtask] = "RUNNING"
  BY <1>1, PeriodNat DEF TypeOK, Registered, Range, IndInv, DispInv, PassInv
<1>3. ASSUME ~missed, NEW b \in Registered, RMSstate[b] = "READY"
      PROVE  nexttask # NULL /\ pcb[nexttask].period <= pcb[b].period
  <2>1. b \notin Range(scan) /\ callback[b] # "waking"
    BY <1>1, <1>2 DEF Range, NoCallback
  <2> QED BY <1>1, <1>3, <2>1 DEF ScanInv
<1>4. ScanInv'
  BY <1>1 DEF ScanInv
<1>5. CASE DispKeep
  <2>1. /\ UNCHANGED <<RMSstate, currtask>> /\ dpc' = "setstate"
        /\ ~(CurrIdle /\ nexttask # NULL) /\ ~(CurrRunning /\ Outranked)
    BY <1>5 DEF DispKeep
  <2>2. ~missed => RateMonotonic
    BY <1>2, <1>3, <2>1 DEF RateMonotonic, CurrIdle, CurrRunning, Outranked
  <2>3. SettledInv'
    BY <1>1, <2>1, <2>2 DEF SettledInv, RateMonotonic
  <2>4. ReleaseInv' /\ PassInv'
    BY <1>1, <2>1 DEF ReleaseInv, PassInv
  <2> QED BY <1>4, <2>3, <2>4
<1>6. CASE DispRun \/ DispPreempt
  <2>1. /\ nexttask # NULL /\ currtask' = nexttask /\ protask' = TaskOf(nexttask)
        /\ dpc' = "promote"
    BY <1>6 DEF DispRun, DispPreempt, Outranked
  <2>2. nexttask \in Registered /\ RMSstate[nexttask] = "READY"
    BY <1>2, <2>1 DEF PassInv
  <2>3. /\ RMSstate'[nexttask] = "RUNNING"
        /\ \A b \in Pcb : RMSstate'[b] = "READY" /\ RMSstate[b] # "READY" =>
             b = currtask /\ pcb[nexttask].period <= pcb[b].period
    <3>1. CASE DispRun
      BY <1>2, <2>2, <3>1 DEF DispRun, TypeOK
    <3>2. CASE DispPreempt
      BY <1>2, <2>2, <3>2 DEF DispPreempt, TypeOK, CurrRunning, Outranked
    <3> QED BY <1>6, <3>1, <3>2
  <2>4. ~missed => RateMonotonic'
    BY <1>1, <1>2, <1>3, <2>1, <2>2, <2>3 DEF RateMonotonic
  <2>5. SettledInv'
    BY <1>1, <2>4 DEF SettledInv
  <2>6. PassInv'
    BY <1>1, <2>1, <2>2, <2>3 DEF PassInv, TaskOf
  <2>7. \A b \in Pcb : RMSstate[b] = "SLEEPING" => RMSstate'[b] = "SLEEPING"
    <3>1. CASE DispRun
      BY <1>2, <2>2, <3>1 DEF DispRun, TypeOK
    <3>2. CASE DispPreempt
      BY <1>2, <2>2, <3>2 DEF DispPreempt, TypeOK, CurrRunning
    <3> QED BY <1>6, <3>1, <3>2
  <2>8. ReleaseInv'
    BY <1>1, <2>7 DEF ReleaseInv
  <2> QED BY <1>4, <2>5, <2>6, <2>8
<1> QED BY <1>5, <1>6

\* A process about to wake a dispatcher that has nothing to run.
Waker(p) == pc[p] \in {"y_wake", "d_demote", "d_timer", "d_wake"}

\* While a process or mp2_exit() runs the dispatcher is not in its pass, so
\* two parts of the invariant only ask that currtask stays RUNNING and that
\* the settled state is kept.
LEMMA OneCoreFrame ==
  ASSUME ~SMP, TypeOK, IndInv, OneCoreInv, ThreadRuns, UNCHANGED <<dpc, nexttask>>
  PROVE  /\ ScanInv'
         /\ (dpc # "exited" /\ currtask' # NULL => RMSstate'[currtask'] = "RUNNING")
              => PassInv'
         /\ \/ epc' # "loaded" \/ missed' \/ dpc # "sched" \/ dstate' # "INTERRUPTIBLE"
            \/ RateMonotonic' \/ WakeComing'
            => SettledInv'
         /\ dpc = "sched" /\ epc = "loaded" /\ ~missed =>
              RateMonotonic \/ (currtask = NULL /\ \E p \in Pid : Waker(p))
<1>1. dpc \in {"start", "exited", "sched"} /\ (dpc = "sched" => dstate = "INTERRUPTIBLE")
      /\ NoCallback
  BY OneCoreThread
<1>2. nexttask = NULL
  BY <1>1 DEF IndInv, DispInv
<1>3. ScanInv'
  BY <1>1 DEF ScanInv
<1>4. ASSUME dpc # "exited" /\ currtask' # NULL => RMSstate'[currtask'] = "RUNNING"
      PROVE  PassInv'
  BY <1>1, <1>2, <1>4 DEF PassInv
<1>5. ASSUME \/ epc' # "loaded" \/ missed' \/ dpc # "sched" \/ dstate' # "INTERRUPTIBLE"
             \/ RateMonotonic' \/ WakeComing'
      PROVE  SettledInv'
  BY <1>1, <1>5 DEF SettledInv
<1>6. ASSUME dpc = "sched", epc = "loaded", ~missed
      PROVE  RateMonotonic \/ (currtask = NULL /\ \E p \in Pid : Waker(p))
  BY <1>1, <1>6 DEF OneCoreInv, SettledInv, WakeComing, NoCallback, Waker
<1> QED BY <1>3, <1>4, <1>5, <1>6

LEMMA OneCoreRegister ==
  ASSUME ~SMP, TypeOK, IndInv, OneCoreInv, NEW p \in Pid, NEW q, NEW period, NEW comp_time,
         TaskRegister(p, q, period, comp_time)
  PROVE  ReleaseInv' /\ PassInv' /\ ScanInv' /\ SettledInv'
<1>1. PICK b \in Pcb \ slab : /\ mp2list' = Append(mp2list, b)
                              /\ RMSstate' = [RMSstate EXCEPT ![b] = "SLEEPING"]
                              /\ \E t : pcb' = [pcb EXCEPT ![b] = t]
  BY DEF TaskRegister
<1>2. /\ UNCHANGED <<timer, callback, currtask, dpc, dstate, nexttask, missed, pc, epc>>
      /\ ThreadRuns
  BY DEF TaskRegister, procFrame, locals, tmrVars, InUser
<1>3. Registered' = Registered \cup {b}
  BY <1>1, AppendEntries DEF Registered, IndInv, ListInv, TypeOK
<1>4. /\ RMSstate'[b] = "SLEEPING" /\ timer[b] = "idle" /\ callback[b] = "idle"
      /\ \A c \in Pcb \ {b} : RMSstate'[c] = RMSstate[c] /\ pcb'[c] = pcb[c]
  BY <1>1 DEF TypeOK, IndInv, TimerInv
<1>5. /\ Registered \subseteq Pcb \ {b}
      /\ dpc # "exited" /\ currtask # NULL => currtask \in Registered
  BY <1>1 DEF IndInv, ListInv, DispInv, TypeOK
<1>6. ReleaseInv'
  BY <1>2, <1>4 DEF OneCoreInv, ReleaseInv
<1>7. PassInv' /\ ScanInv'
  BY <1>2, <1>4, <1>5, OneCoreFrame DEF OneCoreInv, PassInv
<1>8. SettledInv'
  <2>1. dpc # "exited" /\ RateMonotonic => RateMonotonic'
    BY <1>2, <1>3, <1>4, <1>5 DEF RateMonotonic
  <2>2. currtask = NULL /\ (\E r \in Pid : Waker(r)) => WakeComing'
    BY <1>2 DEF WakeComing, Waker
  <2> QED BY <1>2, <2>1, <2>2, OneCoreFrame
<1> QED BY <1>6, <1>7, <1>8

LEMMA OneCoreYield ==
  ASSUME ~SMP, TypeOK, IndInv, OneCoreInv, NEW p \in Pid, TaskYield(p)
  PROVE  ReleaseInv' /\ PassInv' /\ ScanInv' /\ SettledInv'
<1>1. PICK i \in DOMAIN mp2list :
        /\ RMSstate' = [RMSstate EXCEPT ![mp2list[i]] = "SLEEPING"]
        /\ timer' = [timer EXCEPT ![mp2list[i]] = "pending"]
        /\ currtask' = IF mp2list[i] = currtask THEN NULL ELSE currtask
  BY DEF TaskYield
<1> DEFINE b == mp2list[i]
<1>2. /\ UNCHANGED <<mp2list, pcb, callback, dpc, dstate, nexttask, missed, epc>>
      /\ pc' = [pc EXCEPT ![p] = "y_wake"] /\ ThreadRuns
  BY DEF TaskYield, procFrame, locals, listVars, InUser
<1>3. Registered' = Registered /\ b \in Registered /\ Registered \subseteq Pcb
  BY <1>2 DEF Registered, Range, TypeOK
<1> HIDE DEF b
<1>4. /\ RMSstate'[b] = "SLEEPING" /\ timer'[b] = "pending" /\ pc'[p] = "y_wake"
      /\ \A c \in Pcb \ {b} : RMSstate'[c] = RMSstate[c] /\ timer'[c] = timer[c]
  BY <1>1, <1>2, <1>3 DEF TypeOK, b
<1>5. currtask' = IF b = currtask THEN NULL ELSE currtask
  BY <1>1 DEF b
<1>6. dpc # "exited" /\ currtask # NULL => currtask \in Registered
  BY DEF IndInv, DispInv
<1>7. ReleaseInv'
  <2>1. \A c \in Pcb : callback[c] = "idle"
    BY <1>2, OneCoreThread DEF NoCallback
  <2> QED BY <1>2, <1>4, <2>1 DEF OneCoreInv, ReleaseInv
<1>8. PassInv' /\ ScanInv'
  BY <1>2, <1>3, <1>4, <1>5, <1>6, OneCoreFrame DEF OneCoreInv, PassInv
<1>9. SettledInv'
  <2>1. CASE currtask' = NULL
    <3>1. WakeComing'
      BY <1>4, <2>1 DEF WakeComing
    <3> QED BY <1>2, <3>1, OneCoreFrame
  <2>2. CASE currtask' # NULL
    <3>1. currtask' = currtask /\ currtask # b /\ currtask # NULL
      BY <1>5, <2>2
    <3>2. RateMonotonic => RateMonotonic'
      BY <1>2, <1>3, <1>4, <3>1 DEF RateMonotonic
    <3> QED BY <1>2, <3>1, <3>2, OneCoreFrame
  <2> QED BY <2>1, <2>2
<1> QED BY <1>7, <1>8, <1>9

LEMMA OneCoreDeregister ==
  ASSUME ~SMP, TypeOK, IndInv, OneCoreInv, NEW p \in Pid, NEW q, Deregister(p, q)
  PROVE  ReleaseInv' /\ PassInv' /\ ScanInv' /\ SettledInv'
<1>1. PICK i \in DOMAIN mp2list :
        /\ mp2list' = DelAt(mp2list, i)
        /\ currtask' = IF mp2list[i] = currtask THEN NULL ELSE currtask
  BY DEF Deregister
<1>2. /\ UNCHANGED <<pcb, RMSstate, timer, callback, dpc, dstate, nexttask, missed, epc>>
      /\ pc' = [pc EXCEPT ![p] = "d_demote"] /\ ThreadRuns
  BY DEF Deregister, procFrame, locals, tmrVars, InUser
<1>3. Registered' \subseteq Registered
  BY <1>1, DelAtEntries DEF Registered, IndInv, ListInv, TypeOK
<1>4. pc'[p] = "d_demote"
  BY <1>2 DEF TypeOK
<1>5. ReleaseInv'
  BY <1>2 DEF OneCoreInv, ReleaseInv
<1>6. PassInv' /\ ScanInv'
  BY <1>1, <1>2, OneCoreFrame DEF OneCoreInv, PassInv
<1>7. SettledInv'
  <2>1. CASE currtask' = NULL
    <3>1. WakeComing'
      BY <1>4, <2>1 DEF WakeComing
    <3> QED BY <1>2, <3>1, OneCoreFrame
  <2>2. CASE currtask' # NULL
    <3>1. currtask' = currtask
      BY <1>1, <2>2
    <3>2. RateMonotonic => RateMonotonic'
      BY <1>2, <1>3, <3>1 DEF RateMonotonic
    <3> QED BY <1>2, <2>2, <3>1, <3>2, OneCoreFrame
  <2> QED BY <2>1, <2>2
<1> QED BY <1>5, <1>6, <1>7

\* Freeing a PCB that is off the list changes nothing the rule looks at.
LEMMA OneCoreFree ==
  ASSUME ~SMP, TypeOK, IndInv, OneCoreInv, NEW p \in Pid, DeregFree(p)
  PROVE  ReleaseInv' /\ PassInv' /\ ScanInv' /\ SettledInv'
<1> DEFINE b == target[p]
<1>1. /\ RMSstate' = [RMSstate EXCEPT ![b] = "SLEEPING"]
      /\ timer' = [timer EXCEPT ![b] = "idle"] /\ pcb' = [pcb EXCEPT ![b] = Blank]
      /\ UNCHANGED <<mp2list, callback, currtask, dpc, dstate, nexttask, missed, epc>>
      /\ pc' = [pc EXCEPT ![p] = "d_wake"] /\ pc[p] = "d_timer" /\ ThreadRuns
      /\ callback[b] = "idle"
  BY DEF DeregFree, TimerSyncFree, KmemCacheFree, procFrame, locals
<1>2. b \in Pcb /\ b \notin Registered
  BY <1>1 DEF IndInv, TargetInv, TypeOK
<1> HIDE DEF b
<1>3. /\ Registered' = Registered /\ Registered \subseteq Pcb \ {b}
      /\ dpc # "exited" /\ currtask # NULL => currtask \in Registered
  BY <1>1, <1>2 DEF Registered, Range, TypeOK, IndInv, DispInv
<1>4. /\ RMSstate'[b] = "SLEEPING" /\ timer'[b] = "idle" /\ pc'[p] = "d_wake"
      /\ \A c \in Pcb \ {b} :
           RMSstate'[c] = RMSstate[c] /\ timer'[c] = timer[c] /\ pcb'[c] = pcb[c]
  BY <1>1, <1>2 DEF TypeOK
<1>5. ReleaseInv'
  BY <1>1, <1>4 DEF OneCoreInv, ReleaseInv
<1>6. PassInv' /\ ScanInv'
  BY <1>1, <1>3, <1>4, OneCoreFrame DEF OneCoreInv, PassInv
<1>7. SettledInv'
  <2>1. dpc # "exited" /\ RateMonotonic => RateMonotonic'
    BY <1>1, <1>3, <1>4 DEF RateMonotonic
  <2>2. currtask = NULL => WakeComing'
    BY <1>1, <1>4 DEF WakeComing
  <2> QED BY <1>1, <2>1, <2>2, OneCoreFrame
<1> QED BY <1>5, <1>6, <1>7

\* Once mp2cache is gone the module is being unloaded, and the rule is off.
LEMMA OneCoreNoCache ==
  ASSUME ~SMP, TypeOK, IndInv, OneCoreInv, NEW p \in Pid,
         TaskRegisterOops(p) \/ DeregFreeNull(p)
  PROVE  ReleaseInv' /\ PassInv' /\ ScanInv' /\ SettledInv'
<1>1. /\ UNCHANGED <<RMSstate, callback, currtask, dpc, nexttask, epc>>
      /\ ThreadRuns /\ epc # "loaded"
  BY DEF TaskRegisterOops, DeregFreeNull, procFrame, locals, tmrVars, InUser, CacheAlive
<1>2. \A b \in Pcb : timer'[b] \in {timer[b], "idle"}
  BY DEF TaskRegisterOops, DeregFreeNull, tmrVars, TypeOK
<1>3. ReleaseInv'
  BY <1>1, <1>2 DEF OneCoreInv, ReleaseInv
<1>4. PassInv' /\ ScanInv' /\ SettledInv'
  BY <1>1, OneCoreFrame DEF OneCoreInv, PassInv
<1> QED BY <1>3, <1>4

\* The other steps of a process: who stops being on the way to wake the
\* dispatcher has woken it, or found a task on the CPU.
LEMMA OneCoreSyscall ==
  ASSUME ~SMP, TypeOK, IndInv, OneCoreInv, NEW p \in Pid,
         \/ \E period, comp_time : TaskRegisterZero(p, period, comp_time)
         \/ YieldWake(p) \/ YieldSetState(p) \/ YieldReturn(p)
         \/ DeregDemote(p) \/ DeregWake(p)
  PROVE  ReleaseInv' /\ PassInv' /\ ScanInv' /\ SettledInv'
<1>1. /\ UNCHANGED <<mp2list, pcb, RMSstate, timer, callback, currtask, dpc, nexttask, epc>>
      /\ ThreadRuns
  BY DEF TaskRegisterZero, YieldWake, YieldSetState, YieldReturn, DeregDemote, DeregWake,
         procFrame, locals, listVars, tmrVars, InUser
<1>2. Registered' = Registered /\ (RateMonotonic => RateMonotonic')
  BY <1>1 DEF Registered, RateMonotonic
<1>3. ReleaseInv'
  BY <1>1 DEF OneCoreInv, ReleaseInv
<1>4. PassInv' /\ ScanInv'
  BY <1>1, OneCoreFrame DEF OneCoreInv, PassInv
<1>5. CASE /\ UNCHANGED <<dstate, missed>>
           /\ currtask = NULL => \A r \in Pid : Waker(r) => Waker(r)'
  <2>1. currtask = NULL /\ (\E r \in Pid : Waker(r)) => WakeComing'
    BY <1>1, <1>5 DEF WakeComing, Waker
  <2>2. SettledInv'
    BY <1>1, <1>2, <1>5, <2>1, OneCoreFrame
  <2> QED BY <1>3, <1>4, <2>2
<1>6. ASSUME NEW to, pc' = [pc EXCEPT ![p] = to], Waker(p) => Waker(p)',
             UNCHANGED <<dstate, missed>>
      PROVE  SettledInv'
  BY <1>5, <1>6 DEF Waker, TypeOK
<1>7. CASE Wakethread
  <2>1. epc = "loaded" => dstate' = "RUNNING"
    BY <1>7 DEF Wakethread, Dispathread
  <2>2. SettledInv'
    BY <1>1, <2>1, OneCoreFrame
  <2> QED BY <1>3, <1>4, <2>2
<1>8. CASE \E period, comp_time : TaskRegisterZero(p, period, comp_time)
  BY <1>5, <1>8 DEF TaskRegisterZero, Waker
<1>9. CASE YieldWake(p)
  BY <1>7, <1>9 DEF YieldWake
<1>10. CASE YieldSetState(p) \/ YieldReturn(p)
  <2>1. ~Waker(p) /\ UNCHANGED <<dstate, missed>> /\ \E to : pc' = [pc EXCEPT ![p] = to]
    BY <1>10 DEF YieldSetState, YieldReturn, Waker
  <2> QED BY <1>3, <1>4, <1>6, <2>1
<1>11. CASE DeregDemote(p)
  <2>1. pc' = [pc EXCEPT ![p] = "d_timer"] /\ UNCHANGED <<dstate, missed>>
    BY <1>11 DEF DeregDemote
  <2>2. Waker(p)'
    BY <2>1 DEF TypeOK, Waker
  <2> QED BY <1>3, <1>4, <1>6, <2>1, <2>2
<1>12. CASE DeregWake(p)
  <2>1. CASE currtask = NULL
    BY <1>7, <1>12, <2>1 DEF DeregWake
  <2>2. CASE currtask # NULL
    BY <1>5, <1>12, <2>2 DEF DeregWake, NoWake
  <2> QED BY <2>1, <2>2
<1> QED BY <1>8, <1>9, <1>10, <1>11, <1>12

LEMMA OneCoreExit ==
  ASSUME ~SMP, TypeOK, IndInv, OneCoreInv, Mp2Exit
  PROVE  ReleaseInv' /\ PassInv' /\ ScanInv' /\ SettledInv'
<1>1. UNCHANGED <<callback, currtask, dpc, nexttask, missed, pc>> /\ ThreadRuns
  BY DEF Mp2Exit, ExitStop, ExitStopped, ExitLock, ExitDetach, ExitFree, ExitUnlock,
         ExitDestroy, ExitProcRemove, ExitDone, ExitMove, exitFrame, locals
<1>2. epc' # "loaded"
  BY DEF Mp2Exit, ExitStop, ExitStopped, ExitLock, ExitDetach, ExitFree, ExitUnlock,
         ExitDestroy, ExitProcRemove, ExitDone, ExitMove
<1>3. ScanInv' /\ SettledInv'
  BY <1>1, <1>2, OneCoreFrame
<1>4. CASE ExitFree
  <2>1. epc = "detached" /\ dpc = "exited" /\ etarget \in Pcb
    BY <1>4 DEF ExitFree, IndInv, DispInv, TargetInv, TypeOK
  <2>2. PassInv'
    BY <1>1, <2>1, OneCoreFrame
  <2>3. /\ RMSstate' = [RMSstate EXCEPT ![etarget] = "SLEEPING"]
        /\ timer' = [timer EXCEPT ![etarget] = "idle"]
    BY <1>4 DEF ExitFree, TimerSyncFree, KmemCacheFree
  <2>4. ReleaseInv'
    BY <1>1, <2>1, <2>3 DEF OneCoreInv, ReleaseInv, TypeOK
  <2> QED BY <1>3, <2>2, <2>4
<1>5. CASE UNCHANGED <<RMSstate, timer>>
  BY <1>1, <1>3, <1>5, OneCoreFrame DEF OneCoreInv, ReleaseInv, PassInv
<1> QED BY <1>4, <1>5 DEF Mp2Exit, ExitStop, ExitStopped, ExitLock, ExitDetach, ExitUnlock,
                          ExitDestroy, ExitProcRemove, ExitDone, ExitMove

LEMMA OneCoreStep ==
  ASSUME ~SMP
  PROVE  TypeOK /\ IndInv /\ OneCoreInv /\ [Next]_vars => OneCoreInv'
<1> SUFFICES ASSUME TypeOK, IndInv, OneCoreInv, [Next]_vars PROVE OneCoreInv'
  OBVIOUS
<1>1. PidInv'
  BY PidStep DEF OneCoreInv
<1>2. CASE UNCHANGED vars
  BY <1>2 DEF vars, OneCoreInv, PidInv, ReleaseInv, PassInv, ScanInv, SettledInv,
              RateMonotonic, WakeComing, Registered, TaskOf
<1>3. CASE Dispatcher
  BY <1>1, <1>3, OneCoreLoop, OneCoreScan, OneCoreDecide DEF Dispatcher, OneCoreInv
<1>4. ASSUME NEW b \in Pcb, TimerExpire(b) \/ Timercb(b) PROVE OneCoreInv'
  BY <1>1, <1>4, OneCoreTimer DEF OneCoreInv
<1>5. ASSUME NEW p \in Pid, MyWrite(p) PROVE OneCoreInv'
  BY <1>1, <1>5, OneCoreRegister, OneCoreYield, OneCoreDeregister, OneCoreSyscall,
     OneCoreNoCache DEF MyWrite, OneCoreInv
<1>6. ASSUME NEW p \in Pid, Syscall(p) PROVE OneCoreInv'
  BY <1>1, <1>6, OneCoreFree, OneCoreNoCache, OneCoreSyscall DEF Syscall, OneCoreInv
<1>7. CASE Mp2Exit
  BY <1>1, <1>7, OneCoreExit DEF OneCoreInv
<1> QED BY <1>2, <1>3, <1>4, <1>5, <1>6, <1>7 DEF Next

\* On one core every reachable state is one in which a pass of the dispatcher
\* has decided by the rate-monotonic rule, or someone is about to wake it.
THEOREM OneCoreInvariant ==
  ASSUME ~SMP
  PROVE  Spec => []OneCoreInv
<1>1. Init => OneCoreInv
  <2> SUFFICES ASSUME Init PROVE OneCoreInv
    OBVIOUS
  <2>1. Registered = {}
    BY DEF Init, Registered, Range
  <2> QED BY <2>1 DEF Init, OneCoreInv, PidInv, ReleaseInv, PassInv, ScanInv, SettledInv
<1> QED BY <1>1, OneCoreStep, TypeCorrect, OwnershipInvariant, PTL DEF Spec

\* On one core, for any number of tasks and with commands on foreign pids:
\* when the scheduler of mp2.c comes to rest and no wake-up fell into a pass,
\* no READY task waits behind an idle CPU or a longer period.
THEOREM RestsRateMonotonic ==
  ASSUME ~SMP
  PROVE  Spec => []QuiescentDispatch
<1>1. OneCoreInv => QuiescentDispatch
  BY DEF OneCoreInv, SettledInv, QuiescentDispatch, Quiescent, WakeComing, NoCallback
<1> QED BY <1>1, OneCoreInvariant, PTL

\* On one core a process asleep in taskyield() is woken only as the RUNNING
\* currtask of the dispatcher, its release timer having expired.
THEOREM WokenAtRelease ==
  ASSUME ~SMP
  PROVE  Spec => WokenOnlyAtRelease
<1> DEFINE A == \A p \in Pid : tstate[p] = "UNINTERRUPTIBLE" /\ tstate'[p] = "RUNNING" =>
                  /\ currtask # NULL /\ TaskOf(currtask) = p
                  /\ RMSstate[currtask] = "RUNNING" /\ timer[currtask] = "idle"
<1>1. TypeOK /\ IndInv /\ OneCoreInv /\ [Next]_vars => A
  <2> SUFFICES ASSUME TypeOK, IndInv, OneCoreInv, [Next]_vars, NEW p \in Pid,
                      tstate[p] = "UNINTERRUPTIBLE", tstate'[p] = "RUNNING"
               PROVE  /\ currtask # NULL /\ TaskOf(currtask) = p
                      /\ RMSstate[currtask] = "RUNNING" /\ timer[currtask] = "idle"
    OBVIOUS
  <2>1. DispPromote
    <3>1. CASE UNCHANGED vars
      BY <3>1 DEF vars
    <3>2. CASE Dispatcher
      BY <3>2 DEF Dispatcher, DispStart, DispLock, DispScan, DispKeep, DispRun,
                  DispPreempt, DispDemote, DispSetState, DispCheck, DispWoken
    <3>3. ASSUME NEW b \in Pcb, TimerExpire(b) \/ Timercb(b) PROVE FALSE
      BY <3>3 DEF TimerExpire, Timercb, TimerReady, TimerWake, timerFrame
    <3>4. ASSUME NEW q \in Pid, MyWrite(q) PROVE FALSE
      BY <3>4 DEF MyWrite, TaskRegister, TaskRegisterZero, TaskRegisterOops, TaskYield,
                  Deregister
    <3>5. ASSUME NEW q \in Pid, YieldSetState(q) PROVE FALSE
      BY <3>5 DEF YieldSetState, TypeOK
    <3>6. ASSUME NEW q \in Pid, Syscall(q) PROVE FALSE
      BY <3>5, <3>6 DEF Syscall, YieldWake, YieldReturn, DeregDemote, DeregFree,
                        DeregFreeNull, DeregWake
    <3>7. CASE Mp2Exit
      BY <3>7 DEF Mp2Exit, ExitStop, ExitStopped, ExitLock, ExitDetach, ExitFree,
                  ExitUnlock, ExitDestroy, ExitProcRemove, ExitDone, ExitMove, exitFrame
    <3> QED BY <3>1, <3>2, <3>3, <3>4, <3>6, <3>7 DEF Next
  <2>2. dpc = "promote" /\ protask = p
    BY <2>1 DEF DispPromote, TypeOK
  <2>3. currtask # NULL /\ TaskOf(currtask) = p /\ RMSstate[currtask] = "RUNNING"
    BY <2>2 DEF OneCoreInv, PassInv
  <2>4. timer[currtask] = "idle"
    BY <2>3 DEF OneCoreInv, ReleaseInv, TypeOK, PcbOrNull
  <2> QED BY <2>3, <2>4
<1> HIDE DEF A
<1>2. Spec => [][A]_vars
  BY <1>1, OneCoreInvariant, TypeCorrect, OwnershipInvariant, PTL DEF Spec
<1> QED BY <1>2 DEF WokenOnlyAtRelease, A

-----------------------------------------------------------------------------
(* Promotion and demotion on one core                                      *)

\* What the dispatcher does to scheduling policies: the task it gives the CPU
\* to is promoted, and the one it demotes is a different process.
LEMMA PolicyDispatcher ==
  ASSUME ~SMP, TypeOK, IndInv, OneCoreInv, PolicyInv, Dispatcher
  PROVE  PolicyInv'
<1>1. UNCHANGED <<mp2list, pcb, target>> /\ Registered' = Registered
  BY DEF Dispatcher, DispStart, DispLock, DispScan, DispKeep, DispRun, DispPreempt,
         DispPromote, DispDemote, DispSetState, DispCheck, DispWoken, dispFrame,
         listVars, Registered
<1>2. /\ dpc # "exited" /\ currtask # NULL => currtask \in Registered /\ TaskOf(currtask) \in Pid
      /\ dpc \notin {"promote", "demote"} => demtask = NULL
  BY DEF IndInv, DispInv, OneCoreInv, PidInv, PolicyInv
<1>3. \A p \in Pid : (target[p] # NULL =>
        TaskOf(target[p]) = p /\ \A b \in Registered : TaskOf(b) # p)'
  BY <1>1 DEF PolicyInv, TaskOf
<1>4. CASE \/ DispStart \/ DispLock \/ DispScan \/ DispKeep \/ DispSetState
           \/ DispCheck \/ DispWoken
  <2>1. /\ UNCHANGED <<currtask, demtask, policy>> /\ dpc \notin {"promote", "demote", "exited"}
    BY <1>4 DEF DispStart, DispLock, DispScan, DispKeep, DispSetState, DispCheck,
                DispWoken, locals
  <2> QED BY <1>1, <1>2, <1>3, <2>1 DEF PolicyInv, TaskOf
<1>5. CASE DispRun
  <2>1. dpc = "scan" /\ dpc' = "promote" /\ UNCHANGED demtask
    BY <1>5 DEF DispRun
  <2> QED BY <1>2, <1>3, <2>1 DEF PolicyInv
<1>6. CASE DispPreempt
  <2>1. /\ dpc = "scan" /\ dpc' = "promote" /\ currtask' = nexttask
        /\ demtask' = TaskOf(currtask) /\ currtask # NULL /\ nexttask # NULL
    BY <1>6 DEF DispPreempt, CurrRunning, Outranked
  <2>2. /\ RMSstate[currtask] = "RUNNING" /\ RMSstate[nexttask] = "READY"
        /\ currtask \in Registered /\ nexttask \in Registered
    BY <2>1 DEF OneCoreInv, PassInv, IndInv, DispInv
  <2>3. TaskOf(currtask) # TaskOf(nexttask)
    BY <2>2 DEF OneCoreInv, PidInv
  <2> QED BY <1>1, <1>3, <2>1, <2>3 DEF PolicyInv, TaskOf
<1>7. CASE DispPromote
  <2>1. /\ dpc = "promote" /\ policy' = [policy EXCEPT ![protask] = "FIFO"]
        /\ dpc' = IF demtask # NULL THEN "demote" ELSE "setstate"
        /\ UNCHANGED <<currtask, demtask>>
    BY <1>7 DEF DispPromote
  <2>2. protask = TaskOf(currtask) /\ currtask # NULL
    BY <2>1 DEF OneCoreInv, PassInv
  <2>3. policy'[TaskOf(currtask)] = "FIFO"
    BY <1>2, <2>1, <2>2 DEF TypeOK
  <2> QED BY <1>1, <1>3, <2>1, <2>3 DEF PolicyInv, TaskOf
<1>8. CASE DispDemote
  <2>1. /\ dpc = "demote" /\ policy' = [policy EXCEPT ![demtask] = "NORMAL"]
        /\ dpc' = "setstate" /\ demtask' = NULL /\ UNCHANGED currtask
    BY <1>8 DEF DispDemote
  <2>2. ASSUME currtask # NULL PROVE policy'[TaskOf(currtask)] = "FIFO"
    <3>1. policy[TaskOf(currtask)] = "FIFO" /\ TaskOf(currtask) \in Pid
      BY <1>2, <2>1, <2>2 DEF PolicyInv
    <3>2. demtask # NULL => demtask # TaskOf(currtask)
      BY DEF PolicyInv
    <3> QED BY <2>1, <3>1, <3>2, ConstAssumption DEF TypeOK
  <2> QED BY <1>1, <1>3, <2>1, <2>2 DEF PolicyInv, TaskOf
<1> QED BY <1>4, <1>5, <1>6, <1>7, <1>8 DEF Dispatcher

\* A process can only be demoted by its own deregister(), which has taken it
\* off the list before.
LEMMA PolicyProcess ==
  ASSUME ~SMP, ~ForeignPid, TypeOK, IndInv, OneCoreInv, PolicyInv, NEW p \in Pid,
         MyWrite(p) \/ Syscall(p)
  PROVE  PolicyInv'
<1>1. UNCHANGED <<dpc, demtask>> /\ ThreadRuns
  BY DEF MyWrite, Syscall, TaskRegister, TaskRegisterZero, TaskRegisterOops, TaskYield,
         Deregister, YieldWake, YieldSetState, YieldReturn, DeregDemote, DeregFree,
         DeregFreeNull, DeregWake, procFrame, locals, InUser
<1>2. dpc \notin {"promote", "demote"} /\ demtask = NULL
  BY <1>1, OneCoreThread DEF PolicyInv
<1>3. /\ dpc # "exited" /\ currtask # NULL => currtask \in Registered /\ TaskOf(currtask) \in Pid
      /\ Registered \subseteq slab /\ Registered \subseteq Pcb
  BY DEF IndInv, DispInv, ListInv, OneCoreInv, PidInv, TypeOK
<1> DEFINE Off(r) == target[r] # NULL =>
                       TaskOf(target[r]) = r /\ \A b \in Registered : TaskOf(b) # r
<1>4. \A r \in Pid : Off(r)
  BY DEF PolicyInv
<1>5. ASSUME dpc # "exited" /\ currtask' # NULL => policy'[TaskOf(currtask)'] = "FIFO",
             \A r \in Pid : Off(r)'
      PROVE  PolicyInv'
  BY <1>1, <1>2, <1>5 DEF PolicyInv, TaskOf
<1> HIDE DEF Off
<1>6. ASSUME NEW q \in Named(p), NEW period, NEW comp_time,
             TaskRegister(p, q, period, comp_time)
      PROVE  PolicyInv'
  <2> DEFINE t == Task(q, Ulong(period), Ulong(comp_time))
  <2>1. PICK b \in Pcb \ slab : /\ mp2list' = Append(mp2list, b)
                                /\ pcb' = [pcb EXCEPT ![b] = t]
    BY <1>6 DEF TaskRegister
  <2>2. t.pid = p /\ pc[p] = "user" /\ UNCHANGED <<currtask, policy, target>>
    BY <1>6 DEF Task, Named, TaskRegister, InUser
  <2> HIDE DEF t
  <2>3. Registered' = Registered \cup {b}
    BY <2>1, AppendEntries DEF Registered, IndInv, ListInv, TypeOK
  <2>4. TaskOf(b)' = p /\ \A c \in Pcb \ {b} : TaskOf(c)' = TaskOf(c)
    BY <2>1, <2>2 DEF TaskOf, TypeOK
  <2>5. target[p] = NULL /\ \A r \in Pid : target[r] # NULL => target[r] \in Pcb \ {b}
    <3>1. target[p] = NULL /\ \A r \in Pid : target[r] # NULL => target[r] \in slab
      BY <2>2 DEF IndInv, TargetInv
    <3> QED BY <2>1, <3>1 DEF TypeOK
  <2>6. ASSUME NEW r \in Pid PROVE Off(r)'
    <3>1. CASE target[r] = NULL
      BY <2>2, <3>1 DEF Off
    <3>2. CASE target[r] # NULL
      <4>1. r # p /\ TaskOf(target[r])' = TaskOf(target[r]) /\ UNCHANGED target
        BY <2>2, <2>4, <2>5, <3>2 DEF TaskOf
      <4>2. TaskOf(target[r]) = r /\ \A c \in Registered : TaskOf(c) # r
        BY <1>4, <3>2 DEF Off
      <4>3. \A c \in Registered : c \in Pcb \ {b}
        BY <1>3, <2>1
      <4>4. \A c \in Registered' : TaskOf(c)' # r
        BY <2>3, <2>4, <4>1, <4>2, <4>3
      <4> QED BY <4>1, <4>2, <4>4 DEF Off, TaskOf
    <3> QED BY <3>1, <3>2
  <2>7. dpc # "exited" /\ currtask # NULL => TaskOf(currtask)' = TaskOf(currtask)
    BY <1>3, <2>1, <2>2, <2>4 DEF TaskOf
  <2> QED BY <1>2, <1>5, <2>2, <2>6, <2>7 DEF PolicyInv
<1>7. ASSUME NEW q \in Named(p), Deregister(p, q) PROVE PolicyInv'
  <2>1. PICK i \in DOMAIN mp2list :
          /\ mp2list' = DelAt(mp2list, i) /\ TaskOf(mp2list[i]) = p
          /\ target' = [target EXCEPT ![p] = mp2list[i]]
          /\ currtask' = IF mp2list[i] = currtask THEN NULL ELSE currtask
    BY <1>7 DEF Deregister, Named
  <2>2. UNCHANGED <<pcb, policy>>
    BY <1>7 DEF Deregister
  <2>3. Registered' = Registered \ {mp2list[i]} /\ mp2list[i] \in Registered
    BY <2>1, DelAtEntries DEF Registered, IndInv, ListInv, TypeOK
  <2>4. \A b \in Registered' : TaskOf(b) # p
    BY <2>1, <2>3 DEF OneCoreInv, PidInv
  <2>5. target'[p] = mp2list[i] /\ \A r \in Pid \ {p} : target'[r] = target[r]
    BY <2>1 DEF TypeOK
  <2>6. ASSUME NEW r \in Pid PROVE Off(r)'
    BY <1>4, <2>1, <2>2, <2>3, <2>4, <2>5 DEF Off, TaskOf
  <2>7. dpc # "exited" /\ currtask' # NULL => policy'[TaskOf(currtask)'] = "FIFO"
    BY <1>2, <2>1, <2>2 DEF PolicyInv, TaskOf
  <2> QED BY <1>5, <2>6, <2>7
<1>8. CASE DeregDemote(p)
  <2>1. /\ pc[p] = "d_demote" /\ UNCHANGED <<mp2list, pcb, target, currtask>>
        /\ policy' = [policy EXCEPT ![TaskOf(target[p])] = "NORMAL"]
    BY <1>8 DEF DeregDemote, listVars
  <2>2. TaskOf(target[p]) = p /\ \A b \in Registered : TaskOf(b) # p
    BY <1>4, <2>1 DEF IndInv, TargetInv, Off
  <2>3. ASSUME NEW r \in Pid PROVE Off(r)'
    BY <1>4, <2>1 DEF Off, TaskOf, Registered
  <2>4. dpc # "exited" /\ currtask # NULL => policy'[TaskOf(currtask)] = "FIFO"
    BY <1>2, <1>3, <2>1, <2>2 DEF PolicyInv, TypeOK
  <2>5. TaskOf(currtask)' = TaskOf(currtask)
    BY <2>1 DEF TaskOf
  <2> QED BY <1>5, <2>1, <2>3, <2>4, <2>5
<1>9. CASE DeregFree(p)
  <2>1. /\ pcb' = [pcb EXCEPT ![target[p]] = Blank] /\ pc[p] = "d_timer"
        /\ target' = [target EXCEPT ![p] = NULL]
        /\ UNCHANGED <<mp2list, currtask, policy>>
    BY <1>9 DEF DeregFree, TimerSyncFree, KmemCacheFree
  <2>2. /\ target[p] \in Pcb /\ target[p] \notin Registered
        /\ \A r \in Pid \ {p} : target[r] # target[p]
    BY <2>1 DEF IndInv, TargetInv, TypeOK
  <2>3. /\ target'[p] = NULL /\ \A r \in Pid \ {p} : target'[r] = target[r]
        /\ \A c \in Pcb \ {target[p]} : pcb'[c] = pcb[c]
    BY <2>1 DEF TypeOK
  <2>4. Registered' = Registered
    BY <2>1 DEF Registered
  <2>5. ASSUME NEW r \in Pid PROVE Off(r)'
    <3>1. CASE target'[r] = NULL
      BY <3>1 DEF Off
    <3>2. CASE target'[r] # NULL
      <4>1. r # p /\ target'[r] = target[r] /\ target[r] \in Pcb \ {target[p]}
        BY <2>2, <2>3, <3>2 DEF TypeOK, PcbOrNull
      <4>2. TaskOf(target[r]) = r /\ \A c \in Registered : TaskOf(c) # r
        BY <1>4, <3>2, <4>1 DEF Off
      <4>3. \A c \in Registered : c \in Pcb \ {target[p]}
        BY <1>3, <2>2
      <4>4. pcb'[target'[r]].pid = r /\ \A c \in Registered' : pcb'[c].pid # r
        BY <2>3, <2>4, <4>1, <4>2, <4>3 DEF TaskOf
      <4> QED BY <4>4 DEF Off, TaskOf
    <3> QED BY <3>1, <3>2
  <2>6. dpc # "exited" /\ currtask # NULL => TaskOf(currtask)' = TaskOf(currtask)
    BY <1>3, <2>1, <2>2, <2>3 DEF TaskOf
  <2> QED BY <1>2, <1>5, <2>1, <2>5, <2>6 DEF PolicyInv
<1>10. CASE UNCHANGED <<mp2list, pcb, target, policy>> /\ currtask' \in {NULL, currtask}
  <2>1. ASSUME NEW r \in Pid PROVE Off(r)'
    BY <1>4, <1>10 DEF Off, TaskOf, Registered
  <2>2. dpc # "exited" /\ currtask' # NULL => policy'[TaskOf(currtask)'] = "FIFO"
    BY <1>2, <1>10 DEF PolicyInv, TaskOf
  <2> QED BY <1>5, <2>1, <2>2
<1>11. ASSUME NEW period, NEW comp_time, TaskRegisterZero(p, period, comp_time)
       PROVE  PolicyInv'
  BY <1>10, <1>11 DEF TaskRegisterZero
<1>12. CASE TaskYield(p) \/ TaskRegisterOops(p)
  BY <1>10, <1>12 DEF TaskYield, TaskRegisterOops, listVars
<1>13. CASE YieldWake(p) \/ YieldSetState(p) \/ YieldReturn(p) \/ DeregWake(p)
  BY <1>10, <1>13 DEF YieldWake, YieldSetState, YieldReturn, DeregWake, listVars
<1>14. CASE DeregFreeNull(p)
  <2>1. /\ UNCHANGED <<mp2list, pcb, policy, currtask>>
        /\ \A r \in Pid : target'[r] \in {target[r], NULL}
    BY <1>14 DEF DeregFreeNull, TypeOK
  <2>2. ASSUME NEW r \in Pid PROVE Off(r)'
    BY <1>4, <2>1 DEF Off, TaskOf, Registered
  <2>3. dpc # "exited" /\ currtask' # NULL => policy'[TaskOf(currtask)'] = "FIFO"
    BY <1>2, <2>1 DEF PolicyInv, TaskOf
  <2> QED BY <1>5, <2>2, <2>3
<1> QED BY <1>6, <1>7, <1>8, <1>9, <1>11, <1>12, <1>13, <1>14 DEF MyWrite, Syscall

LEMMA PolicyOthers ==
  ASSUME ~SMP, TypeOK, IndInv, OneCoreInv, PolicyInv,
         Mp2Exit \/ \E b \in Pcb : TimerExpire(b) \/ Timercb(b)
  PROVE  PolicyInv'
<1>1. UNCHANGED <<currtask, dpc, demtask, target>>
  BY DEF Mp2Exit, ExitStop, ExitStopped, ExitLock, ExitDetach, ExitFree, ExitUnlock,
         ExitDestroy, ExitProcRemove, ExitDone, ExitMove, exitFrame, locals,
         TimerExpire, Timercb, TimerReady, TimerWake, timerFrame
<1>2. CASE UNCHANGED <<mp2list, pcb, policy>>
  BY <1>1, <1>2 DEF PolicyInv, TaskOf, Registered
<1>3. ASSUME Mp2Exit PROVE ThreadRuns
  BY <1>3 DEF Mp2Exit, ExitStop, ExitStopped, ExitLock, ExitDetach, ExitFree, ExitUnlock,
         ExitDestroy, ExitProcRemove, ExitDone, ExitMove
<1>4. CASE ExitDetach
  <2>1. /\ mp2list # << >> /\ mp2list' = Tail(mp2list) /\ UNCHANGED pcb
        /\ epc = "cleaning"
    BY <1>4 DEF ExitDetach
  <2>2. dpc = "exited" /\ demtask = NULL /\ Registered' \subseteq Registered
    BY <2>1, TailSubset DEF IndInv, DispInv, PolicyInv, Registered, TypeOK
  <2> QED BY <1>1, <2>1, <2>2 DEF PolicyInv, TaskOf
<1>5. CASE ExitFree
  <2>1. pcb' = [pcb EXCEPT ![etarget] = Blank] /\ UNCHANGED mp2list /\ epc = "detached"
    BY <1>5 DEF ExitFree, TimerSyncFree, KmemCacheFree
  <2>2. /\ dpc = "exited" /\ demtask = NULL /\ Registered' = Registered
        /\ etarget \notin Registered /\ \A p \in Pid : target[p] # NULL => target[p] # etarget
    BY <2>1 DEF IndInv, DispInv, TargetInv, PolicyInv, Registered
  <2>3. \A c \in Pcb \ {etarget} : TaskOf(c)' = TaskOf(c)
    BY <2>1 DEF TaskOf, TypeOK
  <2>4. Registered \subseteq Pcb \ {etarget}
    <3>1. Registered \subseteq slab /\ slab \subseteq Pcb
      BY DEF TypeOK, IndInv, ListInv
    <3> QED BY <2>2, <3>1
  <2>5. ASSUME NEW p \in Pid, target'[p] # NULL
        PROVE  TaskOf(target[p])' = p /\ \A b \in Registered : TaskOf(b)' # p
    <3>1. target[p] \in Pcb \ {etarget} /\ target[p] # NULL
      BY <1>1, <2>2, <2>5 DEF TypeOK, PcbOrNull
    <3>2. TaskOf(target[p]) = p /\ \A b \in Registered : TaskOf(b) # p
      BY <3>1 DEF PolicyInv
    <3> QED BY <1>1, <2>3, <2>4, <3>1, <3>2 DEF TaskOf
  <2> QED BY <1>1, <2>2, <2>5 DEF PolicyInv, TaskOf
<1> QED BY <1>2, <1>4, <1>5
        DEF Mp2Exit, ExitStop, ExitStopped, ExitLock, ExitUnlock, ExitDestroy,
            ExitProcRemove, ExitDone, ExitMove, TimerExpire, Timercb, TimerReady, TimerWake,
            listVars, timerFrame

LEMMA PolicyStep ==
  ASSUME ~SMP, ~ForeignPid
  PROVE  TypeOK /\ IndInv /\ OneCoreInv /\ PolicyInv /\ [Next]_vars => PolicyInv'
<1> SUFFICES ASSUME TypeOK, IndInv, OneCoreInv, PolicyInv, [Next]_vars PROVE PolicyInv'
  OBVIOUS
<1>1. CASE UNCHANGED vars
  BY <1>1 DEF vars, PolicyInv, Registered, TaskOf
<1> QED BY <1>1, PolicyDispatcher, PolicyProcess, PolicyOthers DEF Next

\* On one core, when every process issues commands for itself only: currtask has
\* SCHED_FIFO from its promotion on, the task the dispatcher is about to demote is
\* another one, and a process inside deregister() is not registered again before
\* it has demoted itself.
THEOREM PoliciesTracked ==
  ASSUME ~SMP, ~ForeignPid
  PROVE  Spec => []PolicyInv
<1>1. Init => PolicyInv
  BY DEF Init, PolicyInv
<1> QED BY <1>1, PolicyStep, OneCoreInvariant, TypeCorrect, OwnershipInvariant, PTL DEF Spec

\* On one core, when every process issues commands for itself only: whenever
\* the scheduler rests, the task that has the CPU is RUNNING in mp2.c's books
\* and its process has the real-time policy that promote_task() gave it.
THEOREM CurrentPromoted ==
  ASSUME ~SMP, ~ForeignPid
  PROVE  Spec => []CurrentIsPromoted
<1>1. OneCoreInv /\ PolicyInv => CurrentIsPromoted
  BY DEF OneCoreInv, PassInv, PolicyInv, CurrentIsPromoted, Quiescent
<1> QED BY <1>1, PoliciesTracked, OneCoreInvariant, PTL
=============================================================================
