------------------------- MODULE RmsSchedulerProofs -------------------------
(***************************************************************************)
(* Memory safety of the scheduler for any number of processes and PCBs,    *)
(* on one core or several, and from the same invariant its preemptions and *)
(* allocations: proofs about RmsScheduler.                                 *)
(***************************************************************************)
EXTENDS RmsScheduler, ListLemmas

USE DEF RMSStates, PcbOrNull, PidOrNull, DispPcs, ProcPcs, ExitPcs

\* The arguments of a command become task records: the int to unsigned long
\* conversion of my_write() always lands in the range of the PCB fields.
LEMMA TaskRecType ==
  ASSUME NEW q \in Pid, NEW period \in PeriodArg, NEW comp_time \in CompArg
  PROVE  Task(q, Ulong(period), Ulong(comp_time)) \in TaskRec
<1>1. Ulong(period) \in Ulongs /\ Ulong(comp_time) \in Ulongs
  BY UlongModAssumption, ConstAssumption DEF Ulong, Ulongs
<1> QED BY <1>1 DEF Task, TaskRec

LEMMA BlankType == Blank \in TaskRec
BY UlongModAssumption DEF Blank, Task, TaskRec, Ulongs

-----------------------------------------------------------------------------
(* Type correctness                                                        *)

LEMMA TypeInit == Init => TypeOK
<1> SUFFICES ASSUME Init PROVE TypeOK
  OBVIOUS
<1>1. mp2list \in Seq(Pcb) /\ scan \in Seq(Pcb) /\ slab \subseteq Pcb
  BY DEF Init
<1>2. pcb \in [Pcb -> TaskRec]
  BY BlankType DEF Init
<1>3. missed \in BOOLEAN
  BY DEF Init
<1> QED BY <1>1, <1>2, <1>3 DEF Init, TypeOK

LEMMA TypeDispatcher == TypeOK /\ Dispatcher => TypeOK'
<1> SUFFICES ASSUME TypeOK, Dispatcher PROVE TypeOK'
  OBVIOUS
<1> USE DEF TypeOK, dispFrame, listVars, tmrVars, locals
<1>1. CASE DispStart    BY <1>1 DEF DispStart
<1>2. CASE DispLock     BY <1>2 DEF DispLock
<1>3. CASE DispScan     BY <1>3, TailSubset DEF DispScan
<1>4. CASE DispKeep     BY <1>4 DEF DispKeep
<1>5. CASE DispRun
  <2>1. TaskOf(nexttask) \in PidOrNull
    BY <1>5 DEF DispRun, TaskOf, TaskRec
  <2> QED BY <1>5, <2>1 DEF DispRun
<1>6. CASE DispPreempt
  <2>1. TaskOf(nexttask) \in PidOrNull /\ TaskOf(currtask) \in PidOrNull
    BY <1>6 DEF DispPreempt, TaskOf, TaskRec, CurrRunning, Outranked
  <2>2. RMSstate' \in [Pcb -> RMSStates]
    BY <1>6 DEF DispPreempt
  <2>3. /\ UNCHANGED <<dispFrame, dstate, scan, missed, tstate, policy>>
        /\ currtask' \in PcbOrNull /\ nexttask' \in PcbOrNull /\ dpc' \in DispPcs
    BY <1>6 DEF DispPreempt
  <2>4. protask' \in PidOrNull /\ demtask' \in PidOrNull
    BY <1>6, <2>1 DEF DispPreempt
  <2> QED BY <2>2, <2>3, <2>4
<1>7. CASE DispPromote  BY <1>7 DEF DispPromote
<1>8. CASE DispDemote   BY <1>8 DEF DispDemote
<1>9. CASE DispSetState BY <1>9 DEF DispSetState
<1>10. CASE DispCheck   BY <1>10 DEF DispCheck
<1>11. CASE DispWoken   BY <1>11 DEF DispWoken
<1> QED BY <1>1, <1>2, <1>3, <1>4, <1>5, <1>6, <1>7, <1>8, <1>9, <1>10, <1>11
        DEF Dispatcher

LEMMA WakethreadType ==
  TypeOK /\ Wakethread =>
    dstate' \in {"RUNNING", "INTERRUPTIBLE"} /\ missed' \in BOOLEAN
BY DEF TypeOK, Wakethread, Dispathread, InPass

LEMMA TypeTimer ==
  ASSUME TypeOK, NEW b \in Pcb, TimerExpire(b) \/ Timercb(b)
  PROVE  TypeOK'
<1> USE DEF TypeOK, timerFrame, listVars, locals
<1>1. CASE TimerExpire(b) BY <1>1 DEF TimerExpire
<1>2. CASE TimerReady(b)  BY <1>2 DEF TimerReady
<1>3. CASE TimerWake(b)   BY <1>3, WakethreadType DEF TimerWake
<1> QED BY <1>1, <1>2, <1>3 DEF Timercb

LEMMA TypeProcess ==
  ASSUME TypeOK, NEW p \in Pid, MyWrite(p) \/ Syscall(p)
  PROVE  TypeOK'
<1> USE DEF TypeOK, procFrame, listVars, tmrVars, locals
<1>1. ASSUME NEW q \in Named(p), NEW period \in PeriodArg, NEW comp_time \in CompArg,
             TaskRegister(p, q, period, comp_time)
      PROVE  TypeOK'
  <2>1. Task(q, Ulong(period), Ulong(comp_time)) \in TaskRec
    BY TaskRecType DEF Named
  <2> QED BY <1>1, <2>1, AppendProperties DEF TaskRegister
<1>2. ASSUME NEW period \in PeriodArg, NEW comp_time \in CompArg,
             TaskRegisterZero(p, period, comp_time)
      PROVE  TypeOK'
  BY <1>2 DEF TaskRegisterZero
<1>3. CASE TaskYield(p)     BY <1>3 DEF TaskYield
<1>4. ASSUME NEW q \in Named(p), Deregister(p, q)
      PROVE  TypeOK'
  <2>1. PICK i \in DOMAIN mp2list :
          /\ mp2list' = DelAt(mp2list, i)
          /\ target' = [target EXCEPT ![p] = mp2list[i]]
          /\ currtask' = IF mp2list[i] = currtask THEN NULL ELSE currtask
    BY <1>4 DEF Deregister
  <2>2. mp2list' \in Seq(Pcb) /\ mp2list[i] \in Pcb
    <3>1. mp2list \in Seq(Pcb)
      OBVIOUS
    <3>2. DelAt(mp2list, i) \in Seq(Pcb)
      BY <3>1, DelAtIndex
    <3> QED BY <2>1, <3>1, <3>2
  <2> QED BY <1>4, <2>1, <2>2 DEF Deregister
<1>5. CASE YieldWake(p)     BY <1>5, WakethreadType DEF YieldWake
<1>6. CASE YieldSetState(p) BY <1>6 DEF YieldSetState
<1>7. CASE YieldReturn(p)   BY <1>7 DEF YieldReturn
<1>8. CASE DeregDemote(p)
  <2>1. policy' \in [Pid -> {"NORMAL", "FIFO"}]
    BY <1>8 DEF DeregDemote
  <2> QED BY <1>8, <2>1 DEF DeregDemote
<1>9. CASE DeregFree(p)
  <2> USE DEF DeregFree, TimerSyncFree, KmemCacheFree
  <2>1. pcb' \in [Pcb -> TaskRec]
    BY <1>9, BlankType
  <2>2. RMSstate' \in [Pcb -> RMSStates] /\ timer' \in [Pcb -> {"idle", "pending"}]
    BY <1>9
  <2>3. pc' \in [Pid -> ProcPcs] /\ target' \in [Pid -> PcbOrNull]
    BY <1>9
  <2> QED BY <1>9, <2>1, <2>2, <2>3
<1>10. CASE DeregWake(p)
  BY <1>10, WakethreadType DEF DeregWake, NoWake
<1>11. CASE TaskRegisterOops(p)
  BY <1>11 DEF TaskRegisterOops
<1>12. CASE DeregFreeNull(p)
  <2>1. pc' \in [Pid -> ProcPcs] /\ target' \in [Pid -> PcbOrNull]
    BY <1>12 DEF DeregFreeNull
  <2>2. timer' \in [Pcb -> {"idle", "pending"}]
    BY <1>12 DEF DeregFreeNull
  <2>3. target[p] \in PcbOrNull /\ late' = late \cup {target[p]}
    BY <1>12 DEF DeregFreeNull
  <2>4. UNCHANGED <<procFrame, mp2list, slab, pcb, RMSstate, callback, currtask, dstate,
                    missed, tstate, policy>>
    BY <1>12 DEF DeregFreeNull
  <2> QED BY <2>1, <2>2, <2>3, <2>4
<1> QED BY <1>1, <1>2, <1>3, <1>4, <1>5, <1>6, <1>7, <1>8, <1>9, <1>10, <1>11, <1>12
        DEF MyWrite, Syscall

LEMMA TypeExit == TypeOK /\ Mp2Exit => TypeOK'
<1> SUFFICES ASSUME TypeOK, Mp2Exit PROVE TypeOK'
  OBVIOUS
<1> USE DEF TypeOK, exitFrame, listVars, locals
<1>1. CASE ExitStop       BY <1>1 DEF ExitStop
<1>2. ASSUME NEW from \in ExitPcs, NEW to \in ExitPcs, ExitMove(from, to)
      PROVE  TypeOK'
  BY <1>2 DEF ExitMove
<1>3. CASE ExitDetach     BY <1>3, TailSubset DEF ExitDetach
<1>4. CASE ExitFree
  BY <1>4, BlankType DEF ExitFree, TimerSyncFree, KmemCacheFree
<1> QED BY <1>1, <1>2, <1>3, <1>4
        DEF Mp2Exit, ExitStopped, ExitLock, ExitUnlock, ExitDestroy,
            ExitProcRemove, ExitDone

LEMMA TypeStep == TypeOK /\ [Next]_vars => TypeOK'
<1> SUFFICES ASSUME TypeOK, [Next]_vars PROVE TypeOK'
  OBVIOUS
<1>1. CASE UNCHANGED vars  BY <1>1 DEF TypeOK, vars
<1> QED BY <1>1, TypeDispatcher, TypeTimer, TypeProcess, TypeExit DEF Next

\* Every reachable state of the scheduler is well typed: in particular no
\* list, timer or teardown ever names anything but a PCB.
THEOREM TypeCorrect == Spec => []TypeOK
BY TypeInit, TypeStep, PTL DEF Spec

-----------------------------------------------------------------------------
(* Ownership of the PCBs                                                   *)

LEMMA IndInit == Init => IndInv
<1> SUFFICES ASSUME Init PROVE IndInv
  OBVIOUS
<1>1. Registered = {}
  BY DEF Init, Registered, Range
<1>2. ListInv
  BY <1>1 DEF Init, ListInv, IsInjective
<1>3. TargetInv
  BY DEF Init, TargetInv
<1>4. DispInv /\ TimerInv /\ OneRunning
  BY <1>1 DEF Init, DispInv, TimerInv, OneRunning
<1> QED BY <1>2, <1>3, <1>4 DEF IndInv

\* The dispatcher moves its own pointers and RMSstate, nothing else.
LEMMA IndDispatcher ==
  ASSUME TypeOK, IndInv, Dispatcher
  PROVE  IndInv'
<1> USE DEF dispFrame, listVars, tmrVars, locals
<1>1. UNCHANGED dispFrame
  BY DEF Dispatcher, DispStart, DispLock, DispScan, DispKeep, DispRun, DispPreempt,
         DispPromote, DispDemote, DispSetState, DispCheck, DispWoken
<1>2. ListInv' /\ TargetInv' /\ TimerInv' /\ Registered' = Registered
  BY <1>1 DEF IndInv, ListInv, TargetInv, TimerInv, Registered
<1>3. (dpc \in {"start", "check", "sched"} => dpc # "exited") /\ DispInv /\ OneRunning
  BY DEF IndInv
<1>4. CASE DispStart \/ DispCheck \/ DispWoken \/ DispSetState
  <2>1. /\ UNCHANGED <<RMSstate, currtask, nexttask, epc>>
        /\ dpc # "exited" /\ dpc # "scan" /\ dpc' # "scan"
    BY <1>4 DEF DispStart, DispCheck, DispWoken, DispSetState
  <2> QED BY <1>2, <1>3, <2>1 DEF IndInv, DispInv, OneRunning
<1>5. CASE DispLock
  <2>1. /\ UNCHANGED <<RMSstate, currtask, nexttask, epc>>
        /\ dpc = "lock" /\ dpc' = "scan" /\ scan' = mp2list
    BY <1>5 DEF DispLock
  <2> QED BY <1>2, <1>3, <2>1 DEF IndInv, DispInv, OneRunning, Registered
<1>6. CASE DispScan
  <2>1. /\ UNCHANGED <<RMSstate, currtask, dpc, epc>>
        /\ dpc = "scan" /\ scan # << >> /\ scan' = Tail(scan)
        /\ nexttask' \in {nexttask, Head(scan)}
    BY <1>6 DEF DispScan
  <2>2. Head(scan) \in Range(scan) /\ Range(Tail(scan)) \subseteq Range(scan)
    BY <2>1, TailSubset DEF TypeOK
  <2> QED BY <1>2, <1>3, <2>1, <2>2 DEF IndInv, DispInv, OneRunning
<1>7. CASE DispKeep \/ DispPromote \/ DispDemote
  <2>1. /\ UNCHANGED <<RMSstate, currtask, epc>>
        /\ dpc # "exited" /\ dpc' # "exited" /\ dpc' # "scan"
        /\ nexttask' = NULL
    BY <1>3, <1>7 DEF DispKeep, DispPromote, DispDemote, DispInv
  <2> QED BY <1>2, <1>3, <2>1 DEF IndInv, DispInv, OneRunning
<1>8. CASE DispRun
  <2>1. /\ dpc = "scan" /\ dpc' = "promote" /\ epc' = epc
        /\ nexttask # NULL /\ nexttask \in Registered
        /\ currtask' = nexttask /\ nexttask' = NULL
        /\ RMSstate' = [RMSstate EXCEPT ![nexttask] = "RUNNING"]
        /\ currtask # NULL => RMSstate[currtask] = "SLEEPING"
    BY <1>3, <1>8 DEF DispRun, CurrIdle, DispInv
  <2>2. DispInv'
    BY <1>2, <1>3, <2>1 DEF DispInv
  <2>3. ASSUME NEW b \in Registered, RMSstate'[b] = "RUNNING" PROVE b = nexttask
    <3>1. b \in Pcb
      BY DEF TypeOK, Registered, Range
    <3>2. CASE b # nexttask
      <4>1. RMSstate[b] = "RUNNING"
        BY <2>1, <2>3, <3>1, <3>2 DEF TypeOK
      <4> QED BY <1>3, <2>1, <3>1, <4>1, ConstAssumption DEF OneRunning
    <3> QED BY <3>2
  <2> QED BY <1>2, <2>1, <2>2, <2>3 DEF IndInv, OneRunning
<1>9. CASE DispPreempt
  <2>1. /\ dpc = "scan" /\ dpc' = "promote" /\ epc' = epc
        /\ nexttask # NULL /\ nexttask \in Registered /\ currtask # NULL
        /\ currtask' = nexttask /\ nexttask' = NULL
        /\ RMSstate' = [RMSstate EXCEPT ![currtask] = "READY", ![nexttask] = "RUNNING"]
    BY <1>3, <1>9 DEF DispPreempt, CurrRunning, Outranked, DispInv
  <2>2. DispInv'
    BY <1>2, <1>3, <2>1 DEF DispInv
  <2>3. ASSUME NEW b \in Registered, RMSstate'[b] = "RUNNING" PROVE b = nexttask
    <3>1. b \in Pcb /\ currtask \in Pcb
      BY <2>1 DEF TypeOK, Registered, Range
    <3>2. CASE b # nexttask
      <4>1. RMSstate[b] = "RUNNING" /\ b # currtask
        BY <2>1, <2>3, <3>1, <3>2 DEF TypeOK
      <4> QED BY <1>3, <4>1 DEF OneRunning
    <3> QED BY <3>2
  <2> QED BY <1>2, <2>1, <2>2, <2>3 DEF IndInv, OneRunning
<1> QED BY <1>4, <1>5, <1>6, <1>7, <1>8, <1>9 DEF Dispatcher

\* A timer only fires on an allocated PCB, and timercb() only makes it READY.
LEMMA IndTimer ==
  ASSUME TypeOK, IndInv, NEW b \in Pcb, TimerExpire(b) \/ Timercb(b)
  PROVE  IndInv'
<1> USE DEF timerFrame, listVars, locals
<1>1. UNCHANGED timerFrame
  BY DEF TimerExpire, Timercb, TimerReady, TimerWake
<1>2. ListInv' /\ TargetInv' /\ DispInv' /\ Registered' = Registered
  BY <1>1 DEF IndInv, ListInv, TargetInv, DispInv, Registered
<1>3. TimerInv'
  <2>1. b \in slab
    BY DEF IndInv, TimerInv, TimerExpire, Timercb, TimerReady, TimerWake
  <2>2. \A c \in Pcb \ {b} : timer'[c] = timer[c] /\ callback'[c] = callback[c]
    BY DEF TypeOK, TimerExpire, Timercb, TimerReady, TimerWake
  <2> QED BY <1>1, <2>1, <2>2 DEF IndInv, TimerInv
<1>4. OneRunning'
  <2>1. \A c \in Pcb : RMSstate'[c] = "RUNNING" => RMSstate[c] = "RUNNING"
    BY DEF TypeOK, TimerExpire, Timercb, TimerReady, TimerWake
  <2>2. Registered \subseteq Pcb
    BY DEF TypeOK, Registered, Range
  <2> QED BY <1>1, <1>2, <2>1, <2>2 DEF IndInv, OneRunning
<1> QED BY <1>2, <1>3, <1>4 DEF IndInv

\* Registration links a PCB that was free: nobody else can point to it.
LEMMA IndRegister ==
  ASSUME TypeOK, IndInv, NEW p \in Pid, NEW q, NEW period, NEW comp_time,
         TaskRegister(p, q, period, comp_time)
  PROVE  IndInv'
<1> USE DEF procFrame, tmrVars, locals
<1>1. PICK b \in Pcb \ slab :
        /\ mp2list' = Append(mp2list, b)
        /\ slab' = slab \cup {b}
        /\ RMSstate' = [RMSstate EXCEPT ![b] = "SLEEPING"]
  BY DEF TaskRegister
<1>2. UNCHANGED <<timer, callback, currtask, dpc, scan, nexttask, epc, etarget, pc, target>>
  BY DEF TaskRegister
<1>3. Registered \subseteq slab /\ IsInjective(mp2list) /\ mp2list \in Seq(Pcb)
  BY DEF IndInv, ListInv, TypeOK
<1>4. Registered' = Registered \cup {b} /\ IsInjective(mp2list')
  BY <1>1, <1>3, AppendEntries DEF Registered
<1>5. ListInv'
  BY <1>1, <1>3, <1>4 DEF ListInv
<1>6. TargetInv'
  BY <1>1, <1>2, <1>4 DEF IndInv, TargetInv
<1>7. DispInv'
  BY <1>2, <1>4 DEF IndInv, DispInv
<1>8. TimerInv'
  BY <1>1, <1>2 DEF IndInv, TimerInv
<1>9. OneRunning'
  <2>1. \A c \in Pcb : RMSstate'[c] = "RUNNING" => c # b /\ RMSstate[c] = "RUNNING"
    BY <1>1 DEF TypeOK
  <2>2. Registered \subseteq Pcb
    BY DEF TypeOK, Registered, Range
  <2> QED BY <1>2, <1>4, <2>1, <2>2 DEF IndInv, OneRunning
<1> QED BY <1>5, <1>6, <1>7, <1>8, <1>9 DEF IndInv

\* The refused registration that leaks its PCB disturbs nothing else.
LEMMA IndRegisterZero ==
  ASSUME TypeOK, IndInv, NEW p \in Pid, NEW period, NEW comp_time,
         TaskRegisterZero(p, period, comp_time)
  PROVE  IndInv'
<1> USE DEF procFrame, tmrVars, locals
<1>1. /\ slab \subseteq slab'
      /\ UNCHANGED <<mp2list, RMSstate, timer, callback, currtask, dpc, scan,
                     nexttask, epc, etarget, pc, target>>
  BY DEF TaskRegisterZero
<1>2. Registered' = Registered
  BY <1>1 DEF Registered
<1>3. ListInv' /\ DispInv' /\ TimerInv' /\ OneRunning'
  BY <1>1, <1>2 DEF IndInv, ListInv, DispInv, TimerInv, OneRunning
<1>4. TargetInv'
  BY <1>1, <1>2 DEF IndInv, TargetInv
<1> QED BY <1>3, <1>4 DEF IndInv

\* taskyield() arms the timer of a linked PCB and lets go of currtask.
LEMMA IndYield ==
  ASSUME TypeOK, IndInv, NEW p \in Pid, TaskYield(p)
  PROVE  IndInv'
<1> USE DEF procFrame, listVars, locals
<1>1. PICK i \in DOMAIN mp2list :
        /\ RMSstate' = [RMSstate EXCEPT ![mp2list[i]] = "SLEEPING"]
        /\ timer' = [timer EXCEPT ![mp2list[i]] = "pending"]
        /\ currtask' = IF mp2list[i] = currtask THEN NULL ELSE currtask
  BY DEF TaskYield
<1>2. /\ UNCHANGED <<mp2list, slab, callback, dpc, scan, nexttask, epc, etarget, target>>
      /\ pc[p] = "user" /\ pc' = [pc EXCEPT ![p] = "y_wake"]
  BY DEF TaskYield, InUser
<1>3. Registered' = Registered /\ mp2list[i] \in Registered /\ Registered \subseteq Pcb
  BY <1>2 DEF Registered, Range, TypeOK
<1>4. ListInv'
  BY <1>2, <1>3 DEF IndInv, ListInv
<1>5. TargetInv'
  BY <1>2, <1>3 DEF IndInv, TargetInv, TypeOK
<1>6. DispInv'
  BY <1>1, <1>2, <1>3 DEF IndInv, DispInv
<1>7. TimerInv'
  BY <1>1, <1>2, <1>3 DEF IndInv, TimerInv, ListInv, TypeOK
<1>8. OneRunning'
  <2>1. \A c \in Pcb : RMSstate'[c] = "RUNNING" => c # mp2list[i] /\ RMSstate[c] = "RUNNING"
    BY <1>1, <1>3 DEF TypeOK
  <2> QED BY <1>1, <1>3, <2>1 DEF IndInv, OneRunning
<1> QED BY <1>4, <1>5, <1>6, <1>7, <1>8 DEF IndInv

\* deregister() takes the PCB off the list and becomes its only owner.
LEMMA IndDeregister ==
  ASSUME TypeOK, IndInv, NEW p \in Pid, NEW q, Deregister(p, q)
  PROVE  IndInv'
<1> USE DEF procFrame, tmrVars, locals
<1>1. PICK i \in DOMAIN mp2list :
        /\ mp2list' = DelAt(mp2list, i)
        /\ target' = [target EXCEPT ![p] = mp2list[i]]
        /\ currtask' = IF mp2list[i] = currtask THEN NULL ELSE currtask
  BY DEF Deregister
<1>2. /\ UNCHANGED <<slab, RMSstate, timer, callback, dpc, scan, nexttask, epc, etarget>>
      /\ pc[p] = "user" /\ pc' = [pc EXCEPT ![p] = "d_demote"]
      /\ dpc # "scan"
  BY DEF Deregister, InUser, MutexFree
<1>3. IsInjective(mp2list) /\ mp2list \in Seq(Pcb) /\ Registered \subseteq slab
  BY DEF IndInv, ListInv, TypeOK
<1>4. /\ Registered' = Registered \ {mp2list[i]} /\ IsInjective(mp2list')
      /\ mp2list[i] \in Registered /\ mp2list[i] \in Pcb
  BY <1>1, <1>3, DelAtEntries DEF Registered
<1>5. ListInv'
  BY <1>2, <1>3, <1>4 DEF ListInv
<1>6. TargetInv'
  <2>1. \A r \in Pid \ {p} : target'[r] = target[r] /\ pc'[r] = pc[r]
    BY <1>1, <1>2 DEF TypeOK
  <2>2. target'[p] = mp2list[i] /\ pc'[p] = "d_demote" /\ mp2list[i] # NULL
    BY <1>1, <1>2, <1>4, ConstAssumption DEF TypeOK
  <2>3. /\ \A r \in Pid : target[r] # mp2list[i]
        /\ etarget # mp2list[i] /\ mp2list[i] \in slab
    BY <1>3, <1>4, <2>2 DEF IndInv, TargetInv
  <2>4. ASSUME NEW r \in Pid
        PROVE  /\ pc'[r] \in {"d_demote", "d_timer"} <=> target'[r] # NULL
               /\ target'[r] # NULL => /\ target'[r] \in slab /\ target'[r] \notin Registered'
                                      /\ target'[r] # etarget
    BY <1>4, <2>1, <2>2, <2>3 DEF IndInv, TargetInv
  <2>5. ASSUME NEW r \in Pid, NEW t \in Pid, target'[r] # NULL, target'[r] = target'[t]
        PROVE  r = t
    <3>1. \A q1, q2 \in Pid : target[q1] # NULL /\ target[q1] = target[q2] => q1 = q2
      BY DEF IndInv, TargetInv
    <3>2. CASE r # p /\ t # p
      BY <2>1, <2>5, <3>1, <3>2
    <3>3. CASE r = p \/ t = p
      BY <2>1, <2>2, <2>3, <2>5, <3>3
    <3> QED BY <3>2, <3>3
  <2>6. /\ epc = "detached" <=> etarget # NULL
        /\ etarget # NULL => etarget \in slab /\ etarget \notin Registered'
    BY <1>4 DEF IndInv, TargetInv
  <2> QED BY <1>2, <2>4, <2>5, <2>6 DEF TargetInv
<1>7. DispInv'
  BY <1>1, <1>2, <1>4 DEF IndInv, DispInv
<1>8. TimerInv' /\ OneRunning'
  BY <1>1, <1>2, <1>4 DEF IndInv, TimerInv, OneRunning
<1> QED BY <1>5, <1>6, <1>7, <1>8 DEF IndInv

\* Freeing a PCB that only the caller owns takes nothing from anyone else.
LEMMA IndFree ==
  ASSUME TypeOK, IndInv, NEW b \in Pcb, b \notin Registered, TimerSyncFree(b),
         UNCHANGED <<mp2list, callback, currtask, dpc, scan, nexttask>>
  PROVE  /\ ListInv' /\ TimerInv' /\ OneRunning' /\ Registered' = Registered
         /\ slab' = slab \ {b}
<1>1. Registered' = Registered /\ Registered \subseteq Pcb
  BY DEF Registered, Range, TypeOK
<1>2. slab' = slab \ {b}
  BY DEF TimerSyncFree, KmemCacheFree
<1>3. ListInv'
  BY <1>1, <1>2 DEF IndInv, ListInv
<1>4. TimerInv'
  <2>1. timer'[b] = "idle" /\ callback'[b] = "idle"
    BY DEF TimerSyncFree, TypeOK
  <2>2. \A c \in Pcb \ {b} : timer'[c] = timer[c]
    BY DEF TimerSyncFree, TypeOK
  <2> QED BY <1>2, <2>1, <2>2 DEF IndInv, TimerInv
<1>5. OneRunning'
  <2>1. \A c \in Pcb : RMSstate'[c] = "RUNNING" => RMSstate[c] = "RUNNING"
    BY DEF TimerSyncFree, KmemCacheFree, TypeOK
  <2> QED BY <1>1, <2>1 DEF IndInv, OneRunning
<1> QED BY <1>1, <1>2, <1>3, <1>4, <1>5

LEMMA IndDeregFree ==
  ASSUME TypeOK, IndInv, NEW p \in Pid, DeregFree(p)
  PROVE  IndInv'
<1> USE DEF procFrame, locals
<1>1. /\ pc[p] = "d_timer" /\ TimerSyncFree(target[p])
      /\ target' = [target EXCEPT ![p] = NULL] /\ pc' = [pc EXCEPT ![p] = "d_wake"]
      /\ UNCHANGED <<mp2list, callback, currtask, dpc, scan, nexttask, epc, etarget>>
  BY DEF DeregFree
<1>2. /\ target[p] \in Pcb /\ target[p] \notin Registered
      /\ target[p] # etarget
      /\ \A q \in Pid \ {p} : target[q] # target[p]
  BY <1>1 DEF IndInv, TargetInv, TypeOK
<1>3. /\ ListInv' /\ TimerInv' /\ OneRunning' /\ Registered' = Registered
      /\ slab' = slab \ {target[p]}
  BY <1>1, <1>2, IndFree
<1>4. DispInv'
  BY <1>1, <1>3 DEF IndInv, DispInv
<1>5. TargetInv'
  <2>1. \A q \in Pid \ {p} : target'[q] = target[q] /\ pc'[q] = pc[q]
    BY <1>1 DEF TypeOK
  <2>2. target'[p] = NULL /\ pc'[p] = "d_wake"
    BY <1>1 DEF TypeOK
  <2> QED BY <1>1, <1>2, <1>3, <2>1, <2>2 DEF IndInv, TargetInv
<1> QED BY <1>3, <1>4, <1>5 DEF IndInv

\* Without its cache, deregister() lets go of the PCB but cannot free it.
LEMMA IndDeregFreeNull ==
  ASSUME TypeOK, IndInv, NEW p \in Pid, DeregFreeNull(p)
  PROVE  IndInv'
<1> USE DEF procFrame, locals
<1>1. /\ pc[p] = "d_timer" /\ target' = [target EXCEPT ![p] = NULL]
      /\ timer' = [timer EXCEPT ![target[p]] = "idle"]
      /\ UNCHANGED <<mp2list, slab, RMSstate, callback, currtask, dpc, scan, nexttask,
                     epc, etarget>>
  BY DEF DeregFreeNull
<1>2. Registered' = Registered
  BY <1>1 DEF Registered
<1>3. \A b \in Pcb : timer'[b] = "pending" => timer[b] = "pending"
  BY <1>1 DEF TypeOK
<1>4. ListInv' /\ DispInv' /\ TimerInv' /\ OneRunning'
  BY <1>1, <1>2, <1>3 DEF IndInv, ListInv, DispInv, TimerInv, OneRunning
<1>5. PICK next \in {"d_wake", "oops"} : pc' = [pc EXCEPT ![p] = next]
  BY DEF DeregFreeNull
<1>6. /\ target'[p] = NULL /\ pc'[p] \notin {"d_demote", "d_timer"}
      /\ \A q \in Pid \ {p} : target'[q] = target[q] /\ pc'[q] = pc[q]
  BY <1>1, <1>5 DEF TypeOK
<1>7. TargetInv'
  BY <1>1, <1>2, <1>6 DEF IndInv, TargetInv
<1> QED BY <1>4, <1>7 DEF IndInv

\* The other steps of a system call touch no PCB and no pointer to one.
LEMMA IndSyscall ==
  ASSUME TypeOK, IndInv, NEW p \in Pid, Syscall(p) \/ TaskRegisterOops(p)
  PROVE  IndInv'
<1>1. CASE DeregFree(p) \/ DeregFreeNull(p)
  BY <1>1, IndDeregFree, IndDeregFreeNull
<1>2. CASE \/ YieldWake(p) \/ YieldSetState(p) \/ YieldReturn(p) \/ DeregDemote(p)
           \/ DeregWake(p) \/ TaskRegisterOops(p)
  <2> USE DEF procFrame, listVars, tmrVars, locals
  <2>1. UNCHANGED <<mp2list, slab, RMSstate, timer, callback, currtask, dpc, scan,
                    nexttask, epc, etarget, target>>
    BY <1>2 DEF YieldWake, YieldSetState, YieldReturn, DeregDemote, DeregWake,
                TaskRegisterOops
  <2>2. \A q \in Pid :
          pc'[q] \in {"d_demote", "d_timer"} <=> pc[q] \in {"d_demote", "d_timer"}
    <3>1. ASSUME NEW to, pc' = [pc EXCEPT ![p] = to],
                 to \in {"d_demote", "d_timer"} <=> pc[p] \in {"d_demote", "d_timer"}
          PROVE  \A q \in Pid :
                   pc'[q] \in {"d_demote", "d_timer"} <=> pc[q] \in {"d_demote", "d_timer"}
      BY <3>1 DEF TypeOK
    <3>2. CASE YieldWake(p)      BY <3>1, <3>2 DEF YieldWake
    <3>3. CASE YieldSetState(p)  BY <3>1, <3>3 DEF YieldSetState
    <3>4. CASE YieldReturn(p)    BY <3>1, <3>4 DEF YieldReturn
    <3>5. CASE DeregDemote(p)    BY <3>1, <3>5 DEF DeregDemote
    <3>6. CASE DeregWake(p)      BY <3>1, <3>6 DEF DeregWake
    <3>7. CASE TaskRegisterOops(p)
      BY <3>1, <3>7 DEF TaskRegisterOops, InUser
    <3> QED BY <1>2, <3>2, <3>3, <3>4, <3>5, <3>6, <3>7
  <2>3. Registered' = Registered
    BY <2>1 DEF Registered
  <2>4. ListInv' /\ DispInv' /\ TimerInv' /\ OneRunning'
    BY <2>1, <2>3 DEF IndInv, ListInv, DispInv, TimerInv, OneRunning
  <2>5. TargetInv'
    BY <2>1, <2>2, <2>3 DEF IndInv, TargetInv
  <2> QED BY <2>4, <2>5 DEF IndInv
<1> QED BY <1>1, <1>2 DEF Syscall

\* mp2_exit() waits for the dispatcher before it touches the list, and then
\* owns what it unlinks.
LEMMA IndExit ==
  ASSUME TypeOK, IndInv, Mp2Exit
  PROVE  IndInv'
<1> USE DEF exitFrame, listVars, locals
<1>1. CASE ExitStop
  <2>1. /\ UNCHANGED <<mp2list, slab, RMSstate, timer, callback, currtask, dpc, scan,
                       nexttask, etarget, target, pc>>
        /\ epc = "loaded" /\ epc' = "stopping"
    BY <1>1 DEF ExitStop
  <2>2. Registered' = Registered
    BY <2>1 DEF Registered
  <2>3. ListInv' /\ DispInv' /\ TimerInv' /\ OneRunning'
    BY <2>1, <2>2 DEF IndInv, ListInv, DispInv, TimerInv, OneRunning
  <2>4. TargetInv'
    BY <2>1, <2>2 DEF IndInv, TargetInv
  <2> QED BY <2>3, <2>4 DEF IndInv
<1>2. ASSUME NEW from \in ExitPcs \ {"loaded", "detached"},
             NEW to \in ExitPcs \ {"detached"},
             ExitMove(from, to), dpc = "exited"
      PROVE  IndInv'
  <2>1. /\ UNCHANGED <<mp2list, slab, RMSstate, timer, callback, currtask, dpc, scan,
                       nexttask, etarget, target, pc>>
        /\ epc = from /\ epc' = to
    BY <1>2 DEF ExitMove
  <2>2. Registered' = Registered
    BY <2>1 DEF Registered
  <2>3. ListInv' /\ DispInv' /\ TimerInv' /\ OneRunning'
    BY <1>2, <2>1, <2>2 DEF IndInv, ListInv, DispInv, TimerInv, OneRunning
  <2>4. TargetInv'
    BY <2>1, <2>2 DEF IndInv, TargetInv
  <2> QED BY <2>3, <2>4 DEF IndInv
<1>3. CASE \/ ExitStopped \/ ExitLock \/ ExitUnlock \/ ExitDestroy
           \/ ExitProcRemove \/ ExitDone
  <2>1. epc \notin {"loaded", "stopping"} => dpc = "exited"
    BY DEF IndInv, DispInv
  <2> QED BY <1>2, <1>3, <2>1
          DEF ExitStopped, ExitLock, ExitUnlock, ExitDestroy, ExitProcRemove,
              ExitDone, ExitMove
<1>4. CASE ExitDetach
  <2>1. /\ epc = "cleaning" /\ epc' = "detached" /\ mp2list # << >>
        /\ mp2list' = Tail(mp2list) /\ etarget' = Head(mp2list)
        /\ UNCHANGED <<slab, RMSstate, timer, callback, currtask, dpc, scan,
                       nexttask, target, pc>>
    BY <1>4 DEF ExitDetach
  <2>2. dpc = "exited"
    BY <2>1 DEF IndInv, DispInv
  <2>3. IsInjective(mp2list) /\ mp2list \in Seq(Pcb) /\ Registered \subseteq slab
    BY DEF IndInv, ListInv, TypeOK
  <2>4. /\ Registered' = Registered \ {Head(mp2list)} /\ IsInjective(mp2list')
        /\ Head(mp2list) \in Registered /\ Head(mp2list) \in Pcb
    BY <2>1, <2>3, TailEntries DEF Registered
  <2>5. ListInv' /\ TimerInv' /\ OneRunning'
    BY <2>1, <2>3, <2>4 DEF IndInv, ListInv, TimerInv, OneRunning
  <2>6. DispInv'
    BY <2>1, <2>2 DEF IndInv, DispInv
  <2>7. TargetInv'
    BY <2>1, <2>3, <2>4, ConstAssumption DEF IndInv, TargetInv
  <2> QED BY <2>5, <2>6, <2>7 DEF IndInv
<1>5. CASE ExitFree
  <2>1. /\ epc = "detached" /\ epc' = "cleaning" /\ etarget' = NULL
        /\ TimerSyncFree(etarget)
        /\ UNCHANGED <<mp2list, callback, currtask, dpc, scan, nexttask, target, pc>>
    BY <1>5 DEF ExitFree
  <2>2. /\ etarget \in Pcb /\ etarget \notin Registered /\ dpc = "exited"
        /\ \A p \in Pid : target[p] # etarget
    BY <2>1 DEF IndInv, TargetInv, DispInv, TypeOK
  <2>3. /\ ListInv' /\ TimerInv' /\ OneRunning' /\ Registered' = Registered
        /\ slab' = slab \ {etarget}
    BY <2>1, <2>2, IndFree
  <2>4. DispInv'
    BY <2>1, <2>2 DEF IndInv, DispInv
  <2>5. TargetInv'
    BY <2>1, <2>2, <2>3 DEF IndInv, TargetInv
  <2> QED BY <2>3, <2>4, <2>5 DEF IndInv
<1> QED BY <1>1, <1>3, <1>4, <1>5 DEF Mp2Exit

LEMMA IndStep == TypeOK /\ IndInv /\ [Next]_vars => IndInv'
<1> SUFFICES ASSUME TypeOK, IndInv, [Next]_vars PROVE IndInv'
  OBVIOUS
<1>1. CASE UNCHANGED vars
  <2>1. Registered' = Registered
    BY <1>1 DEF vars, Registered
  <2> QED BY <1>1, <2>1
          DEF vars, IndInv, ListInv, TargetInv, DispInv, TimerInv, OneRunning
<1>2. ASSUME NEW p \in Pid, MyWrite(p) PROVE IndInv'
  BY <1>2, IndRegister, IndRegisterZero, IndSyscall, IndYield, IndDeregister DEF MyWrite
<1> QED BY <1>1, <1>2, IndDispatcher, IndTimer, IndSyscall, IndExit DEF Next

\* Ownership of the PCBs is kept in every reachable state, for any number of
\* processes and PCBs, on one core or several.
THEOREM OwnershipInvariant == Spec => []IndInv
BY TypeInit, TypeStep, IndInit, IndStep, PTL DEF Spec

\* No thread ever reaches a freed PCB: the list, the dispatcher's scan and
\* currtask, the teardowns and the timers of mp2.c only name allocated ones.
THEOREM MemorySafety == Spec => []NoUseAfterFree
<1>1. TypeOK /\ IndInv => NoUseAfterFree
  BY DEF IndInv, ListInv, TargetInv, DispInv, TimerInv, NoUseAfterFree
<1> QED BY <1>1, TypeCorrect, OwnershipInvariant, PTL

\* deregister() and cleanuplist() never tear down the same PCB twice.
THEOREM FreedOnce == Spec => []NoDoubleFree
<1>1. TypeOK /\ IndInv => NoDoubleFree
  <2> SUFFICES ASSUME TypeOK, IndInv PROVE NoDoubleFree
    OBVIOUS
  <2>1. NULL \notin Registered
    BY ConstAssumption DEF TypeOK, Registered, Range
  <2> QED BY <2>1 DEF IndInv, TargetInv, NoDoubleFree
<1> QED BY <1>1, TypeCorrect, OwnershipInvariant, PTL

\* At most one registered task is RUNNING, and it is currtask.
THEOREM SingleRunner == Spec => []OneRunning
BY OwnershipInvariant, PTL DEF IndInv

-----------------------------------------------------------------------------
(* Preemption                                                              *)

\* While the dispatcher lives, the task it chose last is not SLEEPING:
\* taskyield() lets go of currtask in the critical section that puts it to
\* sleep.  Without this, DispRun could replace a task that never yielded.
CurrAwake ==
  dpc # "exited" /\ currtask # NULL => RMSstate[currtask] # "SLEEPING"

LEMMA AwakeDispatcher ==
  ASSUME TypeOK, IndInv, CurrAwake, Dispatcher
  PROVE  CurrAwake'
<1>1. CASE \/ DispStart \/ DispLock \/ DispScan \/ DispKeep \/ DispPromote
           \/ DispDemote \/ DispSetState \/ DispCheck \/ DispWoken
  <2>1. UNCHANGED <<RMSstate, currtask>> /\ dpc # "exited"
    BY <1>1 DEF DispStart, DispLock, DispScan, DispKeep, DispPromote, DispDemote,
                DispSetState, DispCheck, DispWoken
  <2> QED BY <2>1 DEF CurrAwake
<1>2. CASE DispRun \/ DispPreempt
  <2>1. nexttask # NULL /\ currtask' = nexttask
    BY <1>2 DEF DispRun, DispPreempt, Outranked
  <2>2. nexttask \in Pcb /\ RMSstate \in [Pcb -> RMSStates]
    BY <2>1 DEF TypeOK, PcbOrNull
  <2>3. RMSstate'[nexttask] = "RUNNING"
    BY <1>2, <2>2 DEF DispRun, DispPreempt
  <2> QED BY <2>1, <2>3 DEF CurrAwake
<1> QED BY <1>1, <1>2 DEF Dispatcher

LEMMA AwakeProcess ==
  ASSUME TypeOK, IndInv, CurrAwake, NEW p \in Pid, MyWrite(p) \/ Syscall(p)
  PROVE  CurrAwake'
<1> USE DEF procFrame, locals
<1>1. UNCHANGED dpc
  BY DEF MyWrite, Syscall, TaskRegister, TaskRegisterZero, TaskRegisterOops, TaskYield,
         Deregister, YieldWake, YieldSetState, YieldReturn, DeregDemote, DeregFree,
         DeregFreeNull, DeregWake
<1>2. /\ dpc # "exited" /\ currtask # NULL => currtask \in Registered
      /\ Registered \subseteq slab /\ Registered \subseteq Pcb
  BY DEF IndInv, DispInv, ListInv, TypeOK, Registered, Range
<1>3. ASSUME NEW q, NEW period, NEW comp_time, TaskRegister(p, q, period, comp_time)
      PROVE  CurrAwake'
  <2>1. PICK b \in Pcb \ slab : RMSstate' = [RMSstate EXCEPT ![b] = "SLEEPING"]
    BY <1>3 DEF TaskRegister
  <2>2. UNCHANGED currtask
    BY <1>3 DEF TaskRegister
  <2> QED BY <1>1, <1>2, <2>1, <2>2 DEF CurrAwake, TypeOK
<1>4. CASE TaskYield(p)
  <2>1. PICK i \in DOMAIN mp2list :
          /\ RMSstate' = [RMSstate EXCEPT ![mp2list[i]] = "SLEEPING"]
          /\ currtask' = IF mp2list[i] = currtask THEN NULL ELSE currtask
    BY <1>4 DEF TaskYield
  <2> QED BY <1>1, <1>2, <2>1 DEF CurrAwake, TypeOK
<1>5. ASSUME NEW q, Deregister(p, q) PROVE CurrAwake'
  <2>1. UNCHANGED RMSstate /\ currtask' \in {NULL, currtask}
    BY <1>5 DEF Deregister
  <2> QED BY <1>1, <2>1 DEF CurrAwake
<1>6. CASE DeregFree(p)
  <2>1. /\ UNCHANGED currtask /\ target[p] \notin Registered
        /\ RMSstate' = [RMSstate EXCEPT ![target[p]] = "SLEEPING"]
    BY <1>6 DEF DeregFree, TimerSyncFree, KmemCacheFree, IndInv, TargetInv, TypeOK
  <2> QED BY <1>1, <1>2, <2>1 DEF CurrAwake, TypeOK
<1>7. CASE \/ \E period \in PeriodArg, comp_time \in CompArg :
                TaskRegisterZero(p, period, comp_time)
           \/ TaskRegisterOops(p) \/ YieldWake(p) \/ YieldSetState(p) \/ YieldReturn(p)
           \/ DeregDemote(p) \/ DeregFreeNull(p) \/ DeregWake(p)
  <2>1. UNCHANGED <<RMSstate, currtask>>
    BY <1>7 DEF TaskRegisterZero, TaskRegisterOops, YieldWake, YieldSetState, YieldReturn,
                DeregDemote, DeregFreeNull, DeregWake
  <2> QED BY <1>1, <2>1 DEF CurrAwake
<1> QED BY <1>3, <1>4, <1>5, <1>6, <1>7 DEF MyWrite, Syscall

LEMMA AwakeOthers ==
  ASSUME TypeOK, IndInv, CurrAwake,
         Mp2Exit \/ \E b \in Pcb : TimerExpire(b) \/ Timercb(b)
  PROVE  CurrAwake'
<1>1. UNCHANGED <<currtask, dpc>>
  BY DEF Mp2Exit, ExitStop, ExitStopped, ExitLock, ExitDetach, ExitFree, ExitUnlock,
         ExitDestroy, ExitProcRemove, ExitDone, ExitMove, exitFrame,
         TimerExpire, Timercb, TimerReady, TimerWake, timerFrame
<1>2. CASE ExitFree
  <2>1. dpc = "exited"
    BY <1>2 DEF ExitFree, IndInv, DispInv
  <2> QED BY <1>1, <2>1 DEF CurrAwake
<1>3. ASSUME NEW b \in Pcb, TimerReady(b) PROVE CurrAwake'
  BY <1>1, <1>3 DEF TimerReady, CurrAwake, TypeOK
<1>4. CASE UNCHANGED RMSstate
  BY <1>1, <1>4 DEF CurrAwake
<1> QED BY <1>2, <1>3, <1>4
        DEF Mp2Exit, ExitStop, ExitStopped, ExitLock, ExitDetach, ExitUnlock,
            ExitDestroy, ExitProcRemove, ExitDone, ExitMove,
            TimerExpire, Timercb, TimerWake

LEMMA AwakeStep == TypeOK /\ IndInv /\ CurrAwake /\ [Next]_vars => CurrAwake'
<1> SUFFICES ASSUME TypeOK, IndInv, CurrAwake, [Next]_vars PROVE CurrAwake'
  OBVIOUS
<1>1. CASE UNCHANGED vars
  BY <1>1 DEF vars, CurrAwake
<1> QED BY <1>1, AwakeDispatcher, AwakeProcess, AwakeOthers DEF Next

\* currtask is replaced by another task in dispatcher() only.
LEMMA HandOver ==
  ASSUME TypeOK, IndInv, CurrAwake, [Next]_vars,
         currtask # NULL, currtask' # NULL, currtask' # currtask
  PROVE  /\ pcb[currtask'].period < pcb[currtask].period
         /\ currtask \in Registered /\ RMSstate'[currtask] = "READY"
<1>1. DispRun \/ DispPreempt
  <2>1. CASE UNCHANGED vars
    BY <2>1 DEF vars
  <2>2. CASE Dispatcher
    BY <2>2 DEF Dispatcher, DispStart, DispLock, DispScan, DispKeep, DispPromote,
                DispDemote, DispSetState, DispCheck, DispWoken
  <2>3. ASSUME NEW b \in Pcb, TimerExpire(b) \/ Timercb(b) PROVE FALSE
    BY <2>3 DEF TimerExpire, Timercb, TimerReady, TimerWake, timerFrame
  <2>4. ASSUME NEW p \in Pid, MyWrite(p) PROVE FALSE
    BY <2>4 DEF MyWrite, TaskRegister, TaskRegisterZero, TaskRegisterOops, TaskYield,
                Deregister
  <2>5. ASSUME NEW p \in Pid, Syscall(p) PROVE FALSE
    BY <2>5 DEF Syscall, YieldWake, YieldSetState, YieldReturn, DeregDemote, DeregFree,
                DeregFreeNull, DeregWake
  <2>6. CASE Mp2Exit
    BY <2>6 DEF Mp2Exit, ExitStop, ExitStopped, ExitLock, ExitDetach, ExitFree,
                ExitUnlock, ExitDestroy, ExitProcRemove, ExitDone, ExitMove, exitFrame
  <2> QED BY <2>1, <2>2, <2>3, <2>4, <2>5, <2>6 DEF Next
<1>2. dpc = "scan" /\ currtask \in Registered /\ currtask \in Pcb
  <2>1. dpc = "scan"
    BY <1>1 DEF DispRun, DispPreempt
  <2>2. currtask \in Registered
    BY <2>1 DEF IndInv, DispInv
  <2> QED BY <2>1, <2>2 DEF TypeOK, PcbOrNull
<1>3. CASE DispRun
  BY <1>2, <1>3 DEF DispRun, CurrIdle, CurrAwake
<1>4. CASE DispPreempt
  <2>1. /\ currtask' = nexttask /\ nexttask \in Pcb
        /\ pcb[currtask].period > pcb[nexttask].period
        /\ RMSstate' = [RMSstate EXCEPT ![currtask] = "READY", ![nexttask] = "RUNNING"]
    <3>1. nexttask # NULL
      BY <1>4 DEF DispPreempt, Outranked
    <3>2. nexttask \in Pcb
      BY <3>1 DEF TypeOK, PcbOrNull
    <3> QED BY <1>4, <3>2 DEF DispPreempt, Outranked
  <2>2. pcb[currtask].period \in Nat /\ pcb[nexttask].period \in Nat
    BY <1>2, <2>1, UlongModAssumption DEF TypeOK, TaskRec, Ulongs
  <2>3. pcb[currtask'].period < pcb[currtask].period
    BY <2>1, <2>2
  <2>4. RMSstate'[currtask] = "READY"
    BY <1>2, <2>1 DEF TypeOK
  <2> QED BY <1>2, <2>3, <2>4
<1> QED BY <1>1, <1>3, <1>4

\* Only dispatcher() takes the CPU from a task, and only for a strictly
\* shorter period; the task it displaces stays registered and READY.
THEOREM PreemptionRule == Spec => PreemptOnlyByShorter
<1> DEFINE A == currtask # NULL /\ currtask' # NULL /\ currtask' # currtask =>
                  /\ pcb[currtask'].period < pcb[currtask].period
                  /\ currtask \in Registered /\ RMSstate'[currtask] = "READY"
<1>1. TypeOK /\ IndInv /\ CurrAwake /\ [Next]_vars => A
  BY HandOver
<1>2. Init => CurrAwake
  BY DEF Init, CurrAwake
<1> HIDE DEF A
<1>3. Spec => [][A]_vars
  BY <1>1, <1>2, AwakeStep, TypeCorrect, OwnershipInvariant, PTL DEF Spec
<1> QED BY <1>3 DEF PreemptOnlyByShorter, A

-----------------------------------------------------------------------------
(* Allocation                                                              *)

\* A PCB that is not allocated holds nothing: taskregister() fills in a PCB
\* only after its tests, so the one it drops for a zero argument is blank too.
BlankInv == \A b \in Pcb \ slab : pcb[b] = Blank

LEMMA BlankStep == TypeOK /\ IndInv /\ BlankInv /\ [Next]_vars => BlankInv'
<1> SUFFICES ASSUME TypeOK, IndInv, BlankInv, [Next]_vars PROVE BlankInv'
  OBVIOUS
<1>1. CASE UNCHANGED <<slab, pcb>>
  BY <1>1 DEF BlankInv
<1>2. ASSUME NEW b \in Pcb, KmemCacheFree(b) PROVE BlankInv'
  BY <1>2 DEF KmemCacheFree, BlankInv, TypeOK
<1>3. CASE Dispatcher \/ (\E b \in Pcb : TimerExpire(b) \/ Timercb(b)) \/ UNCHANGED vars
  <2>1. CASE UNCHANGED vars
    BY <1>1, <2>1 DEF vars
  <2>2. CASE Dispatcher
    BY <1>1, <2>2
    DEF Dispatcher, DispStart, DispLock, DispScan, DispKeep, DispRun, DispPreempt,
        DispPromote, DispDemote, DispSetState, DispCheck, DispWoken, dispFrame, listVars
  <2>3. CASE \E b \in Pcb : TimerExpire(b) \/ Timercb(b)
    BY <1>1, <2>3 DEF TimerExpire, Timercb, TimerReady, TimerWake, timerFrame, listVars
  <2> QED BY <1>3, <2>1, <2>2, <2>3
<1>4. ASSUME NEW p \in Pid, MyWrite(p) PROVE BlankInv'
  <2>1. ASSUME NEW q, NEW period, NEW comp_time, TaskRegister(p, q, period, comp_time)
        PROVE  BlankInv'
    BY <2>1 DEF TaskRegister, BlankInv, TypeOK
  <2>2. ASSUME NEW period, NEW comp_time, TaskRegisterZero(p, period, comp_time)
        PROVE  BlankInv'
    BY <2>2 DEF TaskRegisterZero, BlankInv
  <2>3. ASSUME NEW q, Deregister(p, q) PROVE BlankInv'
    BY <1>1, <2>3 DEF Deregister
  <2>4. CASE TaskRegisterOops(p) \/ TaskYield(p)
    BY <1>1, <2>4 DEF TaskRegisterOops, TaskYield, listVars
  <2> QED BY <1>4, <2>1, <2>2, <2>3, <2>4 DEF MyWrite
<1>5. ASSUME NEW p \in Pid, Syscall(p) PROVE BlankInv'
  <2>1. CASE DeregFree(p)
    <3>1. target[p] \in Pcb
      BY <2>1 DEF DeregFree, IndInv, TargetInv, TypeOK
    <3> QED BY <1>2, <2>1, <3>1 DEF DeregFree, TimerSyncFree
  <2>2. CASE \/ YieldWake(p) \/ YieldSetState(p) \/ YieldReturn(p) \/ DeregDemote(p)
             \/ DeregFreeNull(p) \/ DeregWake(p)
    BY <1>1, <2>2
    DEF YieldWake, YieldSetState, YieldReturn, DeregDemote, DeregFreeNull, DeregWake, listVars
  <2> QED BY <1>5, <2>1, <2>2 DEF Syscall
<1>6. CASE Mp2Exit
  <2>1. CASE ExitFree
    <3>1. etarget \in Pcb
      BY <2>1 DEF ExitFree, IndInv, TargetInv, TypeOK
    <3> QED BY <1>2, <2>1, <3>1 DEF ExitFree, TimerSyncFree
  <2>2. CASE \/ ExitStop \/ ExitStopped \/ ExitLock \/ ExitDetach \/ ExitUnlock
             \/ ExitDestroy \/ ExitProcRemove \/ ExitDone
    BY <1>1, <2>2
    DEF ExitStop, ExitStopped, ExitLock, ExitDetach, ExitUnlock, ExitDestroy,
        ExitProcRemove, ExitDone, ExitMove, listVars
  <2> QED BY <1>6, <2>1, <2>2 DEF Mp2Exit
<1> QED BY <1>3, <1>4, <1>5, <1>6 DEF Next

LEMMA LeakQuiet ==
  ASSUME TypeOK, OnlyKnownLeaks,
         UNCHANGED <<mp2list, slab, pcb, late, target, etarget>>,
         Cleaned' => Cleaned \/ mp2list = << >>
  PROVE  OnlyKnownLeaks'
<1>1. Registered' = Registered
  BY DEF Registered
<1>2. mp2list = << >> => Registered = {}
  BY DEF Registered, Range
<1> QED BY <1>1, <1>2 DEF OnlyKnownLeaks

\* The steps of my_write() that change the list or the slab.
LEMMA LeakCommand ==
  ASSUME TypeOK, IndInv, BlankInv, OnlyKnownLeaks, NEW p \in Pid,
         \/ \E q, period, comp_time : TaskRegister(p, q, period, comp_time)
         \/ \E period, comp_time : TaskRegisterZero(p, period, comp_time)
         \/ \E q : Deregister(p, q)
         \/ DeregFree(p) \/ DeregFreeNull(p)
  PROVE  OnlyKnownLeaks'
<1>1. Cleaned' = Cleaned /\ etarget' = etarget
  BY DEF TaskRegister, TaskRegisterZero, Deregister, DeregFree, DeregFreeNull, procFrame, Cleaned
<1>2. ASSUME NEW q, NEW period, NEW comp_time, TaskRegister(p, q, period, comp_time)
      PROVE  OnlyKnownLeaks'
  <2>1. PICK b \in Pcb \ slab : /\ mp2list' = Append(mp2list, b) /\ slab' = slab \cup {b}
                                /\ late' = IF Cleaned THEN late \cup {b} ELSE late
                                /\ \A c \in Pcb \ {b} : pcb'[c] = pcb[c]
    BY <1>2 DEF TaskRegister, TypeOK
  <2>2. Registered' = Registered \cup {b}
    BY <2>1, AppendEntries DEF Registered, IndInv, ListInv, TypeOK
  <2>3. UNCHANGED target
    BY <1>2 DEF TaskRegister
  <2> QED BY <1>1, <2>1, <2>2, <2>3 DEF OnlyKnownLeaks, TypeOK
<1>3. ASSUME NEW period, NEW comp_time, TaskRegisterZero(p, period, comp_time)
      PROVE  OnlyKnownLeaks'
  <2>1. PICK b \in Pcb \ slab : slab' = slab \cup {b}
    BY <1>3 DEF TaskRegisterZero
  <2>2. UNCHANGED <<mp2list, pcb, late, target>>
    BY <1>3 DEF TaskRegisterZero
  <2>3. pcb[b] = Blank
    BY <2>1 DEF BlankInv
  <2>4. Registered' = Registered
    BY <2>2 DEF Registered
  <2> QED BY <1>1, <2>1, <2>2, <2>3, <2>4 DEF OnlyKnownLeaks
<1>4. ASSUME NEW q, Deregister(p, q) PROVE OnlyKnownLeaks'
  <2>1. PICK i \in DOMAIN mp2list :
          /\ mp2list' = DelAt(mp2list, i)
          /\ target' = [target EXCEPT ![p] = mp2list[i]]
    BY <1>4 DEF Deregister
  <2>2. UNCHANGED <<slab, pcb, late>> /\ pc[p] = "user"
    BY <1>4 DEF Deregister, InUser
  <2>3. Registered' = Registered \ {mp2list[i]}
    BY <2>1, DelAtEntries DEF Registered, IndInv, ListInv, TypeOK
  <2>4. target[p] = NULL /\ NULL \notin slab
    BY <2>2, ConstAssumption DEF IndInv, TargetInv, TypeOK
  <2>5. target'[p] = mp2list[i] /\ \A r \in Pid \ {p} : target'[r] = target[r]
    BY <2>1 DEF TypeOK
  <2>6. ASSUME NEW b \in slab \ late, b # etarget, pcb[b] # Blank
        PROVE  (b \in Registered' /\ ~Cleaned) \/ \E r \in Pid : b = target'[r]
    <3>1. CASE b = mp2list[i]
      BY <2>5, <3>1
    <3>2. CASE b \in Registered /\ ~Cleaned /\ b # mp2list[i]
      BY <2>3, <3>2
    <3>3. ASSUME NEW r \in Pid, b = target[r] PROVE \E u \in Pid : b = target'[u]
      BY <2>4, <2>5, <3>3
    <3> QED BY <2>6, <3>1, <3>2, <3>3 DEF OnlyKnownLeaks
  <2> QED BY <1>1, <2>2, <2>6 DEF OnlyKnownLeaks
<1>5. CASE DeregFree(p) \/ DeregFreeNull(p)
  <2>1. /\ slab' \ late' \subseteq (slab \ late) \ {target[p]}
        /\ target' = [target EXCEPT ![p] = NULL] /\ UNCHANGED mp2list
        /\ \A b \in Pcb : b # target[p] => pcb'[b] = pcb[b]
    BY <1>5 DEF DeregFree, DeregFreeNull, TimerSyncFree, KmemCacheFree, TypeOK
  <2>2. \A r \in Pid \ {p} : target'[r] = target[r]
    BY <2>1 DEF TypeOK
  <2>3. Registered' = Registered
    BY <2>1 DEF Registered
  <2> QED BY <1>1, <2>1, <2>2, <2>3 DEF OnlyKnownLeaks, TypeOK
<1> QED BY <1>2, <1>3, <1>4, <1>5

LEMMA LeakStep ==
  TypeOK /\ IndInv /\ BlankInv /\ OnlyKnownLeaks /\ [Next]_vars => OnlyKnownLeaks'
<1> SUFFICES ASSUME TypeOK, IndInv, BlankInv, OnlyKnownLeaks, [Next]_vars
             PROVE  OnlyKnownLeaks'
  OBVIOUS
<1>1. CASE UNCHANGED vars
  BY <1>1, LeakQuiet DEF vars, Cleaned
<1>2. CASE Dispatcher
  BY <1>2, LeakQuiet
  DEF Dispatcher, DispStart, DispLock, DispScan, DispKeep, DispRun, DispPreempt, DispPromote,
      DispDemote, DispSetState, DispCheck, DispWoken, dispFrame, listVars, Cleaned
<1>3. ASSUME NEW b \in Pcb, TimerExpire(b) \/ Timercb(b) PROVE OnlyKnownLeaks'
  BY <1>3, LeakQuiet
  DEF TimerExpire, Timercb, TimerReady, TimerWake, timerFrame, listVars, Cleaned
<1>4. ASSUME NEW p \in Pid, MyWrite(p) PROVE OnlyKnownLeaks'
  <2>1. CASE TaskYield(p) \/ TaskRegisterOops(p)
    BY <2>1, LeakQuiet DEF TaskYield, TaskRegisterOops, listVars, procFrame, Cleaned
  <2> QED BY <1>4, <2>1, LeakCommand DEF MyWrite
<1>5. ASSUME NEW p \in Pid, Syscall(p) PROVE OnlyKnownLeaks'
  <2>1. CASE YieldWake(p) \/ YieldSetState(p) \/ YieldReturn(p) \/ DeregDemote(p) \/ DeregWake(p)
    BY <2>1, LeakQuiet
    DEF YieldWake, YieldSetState, YieldReturn, DeregDemote, DeregWake, listVars, procFrame,
        Cleaned
  <2> QED BY <1>5, <2>1, LeakCommand DEF Syscall
<1>6. CASE ExitDetach
  <2>1. /\ mp2list # << >> /\ mp2list' = Tail(mp2list) /\ etarget' = Head(mp2list)
        /\ UNCHANGED <<slab, pcb, late, target>> /\ epc = "cleaning" /\ ~Cleaned'
    BY <1>6 DEF ExitDetach, exitFrame, Cleaned
  <2>2. Registered' = Registered \ {Head(mp2list)}
    BY <2>1, TailEntries DEF Registered, IndInv, ListInv, TypeOK
  <2>3. etarget = NULL /\ NULL \notin slab
    BY <2>1, ConstAssumption DEF IndInv, TargetInv, TypeOK
  <2> QED BY <2>1, <2>2, <2>3 DEF OnlyKnownLeaks
<1>7. CASE ExitFree
  <2>1. /\ slab' = slab \ {etarget} /\ late' = late \ {etarget} /\ etarget' = NULL
        /\ UNCHANGED <<mp2list, target>> /\ ~Cleaned'
        /\ \A b \in Pcb : b # etarget => pcb'[b] = pcb[b]
    BY <1>7 DEF ExitFree, TimerSyncFree, KmemCacheFree, exitFrame, Cleaned, TypeOK
  <2>2. Registered' = Registered
    BY <2>1 DEF Registered
  <2> QED BY <2>1, <2>2 DEF OnlyKnownLeaks, TypeOK
<1>8. CASE \/ ExitStop \/ ExitStopped \/ ExitLock \/ ExitUnlock \/ ExitDestroy
           \/ ExitProcRemove \/ ExitDone
  BY <1>8, LeakQuiet
  DEF ExitStop, ExitStopped, ExitLock, ExitUnlock, ExitDestroy, ExitProcRemove, ExitDone,
      ExitMove, listVars, exitFrame, Cleaned
<1> QED BY <1>1, <1>2, <1>3, <1>4, <1>5, <1>6, <1>7, <1>8 DEF Next, Mp2Exit

\* taskregister(), deregister() and mp2_exit(), for any arguments, processes and
\* PCBs: a PCB is lost by the return for a zero argument or by a command that
\* gets in after cleanuplist(), and in no other way.
THEOREM LeaksAreKnown == Spec => []OnlyKnownLeaks
<1>1. Init => OnlyKnownLeaks /\ BlankInv
  BY DEF Init, OnlyKnownLeaks, BlankInv
<1> QED BY <1>1, BlankStep, LeakStep, TypeCorrect, OwnershipInvariant, PTL DEF Spec
=============================================================================
