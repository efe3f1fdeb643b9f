--------------------------- MODULE ProfilerProofs ---------------------------
(***************************************************************************)
(* Proofs about the work item and the list of the page fault profiler, and *)
(* about the groups of four slots in its sample buffer, for any set of     *)
(* pids and writers and any buffer size that is a multiple of four.        *)
(***************************************************************************)
EXTENDS Profiler, ListLemmas

USE ProfilerAssumption

\* mp3_exit(): monitors are over before it begins, nothing is queued while it
\* cancels the work, and afterwards only a late R brings the work back.
Stopped ==
  /\ epc # "loaded" => mpc = "closed"
  /\ epc = "wait" => work = "idle"
  /\ ~late /\ Cancelled => work = "idle" /\ wpc = "idle"
  /\ Rmmod \in cancelling <=> epc = "wait"
  /\ \A w \in Writer : w \in cancelling => pc[w] = "wait"

\* workhandler(): the pids still to sample are registered, and while none of
\* the sampled ones was alive every registered pid is still to be sampled.
\* Storing a sample begins with its first field.
Scanned ==
  /\ wpc = "lock" => ~found
  /\ (wpc \in {"lock", "scan"} => stored = 0) /\ (wpc = "store" => stored < 4)
  /\ wpc = "scan" => IsInjective(rest) /\ Range(rest) \subseteq Range(mp3head)
  /\ wpc = "scan" /\ ~found => Range(mp3head) \subseteq Range(rest)

\* With a process registered and no overlap, no U is cancelling, and the work
\* is pending, running, or about to be queued.
Kept ==
  ~raced /\ mp3head # << >> =>
    /\ \A w \in Writer : pc[w] \notin {"cancel", "wait"}
    /\ epc = "loaded" => Sampling \/ \E w \in Writer : pc[w] = "queue"

ProfilerInv == TypeOK /\ Stopped /\ Scanned /\ Kept

\* indx%=48000: the next slot, and the first one after the last.
LEMMA IncSlot ==
  ASSUME NEW i \in Slot
  PROVE  Inc(i) \in Slot /\ Inc(i) = IF i + 1 = BufMax THEN 0 ELSE i + 1
BY DEF Slot, Inc

LEMMA StampStep ==
  ASSUME NEW k \in 0 .. Stamps - 1
  PROVE  (k + 1) % Stamps \in 0 .. Stamps - 1
OBVIOUS

LEMMA NoEntries ==
  ASSUME NEW S, NEW s \in Seq(S), Range(s) = {}
  PROVE  s = << >>
BY TailSubset

LEMMA ProfilerInit == Init => ProfilerInv
<1> SUFFICES ASSUME Init PROVE ProfilerInv
  OBVIOUS
<1>1. found \in BOOLEAN /\ raced \in BOOLEAN /\ late \in BOOLEAN
  BY DEF Init
<1>2. IsInjective(mp3head) /\ mp3head \in Seq(Pid) /\ rest \in Seq(Pid) /\ line \in Seq(Field \cup {EMPTY})
  BY DEF Init, IsInjective
<1>3. TypeOK
  BY <1>1, <1>2 DEF Init, TypeOK, Slot, Field
<1> QED BY <1>3 DEF Init, ProfilerInv, Stopped, Cancelled, Scanned, Kept

-----------------------------------------------------------------------------
(* The work item.                                                          *)

LEMMA WorkControl ==
  ASSUME ProfilerInv, DelayExpires \/ WorkStart \/ WorkLock \/ WorkUnlock \/ WorkRearm
  PROVE  ProfilerInv'
<1> USE DEF ProfilerInv, Cancelled, workVars, bufVars, monitorVars
<1>1. CASE DelayExpires
  BY <1>1 DEF DelayExpires, WqDestroyed, TypeOK, Stopped, Scanned, Kept, Sampling
<1>2. CASE WorkStart
  <2>1. stamp' \in 0 .. Stamps - 1
    BY <1>2, StampStep DEF WorkStart, TypeOK
  <2>2. found' \in BOOLEAN /\ ~found'
    BY <1>2 DEF WorkStart
  <2>3. TypeOK'
    BY <1>2, <2>1, <2>2 DEF WorkStart, TypeOK
  <2> QED BY <1>2, <2>2, <2>3 DEF WorkStart, Stopped, Scanned, Kept, Sampling
<1>3. CASE WorkLock
  <2>1. TypeOK'
    BY <1>3 DEF WorkLock, TypeOK
  <2> QED BY <1>3, <2>1 DEF WorkLock, TypeOK, Stopped, Scanned, Kept, Sampling
<1>4. CASE WorkUnlock
  <2>1. TypeOK'
    BY <1>4 DEF WorkUnlock, TypeOK
  <2>2. ~found => mp3head = << >>
    BY <1>4, NoEntries DEF WorkUnlock, Scanned, TypeOK, Range
  <2>3. Kept'
    BY <1>4, <2>2 DEF WorkUnlock, Kept, Sampling
  <2> QED BY <1>4, <2>1, <2>3 DEF WorkUnlock, Stopped, Scanned
<1>5. CASE WorkRearm
  <2>1. TypeOK'
    BY <1>5 DEF WorkRearm, ModDelayedWork, TypeOK
  <2>2. ~raced /\ mp3head # << >> /\ epc = "loaded" => cancelling = {}
    BY DEF Kept, Stopped, TypeOK
  <2>3. Kept'
    BY <1>5, <2>2 DEF WorkRearm, ModDelayedWork, Kept, Sampling
  <2>4. Stopped'
    BY <1>5 DEF WorkRearm, ModDelayedWork, Stopped, TypeOK
  <2> QED BY <1>5, <2>1, <2>3, <2>4 DEF WorkRearm, Scanned
<1> QED BY <1>1, <1>2, <1>3, <1>4, <1>5

LEMMA SampleStep ==
  ASSUME ProfilerInv, WorkSample
  PROVE  ProfilerInv'
<1> USE DEF ProfilerInv, Cancelled, workVars, bufVars, monitorVars
<1> DEFINE h == Head(rest)
<1>1. /\ wpc = "scan" /\ rest # << >> /\ rest' = Tail(rest)
      /\ found' = (found \/ h \in alive)
      /\ mp3head' = IF h \in alive THEN mp3head ELSE Del(mp3head, h)
      /\ raced' = (raced /\ mp3head' # << >>)
      /\ UNCHANGED <<work, cancelling, wpc, stamp, stored, gbuffer, indx, pc, alive,
                     late, mpc, index, line, epc>>
  BY DEF WorkSample
<1>2. /\ rest' \in Seq(Pid) /\ IsInjective(rest') /\ h \in Range(mp3head)
      /\ Range(rest') = Range(rest) \ {h}
  BY <1>1, TailEntries DEF TypeOK, Scanned
<1> HIDE DEF h
<1>3. /\ mp3head' \in Seq(Pid) /\ IsInjective(mp3head')
      /\ Range(mp3head') = IF h \in alive THEN Range(mp3head) ELSE Range(mp3head) \ {h}
  BY <1>1, <1>2, DelEntries DEF TypeOK
<1>4. found' \in BOOLEAN /\ raced' \in BOOLEAN
  BY <1>1 DEF TypeOK
<1>5. TypeOK'
  BY <1>1, <1>2, <1>3, <1>4 DEF TypeOK
<1>6. mp3head # << >>
  BY <1>2 DEF Range
<1>7. Kept'
  BY <1>1, <1>6 DEF Kept, Sampling
<1>8. Scanned'
  BY <1>1, <1>2, <1>3 DEF Scanned
<1> QED BY <1>1, <1>5, <1>7, <1>8 DEF Stopped

LEMMA StoreStep ==
  ASSUME ProfilerInv, WorkStore
  PROVE  ProfilerInv'
<1> USE DEF ProfilerInv, Cancelled, monitorVars
<1>1. stored' \in 1 .. 4 /\ stored + 1 \in 1 .. 4 /\ (wpc' = "store" => stored' < 4)
  BY DEF WorkStore, TypeOK, Scanned
<1>2. gbuffer' \in [Slot -> Field \cup {EMPTY}] /\ indx' \in Slot
  <2>1. <<stamp, stored + 1>> \in Field
    BY <1>1 DEF Field, TypeOK
  <2> QED BY <2>1, IncSlot DEF WorkStore, TypeOK
<1>3. TypeOK'
  BY <1>1, <1>2 DEF WorkStore, TypeOK
<1>4. Stopped' /\ Kept'
  BY DEF WorkStore, Stopped, Kept, Sampling
<1>5. Scanned'
  BY <1>1 DEF WorkStore, Scanned
<1> QED BY <1>3, <1>4, <1>5

-----------------------------------------------------------------------------
(* The commands.                                                           *)

LEMMA RegisterStep ==
  ASSUME ProfilerInv, NEW w \in Writer, NEW pid \in Pid, TaskRegister(w, pid)
  PROVE  ProfilerInv'
<1> USE DEF ProfilerInv, Cancelled, workVars, bufVars, monitorVars, WriterFrame
<1>1. /\ pc[w] = "idle" /\ wpc # "scan" /\ pid \notin Range(mp3head)
      /\ mp3head' = Append(mp3head, pid)
      /\ pc' = [pc EXCEPT ![w] = IF mp3head = << >> THEN "queue" ELSE "idle"]
      /\ raced' = (raced \/ \E v \in Writer : pc[v] \in {"cancel", "wait"})
      /\ UNCHANGED <<work, cancelling, wpc, rest, found, stamp, stored, gbuffer, indx, alive,
                     late, mpc, index, line, epc>>
  BY DEF TaskRegister, MutexFree
<1>2. mp3head' \in Seq(Pid) /\ IsInjective(mp3head')
  BY <1>1, AppendEntries DEF TypeOK
<1>3. raced' \in BOOLEAN
  BY <1>1 DEF TypeOK
<1>4. pc' \in [Writer -> {"idle", "queue", "cancel", "wait", "oops"}]
  BY <1>1 DEF TypeOK
<1>5. TypeOK'
  BY <1>1, <1>2, <1>3, <1>4 DEF TypeOK
<1>6. Kept'
  <2> SUFFICES ASSUME ~raced'
               PROVE  /\ \A v \in Writer : pc'[v] \notin {"cancel", "wait"}
                      /\ epc = "loaded" => Sampling' \/ \E v \in Writer : pc'[v] = "queue"
    BY <1>1 DEF Kept
  <2>1. \A v \in Writer : pc'[v] \notin {"cancel", "wait"}
    BY <1>1 DEF TypeOK
  <2>2. epc = "loaded" => Sampling' \/ \E v \in Writer : pc'[v] = "queue"
    BY <1>1 DEF TypeOK, Kept, Sampling
  <2> QED BY <2>1, <2>2
<1>7. Stopped' /\ Scanned'
  BY <1>1 DEF Stopped, Scanned, TypeOK
<1> QED BY <1>5, <1>6, <1>7

LEMMA DeregisterStep ==
  ASSUME ProfilerInv, NEW w \in Writer, NEW pid \in Pid, Deregister(w, pid)
  PROVE  ProfilerInv'
<1> USE DEF ProfilerInv, Cancelled, workVars, bufVars, monitorVars, WriterFrame
<1>1. /\ pc[w] = "idle" /\ wpc # "scan" /\ pid \in Range(mp3head)
      /\ mp3head' = Del(mp3head, pid)
      /\ pc' = [pc EXCEPT ![w] = IF mp3head' = << >> THEN "cancel" ELSE "idle"]
      /\ raced' = (raced /\ mp3head' # << >>)
      /\ UNCHANGED <<work, cancelling, wpc, rest, found, stamp, stored, gbuffer, indx, alive,
                     late, mpc, index, line, epc>>
  BY DEF Deregister, MutexFree
<1>2. mp3head' \in Seq(Pid) /\ IsInjective(mp3head')
  BY <1>1, DelEntries DEF TypeOK
<1>3. raced' \in BOOLEAN
  BY <1>1 DEF TypeOK
<1>4. pc' \in [Writer -> {"idle", "queue", "cancel", "wait", "oops"}]
  BY <1>1 DEF TypeOK
<1>5. TypeOK'
  BY <1>1, <1>2, <1>3, <1>4 DEF TypeOK
<1>6. mp3head # << >>
  BY <1>1 DEF Range
<1>7. Kept'
  BY <1>1, <1>6 DEF Kept, Sampling, TypeOK
<1>8. Stopped' /\ Scanned'
  BY <1>1 DEF Stopped, Scanned, TypeOK
<1> QED BY <1>5, <1>7, <1>8

LEMMA WriterStep ==
  ASSUME ProfilerInv, NEW w \in Writer, WriterRuns(w)
  PROVE  ProfilerInv'
<1> USE DEF ProfilerInv, Cancelled, workVars, bufVars, monitorVars, WriterFrame
<1>1. CASE RegisterQueue(w)
  <2>1. /\ pc[w] = "queue" /\ pc' = [pc EXCEPT ![w] = "idle"] /\ QueueDelayedWork
        /\ late' = (late \/ Cancelled)
        /\ UNCHANGED <<mp3head, cancelling, raced, wpc, rest, found, stamp, stored, gbuffer,
                       indx, alive, mpc, index, line, epc>>
    BY <1>1 DEF RegisterQueue
  <2>2. late' \in BOOLEAN /\ pc' \in [Writer -> {"idle", "queue", "cancel", "wait", "oops"}]
    BY <2>1 DEF TypeOK
  <2>3. TypeOK'
    BY <2>1, <2>2 DEF TypeOK, QueueDelayedWork
  <2>4. ~raced /\ mp3head # << >> /\ epc = "loaded" => cancelling = {}
    BY DEF Kept, Stopped, TypeOK
  <2>5. Kept'
    BY <2>1, <2>4 DEF Kept, QueueDelayedWork, Sampling, TypeOK
  <2>6. Stopped' /\ Scanned'
    BY <2>1 DEF Stopped, Scanned, QueueDelayedWork, TypeOK
  <2> QED BY <2>3, <2>5, <2>6
<1>4. CASE RegisterFaults(w)
  <2>1. /\ pc[w] = "queue" /\ pc' = [pc EXCEPT ![w] = "oops"] /\ late' = TRUE
        /\ epc # "loaded"
        /\ UNCHANGED <<mp3head, work, cancelling, raced, wpc, rest, found, stamp, stored,
                       gbuffer, indx, alive, mpc, index, line, epc>>
    BY <1>4 DEF RegisterFaults, WqDestroyed
  <2>2. TypeOK'
    BY <2>1 DEF TypeOK
  <2> QED BY <2>1, <2>2 DEF Stopped, Scanned, Kept, TypeOK
<1>2. CASE DeregisterCancel(w)
  <2>1. /\ pc[w] = "cancel" /\ pc' = [pc EXCEPT ![w] = "wait"]
        /\ work' = "idle" /\ cancelling' = cancelling \cup {w}
        /\ UNCHANGED <<mp3head, raced, wpc, rest, found, stamp, stored, gbuffer,
                       indx, alive, late, mpc, index, line, epc>>
    BY <1>2 DEF DeregisterCancel, CancelGrab
  <2>2. TypeOK'
    BY <2>1 DEF TypeOK
  <2>3. Kept'
    BY <2>1 DEF Kept
  <2>4. Stopped' /\ Scanned'
    BY <2>1 DEF Stopped, Scanned, TypeOK
  <2> QED BY <2>2, <2>3, <2>4
<1>3. CASE DeregisterWait(w)
  <2>1. /\ pc[w] = "wait" /\ pc' = [pc EXCEPT ![w] = "idle"]
        /\ cancelling' = cancelling \ {w}
        /\ UNCHANGED <<mp3head, work, raced, wpc, rest, found, stamp, stored, gbuffer,
                       indx, alive, late, mpc, index, line, epc>>
    BY <1>3 DEF DeregisterWait, CancelWait
  <2>2. TypeOK'
    BY <2>1 DEF TypeOK
  <2>3. Kept'
    BY <2>1 DEF Kept
  <2>4. Stopped' /\ Scanned'
    BY <2>1 DEF Stopped, Scanned, TypeOK
  <2> QED BY <2>2, <2>3, <2>4
<1> QED BY <1>1, <1>2, <1>3, <1>4 DEF WriterRuns

-----------------------------------------------------------------------------
(* Processes, the monitor and unloading.                                   *)

LEMMA ProcessLives ==
  ASSUME ProfilerInv, NEW pid \in Pid, ProcessStep(pid)
  PROVE  ProfilerInv'
BY DEF ProfilerInv, ProcessStep, workVars, bufVars, monitorVars, TypeOK, Stopped, Cancelled,
       Scanned, Kept, Sampling

LEMMA MonitorStep ==
  ASSUME ProfilerInv, BufInit \/ Monitor
  PROVE  ProfilerInv'
<1> USE DEF ProfilerInv, Cancelled, workVars, bufVars, MonitorFrame
<1>1. /\ UNCHANGED <<mp3head, work, cancelling, wpc, rest, found, stamp, stored, indx, pc,
                     alive, raced, late, epc>>
  BY DEF BufInit, Monitor, MonitorFind, MonitorTest, MonitorPrint, MonitorClear
<1>2. epc = "loaded"
  BY DEF BufInit, Monitor, MonitorFind, MonitorTest, MonitorPrint, MonitorClear, Stopped
<1>3. 0 \in Slot
  BY DEF Slot
<1>4. gbuffer' \in [Slot -> Field \cup {EMPTY}]
  BY DEF BufInit, Monitor, MonitorFind, MonitorTest, MonitorPrint, MonitorClear, TypeOK
<1>5. index' \in Slot /\ mpc' \in {"closed", "find", "test", "print", "clear"}
  BY <1>3, IncSlot
  DEF BufInit, Monitor, MonitorFind, MonitorTest, MonitorPrint, MonitorClear, TypeOK
<1>6. line' \in Seq(Field \cup {EMPTY})
  <2>1. CASE MonitorPrint
    <3>1. line' = Append(line, gbuffer[index]) /\ gbuffer[index] \in Field \cup {EMPTY}
      BY <2>1 DEF MonitorPrint, TypeOK
    <3> QED BY <3>1, AppendProperties DEF TypeOK
  <2>2. CASE BufInit \/ MonitorTest
    <3>1. line' = << >>
      BY <2>2 DEF BufInit, MonitorTest
    <3> QED BY <3>1
  <2>3. CASE MonitorFind \/ MonitorClear
    BY <2>3 DEF MonitorFind, MonitorClear, TypeOK
  <2> QED BY <2>1, <2>2, <2>3 DEF Monitor
<1>7. TypeOK'
  BY <1>1, <1>4, <1>5, <1>6 DEF TypeOK
<1> QED BY <1>1, <1>2, <1>7 DEF Stopped, Scanned, Kept, Sampling

LEMMA ExitStep ==
  ASSUME ProfilerInv, ModuleExit
  PROVE  ProfilerInv'
<1> USE DEF ProfilerInv, Cancelled, workVars, bufVars, monitorVars, ExitMove
<1>1. CASE ExitBegin
  BY <1>1 DEF ExitBegin, TypeOK, Stopped, Scanned, Kept
<1>2. CASE ExitCancel
  BY <1>2 DEF ExitCancel, CancelGrab, TypeOK, Stopped, Scanned, Kept
<1>3. CASE ExitWait
  BY <1>3 DEF ExitWait, CancelWait, TypeOK, Stopped, Scanned, Kept
<1>4. CASE ExitDestroy \/ ExitProcRemove \/ ExitDone
  BY <1>4 DEF ExitDestroy, ExitProcRemove, ExitDone, TypeOK, Stopped, Scanned, Kept
<1>5. CASE ExitClean
  <2>1. mp3head' \in Seq(Pid) /\ IsInjective(mp3head')
    BY <1>5 DEF ExitClean, IsInjective
  <2> QED BY <1>5, <2>1 DEF ExitClean, MutexFree, TypeOK, Stopped, Scanned, Kept
<1> QED BY <1>1, <1>2, <1>3, <1>4, <1>5 DEF ModuleExit

LEMMA ProfilerStep == ProfilerInv /\ [Next]_vars => ProfilerInv'
<1> SUFFICES ASSUME ProfilerInv, [Next]_vars PROVE ProfilerInv'
  OBVIOUS
<1>1. CASE UNCHANGED vars
  BY <1>1 DEF vars, ProfilerInv, TypeOK, Stopped, Cancelled, Scanned, Kept, Sampling
<1>2. CASE Next
  BY <1>2, WorkControl, SampleStep, StoreStep, RegisterStep, DeregisterStep, WriterStep,
     ProcessLives, MonitorStep, ExitStep
  DEF Next, Workhandler
<1> QED BY <1>1, <1>2

\* The invariant behind the properties of the work item holds in every state.
THEOREM ProfilerInvariant == Spec => []ProfilerInv
BY ProfilerInit, ProfilerStep, PTL DEF Spec

\* For any pids, writers and buffer size, every variable of mp3.c and
\* monitor.c keeps its type, and no pid is listed twice.
THEOREM ProfilerTypes == Spec => []TypeOK
BY ProfilerInvariant, PTL DEF ProfilerInv

\* mp3_exit() and my_write(): with any number of writers, the workqueue and the
\* buffer are used after they are freed only if an R queued the work after the
\* cancel of mp3_exit().
THEOREM OnlyLateUsesFreed == Spec => []FreedUnusedUnlessLate
<1>1. ProfilerInv => FreedUnusedUnlessLate
  BY DEF ProfilerInv, TypeOK, Stopped, FreedUnusedUnlessLate, WqDestroyed, Cancelled
<1> QED BY <1>1, ProfilerInvariant, PTL

\* taskregister(), deregister() and workhandler(): with any number of writers,
\* a registered process is sampled unless an R overlapped the cancel of a U.
THEOREM SamplingIsKept == Spec => []SamplingRunsUnlessRaced
<1>1. ProfilerInv => SamplingRunsUnlessRaced
  BY DEF ProfilerInv, Kept, SamplingRunsUnlessRaced, SamplingRuns, Quiescent
<1> QED BY <1>1, ProfilerInvariant, PTL

-----------------------------------------------------------------------------
(* The sample buffer: groups of four slots, when the monitor runs only     *)
(* while nothing is sampled.  Base(i) is where the group of slot i starts. *)

Base(i) == i - (i % 4)
Stamp   == 0 .. Stamps - 1

Blank(g, m, n)    == \A i \in m .. n : gbuffer[g + i - 1] = EMPTY
Holds(g, k, m, n) == \A i \in m .. n : gbuffer[g + i - 1] = <<k, i>>
Whole(g) == Blank(g, 1, 4) \/ \E k \in Stamp : Holds(g, k, 1, 4)

AllWholeBut(E) == \A g \in Slot \ E : g % 4 = 0 => Whole(g)

\* The monitor and sampling do not overlap.
Apart ==
  mpc # "closed" => /\ mp3head = << >> /\ work = "idle" /\ wpc = "idle"
                    /\ \A w \in Writer : pc[w] = "idle"

\* workhandler(): only the group being stored may be incomplete.
Storing ==
  /\ wpc = "store" => /\ indx % 4 = stored /\ AllWholeBut({Base(indx)})
                      /\ Holds(Base(indx), stamp, 1, stored)
  /\ wpc # "store" => indx % 4 = 0

\* The monitor: it stops its search at the start of a group, and clears the
\* group whose fields it prints.
Reading ==
  /\ wpc # "store" /\ mpc \notin {"print", "clear"} => AllWholeBut({})
  /\ mpc = "find" => \A i \in Slot : i < index => gbuffer[i] = EMPTY
  /\ mpc = "test" => index % 4 = 0
  /\ mpc = "print" => Len(line) = index % 4
  /\ mpc = "clear" => Len(line) = (index % 4) + 1
  /\ mpc \in {"print", "clear"} =>
       /\ AllWholeBut({Base(index)}) /\ Blank(Base(index), 1, index % 4)
       /\ \E k \in Stamp : /\ Holds(Base(index), k, (index % 4) + 1, 4)
                           /\ \A i \in DOMAIN line : line[i] = <<k, i>>

BufferInv == Apart /\ Storing /\ Reading /\ MonitorPrintsSamples

LEMMA BaseFacts ==
  ASSUME NEW i \in Slot
  PROVE  /\ i % 4 \in 0 .. 3 /\ Base(i) \in Slot /\ Base(i) % 4 = 0
         /\ Base(i) + 3 \in Slot /\ i = Base(i) + (i % 4)
         /\ i % 4 = 0 => Base(i) = i
BY DEF Base, Slot

LEMMA NextSlot ==
  ASSUME NEW i \in Slot
  PROVE  /\ i % 4 = 3 => Inc(i) % 4 = 0
         /\ i % 4 < 3 => /\ Inc(i) % 4 = (i % 4) + 1
                         /\ Base(Inc(i)) = Base(i)
<1>1. Inc(i) = IF i + 1 = BufMax THEN 0 ELSE i + 1
  BY IncSlot
<1>2. i \in Nat /\ i < BufMax
  BY DEF Slot
<1>3. i + 1 = BufMax => i % 4 = 3
  BY <1>2
<1>4. i % 4 = 3 => (i + 1) % 4 = 0
  BY <1>2
<1>5. i % 4 < 3 => (i + 1) % 4 = (i % 4) + 1
  BY <1>2
<1>6. 0 % 4 = 0
  OBVIOUS
<1>7. i % 4 < 3 => Inc(i) = i + 1
  BY <1>1, <1>3
<1>8. i % 4 = 3 => Inc(i) % 4 = 0
  BY <1>1, <1>4, <1>6
<1>9. i % 4 \in 0 .. 3
  BY BaseFacts
<1> QED BY <1>2, <1>5, <1>7, <1>8, <1>9 DEF Base

\* The slots of two groups differ.
LEMMA OtherGroup ==
  ASSUME NEW g \in Slot, g % 4 = 0, NEW i \in 1 .. 4
  PROVE  g + i - 1 \in Slot /\ \A h \in Slot : Base(h) # g => g + i - 1 # h
BY DEF Slot, Base

\* A store to one slot leaves the other groups whole.
LEMMA OneStore ==
  ASSUME NEW s \in Slot, \A i \in Slot \ {s} : gbuffer'[i] = gbuffer[i],
         NEW g \in Slot, g % 4 = 0, g # Base(s), Whole(g)
  PROVE  Whole(g)'
<1>1. \A i \in 1 .. 4 : gbuffer'[g + i - 1] = gbuffer[g + i - 1]
  BY OtherGroup
<1> QED BY <1>1 DEF Whole, Blank, Holds

LEMMA BufferInit == Init => BufferInv
<1> SUFFICES ASSUME Init PROVE BufferInv
  OBVIOUS
<1>1. AllWholeBut({})
  <2> SUFFICES ASSUME NEW g \in Slot, g % 4 = 0 PROVE Blank(g, 1, 4)
    BY DEF AllWholeBut, Whole
  <2> QED BY OtherGroup DEF Init, Blank
<1>2. MonitorPrintsSamples
  BY DEF Init, MonitorPrintsSamples
<1>3. 0 % 4 = 0
  OBVIOUS
<1> QED BY <1>1, <1>2, <1>3 DEF Init, BufferInv, Apart, Storing, Reading

\* Steps that touch neither the buffer nor the monitor.
LEMMA ElsewhereStep ==
  ASSUME BufferInv, ProfilerInv, UNCHANGED <<gbuffer, indx, mpc, index, line>>,
         wpc' = "store" => \/ wpc = "store" /\ UNCHANGED <<stamp, stored>>
                           \/ wpc = "scan" /\ stored' = 0,
         wpc = "store" => wpc' = "store"
  PROVE  Storing' /\ Reading' /\ MonitorPrintsSamples'
<1> USE DEF BufferInv
<1>1. MonitorPrintsSamples'
  BY DEF MonitorPrintsSamples
<1>2. wpc \in {"store", "scan"} => mpc = "closed"
  BY DEF Apart
<1>3. CASE wpc' = "store"
  <2>1. CASE wpc = "store"
    <3>1. UNCHANGED <<stamp, stored>>
      BY <1>3, <2>1
    <3> QED BY <1>1, <1>2, <1>3, <2>1, <3>1
            DEF Storing, Reading, AllWholeBut, Whole, Blank, Holds
  <2>2. CASE wpc = "scan"
    <3>1. indx % 4 = 0 /\ stored' = 0 /\ AllWholeBut({})
      BY <1>2, <1>3, <2>2 DEF Storing, Reading
    <3>2. AllWholeBut({Base(indx)})'
      BY <3>1, Zenon DEF AllWholeBut, Whole, Blank, Holds
    <3>3. Holds(Base(indx), stamp, 1, stored)'
      BY <3>1 DEF Holds
    <3> QED BY <1>1, <1>2, <1>3, <2>2, <3>1, <3>2, <3>3 DEF Storing, Reading
  <2> QED BY <1>3, <2>1, <2>2
<1>4. CASE wpc' # "store"
  <2>1. wpc # "store"
    BY <1>4
  <2> QED BY <1>1, <1>4, <2>1 DEF Storing, Reading, AllWholeBut, Whole, Blank, Holds
<1> QED BY <1>3, <1>4

LEMMA StoreField ==
  ASSUME BufferInv, ProfilerInv, WorkStore
  PROVE  BufferInv'
<1> USE DEF BufferInv, monitorVars
<1>1. /\ wpc = "store" /\ mpc = "closed" /\ stored \in 0 .. 3 /\ stored' = stored + 1
      /\ wpc' = (IF stored + 1 = 4 THEN "rearm" ELSE "store")
      /\ indx \in Slot /\ indx % 4 = stored /\ indx' = Inc(indx) /\ stamp \in Stamp
      /\ AllWholeBut({Base(indx)}) /\ Holds(Base(indx), stamp, 1, stored)
      /\ UNCHANGED <<mp3head, work, pc, stamp, mpc, index, line>>
  BY DEF WorkStore, Apart, Storing, ProfilerInv, TypeOK, Scanned, Stamp
<1>2. /\ gbuffer'[indx] = <<stamp, stored + 1>>
      /\ \A i \in Slot \ {indx} : gbuffer'[i] = gbuffer[i]
  BY DEF WorkStore, ProfilerInv, TypeOK
<1>3. PICK b \in Slot : b = Base(indx) /\ b % 4 = 0 /\ indx = b + stored
  BY <1>1, BaseFacts
<1>4. \A g \in Slot \ {b} : g % 4 = 0 => Whole(g)'
  <2> SUFFICES ASSUME NEW g \in Slot, g # b, g % 4 = 0 PROVE Whole(g)'
    OBVIOUS
  <2>1. Whole(g)
    BY <1>1, <1>3 DEF AllWholeBut
  <2> QED BY <1>1, <1>2, <1>3, <2>1, OneStore
<1>5. \A i \in 1 .. stored + 1 : gbuffer'[b + i - 1] = <<stamp, i>>
  <2> SUFFICES ASSUME NEW i \in 1 .. stored + 1 PROVE gbuffer'[b + i - 1] = <<stamp, i>>
    OBVIOUS
  <2>1. CASE i = stored + 1
    BY <1>1, <1>2, <1>3, <2>1 DEF Slot
  <2>2. CASE i # stored + 1
    <3>1. i \in 1 .. 4 /\ i \in 1 .. stored /\ b + i - 1 \in Slot \ {indx}
      BY <1>1, <1>3, <2>2, OtherGroup DEF Slot
    <3> QED BY <1>1, <1>2, <1>3, <3>1 DEF Holds
  <2> QED BY <2>1, <2>2
<1>6. MonitorPrintsSamples' /\ Apart'
  BY <1>1 DEF MonitorPrintsSamples, Apart
<1>7. CASE stored + 1 = 4
  <2>1. wpc' = "rearm" /\ indx' % 4 = 0
    BY <1>1, <1>7, NextSlot
  <2>2. Whole(b)'
    BY <1>1, <1>5, <1>7 DEF Whole, Holds
  <2>3. AllWholeBut({})'
    BY <1>4, <2>2 DEF AllWholeBut
  <2> QED BY <1>1, <1>6, <2>1, <2>3 DEF Storing, Reading
<1>8. CASE stored + 1 # 4
  <2>1. wpc' = "store" /\ indx' % 4 = stored' /\ Base(indx') = b
    BY <1>1, <1>3, <1>8, NextSlot
  <2>2. AllWholeBut({Base(indx)})' /\ Holds(Base(indx), stamp, 1, stored)'
    BY <1>1, <1>4, <1>5, <2>1 DEF AllWholeBut, Holds
  <2> QED BY <1>1, <1>6, <2>1, <2>2 DEF Storing, Reading
<1> QED BY <1>7, <1>8

\* The search stops at the first field of a sample.
LEMMA FindStep ==
  ASSUME BufferInv, ProfilerInv, MonitorFind
  PROVE  BufferInv'
<1> USE DEF BufferInv, workVars, MonitorFrame
<1>1. /\ mpc = "find" /\ wpc = "idle" /\ index \in Slot /\ AllWholeBut({})
      /\ \A i \in Slot : i < index => gbuffer[i] = EMPTY
      /\ UNCHANGED <<gbuffer, mp3head, work, wpc, pc, indx, stamp, stored, line>>
  BY DEF MonitorFind, Apart, Reading, ProfilerInv, TypeOK
<1>2. AllWholeBut({})' /\ MonitorPrintsSamples' /\ Apart' /\ Storing'
  BY <1>1 DEF AllWholeBut, Whole, Blank, Holds, MonitorPrintsSamples, Apart, Storing
<1>3. CASE gbuffer[index] # EMPTY
  <2>1. mpc' = "test" /\ index' = index
    BY <1>3 DEF MonitorFind
  <2>2. PICK b \in Slot : b = Base(index) /\ b % 4 = 0 /\ index = b + (index % 4)
    BY <1>1, BaseFacts
  <2>3. index % 4 \in 0 .. 3
    BY <1>1, BaseFacts
  <2>4. CASE Blank(b, 1, 4)
    <3>1. PICK r \in 0 .. 3 : index = b + r
      BY <2>2, <2>3
    <3>2. r + 1 \in 1 .. 4 /\ b + (r + 1) - 1 = index
      BY <3>1 DEF Slot
    <3> QED BY <1>3, <2>4, <3>2 DEF Blank
  <2>5. CASE \E k \in Stamp : Holds(b, k, 1, 4)
    <3>1. PICK k \in Stamp : gbuffer[b] = <<k, 1>>
      BY <2>5 DEF Holds, Slot
    <3>2. gbuffer[b] # EMPTY
      BY <3>1 DEF Stamp
    <3>3. ~ (b < index)
      BY <1>1, <3>2
    <3>4. index % 4 = 0
      BY <2>2, <2>3, <3>3 DEF Slot
    <3> QED BY <1>1, <1>2, <2>1, <3>4 DEF Reading
  <2> QED BY <1>1, <2>2, <2>4, <2>5 DEF AllWholeBut, Whole
<1>4. CASE gbuffer[index] = EMPTY
  <2>1. /\ mpc' = IF index + 1 = BufMax THEN "closed" ELSE "find"
        /\ index' = IF index + 1 = BufMax THEN 0 ELSE index + 1
    BY <1>1, <1>4, IncSlot DEF MonitorFind
  <2>2. mpc' = "find" => \A i \in Slot : i < index' => gbuffer'[i] = EMPTY
    BY <1>1, <1>4, <2>1 DEF Slot
  <2> QED BY <1>2, <2>1, <2>2 DEF Reading
<1> QED BY <1>3, <1>4

\* A line begins at a group that is not empty, so at a whole sample.
LEMMA TestStep ==
  ASSUME BufferInv, ProfilerInv, MonitorTest
  PROVE  BufferInv'
<1> USE DEF BufferInv, workVars, MonitorFrame
<1>1. /\ mpc = "test" /\ wpc = "idle" /\ index \in Slot /\ index % 4 = 0 /\ AllWholeBut({})
      /\ line' = << >>
      /\ UNCHANGED <<gbuffer, mp3head, work, wpc, pc, indx, stamp, stored>>
  BY DEF MonitorTest, Apart, Reading, ProfilerInv, TypeOK
<1>2. AllWholeBut({})' /\ Apart' /\ Storing'
  BY <1>1 DEF AllWholeBut, Whole, Blank, Holds, Apart, Storing
<1>3. MonitorPrintsSamples'
  BY <1>1 DEF MonitorPrintsSamples
<1>4. CASE gbuffer[index] # EMPTY
  <2>1. mpc' = "print" /\ index' = index
    BY <1>4 DEF MonitorTest
  <2>2. Base(index) = index
    BY <1>1, BaseFacts
  <2>3. ~ Blank(index, 1, 4)
    BY <1>1, <1>4 DEF Blank, Slot
  <2>4. PICK k \in Stamp : Holds(index, k, 1, 4)
    BY <1>1, <2>3 DEF AllWholeBut, Whole
  <2>5. AllWholeBut({Base(index)})'
    BY <1>2 DEF AllWholeBut
  <2>6. Blank(Base(index), 1, index % 4)'
    BY <1>1, <2>1 DEF Blank
  <2>7. Holds(Base(index), k, (index % 4) + 1, 4)'
    BY <1>1, <2>1, <2>2, <2>4 DEF Holds, Base
  <2>8. Len(line') = 0 /\ \A i \in DOMAIN line' : line'[i] = <<k, i>>
    BY <1>1
  <2>9. Reading'
    BY <1>1, <2>1, <2>5, <2>6, <2>7, <2>8 DEF Reading
  <2> QED BY <1>2, <1>3, <2>9
<1>5. CASE gbuffer[index] = EMPTY
  <2>1. mpc' = "closed"
    BY <1>5 DEF MonitorTest
  <2> QED BY <1>2, <1>3, <2>1 DEF Reading
<1> QED BY <1>4, <1>5

LEMMA PrintStep ==
  ASSUME BufferInv, ProfilerInv, MonitorPrint
  PROVE  BufferInv'
<1> USE DEF BufferInv, workVars, MonitorFrame
<1>1. /\ mpc = "print" /\ mpc' = "clear" /\ wpc = "idle" /\ index \in Slot
      /\ line' = Append(line, gbuffer[index]) /\ Len(line) = index % 4
      /\ line \in Seq(Field \cup {EMPTY}) /\ gbuffer[index] \in Field \cup {EMPTY}
      /\ AllWholeBut({Base(index)}) /\ Blank(Base(index), 1, index % 4)
      /\ UNCHANGED <<gbuffer, index, mp3head, work, wpc, pc, indx, stamp, stored>>
  BY DEF MonitorPrint, Apart, Reading, ProfilerInv, TypeOK
<1>2. PICK k \in Stamp : /\ Holds(Base(index), k, (index % 4) + 1, 4)
                         /\ \A i \in DOMAIN line : line[i] = <<k, i>>
  BY <1>1 DEF Reading
<1>3. gbuffer[index] = <<k, Len(line) + 1>>
  <2>1. PICK b \in Slot : b = Base(index) /\ index = b + (index % 4)
    BY <1>1, BaseFacts
  <2>2. PICK r \in 0 .. 3 : r = index % 4
    BY <1>1, BaseFacts
  <2>3. index = b + r
    BY <2>1, <2>2
  <2>4. r + 1 \in r + 1 .. 4 /\ b + (r + 1) - 1 = index
    BY <2>3 DEF Slot
  <2> QED BY <1>1, <1>2, <2>1, <2>2, <2>4 DEF Holds
<1>4. /\ Len(line') = (index % 4) + 1
      /\ \A i \in DOMAIN line' : line'[i] = <<k, i>>
  BY <1>1, <1>2, <1>3
<1>5. /\ AllWholeBut({Base(index)})' /\ Blank(Base(index), 1, index % 4)'
      /\ Holds(Base(index), k, (index % 4) + 1, 4)'
  <2>1. gbuffer' = gbuffer /\ index' = index /\ Base(index)' = Base(index)
    BY <1>1 DEF Base
  <2>2. AllWholeBut({Base(index)})'
    <3> SUFFICES ASSUME NEW g \in Slot \ {Base(index)}, g % 4 = 0 PROVE Whole(g)'
      BY <2>1 DEF AllWholeBut
    <3>1. Whole(g)
      BY <1>1 DEF AllWholeBut
    <3> QED BY <2>1, <3>1 DEF Whole, Blank, Holds
  <2>3. Blank(Base(index), 1, index % 4)'
    BY <1>1, <2>1 DEF Blank
  <2>4. Holds(Base(index), k, (index % 4) + 1, 4)'
    BY <1>2, <2>1 DEF Holds
  <2> QED BY <2>2, <2>3, <2>4
<1>6. MonitorPrintsSamples'
  BY <1>4 DEF MonitorPrintsSamples, Stamp
<1>7. Reading'
  BY <1>1, <1>4, <1>5 DEF Reading
<1>8. Apart' /\ Storing'
  BY <1>1 DEF Apart, Storing
<1> QED BY <1>6, <1>7, <1>8

LEMMA ClearStep ==
  ASSUME BufferInv, ProfilerInv, MonitorClear
  PROVE  BufferInv'
<1> USE DEF BufferInv, workVars, MonitorFrame
<1>1. /\ mpc = "clear" /\ mpc' = IF Len(line) = 4 THEN "test" ELSE "print"
      /\ wpc = "idle" /\ index \in Slot /\ index' = Inc(index)
      /\ AllWholeBut({Base(index)}) /\ Blank(Base(index), 1, index % 4)
      /\ UNCHANGED <<line, mp3head, work, wpc, pc, indx, stamp, stored>>
  BY DEF MonitorClear, Apart, Reading, ProfilerInv, TypeOK
<1>2. PICK k \in Stamp : /\ Holds(Base(index), k, (index % 4) + 1, 4)
                         /\ \A i \in DOMAIN line : line[i] = <<k, i>>
  BY <1>1 DEF Reading
<1>3. gbuffer'[index] = EMPTY /\ \A i \in Slot \ {index} : gbuffer'[i] = gbuffer[i]
  BY DEF MonitorClear, ProfilerInv, TypeOK
<1>a. PICK r \in 0 .. 3 : r = index % 4 /\ Len(line) = r + 1
  BY <1>1, BaseFacts DEF Reading
<1>4. PICK b \in Slot : b = Base(index) /\ b % 4 = 0 /\ index = b + r /\ b + 3 \in Slot
  BY <1>1, <1>a, BaseFacts
<1>b. index = b + r /\ b + 3 \in Slot
  BY <1>4
<1>5. \A g \in Slot \ {b} : g % 4 = 0 => Whole(g)'
  <2> SUFFICES ASSUME NEW g \in Slot, g # b, g % 4 = 0 PROVE Whole(g)'
    OBVIOUS
  <2>1. Whole(g)
    BY <1>1, <1>a, <1>4 DEF AllWholeBut
  <2> QED BY <1>1, <1>3, <1>a, <1>4, <2>1, OneStore
<1>6. \A i \in 1 .. 4 : b + i - 1 \in Slot /\ (i # r + 1 => b + i - 1 # index)
  BY <1>b DEF Slot
<1>7. \A i \in 1 .. r + 1 : gbuffer'[b + i - 1] = EMPTY
  <2> SUFFICES ASSUME NEW i \in 1 .. r + 1 PROVE gbuffer'[b + i - 1] = EMPTY
    OBVIOUS
  <2>1. CASE i = r + 1
    <3>1. b + i - 1 = index
      BY <1>b, <2>1 DEF Slot
    <3> QED BY <1>3, <3>1
  <2>2. CASE i # r + 1
    <3>1. i \in 1 .. 4 /\ i \in 1 .. r
      BY <2>2
    <3>2. gbuffer[b + i - 1] = EMPTY
      BY <1>1, <1>a, <1>4, <3>1 DEF Blank
    <3> QED BY <1>3, <1>6, <2>2, <3>1, <3>2
  <2> QED BY <2>1, <2>2
<1>8. \A i \in r + 2 .. 4 : gbuffer'[b + i - 1] = <<k, i>>
  <2> SUFFICES ASSUME NEW i \in r + 2 .. 4 PROVE gbuffer'[b + i - 1] = <<k, i>>
    OBVIOUS
  <2>1. i \in 1 .. 4 /\ i \in r + 1 .. 4 /\ i # r + 1
    OBVIOUS
  <2>2. gbuffer[b + i - 1] = <<k, i>>
    BY <1>2, <1>a, <1>4, <2>1 DEF Holds
  <2> QED BY <1>3, <1>6, <2>1, <2>2
<1>9. MonitorPrintsSamples' /\ Apart' /\ Storing'
  BY <1>1 DEF MonitorPrintsSamples, Apart, Storing
<1>10. CASE r = 3
  <2>1. mpc' = "test" /\ index' % 4 = 0
    BY <1>1, <1>a, <1>4, <1>10, NextSlot
  <2>2. Whole(b)'
    BY <1>7, <1>10 DEF Whole, Blank
  <2>3. AllWholeBut({})'
    BY <1>5, <2>2 DEF AllWholeBut
  <2> QED BY <1>9, <2>1, <2>3 DEF Reading
<1>11. CASE r # 3
  <2>1. r < 3 /\ Len(line) # 4
    BY <1>a, <1>4, <1>11
  <2>2. mpc' = "print" /\ index' % 4 = r + 1 /\ Base(index') = b
    BY <1>1, <1>a, <1>4, <2>1, NextSlot
  <2>3. AllWholeBut({Base(index)})'
    BY <1>5, <2>2 DEF AllWholeBut
  <2>4. Blank(Base(index), 1, index % 4)'
    BY <1>7, <2>2 DEF Blank
  <2>5. Holds(Base(index), k, (index % 4) + 1, 4)'
    BY <1>8, <2>2 DEF Holds
  <2>6. Len(line') = index' % 4 /\ \A i \in DOMAIN line' : line'[i] = <<k, i>>
    BY <1>1, <1>2, <1>a, <1>4, <2>2
  <2>7. Reading'
    BY <2>2, <2>3, <2>4, <2>5, <2>6 DEF Reading
  <2> QED BY <1>9, <2>7
<1> QED BY <1>10, <1>11

LEMMA MapStep ==
  ASSUME BufferInv, ProfilerInv, BufInit, ~MonitorLive
  PROVE  BufferInv'
<1> USE DEF BufferInv, workVars, MonitorFrame
<1>1. /\ mpc = "closed" /\ mpc' = "find" /\ wpc = "idle" /\ index' = 0 /\ line' = << >>
      /\ mp3head = << >> /\ work = "idle" /\ \A w \in Writer : pc[w] = "idle"
      /\ UNCHANGED <<gbuffer, mp3head, work, wpc, pc, indx, stamp, stored>>
  BY DEF BufInit
<1>2. AllWholeBut({})' /\ Apart' /\ Storing'
  BY <1>1 DEF Reading, AllWholeBut, Whole, Blank, Holds, Apart, Storing
<1>3. MonitorPrintsSamples'
  BY <1>1 DEF MonitorPrintsSamples
<1>4. \A i \in Slot : ~ (i < index')
  BY <1>1 DEF Slot
<1> QED BY <1>1, <1>2, <1>3, <1>4 DEF Reading

LEMMA BufferStep ==
  ASSUME ~MonitorLive
  PROVE  ProfilerInv /\ BufferInv /\ [Next]_vars => BufferInv'
<1> SUFFICES ASSUME ProfilerInv, BufferInv, [Next]_vars PROVE BufferInv'
  OBVIOUS
<1> USE DEF workVars, bufVars, monitorVars
<1>1. CASE UNCHANGED vars
  <2>1. Storing' /\ Reading' /\ MonitorPrintsSamples'
    BY <1>1, ElsewhereStep DEF vars
  <2> QED BY <1>1, <2>1 DEF vars, BufferInv, Apart
<1>2. CASE DelayExpires \/ WorkStart \/ WorkLock \/ WorkSample \/ WorkUnlock \/ WorkRearm
  <2>1. /\ UNCHANGED <<gbuffer, indx, mpc, index, line>>
        /\ wpc = "store" => wpc' = "store"
        /\ wpc' = "store" => \/ wpc = "store" /\ UNCHANGED <<stamp, stored>>
                             \/ wpc = "scan" /\ stored' = 0
    BY <1>2 DEF DelayExpires, WorkStart, WorkLock, WorkSample, WorkUnlock, WorkRearm,
                ProfilerInv, Scanned
  <2>2. Apart'
    BY <1>2 DEF DelayExpires, WorkStart, WorkLock, WorkSample, WorkUnlock, WorkRearm,
                BufferInv, Apart
  <2> QED BY <2>1, <2>2, ElsewhereStep DEF BufferInv
<1>3. ASSUME NEW w \in Writer, NEW pid \in Pid, TaskRegister(w, pid) \/ Deregister(w, pid)
      PROVE  BufferInv'
  <2>1. UNCHANGED <<gbuffer, indx, mpc, index, line, wpc, stamp, stored>>
    BY <1>3 DEF TaskRegister, Deregister, WriterFrame
  <2>2. mpc = "closed"
    BY <1>3 DEF TaskRegister, Deregister, SessionsApart
  <2>3. Storing' /\ Reading' /\ MonitorPrintsSamples'
    BY <2>1, ElsewhereStep
  <2> QED BY <2>1, <2>2, <2>3 DEF BufferInv, Apart
<1>4. ASSUME NEW w \in Writer, WriterRuns(w) PROVE BufferInv'
  <2>1. UNCHANGED <<gbuffer, indx, mpc, index, line, wpc, stamp, stored>>
    BY <1>4 DEF WriterRuns, RegisterQueue, RegisterFaults, DeregisterCancel,
                DeregisterWait, WriterFrame
  <2>2. mpc = "closed"
    BY <1>4 DEF WriterRuns, RegisterQueue, RegisterFaults, DeregisterCancel,
                DeregisterWait, BufferInv, Apart
  <2>3. Storing' /\ Reading' /\ MonitorPrintsSamples'
    BY <2>1, ElsewhereStep
  <2> QED BY <2>1, <2>2, <2>3 DEF BufferInv, Apart
<1>5. CASE (\E pid \in Pid : ProcessStep(pid)) \/ ModuleExit
  <2>1. UNCHANGED <<gbuffer, indx, mpc, index, line, wpc, stamp, stored>>
    BY <1>5 DEF ProcessStep, ModuleExit, ExitBegin, ExitCancel, ExitWait, ExitDestroy,
                ExitClean, ExitProcRemove, ExitDone, ExitMove
  <2>2. Apart'
    BY <1>5 DEF ProcessStep, ModuleExit, ExitBegin, ExitCancel, ExitWait, ExitDestroy,
                ExitClean, ExitProcRemove, ExitDone, ExitMove, CancelGrab, BufferInv, Apart
  <2>3. Storing' /\ Reading' /\ MonitorPrintsSamples'
    BY <2>1, ElsewhereStep
  <2> QED BY <2>2, <2>3 DEF BufferInv
<1>6. CASE WorkStore
  BY <1>6, StoreField
<1>7. CASE BufInit \/ Monitor
  BY <1>7, MapStep, FindStep, TestStep, PrintStep, ClearStep DEF Monitor
<1> QED BY <1>1, <1>2, <1>3, <1>4, <1>5, <1>6, <1>7 DEF Next, Workhandler

\* workhandler() and monitor.c: with any buffer size that is a multiple of
\* four, and a monitor that runs between profiling sessions, the buffer is
\* made of whole samples between two runs of workhandler(), wrapped or not.
THEOREM SamplesStayWhole ==
  ASSUME ~MonitorLive
  PROVE  Spec => []GroupsWhole
<1>1. BufferInv => GroupsWhole
  <2> SUFFICES ASSUME BufferInv, wpc \notin {"store", "rearm"}, mpc = "closed"
               PROVE  /\ indx % 4 = 0
                      /\ \A g \in Slot : g % 4 = 0 => Whole(g)
    BY DEF GroupsWhole, Whole, Blank, Holds, Stamp
  <2> QED BY DEF BufferInv, Storing, Reading, AllWholeBut
<1> QED BY <1>1, BufferInit, BufferStep, ProfilerInvariant, PTL DEF Spec

\* monitor.c: under the same assumption, each line it prints is made of the
\* fields of one sample, in order.
THEOREM LinesAreSamples ==
  ASSUME ~MonitorLive
  PROVE  Spec => []MonitorPrintsSamples
<1>1. BufferInv => MonitorPrintsSamples
  BY DEF BufferInv
<1> QED BY <1>1, BufferInit, BufferStep, ProfilerInvariant, PTL DEF Spec
=============================================================================
