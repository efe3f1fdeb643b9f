------------------------------ MODULE Profiler ------------------------------
(***************************************************************************)
(* Virtual_Memory_Page_Fault_Profiler: the kernel module mp3.c (the list   *)
(* of profiled pids, the delayed work item that samples them, the proc     *)
(* commands R and U, unloading) and the program monitor.c, which reads the *)
(* sample buffer through mmap().  A buffer slot holds EMPTY (-1) or one    *)
(* field of a sample; samples are told apart by a stamp (the code's        *)
(* jiffies) taken modulo Stamps.                                           *)
(***************************************************************************)
EXTENDS Lists

CONSTANTS
  Pid,          \* process ids
  Writer,       \* threads that write to /proc/mp3/status
  BufMax,       \* slots of the buffer the module and the monitor use (48000)
  Stamps,       \* number of stamps that tell samples apart
  MonitorLive,  \* the monitor may run while processes are being profiled
  Rmmod,        \* the thread that unloads the module
  EMPTY

ASSUME ProfilerAssumption ==
  /\ BufMax \in Nat \ {0} /\ BufMax % 4 = 0
  /\ Stamps \in Nat \ {0} /\ MonitorLive \in BOOLEAN /\ Rmmod \notin Writer
  /\ EMPTY \notin (0 .. Stamps - 1) \X (1 .. 4)

VARIABLES
  mp3head,     \* registered pids in list order
  work,        \* delayed work: "idle", "delayed" (its timer runs) or "queued"
  cancelling,  \* threads inside cancel_delayed_work_sync()
  wpc,         \* workhandler(): "idle", "lock", "scan", "store" or "rearm"
  rest,        \* workhandler(): pids still to sample
  found,       \* workhandler(): a live process was sampled (!empty)
  stamp,       \* workhandler(): the jiffies of the current sample
  stored,      \* workhandler(): fields of the sample already stored
  gbuffer, indx,
  pc,          \* each writer: "idle", "queue", "cancel", "wait" or "oops"
  alive,       \* the processes that exist
  raced,       \* history: R entered the list while a U was still cancelling
  late,        \* history: R queued the work after mp3_exit() had cancelled it
  mpc,         \* monitor: "closed", "find", "test", "print" or "clear"
  index, line, \* monitor: its position, and the fields of the line so far
  epc          \* where mp3_exit() is

workVars    == <<wpc, rest, found, stamp, stored>>
bufVars     == <<gbuffer, indx>>
monitorVars == <<mpc, index, line>>
vars == <<mp3head, work, cancelling, wpc, rest, found, stamp, stored, gbuffer,
          indx, pc, alive, raced, late, mpc, index, line, epc>>

MutexFree == wpc # "scan"
Slot      == 0 .. BufMax - 1
\* Mutant: the modulo is forgotten.
IncNoWrap(i) == i + 1

Inc(i)    == (i + 1) % BufMax

\* What mp3_exit() has behind it, and when the proc file can be written: until
\* proc_remove(mp3status), which is its last step but one.
Cancelled   == epc \in {"destroy", "clean", "close", "closing", "gone"}
WqDestroyed == Cancelled /\ epc # "destroy"
ProcOpen    == epc \notin {"closing", "gone"}

\* mp3_init() has succeeded; allocatebuffer() filled the buffer with -1.
Init ==
  /\ mp3head = << >> /\ work = "idle" /\ cancelling = {}
  /\ wpc = "idle" /\ rest = << >> /\ found = FALSE /\ stamp = 0 /\ stored = 0
  /\ gbuffer = [i \in Slot |-> EMPTY] /\ indx = 0
  /\ pc = [w \in Writer |-> "idle"] /\ alive = Pid /\ raced = FALSE /\ late = FALSE
  /\ mpc = "closed" /\ index = 0 /\ line = << >> /\ epc = "loaded"

-----------------------------------------------------------------------------
(* The delayed work item.  While a thread cancels it, it cannot be queued. *)

\* queue_delayed_work(wq,&worker,0): no effect when already pending.
QueueDelayedWork ==
  work' = IF cancelling = {} /\ work = "idle" THEN "queued" ELSE work

\* mod_delayed_work(wq,&worker,msecs_to_jiffies(50))
ModDelayedWork == work' = IF cancelling = {} THEN "delayed" ELSE work

\* cancel_delayed_work_sync(&worker): take it off its timer or queue, then
\* wait for a running workhandler() to return.
CancelGrab(t) == work' = "idle" /\ cancelling' = cancelling \cup {t}

\* Mutant: cancel_delayed_work(), which does not wait.
CancelNoWait(t) == cancelling' = cancelling \ {t}

\* The second half: a running workhandler() has returned.
CancelWait(t) == wpc = "idle" /\ cancelling' = cancelling \ {t}

\* The timer queues the work.  On a workqueue that has been freed it faults.
DelayExpires ==
  /\ work = "delayed" /\ work' = IF WqDestroyed THEN "idle" ELSE "queued"
  /\ UNCHANGED <<mp3head, cancelling, workVars, bufVars, pc, alive, raced, late,
                 monitorVars, epc>>

-----------------------------------------------------------------------------
(* workhandler()                                                           *)

WorkStart ==
  /\ work = "queued" /\ wpc = "idle"
  /\ work' = "idle" /\ wpc' = "lock"
  /\ stamp' = (stamp + 1) % Stamps /\ found' = FALSE /\ stored' = 0
  /\ UNCHANGED <<mp3head, cancelling, rest, bufVars, pc, alive, raced, late,
                 monitorVars, epc>>

WorkLock ==
  /\ wpc = "lock" /\ wpc' = "scan" /\ rest' = mp3head
  /\ UNCHANGED <<mp3head, work, cancelling, found, stamp, stored, bufVars, pc,
                 alive, raced, late, monitorVars, epc>>

\* get_cpu_use() succeeds, or the dead pid is unlinked and its node freed.
WorkSample ==
  /\ wpc = "scan" /\ rest # << >>
  /\ found' = (found \/ Head(rest) \in alive)
  /\ mp3head' = IF Head(rest) \in alive THEN mp3head
                ELSE Del(mp3head, Head(rest))
  /\ rest' = Tail(rest) /\ raced' = (raced /\ mp3head' # << >>)
  /\ UNCHANGED <<work, cancelling, wpc, stamp, stored, bufVars, pc, alive, late,
                 monitorVars, epc>>

\* Mutant: the sample is stored and the work re-armed with nobody to sample.
WorkUnlockAlways ==
  /\ wpc = "scan" /\ rest = << >> /\ wpc' = "store"
  /\ UNCHANGED <<mp3head, work, cancelling, rest, found, stamp, stored, bufVars,
                 pc, alive, raced, late, monitorVars, epc>>

WorkUnlock ==
  /\ wpc = "scan" /\ rest = << >>
  /\ wpc' = IF found THEN "store" ELSE "idle"
  /\ UNCHANGED <<mp3head, work, cancelling, rest, found, stamp, stored, bufVars,
                 pc, alive, raced, late, monitorVars, epc>>

\* Mutant: the CPU time is not stored.
WorkStoreThree ==
  /\ wpc = "store"
  /\ gbuffer' = [gbuffer EXCEPT ![indx] = <<stamp, stored + 1>>]
  /\ indx' = Inc(indx) /\ stored' = stored + 1
  /\ wpc' = IF stored + 1 = 3 THEN "rearm" ELSE "store"
  /\ UNCHANGED <<mp3head, work, cancelling, rest, found, stamp, pc, alive, raced, late,
                 monitorVars, epc>>

\* One of the four stores gbuffer[indx++]=...; indx%=48000;
WorkStore ==
  /\ wpc = "store"
  /\ gbuffer' = [gbuffer EXCEPT ![indx] = <<stamp, stored + 1>>]
  /\ indx' = Inc(indx) /\ stored' = stored + 1
  /\ wpc' = IF stored + 1 = 4 THEN "rearm" ELSE "store"
  /\ UNCHANGED <<mp3head, work, cancelling, rest, found, stamp, pc, alive, raced, late,
                 monitorVars, epc>>

WorkRearm ==
  /\ wpc = "rearm" /\ wpc' = "idle" /\ ModDelayedWork
  /\ UNCHANGED <<mp3head, cancelling, rest, found, stamp, stored, bufVars, pc,
                 alive, raced, late, monitorVars, epc>>

Workhandler ==
  WorkStart \/ WorkLock \/ WorkSample \/ WorkUnlock \/ WorkStore \/ WorkRearm

-----------------------------------------------------------------------------
(* my_write() and the profiled processes.  A command that finds its pid    *)
(* already registered, or not registered, changes nothing.                 *)

WriterFrame == UNCHANGED <<workVars, bufVars, alive, monitorVars, epc>>

\* The users' side of MonitorLive: no command while a monitor runs.
SessionsApart == MonitorLive \/ mpc = "closed"

\* Mutant: list_empty() is asked after list_add_tail().
TaskRegisterLateEmpty(w, pid) ==
  /\ ProcOpen /\ SessionsApart /\ pc[w] = "idle" /\ MutexFree
  /\ pid \notin Range(mp3head)
  /\ mp3head' = Append(mp3head, pid)
  /\ pc' = [pc EXCEPT ![w] = IF mp3head' = << >> THEN "queue" ELSE "idle"]
  /\ raced' = (raced \/ \E v \in Writer : pc[v] \in {"cancel", "wait"})
  /\ UNCHANGED <<work, cancelling, late>> /\ WriterFrame

\* taskregister(), up to mutex_unlock()
TaskRegister(w, pid) ==
  /\ ProcOpen /\ SessionsApart /\ pc[w] = "idle" /\ MutexFree
  /\ pid \notin Range(mp3head)
  /\ mp3head' = Append(mp3head, pid)
  /\ pc' = [pc EXCEPT ![w] = IF mp3head = << >> THEN "queue" ELSE "idle"]
  /\ raced' = (raced \/ \E v \in Writer : pc[v] \in {"cancel", "wait"})
  /\ UNCHANGED <<work, cancelling, late>> /\ WriterFrame

\* if(empty) queue_delayed_work(wq,&worker,0)
RegisterQueue(w) ==
  /\ pc[w] = "queue" /\ ~WqDestroyed /\ pc' = [pc EXCEPT ![w] = "idle"]
  /\ QueueDelayedWork /\ late' = (late \/ Cancelled)
  /\ UNCHANGED <<mp3head, cancelling, raced>> /\ WriterFrame

\* The same call when destroy_workqueue() has freed wq: the writer faults and
\* ends inside my_write().
RegisterFaults(w) ==
  /\ pc[w] = "queue" /\ WqDestroyed /\ pc' = [pc EXCEPT ![w] = "oops"]
  /\ late' = TRUE
  /\ UNCHANGED <<mp3head, work, cancelling, raced>> /\ WriterFrame

\* deregister(), up to mutex_unlock()
Deregister(w, pid) ==
  /\ ProcOpen /\ SessionsApart /\ pc[w] = "idle" /\ MutexFree
  /\ pid \in Range(mp3head)
  /\ mp3head' = Del(mp3head, pid)
  /\ pc' = [pc EXCEPT ![w] = IF mp3head' = << >> THEN "cancel" ELSE "idle"]
  /\ raced' = (raced /\ mp3head' # << >>)
  /\ UNCHANGED <<work, cancelling, late>> /\ WriterFrame

DeregisterCancel(w) ==
  /\ pc[w] = "cancel" /\ pc' = [pc EXCEPT ![w] = "wait"]
  /\ CancelGrab(w)
  /\ UNCHANGED <<mp3head, raced, late>> /\ WriterFrame

DeregisterWait(w) ==
  /\ pc[w] = "wait" /\ pc' = [pc EXCEPT ![w] = "idle"]
  /\ CancelWait(w)
  /\ UNCHANGED <<mp3head, work, raced, late>> /\ WriterFrame

WriterRuns(w) ==
  RegisterQueue(w) \/ RegisterFaults(w) \/ DeregisterCancel(w) \/ DeregisterWait(w)

\* A process exits, or its pid is given to a new one.
ProcessStep(pid) ==
  /\ alive' = IF pid \in alive THEN alive \ {pid} ELSE alive \cup {pid}
  /\ UNCHANGED <<mp3head, work, cancelling, workVars, bufVars, pc, raced, late,
                 monitorVars, epc>>

-----------------------------------------------------------------------------
(* monitor.c                                                               *)

MonitorFrame == UNCHANGED <<mp3head, work, cancelling, workVars, indx, pc, alive,
                            raced, late, epc>>

\* open() and mmap(): the device takes a reference on the module.
BufInit ==
  /\ mpc = "closed" /\ epc = "loaded"
  /\ MonitorLive \/ (mp3head = << >> /\ work = "idle" /\ wpc = "idle"
                     /\ \A w \in Writer : pc[w] = "idle")
  /\ mpc' = "find" /\ index' = 0 /\ line' = << >>
  /\ UNCHANGED gbuffer /\ MonitorFrame

\* The search for the first used slot; it falls out past the last slot when
\* there is none (the pages behind the buffer hold -1 too).
MonitorFind ==
  /\ mpc = "find"
  /\ IF gbuffer[index] # EMPTY THEN mpc' = "test" /\ UNCHANGED index
     ELSE /\ mpc' = IF index + 1 = BufMax THEN "closed" ELSE "find"
          /\ index' = Inc(index)
  /\ UNCHANGED <<gbuffer, line>> /\ MonitorFrame

\* while(buf[index] != -1): at the end of the samples the monitor exits.
MonitorTest ==
  /\ mpc = "test" /\ line' = << >>
  /\ IF gbuffer[index] # EMPTY THEN mpc' = "print" /\ UNCHANGED index
     ELSE mpc' = "closed" /\ index' = 0
  /\ UNCHANGED gbuffer /\ MonitorFrame

MonitorPrint ==
  /\ mpc = "print" /\ mpc' = "clear"
  /\ line' = Append(line, gbuffer[index])
  /\ UNCHANGED <<gbuffer, index>> /\ MonitorFrame

\* Mutant: the monitor reads three fields per line.
MonitorClearThree ==
  /\ mpc = "clear" /\ mpc' = IF Len(line) = 3 THEN "test" ELSE "print"
  /\ gbuffer' = [gbuffer EXCEPT ![index] = EMPTY] /\ index' = Inc(index)
  /\ UNCHANGED line /\ MonitorFrame

MonitorClear ==
  /\ mpc = "clear" /\ mpc' = IF Len(line) = 4 THEN "test" ELSE "print"
  /\ gbuffer' = [gbuffer EXCEPT ![index] = EMPTY] /\ index' = Inc(index)
  /\ UNCHANGED line /\ MonitorFrame

Monitor == MonitorFind \/ MonitorTest \/ MonitorPrint \/ MonitorClear

-----------------------------------------------------------------------------
(* mp3_exit()                                                              *)

ExitMove(from, to) ==
  /\ epc = from /\ epc' = to
  /\ UNCHANGED <<workVars, bufVars, pc, alive, raced, late, monitorVars>>

\* rmmod, once no monitor holds the device (.owner=THIS_MODULE).
ExitBegin ==
  /\ ExitMove("loaded", "cancel") /\ mpc = "closed"
  /\ UNCHANGED <<mp3head, work, cancelling>>

ExitCancel ==
  /\ ExitMove("cancel", "wait") /\ CancelGrab(Rmmod)
  /\ UNCHANGED mp3head

ExitWait ==
  /\ ExitMove("wait", "destroy") /\ CancelWait(Rmmod)
  /\ UNCHANGED <<mp3head, work>>

\* destroy_workqueue() drains what is queued, not what a timer will queue;
\* then freebuffer() and chardvcexit().
ExitDestroy ==
  /\ ExitMove("destroy", "clean") /\ work # "queued" /\ wpc = "idle"
  /\ UNCHANGED <<mp3head, work, cancelling>>

\* cleanlist(), mutex_destroy()
ExitClean ==
  /\ ExitMove("clean", "close") /\ MutexFree
  /\ mp3head' = << >> /\ UNCHANGED <<work, cancelling>>

\* proc_remove(mp3status) turns new calls away and waits for those inside.
ExitProcRemove ==
  /\ ExitMove("close", "closing") /\ UNCHANGED <<mp3head, work, cancelling>>

ExitDone ==
  /\ ExitMove("closing", "gone") /\ \A w \in Writer : pc[w] = "idle"
  /\ UNCHANGED <<mp3head, work, cancelling>>

ModuleExit ==
  \/ ExitBegin \/ ExitCancel \/ ExitWait \/ ExitDestroy \/ ExitClean
  \/ ExitProcRemove \/ ExitDone

-----------------------------------------------------------------------------

Next ==
  \/ DelayExpires \/ Workhandler \/ ModuleExit \/ BufInit \/ Monitor
  \/ \E w \in Writer :
       \/ WriterRuns(w)
       \/ \E pid \in Pid : TaskRegister(w, pid) \/ Deregister(w, pid)
  \/ \E pid \in Pid : ProcessStep(pid)

Spec == Init /\ [][Next]_vars

\* Timers expire and threads in the kernel run; users need not do anything.
FairSpec ==
  /\ Spec /\ WF_vars(DelayExpires) /\ WF_vars(Workhandler)
  /\ \A w \in Writer : WF_vars(WriterRuns(w))

-----------------------------------------------------------------------------
(* Properties                                                              *)

Field == (0 .. Stamps - 1) \X (1 .. 4)
TypeOK ==
  /\ mp3head \in Seq(Pid) /\ rest \in Seq(Pid) /\ IsInjective(mp3head)
  /\ work \in {"idle", "delayed", "queued"} /\ cancelling \subseteq Writer \cup {Rmmod}
  /\ wpc \in {"idle", "lock", "scan", "store", "rearm"} /\ found \in BOOLEAN
  /\ stamp \in 0 .. Stamps - 1 /\ stored \in 0 .. 4
  /\ gbuffer \in [Slot -> Field \cup {EMPTY}] /\ indx \in Slot
  /\ pc \in [Writer -> {"idle", "queue", "cancel", "wait", "oops"}]
  /\ alive \subseteq Pid /\ raced \in BOOLEAN /\ late \in BOOLEAN
  /\ mpc \in {"closed", "find", "test", "print", "clear"} /\ index \in Slot
  /\ line \in Seq(Field \cup {EMPTY})
  /\ epc \in {"loaded", "cancel", "wait", "destroy", "clean", "close", "closing", "gone"}

\* mp3_exit() destroys the workqueue and the buffer while the proc file can
\* still be written.  From then on the work item is neither pending nor
\* running and no monitor has the buffer mapped, and the one thing that makes
\* this false is an R whose queue_delayed_work() comes after the cancel: a
\* sampling session, a U or an R that came earlier is always over.
FreedUnusedUnlessLate ==
  ~late /\ WqDestroyed => work = "idle" /\ wpc = "idle" /\ mpc = "closed"

Quiescent == \A w \in Writer : pc[w] = "idle"
Sampling  == work # "idle" \/ wpc # "idle"

\* "When the first process is registered, the delayed work queue is started":
\* with no command in progress, a registered process is being sampled.
SamplingRuns ==
  Quiescent /\ epc = "loaded" /\ mp3head # << >> => Sampling

\* taskregister() and workhandler() never lose the restart of sampling
\* between them: only an R that overlaps the unlocked cancel of a U can.
SamplingRunsUnlessRaced == ~raced => SamplingRuns

\* "when the list becomes empty, the work queue is stopped": by the cancel of
\* deregister(), or by workhandler() itself after it removed the last dead pid.
StopsWhenEmpty == mp3head = << >> ~> (mp3head # << >> \/ ~Sampling)

\* Between samples the buffer is made of aligned groups of four slots, each
\* unused or holding the four fields of one sample, also after it wraps.
GroupsWhole ==
  wpc \notin {"store", "rearm"} /\ mpc = "closed" =>
    /\ indx % 4 = 0
    /\ \A g \in {i \in Slot : i % 4 = 0} :
         LET group == [i \in 1 .. 4 |-> gbuffer[g + i - 1]]
         IN  \/ \A i \in 1 .. 4 : group[i] = EMPTY
             \/ \E k \in 0 .. Stamps - 1 : \A i \in 1 .. 4 : group[i] = <<k, i>>

\* "The monitor expects samples in groups of four unsigned long values": each
\* line the monitor prints is made of the fields of one sample, in order.
MonitorPrintsSamples ==
  \E k \in 0 .. Stamps - 1 : \A i \in DOMAIN line : line[i] = <<k, i>>
=============================================================================
