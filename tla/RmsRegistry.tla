---------------------------- MODULE RmsRegistry -----------------------------
(***************************************************************************)
(* What the scheduler module promises about the set of registered tasks,   *)
(* seen from /proc/mp2/status: an ordered list of tasks that a task joins  *)
(* by passing admission control and leaves by deregistration.  Threads,    *)
(* locks and memory are left to RmsScheduler, which implements this        *)
(* specification.                                                          *)
(***************************************************************************)
EXTENDS RmsUtilization, Lists

CONSTANTS
  Pid,        \* process ids that commands may name
  PeriodArg,  \* PERIOD arguments of the R command, as parsed by %d
  CompArg     \* COMPUTATION arguments of the R command, as parsed by %d

ASSUME ArgAssumption == PeriodArg \subseteq Int /\ CompArg \subseteq Int

VARIABLE tasks   \* the registered tasks in list order

Init == tasks = << >>

\* "R,pid,period,computation"; a refused registration changes nothing.
Register(pid, period, comp_time) ==
  LET t == Task(pid, Ulong(period), Ulong(comp_time))
  IN  /\ Admits(tasks, t)
      /\ tasks' = Append(tasks, t)

\* Mutant: the entry is cleared but stays in the list.
DeregisterClears(pid) ==
  \E i \in DOMAIN tasks :
    tasks[i].pid = pid /\ tasks' = [tasks EXCEPT ![i].pid = 0]

\* "D,pid", and each turn of the loop in cleanuplist().
Deregister(pid) ==
  \E i \in DOMAIN tasks :
    /\ tasks[i].pid = pid
    /\ tasks' = DelAt(tasks, i)

Next ==
  \E pid \in Pid :
    \/ \E period \in PeriodArg, comp_time \in CompArg :
         Register(pid, period, comp_time)
    \/ Deregister(pid)

Spec == Init /\ [][Next]_tasks

-----------------------------------------------------------------------------
(* Reference definitions the admission test is compared with.              *)

Ulongs == 0 .. UlongMod - 1

\* Exact utilisation as a fraction over the product of the periods.
PeriodProduct == FoldFunction(LAMBDA a, b : a * b, 1,
                              [i \in DOMAIN tasks |-> tasks[i].period])
ExactDemand ==
  SumFunction([i \in DOMAIN tasks |->
                 tasks[i].comp_time * (PeriodProduct \div tasks[i].period)])

\* Jobs of a task with the given period released in an interval of length t.
Jobs(t, period) == (t + period - 1) \div period

\* Work of tasks[i] and of everything that may run before it up to time t,
\* when all tasks are released together (the critical instant).
DemandBy(i, t) ==
  SumFunction([j \in {k \in DOMAIN tasks : tasks[k].period <= tasks[i].period}
                 |-> Jobs(t, tasks[j].period) * tasks[j].comp_time])

-----------------------------------------------------------------------------
(* Properties                                                              *)

\* The arguments with which the arithmetic of taskregister() is exact where it
\* matters: adding to an admitted sum does not wrap, and a product that wraps
\* gives a utilisation that is refused.  With 64-bit longs and int arguments
\* these are all computation times together with all periods that are not
\* negative.
NoWrap ==
  \A pid \in Pid, period \in PeriodArg, comp_time \in CompArg :
    LET t == Task(pid, Ulong(period), Ulong(comp_time))
    IN  t.period # 0 =>
          /\ Util(t) + UtilBound < UlongMod
          /\ Util(t) <= UtilBound => t.comp_time * UtilScale < UlongMod

TypeOK == tasks \in Seq([pid : Pid, period : Ulongs, comp_time : Ulongs])

\* The set sizes n up to which 0.693 + n/1000, the utilisation that the
\* truncation of taskregister() can let in, is below n(2^(1/n) - 1), the bound
\* of Liu and Layland under which rate-monotonic priorities meet all deadlines.
SmallSet == 15

\* A small task set that admission control in taskregister() lets in meets all
\* its deadlines under rate-monotonic priorities: each task finds a time
\* within its period at which all the work ahead of it is done.  A larger one
\* need not: tasks whose utilisation truncates to 0 are let in in any number.
SmallSetsAreSchedulable ==
  Len(tasks) <= SmallSet =>
    \A i \in DOMAIN tasks :
      \E t \in 1 .. tasks[i].period : DemandBy(i, t) <= t

\* The truncating division of taskregister() hides less than one thousandth
\* per registered task: the exact utilisation stays below 0.693 + n/1000.
TruncationSlack ==
  tasks # << >> =>
    UtilScale * ExactDemand < (UtilBound + Len(tasks)) * PeriodProduct

\* Inductive: what passed admission stays admissible when other tasks come and
\* go, because the sum over the list is tested as a whole.
AdmittedInv ==
  /\ \A i \in DOMAIN tasks :
       tasks[i].period # 0 /\ tasks[i].comp_time * UtilScale < UlongMod
  /\ SumFunction([i \in DOMAIN tasks |-> Util(tasks[i])]) <= UtilBound
=============================================================================
