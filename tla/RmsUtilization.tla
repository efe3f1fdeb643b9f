--------------------------- MODULE RmsUtilization ---------------------------
(***************************************************************************)
(* Admission arithmetic of the rate-monotonic scheduler: taskregister() in *)
(* RMS_Linux_Schedular/mp2.c.  A task is a record of the three PCB fields  *)
(* that admission control looks at.  Utilisation is fixed point, in        *)
(* thousandths, computed in unsigned long arithmetic.                      *)
(***************************************************************************)
EXTENDS Integers, Sequences, Functions

CONSTANT UlongMod   \* 2^64 on the target; a smaller modulus for TLC

ASSUME UlongModAssumption == UlongMod \in Nat \ {0}

UtilScale == 1000   \* comp_time*1000
UtilBound == 693    \* 1000 * ln 2, rounded down

Task(pid, period, comp_time) ==
  [pid |-> pid, period |-> period, comp_time |-> comp_time]

\* An int argument of my_write() becomes an unsigned long parameter.
Ulong(n) == n % UlongMod

\* (comp_time*1000)/period: the product wraps, the division truncates.
Util(t) == ((t.comp_time * UtilScale) % UlongMod) \div t.period

\* Mutant: the task to be registered, the last of ts, is left out of the sum.
UtilSumOfOthers(ts) ==
  SumFunction([i \in DOMAIN ts \ {Len(ts)} |-> Util(ts[i])]) % UlongMod

\* The sum that taskregister() accumulates over the registered tasks.
UtilSum(ts) == SumFunction([i \in DOMAIN ts |-> Util(ts[i])]) % UlongMod

IsRegistered(ts, pid) == \E i \in DOMAIN ts : ts[i].pid = pid

\* Mutant: the bound is tested for the new task alone.
AdmitsAlone(ts, t) ==
  /\ t.period # 0
  /\ t.comp_time # 0
  /\ ~IsRegistered(ts, t.pid)
  /\ Util(t) <= UtilBound

\* taskregister() reaches list_add_tail(): none of its early returns is taken.
Admits(ts, t) ==
  /\ t.period # 0
  /\ t.comp_time # 0
  /\ ~IsRegistered(ts, t.pid)
  /\ UtilSum(Append(ts, t)) <= UtilBound
=============================================================================
