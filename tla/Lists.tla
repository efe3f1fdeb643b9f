------------------------------- MODULE Lists -------------------------------
(***************************************************************************)
(* A linked list read as the sequence of its entries, and a stack of calls *)
(* in progress, innermost last.  SequencesExt has these operators, among   *)
(* 150 others that every proof obligation using them would carry.          *)
(***************************************************************************)
EXTENDS Integers, Sequences, Functions

\* The k-th entry is unlinked.
DelAt(list, k) == SubSeq(list, 1, k - 1) \o SubSeq(list, k + 1, Len(list))

\* An entry known by its value is unlinked.
Del(list, e) ==
  IF e \in Range(list) THEN DelAt(list, CHOOSE k \in DOMAIN list : list[k] = e) ELSE list

Top(stack) == stack[Len(stack)]
Pop(stack) == SubSeq(stack, 1, Len(stack) - 1)
=============================================================================
