---------------------------- MODULE SortedSequences ----------------------------
(***************************************************************************)
(* What filter makes of an array.  SelectSeq computes the same, but by     *)
(* recursion, of which nothing can be proved.                              *)
(***************************************************************************)
EXTENDS Naturals, FiniteSets

(* The numbers of a set, from the smallest on.                              *)
Increasing(S) ==
  LET places == 1..Cardinality(S)
  IN CHOOSE f \in [places -> S] : \A i, j \in places : i < j => f[i] < f[j]

(* Array.prototype.filter: the elements at the places that pass, in their   *)
(* order.                                                                   *)
Filtered(seq, passing) ==
  LET at == Increasing(passing) IN [k \in 1..Cardinality(passing) |-> seq[at[k]]]
================================================================================
