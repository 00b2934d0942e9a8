------------------------------- MODULE Sorting -------------------------------
(***************************************************************************)
(* What Array.prototype.sort and filter do to the lists that are modelled  *)
(* as sets and sequences: a stable sort, one element at a time, by a       *)
(* comparison that is given as the set of the pairs it leaves in their     *)
(* order, and the elements of a sequence that are in a set.                *)
(***************************************************************************)
EXTENDS Integers, Sequences, FiniteSets, SequencesExt, FiniteSetsExt

\* After the last element that does not come later.
InsertBy(R, x, sorted) ==
  InsertAt(sorted, 1 + Max({0} \cup {i \in DOMAIN sorted : <<sorted[i], x>> \in R}), x)
SortedBy(R, S) ==
  LET Insert(x, sorted) == InsertBy(R, x, sorted)
  IN FoldSet(Insert, <<>>, S)

Filtered(s, S) ==
  LET Keep(kept, x) == IF x \in S THEN Append(kept, x) ELSE kept
  IN FoldLeft(Keep, <<>>, s)
=============================================================================
