----------------------------- MODULE FlatArrays -----------------------------
(***************************************************************************)
(* Arrays as fast_obj stores them: the elements of all faces behind one      *)
(* another, and for each face only how many are its own. Where a face begins *)
(* is the sum of the numbers before it.                                     *)
(***************************************************************************)
EXTENDS Integers, Sequences

\* Sums(s)[n] is the sum of the first n elements of s.
Sums(s) ==
    LET sum[n \in 0 .. Len(s)] == IF n = 0 THEN 0 ELSE sum[n - 1] + s[n] IN sum
=============================================================================
