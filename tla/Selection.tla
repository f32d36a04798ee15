------------------------------ MODULE Selection ------------------------------
(***************************************************************************)
(* What a loop over an array or a Map keeps, in the order it meets it: the *)
(* elements of a sequence at chosen places, and chosen numbers in order.   *)
(***************************************************************************)
EXTENDS Naturals, Sequences, FiniteSets

(* The numbers of S in ascending order.                                    *)
Ascending(S) ==
  CHOOSE s \in [1..Cardinality(S) -> S] : \A i, j \in DOMAIN s : i < j => s[i] < s[j]

(* The elements of seq at the places in S, in their order.                 *)
At(seq, S) == [i \in 1..Cardinality(S) |-> seq[Ascending(S)[i]]]
=============================================================================
