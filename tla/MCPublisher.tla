---------------------------- MODULE MCPublisher ----------------------------
(* A small instance of Publisher for TLC. *)
EXTENDS Publisher, TLC

CONSTANTS a1, a2, c1, c2

(* The page's clock is ahead of the console's, right, or behind by more    *)
(* than the margin.                                                        *)
Skews == {-1, 0, 2}

Interchangeable == Permutations(Calls)
=============================================================================
