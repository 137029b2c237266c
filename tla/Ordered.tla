------------------------------ MODULE Ordered ------------------------------
(***************************************************************************)
(* A finite set of numbers as a sequence, the smallest number first: what  *)
(* Python's sorted() makes of the set.                                     *)
(***************************************************************************)
EXTENDS Integers, FiniteSets

Below(x, numbers) == {n \in numbers : n < x}

\* The number at place i has i - 1 others below it.
InOrder(numbers) ==
  [i \in 1 .. Cardinality(numbers) |->
    CHOOSE x \in numbers : Cardinality(Below(x, numbers)) = i - 1]
=============================================================================
