---------------------------- MODULE MCOrderMatch ----------------------------
(***************************************************************************)
(* The instance of OrderMatch for TLC.                                     *)
(***************************************************************************)
EXTENDS OrderMatch, TLC

CONSTANTS c1, c2

\* A quantity below zero, none, and two that leave a part of an order open.
SomeQuantities == {-2, 0, 1, 3}

Symmetry == Permutations({c1, c2})
=============================================================================
