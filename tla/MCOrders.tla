------------------------------ MODULE MCOrders ------------------------------
(***************************************************************************)
(* An instance of Orders whose commands are interchangeable.               *)
(***************************************************************************)
EXTENDS Orders, TLC

CONSTANTS o1, p1, k1, k2

Symmetric == Permutations(Command)
=============================================================================
