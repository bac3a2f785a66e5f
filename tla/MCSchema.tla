------------------------------ MODULE MCSchema ------------------------------
(* All business tables for TLC.  Three rows make every table reachable: the *)
(* longest chain of required references has three rows.                     *)
EXTENDS Schema, TLC

Symmetry == Permutations(Orgs) \cup Permutations(Ids)
=============================================================================
