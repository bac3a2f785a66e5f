--------------------------- MODULE MCOrganizations ---------------------------
(* Two transactions with two writes each on three ids; slugs that differ   *)
(* in case.                                                                *)
EXTENDS Organizations

SomeLower == [s \in {"acme", "Acme", "beta"} |-> IF s = "Acme" THEN "acme" ELSE s]
=============================================================================
