----------------------------- MODULE SchemaClaim -----------------------------
(***************************************************************************)
(* What a migration tool promises about the number it keeps, with no       *)
(* operator, lock or dirty flag.  A database is claimed to hold certain    *)
(* migrations, or nothing is claimed.  The schema changes only while       *)
(* nothing is claimed, one migration at a time, and what is claimed again  *)
(* afterwards is the truth.  Only an operator's word (Assert) can put a    *)
(* false claim in its place.                                               *)
(***************************************************************************)
EXTENDS Integers

CONSTANTS
    Latest,
    Unknown

VARIABLES
    schema,   \* the migrations whose objects the database has
    claim,    \* the migrations it is said to have, or Unknown
    trusted   \* whether the last word given about it was true

claimVars == <<schema, claim, trusted>>

ClaimInit == schema = {} /\ claim = {} /\ trusted = TRUE

Doubt ==
    /\ claim # Unknown
    /\ claim' = Unknown
    /\ UNCHANGED <<schema, trusted>>

Change ==
    /\ claim = Unknown
    /\ \E v \in 1..Latest : schema' = schema \cup {v} \/ schema' = schema \ {v}
    /\ UNCHANGED <<claim, trusted>>

Settle ==
    /\ claim = Unknown
    /\ claim' # Unknown
    /\ trusted => claim' = schema
    /\ UNCHANGED <<schema, trusted>>

Assert ==
    /\ claim' # Unknown
    /\ trusted' = (claim' = schema)
    /\ UNCHANGED schema

ClaimNext == Doubt \/ Change \/ Settle \/ Assert

ClaimSpec == ClaimInit /\ [][ClaimNext]_claimVars
=============================================================================
