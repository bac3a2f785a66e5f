----------------------------- MODULE UnitOfWork -----------------------------
(***************************************************************************)
(* What TxManager.Run promises its callers, with no pool, connection or    *)
(* protocol: the writes of a call take effect all together, at one moment, *)
(* or never.  A nil error means they have; the error or the panic of the   *)
(* callback, that they never will.  Only an error of COMMIT leaves the     *)
(* caller in doubt, and then they may take effect even after the call has  *)
(* returned.                                                               *)
(***************************************************************************)
CONSTANTS
    Calls,
    Writes     \* what a callback may write

VARIABLES
    phase,     \* idle, running or done
    written,   \* the writes the callback has made
    applied,   \* whether they have taken effect
    effect,    \* the writes of the call that can be seen
    verdict    \* what the caller was told

uowVars == <<phase, written, applied, effect, verdict>>

Untold == "none"

UowInit ==
    /\ phase = [c \in Calls |-> "idle"]
    /\ written = [c \in Calls |-> {}]
    /\ applied = [c \in Calls |-> FALSE]
    /\ effect = [c \in Calls |-> {}]
    /\ verdict = [c \in Calls |-> Untold]

Start(c) ==
    /\ phase[c] = "idle"
    /\ phase' = [phase EXCEPT ![c] = "running"]
    /\ UNCHANGED <<written, applied, effect, verdict>>

AddWrite(c) ==
    /\ phase[c] = "running" /\ ~ applied[c]
    /\ \E w \in Writes : written' = [written EXCEPT ![c] = @ \cup {w}]
    /\ UNCHANGED <<phase, applied, effect, verdict>>

InDoubt(c) == phase[c] = "done" /\ verdict[c] = "commit_error"

Apply(c) ==
    /\ phase[c] = "running" \/ InDoubt(c)
    /\ ~ applied[c]
    /\ applied' = [applied EXCEPT ![c] = TRUE]
    /\ effect' = [effect EXCEPT ![c] = written[c]]
    /\ UNCHANGED <<phase, written, verdict>>

Told(c) ==
    IF applied[c] THEN {"nil", "commit_error"}
    ELSE {"begin_error", "fn_error", "panic", "commit_error"}

End(c) ==
    /\ phase[c] = "running"
    /\ phase' = [phase EXCEPT ![c] = "done"]
    /\ \E v \in Told(c) : verdict' = [verdict EXCEPT ![c] = v]
    /\ UNCHANGED <<written, applied, effect>>

Forget(c) ==
    /\ phase[c] = "done"
    /\ phase' = [phase EXCEPT ![c] = "idle"]
    /\ written' = [written EXCEPT ![c] = {}]
    /\ applied' = [applied EXCEPT ![c] = FALSE]
    /\ effect' = [effect EXCEPT ![c] = {}]
    /\ verdict' = [verdict EXCEPT ![c] = Untold]

UowNext == \E c \in Calls : Start(c) \/ AddWrite(c) \/ Apply(c) \/ End(c) \/ Forget(c)

UowSpec == UowInit /\ [][UowNext]_uowVars
=============================================================================
