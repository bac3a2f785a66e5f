------------------------------- MODULE Service -------------------------------
(***************************************************************************)
(* What the process promises, without its gates, goroutines, pool and      *)
(* timers: it answers what it was asked or, at its end, cuts that off; and *)
(* an end it calls a success cut nothing off.                              *)
(***************************************************************************)
CONSTANTS Requests

VARIABLES phase, exit, call

vars == <<phase, exit, call>>

Init ==
    /\ phase = "starting"
    /\ exit = "none"
    /\ call = [r \in Requests |-> "none"]

Start ==
    /\ phase = "starting"
    /\ phase' = "serving"
    /\ UNCHANGED <<exit, call>>

Stop ==
    /\ phase \in {"starting", "serving"}
    /\ phase' = "stopping"
    /\ UNCHANGED <<exit, call>>

Ask(r) ==
    /\ phase \in {"serving", "stopping"} /\ call[r] = "none"
    /\ call' = [call EXCEPT ![r] = "asked"]
    /\ UNCHANGED <<phase, exit>>

Answer(r) ==
    /\ phase # "stopped" /\ call[r] = "asked"
    /\ call' = [call EXCEPT ![r] = "answered"]
    /\ UNCHANGED <<phase, exit>>

End(c) ==
    /\ phase # "stopped"
    /\ c = "ok" => phase = "stopping" /\ \A r \in Requests : call[r] # "asked"
    /\ phase' = "stopped" /\ exit' = c
    /\ call' = [r \in Requests |-> IF call[r] = "asked" THEN "lost" ELSE call[r]]

Next ==
    \/ Start \/ Stop
    \/ \E r \in Requests : Ask(r) \/ Answer(r)
    \/ \E c \in {"ok", "error", "killed"} : End(c)

Spec == Init /\ [][Next]_vars
=============================================================================
