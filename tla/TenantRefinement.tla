-------------------------- MODULE TenantRefinement --------------------------
(***************************************************************************)
(* The shared tables, seen from one organisation, implement a TenantStore: *)
(* its rows without their organisation, the calls made in its name, and of *)
(* an answer what the caller can act upon.                                 *)
(***************************************************************************)
EXTENDS TenantApi

CONSTANT Observed   \* the organisation that looks

Columns(x) == [c \in DOMAIN x \ {"organization_id"} |-> x[c]]
View(rows) == {Columns(x) : x \in OfTenant(rows, Observed)}

ServedFor(w) == pc[w] # "idle" /\ req[w].organization_id = Observed

(* A violated constraint is a refusal, whichever kind the handler gives    *)
(* it; only a fault leaves the caller in doubt.                            *)
Verdict(a) ==
    IF a.kind = "none" THEN "pending"
    ELSE IF a = Faulted THEN "failed"
    ELSE IF a.kind \in {"ok", "created", "no_content"} THEN "done"
    ELSE IF a.kind = "not_found" THEN "missing"
    ELSE IF a.kind = "conflict" THEN "conflict"
    ELSE "refused"

Answered(a) == [verdict |-> Verdict(a), rows |-> View(a.rows), total |-> a.total]

(* What each worker does for the observed organisation, if anything. *)
Made == [w \in Workers |-> IF ServedFor(w) THEN req[w] ELSE Null]
Seen == [w \in Workers |-> IF ServedFor(w) THEN View(page[w]) ELSE {}]
Told == [w \in Workers |-> Answered(IF ServedFor(w) THEN resp[w] ELSE NoAnswer)]

Store == INSTANCE TenantStore WITH
    Known <- Observed \in Organizations,
    Calls <- {r \in Requests : r.organization_id = Observed},
    Valid <- {r \in Requests : EarlyAnswer(r) = {}},
    Titles <- {x.id : x \in OfTenant(Designations, Observed)},
    SeedDepts <- View(SeedDepartments),
    SeedStaff <- View(SeedEmployees),
    depts <- View(departments),
    staff <- View(employees),
    call <- Made,
    seen <- Seen,
    outcome <- Told

(* Seen from one organisation the service is a store of its own: whatever  *)
(* the others do between two of its steps, it never shows, and every       *)
(* answer is true at one moment between its request and its answer.        *)
ImplementsStore == Store!StoreSpec
=============================================================================
