---------------------------- MODULE Organizations ----------------------------
(***************************************************************************)
(* Table organizations, the tenant root, under the queries of              *)
(* organizations.sql.go: sessions run them in transactions of their own    *)
(* (TxManager.Run) at READ COMMITTED, so that a statement sees what is     *)
(* committed and what its own transaction has written.                     *)
(*                                                                         *)
(* PostgreSQL is external: a statement waits while another open            *)
(* transaction has written the row, or a row with the same key; a cycle of *)
(* such waits is broken by an error; after an error a transaction can only *)
(* roll back.  Columns without a key or a rule are left out of the rows.   *)
(***************************************************************************)
EXTENDS Naturals, FiniteSets

CONSTANTS
    Sessions,    \* transactions at a time
    Ids,         \* uuid_generate_v7() never repeats one that is in use
    Slugs,
    Lower,       \* lower(slug), on which the unique index is built
    Gstins,
    Null,
    NewStatuses, \* those that callers change a status to
    MaxWrites    \* bound on the rows one transaction writes

ASSUME OrganizationsAssumption ==
    /\ Lower \in [Slugs -> Slugs]
    /\ Null \notin Gstins
    /\ NewStatuses \subseteq {"active", "suspended", "closed"}

OrganizationStatus == {"active", "suspended", "closed"}

Organization ==
    [id : Ids, slug : Slugs, gstin : Gstins \cup {Null}, status : OrganizationStatus]

VARIABLES
    organizations,   \* the committed rows
    at,              \* of a session: idle, open, waiting or failed
    written,         \* the rows its transaction has inserted or updated
    stmt             \* the row a waiting statement is about to write

vars == <<organizations, at, written, stmt>>

-----------------------------------------------------------------------------
(* Queries. *)

(* MUTANT: the slug is compared as it is. *)
BySlugAsItIs(rows, slug) == {r \in rows : r.slug = slug}

GetOrganizationBySlug(rows, slug) == {r \in rows : Lower[r.slug] = Lower[slug]}
GetOrganization(rows, id) == {r \in rows : r.id = id}
ListOrganizations(rows) == rows

NewOrganization(id, slug, gstin) ==
    [id |-> id, slug |-> slug, gstin |-> gstin, status |-> "active"]

-----------------------------------------------------------------------------
(* Keys. *)

SameSlug(a, b) == Lower[a.slug] = Lower[b.slug]

(* MUTANT: the index on gstin is missing. *)
SameSlugOnly(a, b) == a.id # b.id /\ SameSlug(a, b)

Conflict(a, b) ==
    /\ a.id # b.id
    /\ SameSlug(a, b) \/ (a.gstin = b.gstin /\ a.gstin # Null)

(* What a statement of s sees. *)
Visible(s) ==
    {r \in organizations : \A w \in written[s] : w.id # r.id} \cup written[s]

Taken(s, r) == \E x \in Visible(s) : Conflict(x, r)

Blockers(s, r) ==
    {t \in Sessions \ {s} : \E w \in written[t] : w.id = r.id \/ Conflict(w, r)}

Waiting == {s \in Sessions : at[s] = "waiting"}

(* Each waits for one of them and is waited for by one of them. *)
Cycle(S) ==
    /\ \A s \in S : Blockers(s, stmt[s]) \cap S # {}
    /\ \A s \in S : \E t \in S : s \in Blockers(t, stmt[t])

-----------------------------------------------------------------------------
NoStatement == [id |-> Null]

Init ==
    /\ organizations = {}
    /\ at = [s \in Sessions |-> "idle"]
    /\ written = [s \in Sessions |-> {}]
    /\ stmt = [s \in Sessions |-> NoStatement]

Begin(s) ==
    /\ at[s] = "idle"
    /\ at' = [at EXCEPT ![s] = "open"]
    /\ UNCHANGED <<organizations, written, stmt>>

(* MUTANT: the statement that failed is still on its way. *)
FailsLater(s) ==
    /\ at' = [at EXCEPT ![s] = "failed"]
    /\ written' = [written EXCEPT ![s] = {}]
    /\ UNCHANGED <<organizations, stmt>>

(* SQLSTATE 23505, like any error, aborts the transaction there and then:  *)
(* what it wrote is gone, though Run has still to send its ROLLBACK.       *)
Fails(s) ==
    /\ at' = [at EXCEPT ![s] = "failed"]
    /\ written' = [written EXCEPT ![s] = {}]
    /\ stmt' = [stmt EXCEPT ![s] = NoStatement]
    /\ UNCHANGED organizations

Stores(s, r) ==
    /\ at' = [at EXCEPT ![s] = "open"]
    /\ written' = [written EXCEPT ![s] = {w \in @ : w.id # r.id} \cup {r}]
    /\ stmt' = [stmt EXCEPT ![s] = NoStatement]
    /\ UNCHANGED organizations

Waits(s, r) ==
    /\ at' = [at EXCEPT ![s] = "waiting"]
    /\ stmt' = [stmt EXCEPT ![s] = r]
    /\ UNCHANGED <<organizations, written>>

(* The indexes are looked at one after the other: a key that is taken may  *)
(* be found before or after a key that is being written.                   *)
Writes(s, r) ==
    \/ Taken(s, r) /\ Fails(s)
    \/ Blockers(s, r) # {} /\ Waits(s, r)
    \/ ~ Taken(s, r) /\ Blockers(s, r) = {} /\ Stores(s, r)

MayWrite(s) == at[s] = "open" /\ Cardinality(written[s]) < MaxWrites

InUse == {r.id : r \in organizations \cup UNION {written[t] : t \in Sessions}}
         \cup {stmt[t].id : t \in Sessions}

CreateOrganization(s) ==
    /\ MayWrite(s)
    /\ \E id \in Ids \ InUse, slug \in Slugs, gstin \in Gstins \cup {Null} :
          Writes(s, NewOrganization(id, slug, gstin))

(* A row that is not there is ErrNoRows, and nothing happens. *)
UpdateOrganizationStatus(s) ==
    /\ MayWrite(s)
    /\ \E id \in Ids, status \in NewStatuses :
          \E r \in GetOrganization(Visible(s), id) :
              Writes(s, [r EXCEPT !.status = status])

(* The transactions it waited for are over. *)
Resumes(s) ==
    /\ at[s] = "waiting" /\ Blockers(s, stmt[s]) = {}
    /\ IF Taken(s, stmt[s]) THEN Fails(s) ELSE Stores(s, stmt[s])

(* MUTANT: a cycle of waits is left alone. *)
CycleStays(s) == FALSE /\ UNCHANGED vars

DeadlockDetected(s) ==
    /\ at[s] = "waiting"
    /\ \E S \in SUBSET Waiting : s \in S /\ Cycle(S)
    /\ Fails(s)

(* The context of the caller is done, or its connection is lost. *)
Interrupted(s) == at[s] \in {"open", "waiting"} /\ Fails(s)

Ended(s) ==
    /\ at' = [at EXCEPT ![s] = "idle"]
    /\ written' = [written EXCEPT ![s] = {}]
    /\ UNCHANGED stmt

(* fn returned nil. *)
Commits(s) ==
    /\ at[s] = "open"
    /\ organizations' = Visible(s)
    /\ Ended(s)

(* fn returned an error or panicked, or a statement failed. *)
RollsBack(s) ==
    /\ at[s] \in {"open", "failed"}
    /\ Ended(s)
    /\ UNCHANGED organizations

Next ==
    \E s \in Sessions :
        \/ Begin(s) \/ CreateOrganization(s) \/ UpdateOrganizationStatus(s)
        \/ Resumes(s) \/ DeadlockDetected(s) \/ Interrupted(s)
        \/ Commits(s) \/ RollsBack(s)

Spec == Init /\ [][Next]_vars

(* Run always ends its transaction (fn returns, and what is sent is        *)
(* answered).  PostgreSQL looks for cycles, and wakes the waiters of every *)
(* transaction that ends: one that is woken again and again gets its turn. *)
Fairness ==
    \A s \in Sessions :
        /\ WF_vars(Commits(s) \/ RollsBack(s))
        /\ SF_vars(Resumes(s)) /\ WF_vars(DeadlockDetected(s))

FairSpec == Spec /\ Fairness

-----------------------------------------------------------------------------
(* Properties. *)

(* Types; a statement is kept exactly while it waits. *)
TypeOK ==
    /\ organizations \subseteq Organization
    /\ at \in [Sessions -> {"idle", "open", "waiting", "failed"}]
    /\ written \in [Sessions -> SUBSET Organization]
    /\ stmt \in [Sessions -> Organization \cup {NoStatement}]
    /\ \A s \in Sessions :
          stmt[s] \in IF at[s] = "waiting" THEN Organization ELSE {NoStatement}

(* Any casing of the slug of an organisation finds that one and no other,  *)
(* for every transaction at every moment, its own writes included: the     *)
(* lookups by slug and by id agree on every listed row.                    *)
SlugFinds ==
    \A s \in Sessions : \A r \in ListOrganizations(Visible(s)) :
        /\ GetOrganization(Visible(s), r.id) = {r}
        /\ \A slug \in Slugs :
              Lower[slug] = Lower[r.slug] => GetOrganizationBySlug(Visible(s), slug) = {r}

(* A GSTIN identifies one legal entity nationally. *)
GstinOnce ==
    \A s \in Sessions : \A a, b \in Visible(s) :
        a.gstin = b.gstin /\ a.gstin # Null => a = b

(* A statement that waits for other transactions does not wait for ever:   *)
(* two that wait for each other are told apart.                            *)
WaitsEnd == \A s \in Sessions : at[s] = "waiting" ~> at[s] # "waiting"
=============================================================================
