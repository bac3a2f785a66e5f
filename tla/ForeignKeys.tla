---------------------------- MODULE ForeignKeys ----------------------------
(***************************************************************************)
(* The business tables of the database under the foreign keys of the       *)
(* migrations: which SQL statements a catalogue of keys accepts, and what  *)
(* a DELETE does to the rows that reference what it deletes.               *)
(*                                                                         *)
(* No service decides anything here.  Any session may run any statement,   *)
(* because the schema claims to keep tenants apart "even if the service    *)
(* layer forgets to check".  A row is its table, id, organization_id and   *)
(* referencing columns; a statement is one step (the locks that foreign    *)
(* key checks take order conflicting statements).  An INSERT or UPDATE is  *)
(* of one row: what one of several rows leaves behind, statements of one   *)
(* row reach as well.  Schema.tla has the catalogue of the repository.     *)
(***************************************************************************)

CONSTANTS
    Orgs,       \* ids of organizations
    Ids,        \* ids of rows in business tables
    NULL,
    Catalogue,  \* table -> its foreign keys between business tables
    Tenanted    \* tables whose organization_id REFERENCES organizations ON DELETE CASCADE

Tables == DOMAIN Catalogue

(* The conventions at the head of 000003_platform.up.sql, as far as the    *)
(* keys of a catalogue must follow them.  A column belongs to one key, and *)
(* what ON DELETE clears may be null.                                      *)
ASSUME CatalogueAssumption ==
    /\ NULL \notin Ids
    /\ \A t \in Tables : \A k \in Catalogue[t] :
          /\ k.to \in Tables
          /\ k.rule \in {"cascade", "set null", "no action"}
          /\ k.optional \in BOOLEAN
          /\ k.rule = "set null" => k.optional
          /\ \A l \in Catalogue[t] : l.column = k.column => l = k

Columns(t) == {k.column : k \in Catalogue[t]}

Targets(t) == {k.to : k \in Catalogue[t]}

Required(t) == {k.column : k \in {l \in Catalogue[t] : ~ l.optional}}

VARIABLES
    organizations,  \* ids of the rows of organizations
    rows            \* rows of all business tables

vars == <<organizations, rows>>

Row == UNION {[table : {t}, id : Ids, org : Orgs, ref : [Columns(t) -> Ids \cup {NULL}]] : t \in Tables}

KeysOf(x) == Catalogue[x.table]

OfOrg(o) == {x \in rows : x.org = o}

Present == {x.id : x \in rows}

(* A key that does not carry organization_id. *)
RefersById(x, k, y) == y.table = k.to /\ y.id = x.ref[k.column]

(* Foreign keys are composite: they carry organization_id. *)
Refers(x, k, y) == y.table = k.to /\ y.org = x.org /\ y.id = x.ref[k.column]

(* NOT NULL was forgotten. *)
Nullable(x) == TRUE

NotNull(x) == \A c \in Required(x.table) : x.ref[c] # NULL

(* x satisfies its foreign keys among the rows R; one with a null column   *)
(* is satisfied (MATCH SIMPLE), and a row may reference itself.            *)
Satisfied(x, R) ==
    /\ x.org \in organizations
    /\ \A k \in KeysOf(x) : x.ref[k.column] = NULL \/ \E y \in R : Refers(x, k, y)

Referenced(y, R) == \E x \in R : \E k \in KeysOf(x) : Refers(x, k, y)

-----------------------------------------------------------------------------
(* What a DELETE takes with it: the least set that contains the deleted    *)
(* rows and every row that ON DELETE CASCADE ties to a member.             *)
CascadesFrom(x, y) == \E k \in KeysOf(x) : k.rule = "cascade" /\ Refers(x, k, y)

Closed(S) == \A y \in S, x \in rows \ S : ~ CascadesFrom(x, y)

Gone(D) == {x \in rows : \A S \in SUBSET rows : D \subseteq S /\ Closed(S) => x \in S}

(* ON DELETE SET NULL was forgotten, and nothing refuses the statement. *)
LeftAlone(x, G) == x

(* Rows that stay lose their ON DELETE SET NULL (column) references, that  *)
(* column alone: organization_id, the other half of the key, is NOT NULL.  *)
Cleared(x, G) ==
    [x EXCEPT !.ref = [c \in Columns(x.table) |->
        IF \E k \in KeysOf(x), y \in G : k.column = c /\ k.rule = "set null" /\ Refers(x, k, y)
        THEN NULL ELSE x.ref[c]]]

(* A key without ON DELETE refuses the statement if a row that stays would *)
(* dangle.  It is checked after the cascades of the same statement.        *)
Refuses(G) ==
    \E x \in rows \ G, y \in G : \E k \in KeysOf(x) : k.rule = "no action" /\ Refers(x, k, y)

Removes(D) ==
    LET G == Gone(D)
    IN  /\ ~ Refuses(G)
        /\ rows' = {Cleared(x, G) : x \in rows \ G}

(* What organization_id REFERENCES organizations ON DELETE CASCADE takes;  *)
(* without the clause the key is NO ACTION.                                *)
Owned(o) == {x \in rows : x.org = o /\ x.table \in Tenanted}

-----------------------------------------------------------------------------
Init == organizations = {} /\ rows = {}

(* The statements. *)
InsertOrganization ==
    \E o \in Orgs \ organizations :
        organizations' = organizations \cup {o} /\ UNCHANGED rows

(* What a column of t may be set to in the row id: a key refuses the id of *)
(* a row in any other table than its own.                                  *)
Candidates(t, id) ==
    {NULL} \cup {i \in {id} : t \in Targets(t)}
           \cup {y.id : y \in {z \in rows : z.table \in Targets(t)}}

(* A new id is uuid_generate_v7(): no row has it, though x may reference   *)
(* itself.                                                                 *)
InsertRow(x) ==
    /\ x.id \notin Present
    /\ NotNull(x)
    /\ Satisfied(x, rows \cup {x})
    /\ rows' = rows \cup {x}
    /\ UNCHANGED organizations

Insert ==
    \E t \in Tables, id \in Ids \ Present, o \in organizations :
        \E ref \in [Columns(t) -> Candidates(t, id)] :
            InsertRow([table |-> t, id |-> id, org |-> o, ref |-> ref])

Replaces(x, y) ==
    /\ NotNull(y)
    /\ rows' = (rows \ {x}) \cup {y}
    /\ Satisfied(y, rows')
    /\ UNCHANGED organizations

SetReferences(x, ref) == Replaces(x, [x EXCEPT !.ref = ref])

(* Any columns of one row in one UPDATE.  ON UPDATE is NO ACTION: what     *)
(* others reference keeps its id and its organization_id.                  *)
Update(x) ==
    \E id \in {x.id} \cup (Ids \ Present), o \in organizations :
        /\ <<id, o>> # <<x.id, x.org>> => ~ Referenced(x, rows \ {x})
        /\ \E ref \in [Columns(x.table) -> Candidates(x.table, id)] :
              Replaces(x, [x EXCEPT !.id = id, !.org = o, !.ref = ref])

(* Any rows in one DELETE. *)
Delete(D) == Removes(D) /\ UNCHANGED organizations

DeleteOrganization(o) ==
    /\ Removes(Owned(o))
    /\ \A x \in rows' : x.org # o
    /\ organizations' = organizations \ {o}

Next ==
    \/ InsertOrganization
    \/ Insert
    \/ \E x \in rows : Update(x)
    \/ \E D \in (SUBSET rows) \ {{}} : Delete(D)
    \/ \E o \in organizations : DeleteOrganization(o)

Spec == Init /\ [][Next]_vars

-----------------------------------------------------------------------------
(* Rows are well-typed, NOT NULL columns are not null and an id names one  *)
(* row (the CREATE TABLE statements of the migrations).                    *)
TypeOK ==
    /\ organizations \subseteq Orgs
    /\ rows \subseteq Row
    /\ \A x \in rows : \A k \in KeysOf(x) : ~ k.optional => x.ref[k.column] # NULL
    /\ \A x, y \in rows : x.id = y.id => x = y

(* Whatever statements are run, every row belongs to an organisation that  *)
(* exists, and every reference that is not null is to an existing row of   *)
(* the right table and of the same organisation: no sequence of cascades,  *)
(* cleared columns and moves leaves a dangling reference or one into       *)
(* another tenant (000003_platform.up.sql:15).                             *)
NothingDangles ==
    \A x \in rows :
        /\ x.org \in organizations
        /\ \A k \in KeysOf(x) : x.ref[k.column] # NULL =>
              \E y \in rows : y.id = x.ref[k.column] /\ y.table = k.to /\ y.org = x.org

(* An organisation can always be deleted, though some keys refuse a delete *)
(* (invoices keep their client, journal lines their account) and though    *)
(* each table has to cascade from organizations for itself; that takes     *)
(* exactly its rows, and leaves the rows of all others as they are         *)
(* (organization_id ... ON DELETE CASCADE in every table).                 *)
OrganisationsCanLeave ==
    \A o \in organizations :
        LET G == Gone(Owned(o))
        IN  /\ G = OfOrg(o)
            /\ ~ Refuses(G)
            /\ \A x \in rows \ G : Cleared(x, G) = x

Lost == {x \in rows : x.id \notin Present'}

(* No DELETE of rows of other organisations changes the rows of one,       *)
(* however far cascades and cleared columns reach.                         *)
DeletesStayInTenant ==
    [][\A o \in Orgs : OfOrg(o)' # OfOrg(o) =>
          \A D \in (SUBSET (Lost \ OfOrg(o))) \ {{}} : ~ Delete(D)]_vars
=============================================================================
