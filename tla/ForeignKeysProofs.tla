-------------------------- MODULE ForeignKeysProofs --------------------------
(***************************************************************************)
(* Proofs about ForeignKeys for every catalogue of composite keys, any     *)
(* organisations and any number of rows: types, references, deletion of an *)
(* organisation and isolation of tenants.                                  *)
(*                                                                         *)
(* Everything about DELETE follows from two facts of Gone: it is closed    *)
(* under cascades (so a survivor never depended on what went), and it is   *)
(* within every closed set (so, the rows of an organisation being one, it  *)
(* never leaves the tenant).                                               *)
(***************************************************************************)
EXTENDS Schema, TLAPS

(* A reference, once not null, is to an existing row: NothingDangles and   *)
(* the types it needs.                                                     *)
IInv == TypeOK /\ NothingDangles

-----------------------------------------------------------------------------
LEMMA GoneIsClosed ==
    ASSUME NEW D, D \subseteq rows
    PROVE  D \subseteq Gone(D) /\ Gone(D) \subseteq rows /\ Closed(Gone(D))
<1>1. D \subseteq Gone(D) /\ Gone(D) \subseteq rows
  BY DEF Gone
<1>2. ASSUME NEW y \in Gone(D), NEW x \in rows, CascadesFrom(x, y)
      PROVE  x \in Gone(D)
  <2>1. ASSUME NEW S \in SUBSET rows, D \subseteq S, Closed(S)
        PROVE  x \in S
    <3>1. y \in S
      BY <2>1 DEF Gone
    <3>2. QED
      BY <3>1, <2>1, <1>2 DEF Closed
  <2>2. QED
    BY <2>1 DEF Gone
<1>3. QED
  BY <1>1, <1>2 DEF Closed

LEMMA GoneIsLeast ==
    ASSUME NEW D, NEW S \in SUBSET rows, D \subseteq S, Closed(S)
    PROVE  Gone(D) \subseteq S
BY DEF Gone

(* Cascades follow composite keys, so they do not leave a tenant. *)
LEMMA TenantIsClosed ==
    ASSUME NEW o
    PROVE  OfOrg(o) \in SUBSET rows /\ Closed(OfOrg(o))
BY DEF OfOrg, Closed, CascadesFrom, Refers

(* If every table cascades from organizations. *)
LEMMA TenantGoesWhole ==
    ASSUME rows \subseteq Row, Tables \subseteq Tenanted, NEW o
    PROVE  Gone(Owned(o)) = OfOrg(o)
<1>1. \A x \in rows : x.table \in Tables
  BY DEF Row
<1>2. Owned(o) = OfOrg(o) /\ Owned(o) \subseteq rows
  BY <1>1 DEF Owned, OfOrg
<1>3. QED
  BY <1>2, GoneIsClosed, GoneIsLeast, TenantIsClosed

-----------------------------------------------------------------------------
(* What a row is, without the UNION of Row. *)
LEMMA RowFields ==
    ASSUME NEW x
    PROVE  x \in Row <=>
              /\ x.table \in Tables
              /\ x \in [table : {x.table}, id : Ids, org : Orgs,
                        ref : [Columns(x.table) -> Ids \cup {NULL}]]
BY DEF Row

(* Clearing references keeps everything else of a row. *)
LEMMA ClearedKeeps ==
    ASSUME NEW x \in Row, NEW G
    PROVE  /\ Cleared(x, G) \in Row
           /\ Cleared(x, G).table = x.table
           /\ Cleared(x, G).id = x.id
           /\ Cleared(x, G).org = x.org
           /\ \A c \in Columns(x.table) :
                 Cleared(x, G).ref[c] =
                    IF \E k \in KeysOf(x), y \in G :
                          k.column = c /\ k.rule = "set null" /\ Refers(x, k, y)
                    THEN NULL ELSE x.ref[c]
<1> DEFINE clears(c) == \E k \in KeysOf(x), y \in G :
                          k.column = c /\ k.rule = "set null" /\ Refers(x, k, y)
           newRef == [c \in Columns(x.table) |-> IF clears(c) THEN NULL ELSE x.ref[c]]
<1>1. x \in [table : {x.table}, id : Ids, org : Orgs, ref : [Columns(x.table) -> Ids \cup {NULL}]]
      /\ x.table \in Tables
  BY RowFields
<1>2. newRef \in [Columns(x.table) -> Ids \cup {NULL}]
  BY <1>1
<1>3. Cleared(x, G) = [x EXCEPT !.ref = newRef]
  BY DEF Cleared
<1> HIDE DEF newRef
<1>4. /\ Cleared(x, G) \in [table : {x.table}, id : Ids, org : Orgs,
                            ref : [Columns(x.table) -> Ids \cup {NULL}]]
      /\ Cleared(x, G).table = x.table /\ Cleared(x, G).id = x.id
      /\ Cleared(x, G).org = x.org /\ Cleared(x, G).ref = newRef
  BY <1>1, <1>2, <1>3
<1>5. Cleared(x, G) \in Row
  BY <1>1, <1>4 DEF Row
<1>6. QED
  BY <1>4, <1>5 DEF newRef

(* A row that references nothing that goes stays as it is. *)
LEMMA UntouchedStays ==
    ASSUME NEW x \in Row, NEW G, \A k \in KeysOf(x), y \in G : ~ Refers(x, k, y)
    PROVE  Cleared(x, G) = x
<1>1. x \in [table : {x.table}, id : Ids, org : Orgs, ref : [Columns(x.table) -> Ids \cup {NULL}]]
  BY RowFields
<1>2. x.ref = [c \in Columns(x.table) |->
                  IF \E k \in KeysOf(x), y \in G : k.column = c /\ k.rule = "set null" /\ Refers(x, k, y)
                  THEN NULL ELSE x.ref[c]]
  BY <1>1
<1> QED
  BY <1>1, <1>2 DEF Cleared

LEMMA KeyFacts ==
    ASSUME NEW x \in Row, NEW k \in KeysOf(x)
    PROVE  /\ k.column \in Columns(x.table)
           /\ k.rule \in {"cascade", "set null", "no action"}
           /\ k.rule = "set null" => k.optional
           /\ \A l \in KeysOf(x) : l.column = k.column => l = k
           /\ x.ref[k.column] \in Ids \cup {NULL}
<1>1. x.table \in Tables /\ x.ref \in [Columns(x.table) -> Ids \cup {NULL}]
  BY RowFields
<1>2. k.column \in Columns(x.table)
  BY DEF Columns, KeysOf
<1>3. QED
  BY <1>1, <1>2, CatalogueAssumption DEF KeysOf, Tables

-----------------------------------------------------------------------------
(* A DELETE that is not refused leaves the survivors sound. *)
LEMMA RemovesKeepsRows ==
    ASSUME IInv, NEW D, D \subseteq rows, Removes(D)
    PROVE  /\ rows' \subseteq Row
           /\ \A x \in rows' : \A k \in KeysOf(x) : ~ k.optional => x.ref[k.column] # NULL
           /\ \A x, y \in rows' : x.id = y.id => x = y
<1> DEFINE G == Gone(D)
<1>1. rows' = {Cleared(x, G) : x \in rows \ G}
  BY DEF Removes
<1>2. rows \subseteq Row
  BY DEF IInv, TypeOK
<1> HIDE DEF G
<1>3. rows' \subseteq Row
  BY <1>1, <1>2, ClearedKeeps
<1>4. ASSUME NEW x \in rows, NEW k \in KeysOf(Cleared(x, G)), ~ k.optional
      PROVE  Cleared(x, G).ref[k.column] # NULL
  <2>1. x \in Row /\ Cleared(x, G).table = x.table
    BY <1>2, ClearedKeeps
  <2>2. k \in KeysOf(x)
    BY <1>4, <2>1 DEF KeysOf
  <2>3. x.ref[k.column] # NULL
    BY <1>4, <2>2 DEF IInv, TypeOK
  <2>4. k.column \in Columns(x.table)
    BY <2>1, <2>2, KeyFacts
  <2>5. ~ \E l \in KeysOf(x), y \in G : l.column = k.column /\ l.rule = "set null" /\ Refers(x, l, y)
    BY <1>4, <2>1, <2>2, KeyFacts
  <2>6. QED
    BY <2>1, <2>3, <2>4, <2>5, ClearedKeeps
<1>5. ASSUME NEW x \in rows, NEW y \in rows, Cleared(x, G).id = Cleared(y, G).id
      PROVE  Cleared(x, G) = Cleared(y, G)
  <2>1. x.id = y.id
    BY <1>2, <1>5, ClearedKeeps
  <2>2. QED
    BY <2>1 DEF IInv, TypeOK
<1>6. QED
  BY <1>1, <1>3, <1>4, <1>5

LEMMA RemovesKeepsReferences ==
    ASSUME IInv, NEW D, D \subseteq rows, Removes(D),
           NEW x \in rows \ Gone(D), NEW k \in KeysOf(x), Cleared(x, Gone(D)).ref[k.column] # NULL
    PROVE  \E z \in rows' : z.id = Cleared(x, Gone(D)).ref[k.column] /\ z.table = k.to /\ z.org = x.org
<1> DEFINE G == Gone(D)
<1>1. rows \subseteq Row /\ x \in Row /\ rows' = {Cleared(w, G) : w \in rows \ G} /\ ~ Refuses(G)
  BY DEF IInv, TypeOK, Removes
<1>2. Closed(G)
  BY GoneIsClosed
<1> HIDE DEF G
<1>3. k.column \in Columns(x.table)
  BY <1>1, KeyFacts
<1>4. /\ Cleared(x, G).ref[k.column] = x.ref[k.column]
      /\ x.ref[k.column] # NULL
      /\ ~ \E y \in G : k.rule = "set null" /\ Refers(x, k, y)
  BY <1>1, <1>3, ClearedKeeps DEF G
<1>5. PICK y \in rows : y.id = x.ref[k.column] /\ y.table = k.to /\ y.org = x.org
  BY <1>4 DEF IInv, NothingDangles
<1>6. Refers(x, k, y)
  BY <1>5 DEF Refers
<1>7. y \notin G
  <2>1. SUFFICES ASSUME y \in G PROVE FALSE
    OBVIOUS
  <2>2. CASE k.rule = "cascade"
    BY <2>1, <2>2, <1>2, <1>6 DEF Closed, CascadesFrom, G
  <2>3. CASE k.rule = "set null"
    BY <2>1, <2>3, <1>4, <1>6
  <2>4. CASE k.rule = "no action"
    BY <2>1, <2>4, <1>1, <1>6 DEF Refuses, G
  <2>5. QED
    BY <2>2, <2>3, <2>4, <1>1, KeyFacts
<1>8. Cleared(y, G) \in rows' /\ Cleared(y, G).id = y.id
      /\ Cleared(y, G).table = y.table /\ Cleared(y, G).org = y.org
  BY <1>1, <1>7, ClearedKeeps
<1>9. QED
  BY <1>4, <1>5, <1>8 DEF G

LEMMA RemovesSound ==
    ASSUME IInv, NEW D, D \subseteq rows, Removes(D),
           organizations' \subseteq Orgs,
           \A x \in rows \ Gone(D) : x.org \in organizations'
    PROVE  IInv'
<1>1. TypeOK'
  BY RemovesKeepsRows DEF TypeOK, KeysOf, Row, Columns, Tables
<1>2. ASSUME NEW x \in rows \ Gone(D)
      PROVE  LET c == Cleared(x, Gone(D))
             IN  /\ c.org \in organizations'
                 /\ \A k \in KeysOf(c) : c.ref[k.column] # NULL =>
                       \E y \in rows' : y.id = c.ref[k.column] /\ y.table = k.to /\ y.org = c.org
  <2>1. x \in Row
    BY DEF IInv, TypeOK
  <2>2. Cleared(x, Gone(D)).org = x.org /\ KeysOf(Cleared(x, Gone(D))) = KeysOf(x)
    BY <2>1, ClearedKeeps DEF KeysOf
  <2>3. QED
    BY <2>2, RemovesKeepsReferences
<1>3. NothingDangles'
  BY <1>2 DEF NothingDangles, Removes, KeysOf
<1>4. QED
  BY <1>1, <1>3 DEF IInv
-----------------------------------------------------------------------------
(* A row that is written satisfies its keys; the rows that referenced what *)
(* it replaces still find it.                                              *)
LEMMA NewRow ==
    ASSUME NEW t \in Tables, NEW id \in Ids, NEW o \in Orgs, NEW ref \in [Columns(t) -> Ids \cup {NULL}]
    PROVE  [table |-> t, id |-> id, org |-> o, ref |-> ref] \in Row
BY DEF Row

LEMMA CandidatesTyped ==
    ASSUME IInv, NEW t, NEW id \in Ids
    PROVE  Candidates(t, id) \subseteq Ids \cup {NULL}
BY RowFields DEF IInv, TypeOK, Candidates

LEMMA InsertRowSound ==
    ASSUME IInv, NEW x \in Row, InsertRow(x)
    PROVE  IInv'
<1>1. /\ x.id \notin Present
      /\ NotNull(x)
      /\ Satisfied(x, rows \cup {x})
      /\ rows' = rows \cup {x}
      /\ organizations' = organizations
  BY DEF InsertRow
<1>2. \A k \in KeysOf(x) : ~ k.optional => x.ref[k.column] # NULL
  BY <1>1 DEF NotNull, Required, KeysOf
<1>3. TypeOK'
  <2>1. organizations' \subseteq Orgs /\ rows' \subseteq Row
    BY <1>1 DEF IInv, TypeOK
  <2>2. \A y \in rows' : \A k \in KeysOf(y) : ~ k.optional => y.ref[k.column] # NULL
    BY <1>1, <1>2 DEF IInv, TypeOK
  <2>3. \A y, z \in rows' : y.id = z.id => y = z
    BY <1>1 DEF IInv, TypeOK, Present
  <2>4. QED
    BY <2>1, <2>2, <2>3 DEF TypeOK, KeysOf, Row, Columns, Tables
<1>4. NothingDangles'
  <2>1. x.org \in organizations /\ \A k \in KeysOf(x) : x.ref[k.column] # NULL =>
           \E y \in rows' : y.id = x.ref[k.column] /\ y.table = k.to /\ y.org = x.org
    BY <1>1 DEF Satisfied, Refers
  <2>2. \A z \in rows : z.org \in organizations /\ \A k \in KeysOf(z) : z.ref[k.column] # NULL =>
           \E y \in rows' : y.id = z.ref[k.column] /\ y.table = k.to /\ y.org = z.org
    BY <1>1 DEF IInv, NothingDangles
  <2>3. QED
    BY <1>1, <2>1, <2>2 DEF NothingDangles, KeysOf
<1>5. QED
  BY <1>3, <1>4 DEF IInv

LEMMA InsertSound == IInv /\ Insert => IInv'
<1> SUFFICES ASSUME IInv, Insert PROVE IInv'
  OBVIOUS
<1>0. PICK t \in Tables, id \in Ids \ Present, o \in organizations :
         \E ref \in [Columns(t) -> Candidates(t, id)] :
            InsertRow([table |-> t, id |-> id, org |-> o, ref |-> ref])
  BY DEF Insert
<1>1. PICK ref \in [Columns(t) -> Candidates(t, id)] :
         InsertRow([table |-> t, id |-> id, org |-> o, ref |-> ref])
  BY <1>0
<1>2. ref \in [Columns(t) -> Ids \cup {NULL}]
  BY <1>1, CandidatesTyped
<1>3. o \in Orgs /\ id \in Ids
  BY <1>1 DEF IInv, TypeOK
<1>4. QED
  BY <1>1, <1>2, <1>3, NewRow, InsertRowSound

(* An UPDATE of one row: its references are checked, and those to it must  *)
(* still find it.                                                          *)
LEMMA ReplacesSound ==
    ASSUME IInv, NEW x \in rows, NEW y \in Row, y.table = x.table,
           y.id = x.id \/ y.id \notin Present,
           Replaces(x, y), (y.id = x.id /\ y.org = x.org) \/ ~ Referenced(x, rows \ {x})
    PROVE  IInv'
<1>1. /\ NotNull(y)
      /\ rows' = (rows \ {x}) \cup {y}
      /\ Satisfied(y, rows')
      /\ organizations' = organizations
  BY DEF Replaces
<1>2. rows \subseteq Row
  BY DEF IInv, TypeOK
<1>3. TypeOK'
  <2>1. organizations' \subseteq Orgs /\ rows' \subseteq Row
    BY <1>1, <1>2 DEF IInv, TypeOK
  <2>2. \A k \in KeysOf(y) : ~ k.optional => y.ref[k.column] # NULL
    BY <1>1 DEF NotNull, Required, KeysOf
  <2>3. \A w \in rows' : \A k \in KeysOf(w) : ~ k.optional => w.ref[k.column] # NULL
    BY <1>1, <2>2 DEF IInv, TypeOK
  <2>4. \A w, z \in rows' : w.id = z.id => w = z
    BY <1>1 DEF IInv, TypeOK, Present
  <2>5. QED
    BY <2>1, <2>3, <2>4 DEF TypeOK, KeysOf, Row, Columns, Tables
<1>4. ASSUME NEW w \in rows \ {x}, NEW k \in KeysOf(w), w.ref[k.column] # NULL
      PROVE  \E z \in rows' : z.id = w.ref[k.column] /\ z.table = k.to /\ z.org = w.org
  <2>1. PICK z \in rows : z.id = w.ref[k.column] /\ z.table = k.to /\ z.org = w.org
    BY <1>4 DEF IInv, NothingDangles
  <2>2. CASE z # x
    BY <2>1, <2>2, <1>1
  <2>3. CASE z = x
    <3>1. Referenced(x, rows \ {x})
      BY <2>1, <2>3, <1>4 DEF Referenced, Refers
    <3>2. y.org = x.org /\ y.id = x.id
      BY <3>1
    <3>3. QED
      BY <2>1, <2>3, <3>2, <1>1
  <2>4. QED
    BY <2>2, <2>3
<1>5. \A w \in rows \ {x} : w.org \in organizations'
  BY <1>1 DEF IInv, NothingDangles
<1>6. y.org \in organizations' /\ \A k \in KeysOf(y) : y.ref[k.column] # NULL =>
         \E z \in rows' : z.id = y.ref[k.column] /\ z.table = k.to /\ z.org = y.org
  BY <1>1 DEF Satisfied, Refers
<1>7. NothingDangles'
  BY <1>1, <1>4, <1>5, <1>6 DEF NothingDangles, KeysOf
<1>8. QED
  BY <1>3, <1>7 DEF IInv

LEMMA UpdateSound ==
    ASSUME IInv, NEW x \in rows, Update(x)
    PROVE  IInv'
<1>1. PICK id \in {x.id} \cup (Ids \ Present), o \in organizations :
         /\ <<id, o>> # <<x.id, x.org>> => ~ Referenced(x, rows \ {x})
         /\ \E ref \in [Columns(x.table) -> Candidates(x.table, id)] :
               Replaces(x, [x EXCEPT !.id = id, !.org = o, !.ref = ref])
  BY DEF Update
<1>2. PICK ref \in [Columns(x.table) -> Candidates(x.table, id)] :
         Replaces(x, [x EXCEPT !.id = id, !.org = o, !.ref = ref])
  BY <1>1
<1> DEFINE y == [x EXCEPT !.id = id, !.org = o, !.ref = ref]
<1>3. /\ x \in [table : {x.table}, id : Ids, org : Orgs, ref : [Columns(x.table) -> Ids \cup {NULL}]]
      /\ x.table \in Tables
  BY RowFields DEF IInv, TypeOK
<1>4. id \in Ids /\ o \in Orgs
  BY <1>3 DEF IInv, TypeOK
<1>5. ref \in [Columns(x.table) -> Ids \cup {NULL}]
  BY <1>2, <1>4, CandidatesTyped
<1>6. /\ y \in [table : {x.table}, id : Ids, org : Orgs, ref : [Columns(x.table) -> Ids \cup {NULL}]]
      /\ y.id = id /\ y.table = x.table /\ y.org = o
  BY <1>3, <1>4, <1>5
<1>7. y \in Row
  BY <1>3, <1>6 DEF Row
<1>8. y.id = x.id \/ y.id \notin Present
  BY <1>6
<1>9. (y.id = x.id /\ y.org = x.org) \/ ~ Referenced(x, rows \ {x})
  BY <1>1, <1>6
<1>10. QED
  BY <1>2, <1>6, <1>7, <1>8, <1>9, ReplacesSound

LEMMA DeleteSound ==
    ASSUME IInv, NEW D, D \subseteq rows, Delete(D)
    PROVE  IInv'
BY RemovesSound DEF Delete, IInv, TypeOK, NothingDangles

LEMMA DeleteOrganizationSound ==
    ASSUME IInv, NEW o, DeleteOrganization(o)
    PROVE  IInv'
<1> DEFINE G == Gone(Owned(o))
<1>1. /\ Removes(Owned(o)) /\ Owned(o) \subseteq rows
      /\ \A x \in rows' : x.org # o
      /\ organizations' = organizations \ {o}
  BY DEF DeleteOrganization, Owned
<1>2. rows' = {Cleared(x, G) : x \in rows \ G}
  BY <1>1 DEF Removes
<1> HIDE DEF G
<1>3. ASSUME NEW x \in rows \ G PROVE x.org \in organizations'
  <2>1. Cleared(x, G) \in rows' /\ Cleared(x, G).org = x.org
    BY <1>2, ClearedKeeps DEF IInv, TypeOK
  <2>2. x.org # o /\ x.org \in organizations
    BY <1>1, <2>1 DEF IInv, NothingDangles
  <2> QED
    BY <1>1, <2>2
<1>4. organizations' \subseteq Orgs
  BY <1>1 DEF IInv, TypeOK
<1>5. QED
  BY <1>1, <1>3, <1>4, RemovesSound DEF G

-----------------------------------------------------------------------------
LEMMA InitSound == Init => IInv
BY DEF Init, IInv, TypeOK, NothingDangles

LEMMA StepSound == IInv /\ [Next]_vars => IInv'
<1> SUFFICES ASSUME IInv, [Next]_vars PROVE IInv'
  OBVIOUS
<1>1. CASE InsertOrganization
  BY <1>1 DEF InsertOrganization, IInv, TypeOK, NothingDangles, Row, KeysOf, Columns, Tables
<1>2. CASE Insert
  BY <1>2, InsertSound
<1>3. ASSUME NEW x \in rows, Update(x) PROVE IInv'
  BY <1>3, UpdateSound
<1>5. ASSUME NEW D \in (SUBSET rows) \ {{}}, Delete(D) PROVE IInv'
  BY <1>5, DeleteSound
<1>6. ASSUME NEW o \in organizations, DeleteOrganization(o) PROVE IInv'
  BY <1>6, DeleteOrganizationSound
<1>7. CASE UNCHANGED vars
  BY <1>7 DEF vars, IInv, TypeOK, NothingDangles, Row, KeysOf, Columns, Tables
<1>8. QED
  BY <1>1, <1>2, <1>3, <1>5, <1>6, <1>7 DEF Next

LEMMA Sound == Spec => []IInv
BY InitSound, StepSound, PTL DEF Spec

(* For every catalogue, rows keep their types, NOT NULL columns are not    *)
(* null and ids stay unique, whatever statements are run.                  *)
THEOREM TypeCorrect == Spec => []TypeOK
<1>1. IInv => TypeOK
  BY DEF IInv
<1>2. QED
  BY <1>1, Sound, PTL

(* For every catalogue of composite keys, no reference ever dangles or     *)
(* crosses tenants (000003_platform.up.sql:15).                            *)
THEOREM ReferencesSound == Spec => []NothingDangles
<1>1. IInv => NothingDangles
  BY DEF IInv
<1>2. QED
  BY <1>1, Sound, PTL

(* Every table of the migrations cascades from organizations. *)
LEMMA AllTablesOwned == DOMAIN Office \subseteq OwnedTables
<1> USE DEF OwnedTables
<1>1. DOMAIN Identity \subseteq OwnedTables BY DEF Identity, PlatformOwned
<1>2. DOMAIN Configuration \subseteq OwnedTables BY DEF Configuration, PlatformOwned
<1>3. DOMAIN OrgStructure \subseteq OwnedTables BY DEF OrgStructure, PeopleOwned
<1>4. DOMAIN Leave \subseteq OwnedTables BY DEF Leave, PeopleOwned
<1>5. DOMAIN Payroll \subseteq OwnedTables BY DEF Payroll, PeopleOwned
<1>6. DOMAIN Crm \subseteq OwnedTables BY DEF Crm, RevenueOwned
<1>7. DOMAIN Projects \subseteq OwnedTables BY DEF Projects, DeliveryOwned
<1>8. DOMAIN Work \subseteq OwnedTables BY DEF Work, DeliveryOwned
<1>9. DOMAIN Masters \subseteq OwnedTables BY DEF Masters, MastersOwned
<1>10. DOMAIN Quotations \subseteq OwnedTables BY DEF Quotations, QuotationsOwned
<1>11. DOMAIN Sales \subseteq OwnedTables BY DEF Sales, FinanceOwned
<1>12. DOMAIN Purchases \subseteq OwnedTables BY DEF Purchases, FinanceOwned
<1>13. DOMAIN Ledger \subseteq OwnedTables BY DEF Ledger, FinanceOwned
<1>14. DOMAIN Operations \subseteq OwnedTables BY DEF Operations, OperationsOwned
<1> HIDE DEF OwnedTables
<1>15. \A part \in Parts : DOMAIN part \subseteq OwnedTables
  BY <1>1, <1>2, <1>3, <1>4, <1>5, <1>6, <1>7, <1>8, <1>9, <1>10, <1>11, <1>12, <1>13, <1>14
  DEF Parts
<1>16. \A t \in DOMAIN Office : \E part \in Parts : t \in DOMAIN part
  BY DEF Office
<1> QED
  BY <1>15, <1>16

(* With the keys of the migrations an organisation can always be deleted,  *)
(* and that removes its rows and touches no other: every table cascades,   *)
(* and a key without ON DELETE can only refuse a delete within a tenant.   *)
THEOREM OffboardingSound ==
    ASSUME Catalogue = Office, Tenanted = OwnedTables
    PROVE  Spec => []OrganisationsCanLeave
<1>0. Tables \subseteq Tenanted
  BY AllTablesOwned DEF Tables
<1>1. ASSUME IInv PROVE OrganisationsCanLeave
  <2>1. ASSUME NEW o \in organizations
        PROVE  LET G == Gone(Owned(o))
               IN  /\ G = OfOrg(o)
                   /\ ~ Refuses(G)
                   /\ \A x \in rows \ G : Cleared(x, G) = x
    <3> DEFINE G == Gone(Owned(o))
    <3>1. G = OfOrg(o)
      BY <1>0, <1>1, TenantGoesWhole DEF IInv, TypeOK
    <3> HIDE DEF G
    <3>2. ASSUME NEW x \in rows \ G, NEW y \in G, NEW k \in KeysOf(x) PROVE ~ Refers(x, k, y)
      BY <3>1, <3>2 DEF OfOrg, Refers
    <3>3. ~ Refuses(G)
      BY <3>2 DEF Refuses
    <3>4. ASSUME NEW x \in rows \ G PROVE Cleared(x, G) = x
      BY <1>1, <3>2, UntouchedStays DEF IInv, TypeOK
    <3>5. QED
      BY <3>1, <3>3, <3>4 DEF G
  <2>2. QED
    BY <2>1 DEF OrganisationsCanLeave
<1>2. QED
  BY <1>1, Sound, PTL

(* Nothing an organisation has is changed by deleting rows of others, with *)
(* all that cascades from them and is cleared.                             *)
THEOREM DeletesIsolated == Spec => DeletesStayInTenant
<1>1. ASSUME IInv, NEW o \in Orgs, NEW D \in (SUBSET (Lost \ OfOrg(o))) \ {{}}, Delete(D)
      PROVE  OfOrg(o)' = OfOrg(o)
  <2> DEFINE G == Gone(D)
             Others == rows \ OfOrg(o)
  <2>1. rows' = {Cleared(z, G) : z \in rows \ G}
    BY <1>1 DEF Delete, Removes
  <2>2. Others \in SUBSET rows /\ Closed(Others)
    BY DEF OfOrg, Closed, CascadesFrom, Refers
  <2>3. D \subseteq Others
    BY <1>1 DEF Lost
  <2>4. G \subseteq Others
    BY <2>2, <2>3, GoneIsLeast
  <2> HIDE DEF G, Others
  <2>5. \A z \in rows : z \in Row
    BY <1>1 DEF IInv, TypeOK
  <2>6. ASSUME NEW z \in rows, z.org = o PROVE z \notin G /\ Cleared(z, G) = z
    <3>1. \A y \in G : y.org # o
      BY <2>4 DEF Others, OfOrg
    <3>2. \A k \in KeysOf(z), y \in G : ~ Refers(z, k, y)
      BY <2>6, <3>1 DEF Refers
    <3> QED
      BY <2>5, <2>6, <3>1, <3>2, UntouchedStays
  <2>7. \A z \in rows : Cleared(z, G).org = z.org
    BY <2>5, ClearedKeeps
  <2>8. {w \in rows' : w.org = o} = {w \in rows : w.org = o}
    BY <2>1, <2>6, <2>7
  <2> QED
    BY <2>8 DEF OfOrg
<1>2. IInv => (\A o \in Orgs : OfOrg(o)' # OfOrg(o) =>
                  \A D \in (SUBSET (Lost \ OfOrg(o))) \ {{}} : ~ Delete(D))
  BY <1>1
<1>3. QED
  BY <1>2, Sound, PTL DEF DeletesStayInTenant

-----------------------------------------------------------------------------
(* No key of a table of R in the catalogue f is ON DELETE CASCADE. *)
Uncascaded(f, R) == \A t \in R \cap DOMAIN f : \A k \in f[t] : k.rule # "cascade"

(* Rows of tables that nothing cascades to outlive any other row. *)
LEMMA OutlivesDelete ==
    ASSUME IInv, NEW R, Uncascaded(Catalogue, R),
           NEW D \in SUBSET rows, Delete(D), NEW r \in rows \ D, r.table \in R
    PROVE  r.id \in Present'
<1> DEFINE S == D \cup {y \in rows : y.table \notin R}
<1>1. \A y \in rows : y \in Row
  BY DEF IInv, TypeOK
<1>2. Closed(S) /\ S \in SUBSET rows
  BY <1>1, RowFields DEF Closed, CascadesFrom, KeysOf, Uncascaded, Tables
<1>3. r \notin Gone(D)
  BY <1>2, GoneIsLeast
<1> DEFINE G == Gone(D)
<1>4. rows' = {Cleared(z, G) : z \in rows \ G} /\ r \notin G
  BY <1>3 DEF Delete, Removes
<1> HIDE DEF G
<1>5. Cleared(r, G) \in rows' /\ Cleared(r, G).id = r.id
  BY <1>1, <1>4, ClearedKeeps
<1>6. QED
  BY <1>5 DEF Present

(* The catalogue of the migrations, part by part. *)
LEMMA RecordsUncascaded == Uncascaded(Office, Records)
<1>0. \A c, t : SetNull(c, t).rule # "cascade" /\ NoAction(c, t).rule # "cascade"
  BY DEF SetNull, NoAction
<1> USE DEF Uncascaded, Records
<1>1. Uncascaded(Identity, Records) BY <1>0 DEF Identity
<1>2. Uncascaded(Configuration, Records) BY <1>0 DEF Configuration
<1>3. Uncascaded(OrgStructure, Records) BY <1>0 DEF OrgStructure
<1>4. Uncascaded(Leave, Records) BY <1>0 DEF Leave
<1>5. Uncascaded(Payroll, Records) BY <1>0 DEF Payroll
<1>6. Uncascaded(Crm, Records) BY <1>0 DEF Crm
<1>7. Uncascaded(Projects, Records) BY <1>0 DEF Projects
<1>8. Uncascaded(Work, Records) BY <1>0 DEF Work
<1>9. Uncascaded(Masters, Records) BY <1>0 DEF Masters
<1>10. Uncascaded(Quotations, Records) BY <1>0 DEF Quotations
<1>11. Uncascaded(Sales, Records) BY <1>0 DEF Sales
<1>12. Uncascaded(Purchases, Records) BY <1>0 DEF Purchases
<1>13. Uncascaded(Ledger, Records) BY <1>0 DEF Ledger
<1>14. Uncascaded(Operations, Records) BY <1>0 DEF Operations
<1>15. \A part \in Parts : Uncascaded(part, Records)
  BY <1>1, <1>2, <1>3, <1>4, <1>5, <1>6, <1>7, <1>8, <1>9, <1>10, <1>11, <1>12, <1>13, <1>14
  DEF Parts
<1>16. ASSUME NEW t \in DOMAIN Office
       PROVE  \E part \in Parts : t \in DOMAIN part /\ Office[t] = part[t]
  BY DEF Office
<1> QED
  BY <1>15, <1>16

(* With the keys of the migrations, what is kept for the books is never    *)
(* lost to the deletion of something else, over any number of tables and   *)
(* rows: books outlive the people and parties they name.                   *)
THEOREM RecordsKept == ASSUME Catalogue = Office PROVE Spec => RecordsAreKept
<1>1. ASSUME IInv, NEW r \in {x \in Lost : x.table \in Records},
             NEW D \in (SUBSET (Lost \ {r})) \ {{}}, Delete(D)
      PROVE  FALSE
  <2>1. r \in rows \ D /\ D \in SUBSET rows /\ r.id \notin Present' /\ r.table \in Records
    BY <1>1 DEF Lost
  <2> QED
    BY <1>1, <2>1, OutlivesDelete, RecordsUncascaded
<1>2. IInv => \A r \in {x \in Lost : x.table \in Records} :
                 \A D \in (SUBSET (Lost \ {r})) \ {{}} : ~ Delete(D)
  BY <1>1
<1>3. QED
  BY <1>2, Sound, PTL DEF RecordsAreKept
=============================================================================
