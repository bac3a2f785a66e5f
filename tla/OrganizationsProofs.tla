------------------------- MODULE OrganizationsProofs -------------------------
(***************************************************************************)
(* SlugFinds and GstinOnce, for any number of transactions: a row that is  *)
(* being written keeps the keys of the row it replaces, and whoever wants  *)
(* a key that another open transaction writes waits for its end.           *)
(***************************************************************************)
EXTENDS Organizations, TLAPS

SameKeys(a, b) == a.slug = b.slug /\ a.gstin = b.gstin

Agree(a, b) == (a.id = b.id => a = b) /\ ~ Conflict(a, b)

Version(a, b) == (a.id = b.id => SameKeys(a, b)) /\ ~ Conflict(a, b)

(* A statement names the keys its row has already, wherever there is one.  *)
Draft(r) ==
    /\ r \in Organization
    /\ \A x \in organizations : x.id = r.id => SameKeys(x, r)
    /\ \A t \in Sessions : \A x \in written[t] : x.id = r.id => SameKeys(x, r)
    /\ \A t \in Waiting : stmt[t].id = r.id => SameKeys(stmt[t], r)

Committed == \A a, b \in organizations : Agree(a, b)
OwnWrites == \A s \in Sessions : \A a, b \in written[s] : Agree(a, b)
Versions == \A s \in Sessions : \A w \in written[s], r \in organizations : Version(w, r)
Apart ==
    \A s, t \in Sessions : s # t =>
        \A w \in written[s], v \in written[t] : w.id # v.id /\ ~ Conflict(w, v)
Drafts == \A s \in Waiting : Draft(stmt[s])

Inv == TypeOK /\ Committed /\ OwnWrites /\ Versions /\ Apart /\ Drafts

-----------------------------------------------------------------------------
(* Conflict is symmetric, and looks at ids and keys only. *)
LEMMA ConflictSymmetric ==
    ASSUME NEW a, NEW b, Conflict(a, b)
    PROVE  Conflict(b, a)
  BY DEF Conflict, SameSlug

LEMMA ConflictOfKeys ==
    ASSUME NEW a, NEW b, NEW c, SameKeys(a, b), a.id = b.id, Conflict(a, c)
    PROVE  Conflict(b, c)
  BY DEF Conflict, SameSlug, SameKeys

(* What one transaction sees agrees. *)
LEMMA VisibleAgrees ==
    ASSUME Inv, NEW s \in Sessions, NEW a \in Visible(s), NEW b \in Visible(s)
    PROVE  Agree(a, b)
<1>1. CASE a \in written[s] /\ b \in written[s]
  BY <1>1 DEF Inv, OwnWrites
<1>2. CASE a \notin written[s] /\ b \notin written[s]
  BY <1>2 DEF Inv, Committed, Visible
<1>3. CASE a \in written[s] /\ b \notin written[s]
  BY <1>3 DEF Inv, Versions, Visible, Agree, Version
<1>4. CASE a \notin written[s] /\ b \in written[s]
  <2>1. a \in organizations /\ Version(b, a) /\ b.id # a.id
    BY <1>4 DEF Inv, Versions, Visible
  <2> QED
    BY <2>1, ConflictSymmetric DEF Agree, Version
<1> QED
  BY <1>1, <1>2, <1>3, <1>4

LEMMA InvInit == Init => Inv
  BY DEF Init, Inv, TypeOK, Committed, OwnWrites, Versions, Apart, Drafts, Waiting

-----------------------------------------------------------------------------
(* Steps. *)

LEMMA BeginKeeps ==
    ASSUME Inv, NEW s \in Sessions, Begin(s)
    PROVE  Inv'
<1>1. Waiting' = Waiting
  BY DEF Begin, Waiting, Inv, TypeOK
<1>2. TypeOK'
  BY DEF Begin, Inv, TypeOK
<1> QED
  BY <1>1, <1>2 DEF Begin, Inv, Committed, OwnWrites, Versions, Apart, Drafts, Draft

LEMMA FailsKeeps ==
    ASSUME Inv, NEW s \in Sessions, Fails(s)
    PROVE  Inv'
<1>1. Waiting' = Waiting \ {s}
  BY DEF Fails, Waiting, Inv, TypeOK
<1>2. \A t \in Sessions : written'[t] \in SUBSET written[t]
  BY DEF Fails, Inv, TypeOK
<1>3. \A t \in Waiting' : stmt'[t] = stmt[t]
  BY <1>1 DEF Fails, Inv, TypeOK, Waiting
<1>4. TypeOK'
  BY DEF Fails, Inv, TypeOK
<1>5. (Committed /\ OwnWrites /\ Versions /\ Apart)'
  BY <1>2 DEF Fails, Inv, Committed, OwnWrites, Versions, Apart
<1>6. Drafts'
  BY <1>1, <1>2, <1>3 DEF Fails, Inv, Drafts, Draft
<1> QED
  BY <1>4, <1>5, <1>6 DEF Inv

LEMMA WaitsKeeps ==
    ASSUME Inv, NEW s \in Sessions, NEW r, Draft(r), at[s] = "open", Waits(s, r)
    PROVE  Inv'
<1>1. Waiting' = Waiting \cup {s}
  BY DEF Waits, Waiting, Inv, TypeOK
<1>2. stmt'[s] = r /\ \A t \in Sessions \ {s} : stmt'[t] = stmt[t]
  BY DEF Waits, Inv, TypeOK
<1>3. TypeOK'
  BY DEF Waits, Inv, TypeOK, Draft
<1>4. s \notin Waiting
  BY DEF Waiting
<1>5. Drafts'
  <2> SUFFICES ASSUME NEW t \in Waiting'
               PROVE  Draft(stmt[t])'
    BY DEF Drafts
  <2>1. Draft(stmt'[t])
    BY <1>1, <1>2, <1>4 DEF Inv, Drafts, Waiting
  <2>2. \A u \in Waiting' : stmt'[u].id = stmt'[t].id => SameKeys(stmt'[u], stmt'[t])
    <3> SUFFICES ASSUME NEW u \in Waiting', stmt'[u].id = stmt'[t].id
                 PROVE  SameKeys(stmt'[u], stmt'[t])
      OBVIOUS
    <3>1. CASE u = t
      BY <3>1 DEF SameKeys
    <3>2. CASE u \in Waiting
      BY <3>2, <2>1, <1>1, <1>2, <1>4 DEF Draft, Waiting
    <3>3. CASE u = s /\ t \in Waiting
      <4>1. stmt'[t] = stmt[t] /\ stmt'[u] = r
        BY <3>3, <1>2, <1>4 DEF Waiting
      <4>2. SameKeys(stmt[t], r)
        BY <3>3, <4>1 DEF Draft
      <4> QED
        BY <4>1, <4>2 DEF SameKeys
    <3> QED
      BY <1>1, <3>1, <3>2, <3>3
  <2>3. organizations' = organizations /\ written' = written
    BY DEF Waits
  <2> QED
    BY <2>1, <2>2, <2>3 DEF Draft
<1> QED
  BY <1>3, <1>5 DEF Inv, Waits, Committed, OwnWrites, Versions, Apart

LEMMA StoresKeeps ==
    ASSUME Inv, NEW s \in Sessions, NEW r, Draft(r),
           ~ Taken(s, r), Blockers(s, r) = {}, Stores(s, r)
    PROVE  Inv'
<1>1. Waiting' = Waiting \ {s}
  BY DEF Stores, Waiting, Inv, TypeOK
<1>2. /\ written'[s] = {w \in written[s] : w.id # r.id} \cup {r}
      /\ \A t \in Sessions \ {s} : written'[t] = written[t]
      /\ organizations' = organizations
      /\ \A t \in Waiting' : stmt'[t] = stmt[t]
  BY <1>1 DEF Stores, Inv, TypeOK, Waiting
<1>3. TypeOK'
  BY DEF Stores, Inv, TypeOK, Draft
<1>4. \A x \in Visible(s) : ~ Conflict(x, r)
  BY DEF Taken
<1>5. \A t \in Sessions \ {s} : \A w \in written[t] : w.id # r.id /\ ~ Conflict(w, r)
  BY DEF Blockers
<1>6. \A x \in organizations : ~ Conflict(x, r)
  <2> SUFFICES ASSUME NEW x \in organizations, Conflict(x, r)
               PROVE  FALSE
    OBVIOUS
  <2>1. PICK w \in written[s] : w.id = x.id
    BY <1>4 DEF Visible
  <2>2. SameKeys(w, x)
    BY <2>1 DEF Inv, Versions, Version
  <2>3. Conflict(w, r)
    BY <2>1, <2>2, ConflictOfKeys DEF SameKeys
  <2> QED
    BY <2>3, <1>4 DEF Visible
<1>7. Committed'
  BY <1>2 DEF Inv, Committed
<1>8. OwnWrites'
  <2> SUFFICES ASSUME NEW t \in Sessions, NEW a \in written'[t], NEW b \in written'[t]
               PROVE  Agree(a, b)
    BY DEF OwnWrites, Agree
  <2>1. CASE t # s \/ (a # r /\ b # r)
    BY <2>1, <1>2 DEF Inv, OwnWrites
  <2>2. CASE t = s /\ b = r /\ a # r
    BY <2>2, <1>2, <1>4 DEF Visible, Agree
  <2>3. CASE t = s /\ a = r /\ b # r
    BY <2>3, <1>2, <1>4, ConflictSymmetric DEF Visible, Agree
  <2>4. CASE a = r /\ b = r
    BY <2>4 DEF Agree, Conflict
  <2> QED
    BY <2>1, <2>2, <2>3, <2>4
<1>9. Versions'
  <2> SUFFICES ASSUME NEW t \in Sessions, NEW w \in written'[t], NEW x \in organizations
               PROVE  Version(w, x)
    BY <1>2 DEF Versions, Version
  <2>1. CASE t # s \/ w # r
    BY <2>1, <1>2 DEF Inv, Versions
  <2>2. CASE w = r
    BY <2>2, <1>6, ConflictSymmetric DEF Draft, Version, SameKeys
  <2> QED
    BY <2>1, <2>2
<1>10. Apart'
  <2> SUFFICES ASSUME NEW t \in Sessions, NEW u \in Sessions, t # u,
                      NEW w \in written'[t], NEW v \in written'[u]
               PROVE  w.id # v.id /\ ~ Conflict(w, v)
    BY DEF Apart
  <2>1. CASE (t # s \/ w # r) /\ (u # s \/ v # r)
    <3>1. w \in written[t] /\ v \in written[u]
      BY <2>1, <1>2
    <3> QED
      BY <3>1 DEF Inv, Apart
  <2>2. CASE t = s /\ w = r
    BY <2>2, <1>2, <1>5, ConflictSymmetric
  <2>3. CASE u = s /\ v = r
    BY <2>3, <1>2, <1>5
  <2> QED
    BY <2>1, <2>2, <2>3
<1>11. Drafts'
  <2> SUFFICES ASSUME NEW t \in Waiting'
               PROVE  Draft(stmt[t])'
    BY DEF Drafts
  <2>1. Draft(stmt[t]) /\ stmt'[t] = stmt[t] /\ t \in Waiting
    BY <1>1, <1>2 DEF Inv, Drafts
  <2>2. r.id = stmt[t].id => SameKeys(r, stmt[t])
    BY <2>1 DEF Draft, SameKeys
  <2>3. \A u \in Sessions : \A x \in written'[u] : x.id = stmt[t].id => SameKeys(x, stmt[t])
    BY <2>1, <2>2, <1>2 DEF Draft
  <2> QED
    BY <2>1, <2>3, <1>1, <1>2 DEF Draft
<1> QED
  BY <1>3, <1>7, <1>8, <1>9, <1>10, <1>11 DEF Inv

LEMMA WritesKeeps ==
    ASSUME Inv, NEW s \in Sessions, NEW r, Draft(r), at[s] = "open", Writes(s, r)
    PROVE  Inv'
  BY FailsKeeps, WaitsKeeps, StoresKeeps DEF Writes

LEMMA CreateKeeps ==
    ASSUME Inv, NEW s \in Sessions, CreateOrganization(s)
    PROVE  Inv'
<1>1. PICK id \in Ids \ InUse, slug \in Slugs, gstin \in Gstins \cup {Null} :
          Writes(s, NewOrganization(id, slug, gstin))
  BY DEF CreateOrganization
<1> DEFINE r == NewOrganization(id, slug, gstin)
<1>2. r \in Organization /\ r.id = id
  BY DEF Organization, NewOrganization, OrganizationStatus
<1>3. /\ \A x \in organizations : x.id # id
      /\ \A t \in Sessions : \A x \in written[t] : x.id # id
      /\ \A t \in Sessions : stmt[t].id # id
  BY DEF InUse
<1>4. Draft(r)
  BY <1>2, <1>3 DEF Draft, Waiting
<1> QED
  BY <1>1, <1>4, WritesKeeps DEF CreateOrganization, MayWrite

LEMMA UpdateKeeps ==
    ASSUME Inv, NEW s \in Sessions, UpdateOrganizationStatus(s)
    PROVE  Inv'
<1>1. PICK status \in NewStatuses, row \in Visible(s) :
          Writes(s, [row EXCEPT !.status = status])
  BY DEF UpdateOrganizationStatus, GetOrganization
<1> DEFINE r == [row EXCEPT !.status = status]
<1>2. row \in Organization
  BY DEF Inv, TypeOK, Visible
<1>3. r \in Organization /\ r.id = row.id /\ SameKeys(row, r)
  BY <1>2, OrganizationsAssumption DEF Organization, SameKeys, OrganizationStatus
<1>4. \A x \in organizations : x.id = row.id => SameKeys(x, row)
  BY DEF Inv, Committed, Versions, Version, Agree, Visible, SameKeys
<1>5. \A t \in Sessions : \A x \in written[t] : x.id = row.id => SameKeys(x, row)
  BY DEF Inv, OwnWrites, Apart, Versions, Version, Agree, Visible, SameKeys
<1>6. \A t \in Waiting : stmt[t].id = row.id => SameKeys(stmt[t], row)
  BY DEF Inv, Drafts, Draft, Visible, SameKeys
<1>7. Draft(r)
  BY <1>3, <1>4, <1>5, <1>6 DEF Draft, SameKeys
<1> QED
  BY <1>1, <1>7, WritesKeeps DEF UpdateOrganizationStatus, MayWrite

LEMMA ResumesKeeps ==
    ASSUME Inv, NEW s \in Sessions, Resumes(s)
    PROVE  Inv'
<1>1. Draft(stmt[s])
  BY DEF Resumes, Inv, Drafts, Waiting
<1> QED
  BY <1>1, FailsKeeps, StoresKeeps DEF Resumes

LEMMA EndedKeeps ==
    ASSUME Inv, NEW s \in Sessions, at[s] # "waiting",
           organizations' \in {organizations, Visible(s)}, Ended(s)
    PROVE  Inv'
<1>1. /\ Waiting' = Waiting /\ stmt' = stmt
      /\ written'[s] = {} /\ \A t \in Sessions \ {s} : written'[t] = written[t]
  BY DEF Ended, Waiting, Inv, TypeOK
<1>2. TypeOK'
  BY DEF Ended, Inv, TypeOK, Visible
<1>3. \A x \in organizations' : x \in organizations \/ x \in written[s]
  BY DEF Visible
<1>4. Committed'
  BY VisibleAgrees DEF Committed, Inv, Agree
<1>5. OwnWrites' /\ Apart'
  BY <1>1 DEF Inv, OwnWrites, Apart
<1>6. Versions'
  <2> SUFFICES ASSUME NEW t \in Sessions, NEW w \in written'[t], NEW x \in organizations'
               PROVE  Version(w, x)
    BY DEF Versions, Version
  <2>1. t # s /\ w \in written[t]
    BY <1>1
  <2>2. CASE x \in organizations
    BY <2>1, <2>2 DEF Inv, Versions
  <2>3. CASE x \in written[s]
    BY <2>1, <2>3 DEF Inv, Apart, Version
  <2> QED
    BY <1>3, <2>2, <2>3
<1>7. Drafts'
  <2> SUFFICES ASSUME NEW t \in Waiting
               PROVE  Draft(stmt[t])'
    BY <1>1 DEF Drafts
  <2>1. Draft(stmt[t])
    BY DEF Inv, Drafts
  <2> QED
    BY <2>1, <1>1, <1>3 DEF Draft
<1> QED
  BY <1>2, <1>4, <1>5, <1>6, <1>7 DEF Inv

LEMMA InvNext == Inv /\ [Next]_vars => Inv'
<1> SUFFICES ASSUME Inv, [Next]_vars
             PROVE  Inv'
  OBVIOUS
<1>1. CASE UNCHANGED vars
  BY <1>1 DEF vars, Inv, TypeOK, Committed, OwnWrites, Versions, Apart, Drafts, Draft, Waiting
<1>2. ASSUME NEW s \in Sessions, DeadlockDetected(s) \/ Interrupted(s) PROVE Inv'
  BY <1>2, FailsKeeps DEF DeadlockDetected, Interrupted
<1>3. ASSUME NEW s \in Sessions, Commits(s) \/ RollsBack(s) PROVE Inv'
  BY <1>3, EndedKeeps DEF Commits, RollsBack
<1> QED
  BY <1>1, <1>2, <1>3, BeginKeeps, CreateKeeps, UpdateKeeps, ResumesKeeps DEF Next

-----------------------------------------------------------------------------
(* The rows and statements have their types, and nothing that is committed *)
(* or being written shares a key with anything else.                       *)
THEOREM InvAlways == Spec => []Inv
  BY InvInit, InvNext, PTL DEF Spec

(* TypeOK of the tables and transactions of organizations.sql.go. *)
THEOREM TypeAlways == Spec => []TypeOK
<1>1. Inv => TypeOK
  BY DEF Inv
<1> QED
  BY <1>1, InvAlways, PTL

(* GetOrganizationBySlug finds the one organisation with that slug, in any *)
(* casing, for any number of concurrent transactions.                      *)
THEOREM SlugFindsAlways == Spec => []SlugFinds
<1>1. Inv => SlugFinds
  <2> SUFFICES ASSUME Inv, NEW s \in Sessions, NEW r \in Visible(s)
               PROVE  /\ GetOrganization(Visible(s), r.id) = {r}
                      /\ \A slug \in Slugs : Lower[slug] = Lower[r.slug] =>
                            GetOrganizationBySlug(Visible(s), slug) = {r}
    BY DEF SlugFinds, ListOrganizations
  <2>1. \A x \in Visible(s) : Agree(x, r)
    BY VisibleAgrees
  <2>2. GetOrganization(Visible(s), r.id) = {r}
    BY <2>1 DEF GetOrganization, Agree
  <2>3. \A x \in Visible(s) : Lower[x.slug] = Lower[r.slug] => x = r
    BY <2>1 DEF Agree, Conflict, SameSlug
  <2> QED
    BY <2>2, <2>3 DEF GetOrganizationBySlug
<1> QED
  BY <1>1, InvAlways, PTL

(* Two organisations never share a GSTIN, in what any transaction sees. *)
THEOREM GstinOnceAlways == Spec => []GstinOnce
<1>1. Inv => GstinOnce
  BY VisibleAgrees DEF GstinOnce, Agree, Conflict
<1> QED
  BY <1>1, InvAlways, PTL
=============================================================================
