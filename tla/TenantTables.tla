---------------------------- MODULE TenantTables ----------------------------
(***************************************************************************)
(* The tables departments and employees, as sets of rows, and the          *)
(* generated queries over them (internal/db/query/*.sql): what a statement *)
(* reads, which constraint refuses it and which rows it leaves.  Nothing   *)
(* here is a state machine; TenantApi runs these statements for handlers.  *)
(*                                                                         *)
(* Columns nothing below tells apart (code and phone, dates, statutory     *)
(* identifiers, provenance) are left out of the rows.                      *)
(***************************************************************************)
EXTENDS Paging

CONSTANTS
    OrgIds,           \* organisation ids a caller may send
    Organizations,    \* those with a row in table organizations
    Ids,              \* row ids: uuid_generate_v7() never repeats one
    Designations,     \* rows of table designations; no handler writes them
    Texts,            \* values of the text columns
    Blank,            \* the empty text
    Lower,            \* lower(), on which the unique indexes are built
    Statuses,         \* enum employee_status
    EmploymentTypes,  \* enum employment_type
    Probation,        \* the status an INSERT without one stores
    FullTime          \* the employment type an INSERT without one stores

ASSUME TenancyAssumption ==
    /\ Organizations \subseteq OrgIds
    /\ Designations \subseteq [organization_id : Organizations, id : Ids]
    /\ \A s, t \in Designations : s.id = t.id => s = t
    /\ Blank \in Texts
    /\ Lower \in [Texts -> Texts]
    /\ Rank \in [Texts -> Nat]
    /\ Probation \in Statuses
    /\ FullTime \in EmploymentTypes
    /\ Null \notin Ids \cup Statuses \cup EmploymentTypes \cup Texts

OptionalId == Ids \cup {Null}

DepartmentRows ==
    [organization_id : OrgIds, id : Ids, name : Texts, parent_id : OptionalId]

EmployeeRows ==
    [organization_id : OrgIds, id : Ids, employee_code : Texts,
     department_id : OptionalId, designation_id : OptionalId,
     full_name : Texts, email : Texts,
     status : Statuses, employment_type : EmploymentTypes]

(* MUTANT: an argument left out is written as NULL. *)
Overwrite(new, old) == new

Coalesce(new, old) == IF new = Null THEN old ELSE new

-----------------------------------------------------------------------------
(* Keys.  A foreign key between business tables is composite: it carries   *)
(* the organisation of the referencing row.                                *)

(* MUTANT: a foreign key on the id alone. *)
ReferencesById(rows, o, i) == \E x \in rows : x.id = i

References(rows, o, i) == \E x \in rows : x.organization_id = o /\ x.id = i

(* MUTANT: the foreign keys are missing. *)
NothingDangles(rows, o, i) == FALSE

DanglingReference(rows, o, i) == i # Null /\ ~ References(rows, o, i)

DepartmentNameTaken(D, o, name) ==
    \E d \in D : d.organization_id = o /\ Lower[d.name] = Lower[name]

(* MUTANT: the index on the e-mail is missing. *)
EmployeeCodeTaken(E, e) ==
    \E x \in E : /\ x.organization_id = e.organization_id
                 /\ x.id # e.id
                 /\ Lower[x.employee_code] = Lower[e.employee_code]

(* A row with the id of e is e itself before an UPDATE. *)
EmployeeTaken(E, e) ==
    \E x \in E :
        /\ x.organization_id = e.organization_id
        /\ x.id # e.id
        /\ \/ Lower[x.employee_code] = Lower[e.employee_code]
           \/ Lower[x.email] = Lower[e.email]

(* SQLSTATE of an INSERT or UPDATE.  Unique indexes are checked while the  *)
(* row is written, foreign keys by triggers at the end of the statement.   *)
Ok == "00000"
UniqueViolation == "23505"
ForeignKeyViolation == "23503"

DepartmentState(D, d) ==
    IF DepartmentNameTaken(D, d.organization_id, d.name) THEN UniqueViolation
    ELSE IF \/ d.organization_id \notin Organizations
            \/ DanglingReference(D, d.organization_id, d.parent_id)
         THEN ForeignKeyViolation
         ELSE Ok

EmployeeState(D, E, e) ==
    IF EmployeeTaken(E, e) THEN UniqueViolation
    ELSE IF \/ e.organization_id \notin Organizations
            \/ DanglingReference(D, e.organization_id, e.department_id)
            \/ DanglingReference(Designations, e.organization_id, e.designation_id)
         THEN ForeignKeyViolation
         ELSE Ok

-----------------------------------------------------------------------------
(* Reads. *)

OfTenant(rows, o) == {x \in rows : x.organization_id = o}

(* MUTANT: a query that forgets its organisation. *)
WithIdAnywhere(rows, o, i) == {x \in rows : x.id = i}

WithId(rows, o, i) == {x \in rows : x.organization_id = o /\ x.id = i}

(* MUTANT: a list filtered by department and status alone. *)
MatchingAnywhere(E, o, department, status) ==
    {e \in E : /\ department \in {Null, e.department_id}
               /\ status \in {Null, e.status}}

Matching(E, o, department, status) ==
    {e \in E : /\ e.organization_id = o
               /\ department \in {Null, e.department_id}
               /\ status \in {Null, e.status}}

CountMatching(E, o, department, status) == Cardinality(Matching(E, o, department, status))

-----------------------------------------------------------------------------
(* Writes. *)

(* INSERT ... RETURNING *. *)
CreateDepartment(i, arg) ==
    [organization_id |-> arg.organization_id, id |-> i,
     name |-> arg.name, parent_id |-> arg.parent_id]

CreateEmployee(i, arg) ==
    [organization_id |-> arg.organization_id, id |-> i,
     employee_code |-> arg.employee_code,
     department_id |-> arg.department_id, designation_id |-> arg.designation_id,
     full_name |-> arg.full_name, email |-> arg.email,
     status |-> Coalesce(arg.status, Probation),
     employment_type |-> Coalesce(arg.employment_type, FullTime)]

Replace(rows, old, new) == (rows \ {old}) \cup {new}

(* UPDATE ... SET column = coalesce(argument, column). *)
Patched(e, r) ==
    [e EXCEPT !.department_id = Coalesce(r.department_id, @),
              !.designation_id = Coalesce(r.designation_id, @),
              !.full_name = Coalesce(r.full_name, @),
              !.email = Coalesce(r.email, @),
              !.status = Coalesce(r.status, @),
              !.employment_type = Coalesce(r.employment_type, @)]

(* MUTANT: DELETE matches on the id alone. *)
WithoutDepartmentAnywhere(D, o, i) ==
    {IF d.parent_id = i THEN [d EXCEPT !.parent_id = Null] ELSE d :
        d \in D \ WithIdAnywhere(D, o, i)}

(* DELETE, with ON DELETE SET NULL (parent_id) ... *)
WithoutDepartment(D, o, i) ==
    {IF d.organization_id = o /\ d.parent_id = i THEN [d EXCEPT !.parent_id = Null] ELSE d :
        d \in D \ WithId(D, o, i)}

WithoutEmployee(E, o, i) == E \ WithId(E, o, i)

(* MUTANT: ON DELETE does nothing to employees. *)
StillAttached(E, o, i) == E

(* MUTANT: ON DELETE CASCADE to employees. *)
GoneWith(E, o, i) == {e \in E : ~ (e.organization_id = o /\ e.department_id = i)}

(* ... and SET NULL (department_id). *)
DetachedFrom(E, o, i) ==
    {IF e.organization_id = o /\ e.department_id = i
     THEN [e EXCEPT !.department_id = Null] ELSE e : e \in E}

-----------------------------------------------------------------------------
(* Rows the constraints leave in the tables. *)

NoneDangles(D, E) ==
    /\ \A d \in D : ~ DanglingReference(D, d.organization_id, d.parent_id)
    /\ \A e \in E :
          /\ ~ DanglingReference(D, e.organization_id, e.department_id)
          /\ ~ DanglingReference(Designations, e.organization_id, e.designation_id)

SameDepartment(a, b) ==
    \/ a.id = b.id
    \/ a.organization_id = b.organization_id /\ Lower[a.name] = Lower[b.name]

SameEmployee(a, b) ==
    \/ a.id = b.id
    \/ /\ a.organization_id = b.organization_id
       /\ \/ Lower[a.employee_code] = Lower[b.employee_code]
          \/ Lower[a.email] = Lower[b.email]

Keyed(D, E) ==
    /\ \A a, b \in D : SameDepartment(a, b) => a = b
    /\ \A a, b \in E : SameEmployee(a, b) => a = b

(* Every set of departments has one whose parent is outside the set. *)
Forest(D) == \A S \in SUBSET D : S # {} => \E d \in S : \A x \in S : x.id # d.parent_id
=============================================================================
