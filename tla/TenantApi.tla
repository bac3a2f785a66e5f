------------------------------ MODULE TenantApi ------------------------------
(***************************************************************************)
(* The handlers of internal/httpapi: goroutines (Workers) that answer the  *)
(* requests of several organisations over the shared tables.  A handler    *)
(* checks its request (Receive), runs its statement, one transaction each  *)
(* on the pool, and answers; listEmployees runs two statements inside      *)
(* RunReadOnly, which asks PostgreSQL for READ ONLY and so gets its        *)
(* default isolation, READ COMMITTED: each statement sees the rows         *)
(* committed when it starts, and rows may be committed in between.         *)
(***************************************************************************)
EXTENDS TenantTables

CONSTANTS
    Workers,                 \* goroutines serving requests
    Requests,                \* the requests clients send
    Trim,                    \* strings.TrimSpace
    SeedDepartments, SeedEmployees   \* internal/db/seed/dev.sql

VARIABLES
    departments, employees,  \* the tables
    issued,                  \* ids rows were ever given
    pc, req,                 \* where each worker is, and with which request
    page,                    \* rows listEmployees has read before it counts
    resp                     \* the answer it is about to write

tables == <<departments, employees, issued>>
vars == <<departments, employees, issued, pc, req, page, resp>>

Header == OrgIds \cup {Null, Malformed}
PathId == Ids \cup {Malformed}
OptionalStatus == Statuses \cup {Null, Malformed}
OptionalType == EmploymentTypes \cup {Null, Malformed}
IntParams == Int \cup {Null, Malformed}

(* Requests as the router hands them over; decodes is what Decode finds:  *)
(* valid JSON, no unknown key, at most 1 MiB, every id and date parsable.  *)
ListDepartmentsRequest == [op : {"listDepartments"}, organization_id : Header]

CreateDepartmentRequest ==
    [op : {"createDepartment"}, organization_id : Header, decodes : BOOLEAN,
     name : Texts, parent_id : OptionalId]

PathRequest ==
    [op : {"deleteDepartment", "getEmployee", "deleteEmployee"},
     organization_id : Header, id : PathId]

ListEmployeesRequest ==
    [op : {"listEmployees"}, organization_id : Header,
     department_id : OptionalId \cup {Malformed}, status : OptionalStatus,
     limit : IntParams, offset : IntParams]

CreateEmployeeRequest ==
    [op : {"createEmployee"}, organization_id : Header, decodes : BOOLEAN,
     employee_code : Texts, department_id : OptionalId, designation_id : OptionalId,
     full_name : Texts, email : Texts,
     status : OptionalStatus, employment_type : OptionalType]

UpdateEmployeeRequest ==
    [op : {"updateEmployee"}, organization_id : Header, id : PathId, decodes : BOOLEAN,
     department_id : OptionalId, designation_id : OptionalId,
     full_name : Texts \cup {Null}, email : Texts \cup {Null},
     status : OptionalStatus, employment_type : OptionalType]

RequestType ==
    ListDepartmentsRequest \cup CreateDepartmentRequest \cup PathRequest
    \cup ListEmployeesRequest \cup CreateEmployeeRequest \cup UpdateEmployeeRequest

ASSUME ApiAssumption ==
    /\ Requests \subseteq RequestType
    /\ Trim \in [Texts -> Texts]
    /\ Malformed \notin OrgIds \cup OptionalId \cup Statuses \cup EmploymentTypes
    /\ Null \notin OrgIds /\ Null \notin Requests

(* The seed is a state the constraints accept. *)
ASSUME SeedAssumption ==
    /\ SeedDepartments \subseteq DepartmentRows /\ IsFiniteSet(SeedDepartments)
    /\ SeedEmployees \subseteq EmployeeRows /\ IsFiniteSet(SeedEmployees)
    /\ NoneDangles(SeedDepartments, SeedEmployees)
    /\ Keyed(SeedDepartments, SeedEmployees)
    /\ Forest(SeedDepartments)
    /\ \A x \in SeedDepartments \cup SeedEmployees : x.organization_id \in Organizations
    /\ \A d \in SeedDepartments, e \in SeedEmployees : d.id # e.id
    /\ \A t \in Designations, x \in SeedDepartments \cup SeedEmployees : t.id # x.id

-----------------------------------------------------------------------------
(* Answers: a success envelope or an httpx.Error. *)

Answer(kind, rows) ==
    [kind |-> kind, rows |-> rows, total |-> 0, limit |-> 0, offset |-> 0,
     code |-> "", fields |-> {}, cause |-> ""]

Page(rows, total, limit, offset) ==
    [Answer("ok", rows) EXCEPT !.total = total, !.limit = limit, !.offset = offset]

Unauthenticated(code) == [Answer("unauthenticated", {}) EXCEPT !.code = code]
Validation(fields) == [Answer("validation", {}) EXCEPT !.fields = fields]
NotFound == Answer("not_found", {})
Conflict(code) == [Answer("conflict", {}) EXCEPT !.code = code]
Internal(cause) == [Answer("internal", {}) EXCEPT !.cause = cause]

(* What is not an SQLSTATE the handlers know: a lost connection, a         *)
(* deadline, a deadlock PostgreSQL breaks.                                 *)
Faulted == Internal("fault")

(* pgCode(err) for the constraints of employees.  No CHECK can fail:       *)
(* handlers write neither aadhaar_last4 nor exited_on.                     *)
employeeConstraintError(state) ==
    IF state = UniqueViolation THEN Conflict("employee.duplicate")
    ELSE Validation({"department_id"})

(* The request's checks, in the order the handlers make them: tenant, path *)
(* id or query parameters, body, fields.                                   *)
Blanks(r) == {f \in {"employee_code", "full_name", "email"} : Trim[r[f]] = Blank}
Invalid(r) == {f \in {"status", "employment_type"} : r[f] = Malformed}

BodyAnswer(r) ==
    IF ~ r.decodes THEN {Validation({})}
    ELSE IF r.op = "createDepartment"
         THEN IF Trim[r.name] = Blank THEN {Validation({"name"})} ELSE {}
    ELSE IF r.op = "createEmployee"
         THEN IF Blanks(r) \cup Invalid(r) # {}
              THEN {Validation(Blanks(r) \cup Invalid(r))} ELSE {}
    ELSE IF r.status = Malformed THEN {Validation({"status"})}
    ELSE IF r.employment_type = Malformed THEN {Validation({"employment_type"})}
    ELSE {}

QueryAnswer(r) ==
    IF r.department_id = Malformed THEN {Validation({"department_id"})}
    ELSE IF r.status = Malformed THEN {Validation({"status"})}
    ELSE {}

HasPathId == {"deleteDepartment", "getEmployee", "updateEmployee", "deleteEmployee"}
HasBody == {"createDepartment", "createEmployee", "updateEmployee"}

(* {} when the request reaches the database, else the one early answer. *)
EarlyAnswer(r) ==
    IF r.organization_id = Null THEN {Unauthenticated("tenant.missing")}
    ELSE IF r.organization_id = Malformed THEN {Unauthenticated("tenant.invalid")}
    ELSE IF r.op \in HasPathId /\ r.id = Malformed THEN {Validation({"id"})}
    ELSE IF r.op = "listEmployees" THEN QueryAnswer(r)
    ELSE IF r.op \in HasBody THEN BodyAnswer(r)
    ELSE {}

-----------------------------------------------------------------------------
Codes == {"", "tenant.missing", "tenant.invalid", "department.name_taken", "employee.duplicate"}
Fields == {"id", "name", "employee_code", "full_name", "email", "department_id",
           "status", "employment_type"}
Causes == {"", "fault", ForeignKeyViolation}

AnswerType ==
    [kind : {"none", "ok", "created", "no_content", "unauthenticated", "validation",
             "not_found", "conflict", "internal"},
     rows : SUBSET (DepartmentRows \cup EmployeeRows),
     total : Nat, limit : Nat, offset : Nat,
     code : Codes, fields : SUBSET Fields, cause : Causes]

TypeOK ==
    /\ departments \in SUBSET DepartmentRows /\ IsFiniteSet(departments)
    /\ employees \in SUBSET EmployeeRows /\ IsFiniteSet(employees)
    /\ issued \in SUBSET Ids
    /\ pc \in [Workers -> {"idle", "query", "count", "reply"}]
    /\ req \in [Workers -> Requests \cup {Null}]
    /\ page \in [Workers -> SUBSET EmployeeRows]
    /\ resp \in [Workers -> AnswerType]

NoAnswer == Answer("none", {})

Init ==
    /\ departments = SeedDepartments
    /\ employees = SeedEmployees
    /\ issued = {x.id : x \in SeedDepartments \cup SeedEmployees \cup Designations}
    /\ pc = [w \in Workers |-> "idle"]
    /\ req = [w \in Workers |-> Null]
    /\ page = [w \in Workers |-> {}]
    /\ resp = [w \in Workers |-> NoAnswer]

Goto(w, label) == pc' = [pc EXCEPT ![w] = label]

(* A handler's request passes its checks, or is answered at once. *)
Receive(w, r) ==
    /\ pc[w] = "idle"
    /\ req' = [req EXCEPT ![w] = r]
    /\ IF EarlyAnswer(r) = {}
       THEN Goto(w, "query") /\ UNCHANGED resp
       ELSE /\ Goto(w, "reply")
            /\ \E a \in EarlyAnswer(r) : resp' = [resp EXCEPT ![w] = a]
    /\ UNCHANGED <<departments, employees, issued, page>>

At(w, label, op) == pc[w] = label /\ req[w].op = op

(* The statement has run; its outcome reaches the handler or is lost. *)
Return(w, a) ==
    /\ Goto(w, "reply")
    /\ \E b \in {a, Faulted} : resp' = [resp EXCEPT ![w] = b]
    /\ UNCHANGED <<req, page>>

(* The statement, or the BEGIN or COMMIT around it, fails without effect. *)
Fault(w) ==
    /\ pc[w] \in {"query", "count"}
    /\ Goto(w, "reply")
    /\ resp' = [resp EXCEPT ![w] = Faulted]
    /\ UNCHANGED <<departments, employees, issued, req, page>>

(* The answer is on the wire and the goroutine is done with it. *)
Respond(w) ==
    /\ pc[w] = "reply"
    /\ Goto(w, "idle")
    /\ req' = [req EXCEPT ![w] = Null]
    /\ page' = [page EXCEPT ![w] = {}]
    /\ resp' = [resp EXCEPT ![w] = NoAnswer]
    /\ UNCHANGED tables

-----------------------------------------------------------------------------
listDepartments(w) ==
    /\ At(w, "query", "listDepartments")
    /\ LET rows == OfTenant(departments, req[w].organization_id)
           total == Cardinality(rows)
       IN Return(w, Page(rows, total, total, 0))
    /\ UNCHANGED tables

(* The new id is none a client can know, not the parent it asks for either. *)
createDepartment(w) ==
    /\ At(w, "query", "createDepartment")
    /\ \E i \in Ids \ (issued \cup {req[w].parent_id}) :
         LET d == CreateDepartment(i, [req[w] EXCEPT !.name = Trim[@]])
             state == DepartmentState(departments, d)
         IN \/ /\ state = Ok
               /\ departments' = departments \cup {d}
               /\ issued' = issued \cup {i}
               /\ UNCHANGED employees
               /\ Return(w, Answer("created", {d}))
            \/ /\ state = UniqueViolation
               /\ Return(w, Conflict("department.name_taken"))
               /\ UNCHANGED tables
            \/ /\ state = ForeignKeyViolation
               /\ Return(w, Internal(state))
               /\ UNCHANGED tables

deleteDepartment(w) ==
    /\ At(w, "query", "deleteDepartment")
    /\ LET o == req[w].organization_id
           i == req[w].id
       IN /\ departments' = WithoutDepartment(departments, o, i)
          /\ employees' = DetachedFrom(employees, o, i)
          /\ Return(w, IF WithId(departments, o, i) = {} THEN NotFound
                       ELSE Answer("no_content", {}))
    /\ UNCHANGED issued

(* RunReadOnly, first statement: the page. *)
ListEmployees(w) ==
    /\ At(w, "query", "listEmployees")
    /\ \E rows \in Pages(Matching(employees, req[w].organization_id,
                                  req[w].department_id, req[w].status),
                         Limit(req[w].limit), Offset(req[w].offset)) :
           page' = [page EXCEPT ![w] = rows]
    /\ Goto(w, "count")
    /\ UNCHANGED <<departments, employees, issued, req, resp>>

(* RunReadOnly, second statement and COMMIT: the total, and the answer. *)
CountEmployees(w) ==
    /\ At(w, "count", "listEmployees")
    /\ Return(w, Page(page[w],
                      CountMatching(employees, req[w].organization_id,
                                    req[w].department_id, req[w].status),
                      Limit(req[w].limit), Offset(req[w].offset)))
    /\ UNCHANGED tables

getEmployee(w) ==
    /\ At(w, "query", "getEmployee")
    /\ LET found == WithId(employees, req[w].organization_id, req[w].id)
       IN Return(w, IF found = {} THEN NotFound ELSE Answer("ok", found))
    /\ UNCHANGED tables

createEmployee(w) ==
    /\ At(w, "query", "createEmployee")
    /\ \E i \in Ids \ issued :
         LET e == CreateEmployee(i, [req[w] EXCEPT !.employee_code = Trim[@],
                                                   !.full_name = Trim[@], !.email = Trim[@]])
             state == EmployeeState(departments, employees, e)
         IN \/ /\ state = Ok
               /\ employees' = employees \cup {e}
               /\ issued' = issued \cup {i}
               /\ UNCHANGED departments
               /\ Return(w, Answer("created", {e}))
            \/ /\ state # Ok
               /\ Return(w, employeeConstraintError(state))
               /\ UNCHANGED tables

updateEmployee(w) ==
    /\ At(w, "query", "updateEmployee")
    /\ LET found == WithId(employees, req[w].organization_id, req[w].id)
       IN \/ /\ found = {}
             /\ Return(w, NotFound)
             /\ UNCHANGED tables
          \/ \E e \in found :
               LET new == Patched(e, req[w])
                   state == EmployeeState(departments, employees, new)
               IN \/ /\ state = Ok
                     /\ employees' = Replace(employees, e, new)
                     /\ Return(w, Answer("ok", {new}))
                     /\ UNCHANGED <<departments, issued>>
                  \/ /\ state # Ok
                     /\ Return(w, employeeConstraintError(state))
                     /\ UNCHANGED tables

deleteEmployee(w) ==
    /\ At(w, "query", "deleteEmployee")
    /\ LET found == WithId(employees, req[w].organization_id, req[w].id)
       IN /\ employees' = WithoutEmployee(employees, req[w].organization_id, req[w].id)
          /\ Return(w, IF found = {} THEN NotFound ELSE Answer("no_content", {}))
    /\ UNCHANGED <<departments, issued>>

Statement(w) ==
    \/ listDepartments(w) \/ createDepartment(w) \/ deleteDepartment(w)
    \/ ListEmployees(w) \/ CountEmployees(w) \/ getEmployee(w)
    \/ createEmployee(w) \/ updateEmployee(w) \/ deleteEmployee(w)

Next ==
    \E w \in Workers :
        \/ \E r \in Requests : Receive(w, r)
        \/ Statement(w)
        \/ Fault(w)
        \/ Respond(w)

Spec == Init /\ [][Next]_vars

-----------------------------------------------------------------------------
(* Every reference points at a row of its own organisation that exists:    *)
(* no interleaving of inserts, patches and deletes leaves a row naming a   *)
(* department another request has just removed, or another tenant's.       *)
RefsStayInTenant == NoneDangles(departments, employees)

(* Ids are unique over all tenants; names, codes and e-mail addresses are  *)
(* unique within one, whatever their case and whichever handler wrote them.*)
KeysAreUnique == Keyed(departments, employees)

(* Following parent_id always ends.  Nothing in the schema says so; it     *)
(* holds because a parent is named only when a department is created.      *)
DepartmentsFormForest == Forest(departments)

(* What the goroutines hold: a handler past its checks has a request that  *)
(* passed them, nothing is left over from an earlier request, and every    *)
(* row's id was issued, so that a new one is nobody's.                     *)
Served ==
    /\ \A w \in Workers :
          /\ pc[w] # "idle" => req[w] \in Requests
          /\ pc[w] \in {"query", "count"} => EarlyAnswer(req[w]) = {}
          /\ pc[w] \in {"idle", "query"} => page[w] = {}
          /\ pc[w] # "reply" => resp[w] = NoAnswer
    /\ \A x \in departments \cup employees : x.id \in issued

(* An answer shows rows of the caller's organisation only. *)
AnswersStayInTenant ==
    \A w \in Workers :
        \A x \in page[w] \cup resp[w].rows : x.organization_id = req[w].organization_id

ExecutesFor(w, o) == pc[w] = "query" /\ pc'[w] = "reply" /\ req[w].organization_id = o

IsolatedStep ==
    \A o \in OrgIds :
        \/ /\ OfTenant(departments', o) = OfTenant(departments, o)
           /\ OfTenant(employees', o) = OfTenant(employees, o)
        \/ \E w \in Workers : ExecutesFor(w, o)

(* A step that runs a statement for one organisation leaves the rows of    *)
(* every other organisation exactly as they were.                          *)
TenantIsolation == [][IsolatedStep]_vars

(* ORDER BY full_name leaves the order of no two rows open. *)
Untied(rows) == \A a, b \in rows : Rank[a.full_name] = Rank[b.full_name] => a = b

(* A client that walks a list while nothing changes, asking for offset 0,  *)
(* then limit, then 2 * limit and so on up to the total, meets every       *)
(* employee on exactly one page, the same on every walk, as long as no two *)
(* have names that sort alike (the query has no tie-breaker,               *)
(* query/employees.sql:9, and none is needed then) and the handler clamps  *)
(* no offset it asks for.                                                  *)
PagesTile ==
    \A r \in Requests : r.op = "listEmployees" /\ EarlyAnswer(r) = {} =>
        LET rows == Matching(employees, r.organization_id, r.department_id, r.status)
            limit == Limit(r.limit)
            steps == {k \in 0..Cardinality(rows) : k * limit <= Cardinality(rows)}
            walk == [k \in steps |-> Pages(rows, limit, Offset(k * limit))]
        IN  Untied(rows) /\ Cardinality(rows) <= MaxOffset =>
              /\ \A k \in DOMAIN walk : walk[k] # {}
              /\ \A x \in rows : \E k \in DOMAIN walk :
                    \A j \in DOMAIN walk : \A p \in walk[j] : x \in p <=> j = k

-----------------------------------------------------------------------------
(* What the repository says of the handlers and the code does not do. *)

PageAnswer(w) == pc[w] = "reply" /\ req[w].op = "listEmployees" /\ resp[w].kind = "ok"

(* employees.go: "One read-only transaction, so the page and its total     *)
(* agree": a page of a listing has as many rows as its total leaves there. *)
PageMatchesTotal ==
    \A w \in Workers :
        PageAnswer(w) => Cardinality(resp[w].rows)
                           = PageSize(resp[w].total, resp[w].limit, resp[w].offset)

(* .env.example: "a request naming an organisation that does not exist is  *)
(* not an error, it simply matches no rows".                               *)
UnknownOrganisationIsNoError ==
    \A w \in Workers :
        /\ pc[w] = "reply"
        /\ req[w].organization_id \in OrgIds \ Organizations
        /\ EarlyAnswer(req[w]) = {}
        /\ resp[w] # Faulted
        => resp[w].kind \in {"ok", "not_found"}
=============================================================================
