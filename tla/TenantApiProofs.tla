--------------------------- MODULE TenantApiProofs ---------------------------
(***************************************************************************)
(* Invariance proofs for TenantApi, for every set of organisations, ids,   *)
(* texts, workers and requests.                                            *)
(***************************************************************************)
EXTENDS TenantApi, FiniteSetTheorems, TLAPS

-----------------------------------------------------------------------------
(* The answers handlers build are answers. *)
LEMMA AnswersTyped ==
    /\ \A kind \in {"none", "ok", "created", "no_content", "unauthenticated", "validation",
                    "not_found", "conflict", "internal"},
          rows \in SUBSET (DepartmentRows \cup EmployeeRows) :
            Answer(kind, rows) \in AnswerType
    /\ \A rows \in SUBSET (DepartmentRows \cup EmployeeRows), total, limit, offset \in Nat :
            Page(rows, total, limit, offset) \in AnswerType
    /\ \A code \in Codes : Conflict(code) \in AnswerType /\ Unauthenticated(code) \in AnswerType
    /\ \A fields \in SUBSET Fields : Validation(fields) \in AnswerType
    /\ \A cause \in Causes : Internal(cause) \in AnswerType
    /\ NotFound \in AnswerType
    /\ Faulted \in AnswerType
    /\ NoAnswer \in AnswerType
<1>1. \A kind \in {"none", "ok", "created", "no_content", "unauthenticated", "validation",
                   "not_found", "conflict", "internal"},
         rows \in SUBSET (DepartmentRows \cup EmployeeRows) :
           Answer(kind, rows) \in AnswerType
  BY DEF AnswerType, Answer, Codes, Causes
<1>2. ASSUME NEW rows \in SUBSET (DepartmentRows \cup EmployeeRows),
             NEW total \in Nat, NEW limit \in Nat, NEW offset \in Nat
      PROVE  Page(rows, total, limit, offset) \in AnswerType
  BY DEF AnswerType, Answer, Page, Codes, Causes
<1>3. ASSUME NEW code \in Codes
      PROVE  Conflict(code) \in AnswerType /\ Unauthenticated(code) \in AnswerType
  BY DEF AnswerType, Answer, Conflict, Unauthenticated, Causes
<1>4. ASSUME NEW fields \in SUBSET Fields PROVE Validation(fields) \in AnswerType
  BY DEF AnswerType, Answer, Validation, Codes, Causes
<1>5. ASSUME NEW cause \in Causes PROVE Internal(cause) \in AnswerType
  BY DEF AnswerType, Answer, Internal, Codes
<1>6. NotFound \in AnswerType /\ NoAnswer \in AnswerType
  BY <1>1 DEF NotFound, NoAnswer
<1>7. Faulted \in AnswerType
  BY <1>5 DEF Faulted, Causes
<1> QED
  BY <1>1, <1>2, <1>3, <1>4, <1>5, <1>6, <1>7

(* The answers that show rows of organisation o, and no others. *)
OwnAnswers(o) == {a \in AnswerType : \A x \in a.rows : x.organization_id = o}

LEMMA EmptyAnswersOwn ==
    ASSUME NEW o
    PROVE  /\ \A code \in Codes :
                Conflict(code) \in OwnAnswers(o) /\ Unauthenticated(code) \in OwnAnswers(o)
           /\ \A fields \in SUBSET Fields : Validation(fields) \in OwnAnswers(o)
           /\ \A cause \in Causes : Internal(cause) \in OwnAnswers(o)
           /\ NotFound \in OwnAnswers(o) /\ Faulted \in OwnAnswers(o)
           /\ NoAnswer \in OwnAnswers(o) /\ Answer("no_content", {}) \in OwnAnswers(o)
<1>1. \A code, fields, cause :
        /\ Conflict(code).rows = {} /\ Unauthenticated(code).rows = {}
        /\ Validation(fields).rows = {} /\ Internal(cause).rows = {}
  BY DEF Conflict, Unauthenticated, Validation, Internal, Answer
<1>2. /\ NotFound.rows = {} /\ Faulted.rows = {} /\ NoAnswer.rows = {}
      /\ Answer("no_content", {}).rows = {}
  BY DEF NotFound, Faulted, NoAnswer, Internal, Answer
<1> QED
  BY <1>1, <1>2, AnswersTyped DEF OwnAnswers

LEMMA RowAnswersOwn ==
    ASSUME NEW o, NEW rows \in SUBSET (DepartmentRows \cup EmployeeRows),
           \A x \in rows : x.organization_id = o
    PROVE  /\ Answer("ok", rows) \in OwnAnswers(o) /\ Answer("created", rows) \in OwnAnswers(o)
           /\ \A total, limit, offset \in Nat : Page(rows, total, limit, offset) \in OwnAnswers(o)
<1>1. /\ \A kind : Answer(kind, rows).rows = rows
      /\ \A total, limit, offset : Page(rows, total, limit, offset).rows = rows
  BY DEF Answer, Page
<1> QED
  BY <1>1, AnswersTyped DEF OwnAnswers

LEMMA EarlyAnswersTyped ==
    ASSUME NEW r \in Requests, NEW a \in EarlyAnswer(r)
    PROVE  a \in AnswerType
<1>1. Blanks(r) \cup Invalid(r) \in SUBSET Fields
  BY DEF Blanks, Invalid, Fields
<1>2. \A f \in Fields : Validation({f}) \in AnswerType
  BY AnswersTyped
<1>3. Validation({}) \in AnswerType /\ Validation(Blanks(r) \cup Invalid(r)) \in AnswerType
  BY <1>1, AnswersTyped
<1>4. \A b \in BodyAnswer(r) : b \in AnswerType
  BY <1>2, <1>3 DEF BodyAnswer, Fields
<1>5. \A b \in QueryAnswer(r) : b \in AnswerType
  BY <1>2 DEF QueryAnswer, Fields
<1>6. Unauthenticated("tenant.missing") \in AnswerType
      /\ Unauthenticated("tenant.invalid") \in AnswerType
  BY AnswersTyped DEF Codes
<1> QED
  BY <1>2, <1>4, <1>5, <1>6 DEF EarlyAnswer, Fields

(* A request that passed its checks names an organisation and ids. *)
LEMMA PassedChecks ==
    ASSUME NEW r \in Requests, EarlyAnswer(r) = {}
    PROVE  /\ r.organization_id \in OrgIds
           /\ r.op \in HasPathId => r.id \in Ids
           /\ r.op = "listDepartments" => r \in ListDepartmentsRequest
           /\ r.op = "createDepartment" => r \in CreateDepartmentRequest
           /\ r.op \in {"deleteDepartment", "getEmployee", "deleteEmployee"} => r \in PathRequest
           /\ r.op = "listEmployees" => r \in ListEmployeesRequest
           /\ r.op = "createEmployee" =>
                 /\ r \in CreateEmployeeRequest
                 /\ r.status # Malformed /\ r.employment_type # Malformed
           /\ r.op = "updateEmployee" =>
                 /\ r \in UpdateEmployeeRequest
                 /\ r.status # Malformed /\ r.employment_type # Malformed
<1>1. r \in RequestType
  BY ApiAssumption
<1>2. /\ r.op = "listDepartments" => r \in ListDepartmentsRequest
      /\ r.op = "createDepartment" => r \in CreateDepartmentRequest
      /\ r.op \in {"deleteDepartment", "getEmployee", "deleteEmployee"} => r \in PathRequest
      /\ r.op = "listEmployees" => r \in ListEmployeesRequest
      /\ r.op = "createEmployee" => r \in CreateEmployeeRequest
      /\ r.op = "updateEmployee" => r \in UpdateEmployeeRequest
  BY <1>1 DEF RequestType, ListDepartmentsRequest, CreateDepartmentRequest, PathRequest,
       ListEmployeesRequest, CreateEmployeeRequest, UpdateEmployeeRequest
<1>3. r.organization_id \in OrgIds
  <2>1. r.organization_id \in Header
    BY <1>1 DEF RequestType, ListDepartmentsRequest, CreateDepartmentRequest, PathRequest,
         ListEmployeesRequest, CreateEmployeeRequest, UpdateEmployeeRequest
  <2> QED
    BY <2>1 DEF EarlyAnswer, Header
<1>4. ASSUME r.op \in HasPathId PROVE r.id \in Ids
  <2>1. r.id \in PathId
    BY <1>2, <1>4 DEF HasPathId, PathRequest, UpdateEmployeeRequest
  <2> QED
    BY <2>1, <1>4, <1>3, ApiAssumption DEF EarlyAnswer, PathId
<1>5. ASSUME r.op \in HasBody PROVE BodyAnswer(r) = {}
  BY <1>5, <1>3, ApiAssumption DEF EarlyAnswer, HasBody, HasPathId
<1>6. ASSUME r.op = "createEmployee" PROVE r.status # Malformed /\ r.employment_type # Malformed
  <2>1. Invalid(r) = {}
    BY <1>5, <1>6 DEF BodyAnswer, HasBody
  <2> QED
    BY <2>1 DEF Invalid
<1>7. ASSUME r.op = "updateEmployee" PROVE r.status # Malformed /\ r.employment_type # Malformed
  BY <1>5, <1>7 DEF BodyAnswer, HasBody
<1> QED
  BY <1>2, <1>3, <1>4, <1>6, <1>7

-----------------------------------------------------------------------------
(* What the statements write is rows, and finitely many. *)
LEMMA WithoutDepartmentTyped ==
    ASSUME NEW D \in SUBSET DepartmentRows, IsFiniteSet(D), NEW o, NEW i
    PROVE  /\ WithoutDepartment(D, o, i) \in SUBSET DepartmentRows
           /\ IsFiniteSet(WithoutDepartment(D, o, i))
<1> DEFINE S == D \ WithId(D, o, i)
           f == [d \in S |-> IF d.organization_id = o /\ d.parent_id = i
                             THEN [d EXCEPT !.parent_id = Null] ELSE d]
<1>1. IsFiniteSet(S)
  BY FS_Subset
<1>2. \A d \in S : f[d] = IF d.organization_id = o /\ d.parent_id = i
                         THEN [d EXCEPT !.parent_id = Null] ELSE d
  OBVIOUS
<1>3. f \in Surjection(S, WithoutDepartment(D, o, i))
  BY <1>2 DEF WithoutDepartment, Surjection
<1>4. WithoutDepartment(D, o, i) \in SUBSET DepartmentRows
  BY DEF WithoutDepartment, WithId, DepartmentRows, OptionalId
<1> QED
  BY <1>1, <1>3, <1>4, FS_Surjection

LEMMA DetachedTyped ==
    ASSUME NEW E \in SUBSET EmployeeRows, IsFiniteSet(E), NEW o, NEW i
    PROVE  /\ DetachedFrom(E, o, i) \in SUBSET EmployeeRows
           /\ IsFiniteSet(DetachedFrom(E, o, i))
<1> DEFINE f == [e \in E |-> IF e.organization_id = o /\ e.department_id = i
                             THEN [e EXCEPT !.department_id = Null] ELSE e]
<1>1. \A e \in E : f[e] = IF e.organization_id = o /\ e.department_id = i
                         THEN [e EXCEPT !.department_id = Null] ELSE e
  OBVIOUS
<1>2. f \in Surjection(E, DetachedFrom(E, o, i))
  BY <1>1 DEF DetachedFrom, Surjection
<1>3. DetachedFrom(E, o, i) \in SUBSET EmployeeRows
  BY DEF DetachedFrom, EmployeeRows, OptionalId
<1> QED
  BY <1>2, <1>3, FS_Surjection

LEMMA PatchedTyped ==
    ASSUME NEW e \in EmployeeRows, NEW r \in UpdateEmployeeRequest,
           r.status # Malformed, r.employment_type # Malformed
    PROVE  /\ Patched(e, r) \in EmployeeRows
           /\ Patched(e, r).id = e.id
           /\ Patched(e, r).organization_id = e.organization_id
<1>1. /\ Coalesce(r.department_id, e.department_id) \in OptionalId
      /\ Coalesce(r.designation_id, e.designation_id) \in OptionalId
      /\ Coalesce(r.full_name, e.full_name) \in Texts
      /\ Coalesce(r.email, e.email) \in Texts
      /\ Coalesce(r.status, e.status) \in Statuses
      /\ Coalesce(r.employment_type, e.employment_type) \in EmploymentTypes
  BY DEF Coalesce, EmployeeRows, UpdateEmployeeRequest, OptionalStatus, OptionalType
<1> QED
  BY <1>1 DEF Patched, EmployeeRows

LEMMA PagesTyped ==
    ASSUME NEW rows, NEW limit \in Nat, NEW offset \in Nat, NEW p \in Pages(rows, limit, offset)
    PROVE  p \in SUBSET rows
BY DEF Pages

LEMMA LimitsTyped ==
    ASSUME NEW r \in ListEmployeesRequest
    PROVE  Limit(r.limit) \in Nat /\ Offset(r.offset) \in Nat
BY PagingAssumption DEF Limit, Offset, intParam, ListEmployeesRequest, IntParams

-----------------------------------------------------------------------------
(* Type correctness, with what the goroutines hold. *)

Typed == TypeOK /\ Served

LEMMA InitTyped == Init => Typed
<1> SUFFICES ASSUME Init PROVE Typed
  OBVIOUS
<1>1. issued \in SUBSET Ids
  <2>1. /\ SeedDepartments \subseteq DepartmentRows /\ SeedEmployees \subseteq EmployeeRows
        /\ Designations \subseteq [organization_id : Organizations, id : Ids]
    BY SeedAssumption, TenancyAssumption
  <2> QED
    BY <2>1 DEF Init, DepartmentRows, EmployeeRows
<1>2. /\ departments \in SUBSET DepartmentRows /\ IsFiniteSet(departments)
      /\ employees \in SUBSET EmployeeRows /\ IsFiniteSet(employees)
  BY SeedAssumption DEF Init
<1>3. TypeOK
  BY <1>1, <1>2, AnswersTyped DEF Init, TypeOK
<1>4. \A x \in departments \cup employees : x.id \in issued
  BY DEF Init
<1>5. Served
  BY <1>4 DEF Init, Served
<1> QED
  BY <1>3, <1>5 DEF Typed

LEMMA ReturnTyped ==
    ASSUME Typed, NEW w \in Workers, pc[w] \in {"query", "count"},
           NEW a \in AnswerType, Return(w, a)
    PROVE  /\ pc' \in [Workers -> {"idle", "query", "count", "reply"}]
           /\ req' \in [Workers -> Requests \cup {Null}]
           /\ page' \in [Workers -> SUBSET EmployeeRows]
           /\ resp' \in [Workers -> AnswerType]
           /\ \A v \in Workers :
                /\ pc'[v] # "idle" => req'[v] \in Requests
                /\ pc'[v] \in {"query", "count"} => EarlyAnswer(req'[v]) = {}
                /\ pc'[v] \in {"idle", "query"} => page'[v] = {}
                /\ pc'[v] # "reply" => resp'[v] = NoAnswer
<1>1. PICK b \in AnswerType : resp' = [resp EXCEPT ![w] = b]
  BY AnswersTyped DEF Return
<1>2. pc' = [pc EXCEPT ![w] = "reply"] /\ req' = req /\ page' = page
  BY DEF Return, Goto
<1> QED
  BY <1>1, <1>2 DEF Typed, TypeOK, Served

LEMMA QueryRequests ==
    ASSUME Typed, NEW w \in Workers, pc[w] \in {"query", "count"}
    PROVE  req[w] \in Requests /\ EarlyAnswer(req[w]) = {}
BY DEF Typed, Served

LEMMA ReceiveTyped ==
    ASSUME Typed, NEW w \in Workers, NEW r \in Requests, Receive(w, r)
    PROVE  Typed'
<1>1. /\ req' = [req EXCEPT ![w] = r] /\ page' = page /\ pc[w] = "idle"
      /\ UNCHANGED tables
  BY DEF Receive, tables
<1>2. CASE EarlyAnswer(r) = {}
  <2>1. pc' = [pc EXCEPT ![w] = "query"] /\ resp' = resp
    BY <1>2 DEF Receive, Goto
  <2> QED
    BY <1>1, <1>2, <2>1 DEF Typed, TypeOK, Served, tables
<1>3. CASE EarlyAnswer(r) # {}
  <2>1. PICK a \in AnswerType : resp' = [resp EXCEPT ![w] = a]
    BY <1>3, EarlyAnswersTyped DEF Receive
  <2>2. pc' = [pc EXCEPT ![w] = "reply"]
    BY <1>3 DEF Receive, Goto
  <2> QED
    BY <1>1, <2>1, <2>2 DEF Typed, TypeOK, Served, tables
<1> QED
  BY <1>2, <1>3

LEMMA FaultTyped ==
    ASSUME Typed, NEW w \in Workers, Fault(w)
    PROVE  Typed'
<1>1. /\ pc' = [pc EXCEPT ![w] = "reply"] /\ resp' = [resp EXCEPT ![w] = Faulted]
      /\ UNCHANGED <<departments, employees, issued, req, page>>
      /\ pc[w] \in {"query", "count"}
  BY DEF Fault, Goto
<1> QED
  BY <1>1, AnswersTyped DEF Typed, TypeOK, Served

LEMMA RespondTyped ==
    ASSUME Typed, NEW w \in Workers, Respond(w)
    PROVE  Typed'
<1>1. /\ pc' = [pc EXCEPT ![w] = "idle"] /\ resp' = [resp EXCEPT ![w] = NoAnswer]
      /\ req' = [req EXCEPT ![w] = Null] /\ page' = [page EXCEPT ![w] = {}]
      /\ UNCHANGED <<departments, employees, issued>>
  BY DEF Respond, Goto, tables
<1> QED
  BY <1>1, AnswersTyped DEF Typed, TypeOK, Served

(* A statement that only reads keeps the tables; its answer is typed. *)
LEMMA ReadTyped ==
    ASSUME Typed, NEW w \in Workers, pc[w] \in {"query", "count"},
           NEW a \in AnswerType, Return(w, a), UNCHANGED tables
    PROVE  Typed'
BY ReturnTyped DEF Typed, TypeOK, Served, tables

LEMMA listDepartmentsTyped ==
    ASSUME Typed, NEW w \in Workers, listDepartments(w)
    PROVE  Typed'
<1> DEFINE rows == OfTenant(departments, req[w].organization_id)
<1>1. rows \in SUBSET departments
  BY DEF OfTenant
<1>2. Cardinality(rows) \in Nat
  BY <1>1, FS_Subset, FS_CardinalityType DEF Typed, TypeOK
<1>3. Page(rows, Cardinality(rows), Cardinality(rows), 0) \in AnswerType
  <2>1. rows \in SUBSET (DepartmentRows \cup EmployeeRows)
    BY <1>1 DEF Typed, TypeOK
  <2> QED
    BY <1>2, <2>1, AnswersTyped
<1> QED
  BY <1>3, ReadTyped DEF listDepartments, At

LEMMA getEmployeeTyped ==
    ASSUME Typed, NEW w \in Workers, getEmployee(w)
    PROVE  Typed'
<1> DEFINE found == WithId(employees, req[w].organization_id, req[w].id)
<1>1. found \in SUBSET (DepartmentRows \cup EmployeeRows)
  BY DEF WithId, Typed, TypeOK
<1>2. (IF found = {} THEN NotFound ELSE Answer("ok", found)) \in AnswerType
  BY <1>1, AnswersTyped
<1> QED
  BY <1>2, ReadTyped DEF getEmployee, At

LEMMA ListEmployeesTyped ==
    ASSUME Typed, NEW w \in Workers, ListEmployees(w)
    PROVE  Typed'
<1> DEFINE r == req[w]
           asked == Matching(employees, r.organization_id, r.department_id, r.status)
<1>1. r \in Requests /\ EarlyAnswer(r) = {} /\ pc[w] = "query"
  BY QueryRequests DEF ListEmployees, At
<1>2. r \in ListEmployeesRequest
  BY <1>1, PassedChecks DEF ListEmployees, At
<1>3. PICK p \in Pages(asked, Limit(r.limit), Offset(r.offset)) : page' = [page EXCEPT ![w] = p]
  BY DEF ListEmployees
<1>4. p \in SUBSET EmployeeRows
  BY <1>2, <1>3, LimitsTyped, PagesTyped DEF Matching, Typed, TypeOK
<1>5. /\ pc' = [pc EXCEPT ![w] = "count"]
      /\ UNCHANGED <<departments, employees, issued, req, resp>>
  BY DEF ListEmployees, Goto
<1> QED
  BY <1>1, <1>3, <1>4, <1>5 DEF Typed, TypeOK, Served

LEMMA CountEmployeesTyped ==
    ASSUME Typed, NEW w \in Workers, CountEmployees(w)
    PROVE  Typed'
<1> DEFINE r == req[w]
           asked == Matching(employees, r.organization_id, r.department_id, r.status)
<1>1. r \in Requests /\ EarlyAnswer(r) = {} /\ pc[w] = "count"
  BY QueryRequests DEF CountEmployees, At
<1>2. Limit(r.limit) \in Nat /\ Offset(r.offset) \in Nat
  BY <1>1, PassedChecks, LimitsTyped DEF CountEmployees, At
<1>3. Cardinality(asked) \in Nat
  <2>1. asked \in SUBSET employees
    BY DEF Matching
  <2> QED
    BY <2>1, FS_Subset, FS_CardinalityType DEF Typed, TypeOK
<1>4. Page(page[w], Cardinality(asked), Limit(r.limit), Offset(r.offset)) \in AnswerType
  <2>1. page[w] \in SUBSET (DepartmentRows \cup EmployeeRows)
    BY DEF Typed, TypeOK
  <2> QED
    BY <1>2, <1>3, <2>1, AnswersTyped
<1> QED
  BY <1>1, <1>4, ReadTyped DEF CountEmployees, CountMatching

(* A statement that writes rows and records their ids. *)
LEMMA WriteTyped ==
    ASSUME Typed, NEW w \in Workers, pc[w] \in {"query", "count"},
           NEW a \in AnswerType, Return(w, a),
           departments' \in SUBSET DepartmentRows, IsFiniteSet(departments'),
           employees' \in SUBSET EmployeeRows, IsFiniteSet(employees'),
           issued' \in SUBSET Ids,
           \A x \in departments' \cup employees' : x.id \in issued'
    PROVE  Typed'
BY ReturnTyped DEF Typed, TypeOK, Served

(* The changes a step can make to the tables, one per writing statement. *)
InsertsDepartment(o, d) ==
    /\ d \in DepartmentRows /\ d.organization_id = o
    /\ d.id \in Ids \ issued /\ d.parent_id # d.id
    /\ DepartmentState(departments, d) = Ok
    /\ departments' = departments \cup {d} /\ issued' = issued \cup {d.id}
    /\ employees' = employees

DeletesDepartment(o, i) ==
    /\ departments' = WithoutDepartment(departments, o, i)
    /\ employees' = DetachedFrom(employees, o, i)
    /\ issued' = issued

InsertsEmployee(o, e) ==
    /\ e \in EmployeeRows /\ e.organization_id = o /\ e.id \in Ids \ issued
    /\ EmployeeState(departments, employees, e) = Ok
    /\ employees' = employees \cup {e} /\ issued' = issued \cup {e.id}
    /\ departments' = departments

PatchesEmployee(o, e, new) ==
    /\ e \in employees /\ new \in EmployeeRows
    /\ e.organization_id = o /\ new.organization_id = o /\ new.id = e.id
    /\ EmployeeState(departments, employees, new) = Ok
    /\ employees' = Replace(employees, e, new)
    /\ departments' = departments /\ issued' = issued

DeletesEmployees(o, gone) ==
    /\ gone \subseteq employees /\ \A e \in gone : e.organization_id = o
    /\ \E i : gone = WithId(employees, o, i)
    /\ employees' = employees \ gone
    /\ departments' = departments /\ issued' = issued

Writes(o) ==
    \/ \E d : InsertsDepartment(o, d)
    \/ \E i : DeletesDepartment(o, i)
    \/ \E e : InsertsEmployee(o, e)
    \/ \E e, new : PatchesEmployee(o, e, new)
    \/ \E gone : DeletesEmployees(o, gone)

LEMMA createDepartmentEffect ==
    ASSUME Typed, NEW w \in Workers, createDepartment(w)
    PROVE  \E a \in OwnAnswers(req[w].organization_id) :
             /\ Return(w, a)
             /\ \/ UNCHANGED tables
                \/ \E d : InsertsDepartment(req[w].organization_id, d)
<1> DEFINE r == req[w]
<1>1. r \in CreateDepartmentRequest /\ r.organization_id \in OrgIds
  BY QueryRequests, PassedChecks DEF createDepartment, At
<1>2. PICK i \in Ids \ (issued \cup {r.parent_id}) :
         LET d == CreateDepartment(i, [r EXCEPT !.name = Trim[@]])
             state == DepartmentState(departments, d)
         IN \/ /\ state = Ok
               /\ departments' = departments \cup {d}
               /\ issued' = issued \cup {i}
               /\ UNCHANGED employees
               /\ Return(w, Answer("created", {d}))
            \/ /\ state = UniqueViolation
               /\ Return(w, Conflict("department.name_taken"))
               /\ UNCHANGED tables
            \/ /\ state = ForeignKeyViolation
               /\ Return(w, Internal(state))
               /\ UNCHANGED tables
  BY DEF createDepartment
<1> DEFINE d == CreateDepartment(i, [r EXCEPT !.name = Trim[@]])
<1>3. d \in DepartmentRows /\ d.organization_id = r.organization_id
      /\ d.id = i /\ d.parent_id = r.parent_id
  BY <1>1, ApiAssumption DEF DepartmentRows, CreateDepartmentRequest, CreateDepartment
<1>4. Answer("created", {d}) \in OwnAnswers(r.organization_id)
  BY <1>3, RowAnswersOwn
<1>5. Conflict("department.name_taken") \in OwnAnswers(r.organization_id)
  BY EmptyAnswersOwn DEF Codes
<1>6. Internal(ForeignKeyViolation) \in OwnAnswers(r.organization_id)
  BY EmptyAnswersOwn DEF Causes
<1> HIDE DEF d
<1>7. \/ /\ DepartmentState(departments, d) = Ok
         /\ departments' = departments \cup {d}
         /\ issued' = issued \cup {i}
         /\ UNCHANGED employees
         /\ Return(w, Answer("created", {d}))
      \/ Return(w, Conflict("department.name_taken")) /\ UNCHANGED tables
      \/ Return(w, Internal(ForeignKeyViolation)) /\ UNCHANGED tables
  BY <1>2 DEF d
<1> QED
  BY <1>2, <1>3, <1>4, <1>5, <1>6, <1>7 DEF InsertsDepartment

LEMMA deleteDepartmentEffect ==
    ASSUME Typed, NEW w \in Workers, deleteDepartment(w)
    PROVE  \E a \in OwnAnswers(req[w].organization_id) :
             /\ Return(w, a)
             /\ DeletesDepartment(req[w].organization_id, req[w].id)
<1> DEFINE o == req[w].organization_id
<1>1. NotFound \in OwnAnswers(o) /\ Answer("no_content", {}) \in OwnAnswers(o)
  BY EmptyAnswersOwn
<1> QED
  BY <1>1 DEF deleteDepartment, DeletesDepartment

LEMMA createEmployeeEffect ==
    ASSUME Typed, NEW w \in Workers, createEmployee(w)
    PROVE  \E a \in OwnAnswers(req[w].organization_id) :
             /\ Return(w, a)
             /\ \/ UNCHANGED tables
                \/ \E e : InsertsEmployee(req[w].organization_id, e)
<1> DEFINE r == req[w]
           Row(i) == CreateEmployee(i, [r EXCEPT !.employee_code = Trim[@],
                                                 !.full_name = Trim[@], !.email = Trim[@]])
<1>1. /\ r \in CreateEmployeeRequest /\ r.organization_id \in OrgIds
      /\ r.status # Malformed /\ r.employment_type # Malformed
  BY QueryRequests, PassedChecks DEF createEmployee, At
<1>2. PICK i \in Ids \ issued :
         \/ /\ EmployeeState(departments, employees, Row(i)) = Ok
            /\ employees' = employees \cup {Row(i)}
            /\ issued' = issued \cup {i}
            /\ UNCHANGED departments
            /\ Return(w, Answer("created", {Row(i)}))
         \/ /\ Return(w, employeeConstraintError(EmployeeState(departments, employees, Row(i))))
            /\ UNCHANGED tables
  BY DEF createEmployee
<1> DEFINE e == Row(i)
<1>3. e.organization_id = r.organization_id /\ e.id = i
  BY <1>1 DEF CreateEmployee, CreateEmployeeRequest
<1>4. /\ Coalesce(r.status, Probation) \in Statuses
      /\ Coalesce(r.employment_type, FullTime) \in EmploymentTypes
  BY <1>1, TenancyAssumption DEF Coalesce, CreateEmployeeRequest, OptionalStatus, OptionalType
<1>5. e \in EmployeeRows
  BY <1>1, <1>4, ApiAssumption DEF EmployeeRows, CreateEmployeeRequest, CreateEmployee
<1>6. Answer("created", {e}) \in OwnAnswers(r.organization_id)
  BY <1>3, <1>5, RowAnswersOwn
<1>7. \A state : employeeConstraintError(state) \in OwnAnswers(r.organization_id)
  BY EmptyAnswersOwn DEF employeeConstraintError, Codes, Fields
<1> HIDE DEF e
<1>8. \/ /\ EmployeeState(departments, employees, e) = Ok
         /\ employees' = employees \cup {e}
         /\ issued' = issued \cup {i}
         /\ UNCHANGED departments
         /\ Return(w, Answer("created", {e}))
      \/ /\ Return(w, employeeConstraintError(EmployeeState(departments, employees, e)))
         /\ UNCHANGED tables
  BY <1>2 DEF e
<1> QED
  BY <1>2, <1>3, <1>5, <1>6, <1>7, <1>8 DEF InsertsEmployee

LEMMA updateEmployeeEffect ==
    ASSUME Typed, NEW w \in Workers, updateEmployee(w)
    PROVE  \E a \in OwnAnswers(req[w].organization_id) :
             /\ Return(w, a)
             /\ \/ UNCHANGED tables
                \/ \E e, new : PatchesEmployee(req[w].organization_id, e, new)
<1> DEFINE r == req[w]
           found == WithId(employees, r.organization_id, r.id)
<1>1. /\ r \in UpdateEmployeeRequest
      /\ r.status # Malformed /\ r.employment_type # Malformed
  BY QueryRequests, PassedChecks DEF updateEmployee, At
<1>2. /\ NotFound \in OwnAnswers(r.organization_id)
      /\ \A state : employeeConstraintError(state) \in OwnAnswers(r.organization_id)
  BY EmptyAnswersOwn DEF employeeConstraintError, Codes, Fields
<1>3. CASE Return(w, NotFound) /\ UNCHANGED tables
  BY <1>2, <1>3
<1>4. ASSUME NEW e \in found,
             LET new == Patched(e, r)
                 state == EmployeeState(departments, employees, new)
             IN \/ /\ state = Ok
                   /\ employees' = Replace(employees, e, new)
                   /\ Return(w, Answer("ok", {new}))
                   /\ UNCHANGED <<departments, issued>>
                \/ /\ state # Ok
                   /\ Return(w, employeeConstraintError(state))
                   /\ UNCHANGED tables
      PROVE  \E a \in OwnAnswers(r.organization_id) :
               /\ Return(w, a)
               /\ \/ UNCHANGED tables
                  \/ \E x, new : PatchesEmployee(r.organization_id, x, new)
  <2>1. e \in employees /\ e \in EmployeeRows /\ e.organization_id = r.organization_id
    BY <1>4 DEF WithId, Typed, TypeOK
  <2>2. /\ Patched(e, r) \in EmployeeRows /\ Patched(e, r).id = e.id
        /\ Patched(e, r).organization_id = e.organization_id
    BY <1>1, <2>1, PatchedTyped
  <2>3. Answer("ok", {Patched(e, r)}) \in OwnAnswers(r.organization_id)
    BY <2>1, <2>2, RowAnswersOwn
  <2> QED
    BY <1>2, <1>4, <2>1, <2>2, <2>3 DEF PatchesEmployee
<1> QED
  BY <1>3, <1>4 DEF updateEmployee

LEMMA deleteEmployeeEffect ==
    ASSUME Typed, NEW w \in Workers, deleteEmployee(w)
    PROVE  \E a \in OwnAnswers(req[w].organization_id) :
             /\ Return(w, a)
             /\ \E gone : DeletesEmployees(req[w].organization_id, gone)
<1> DEFINE o == req[w].organization_id
<1>1. NotFound \in OwnAnswers(o) /\ Answer("no_content", {}) \in OwnAnswers(o)
  BY EmptyAnswersOwn
<1> QED
  BY <1>1 DEF deleteEmployee, DeletesEmployees, WithoutEmployee, WithId

(* What a writing statement of worker w may do, in one formula. *)
LEMMA WritesEffect ==
    ASSUME Typed, NEW w \in Workers,
           \/ createDepartment(w) \/ deleteDepartment(w)
           \/ createEmployee(w) \/ updateEmployee(w) \/ deleteEmployee(w)
    PROVE  /\ pc[w] = "query" /\ pc'[w] = "reply"
           /\ \E a \in OwnAnswers(req[w].organization_id) : Return(w, a)
           /\ UNCHANGED tables \/ Writes(req[w].organization_id)
<1>1. /\ \E a \in OwnAnswers(req[w].organization_id) : Return(w, a)
      /\ UNCHANGED tables \/ Writes(req[w].organization_id)
  BY createDepartmentEffect, deleteDepartmentEffect, createEmployeeEffect,
     updateEmployeeEffect, deleteEmployeeEffect DEF Writes
<1>2. pc[w] = "query"
  BY DEF createDepartment, deleteDepartment, createEmployee, updateEmployee,
         deleteEmployee, At
<1>3. pc'[w] = "reply"
  BY <1>1 DEF Return, Goto, Typed, TypeOK
<1> QED
  BY <1>1, <1>2, <1>3

LEMMA WritesTyped ==
    ASSUME Typed, NEW o, Writes(o)
    PROVE  /\ departments' \in SUBSET DepartmentRows /\ IsFiniteSet(departments')
           /\ employees' \in SUBSET EmployeeRows /\ IsFiniteSet(employees')
           /\ issued' \in SUBSET Ids
           /\ \A x \in departments' \cup employees' : x.id \in issued'
<1> DEFINE Goal == /\ departments' \in SUBSET DepartmentRows /\ IsFiniteSet(departments')
                   /\ employees' \in SUBSET EmployeeRows /\ IsFiniteSet(employees')
                   /\ issued' \in SUBSET Ids
                   /\ \A x \in departments' \cup employees' : x.id \in issued'
<1>0. /\ departments \in SUBSET DepartmentRows /\ IsFiniteSet(departments)
      /\ employees \in SUBSET EmployeeRows /\ IsFiniteSet(employees)
      /\ issued \in SUBSET Ids
      /\ \A x \in departments \cup employees : x.id \in issued
  BY DEF Typed, TypeOK, Served
<1>1. ASSUME NEW d, InsertsDepartment(o, d) PROVE Goal
  BY <1>0, <1>1, FS_AddElement DEF InsertsDepartment
<1>2. ASSUME NEW i, DeletesDepartment(o, i) PROVE Goal
  <2>1. \A x \in WithoutDepartment(departments, o, i) : x.id \in issued
    BY <1>0 DEF WithoutDepartment, DepartmentRows
  <2>2. \A x \in DetachedFrom(employees, o, i) : x.id \in issued
    BY <1>0 DEF DetachedFrom, EmployeeRows
  <2> QED
    BY <1>0, <1>2, <2>1, <2>2, WithoutDepartmentTyped, DetachedTyped DEF DeletesDepartment
<1>3. ASSUME NEW e, InsertsEmployee(o, e) PROVE Goal
  BY <1>0, <1>3, FS_AddElement DEF InsertsEmployee
<1>4. ASSUME NEW e, NEW new, PatchesEmployee(o, e, new) PROVE Goal
  <2>1. IsFiniteSet(employees \ {e}) /\ IsFiniteSet((employees \ {e}) \cup {new})
    BY <1>0, FS_AddElement, FS_RemoveElement
  <2> QED
    BY <1>0, <1>4, <2>1 DEF PatchesEmployee, Replace
<1>5. ASSUME NEW gone, DeletesEmployees(o, gone) PROVE Goal
  BY <1>0, <1>5, FS_Subset DEF DeletesEmployees
<1> QED
  BY <1>1, <1>2, <1>3, <1>4, <1>5 DEF Writes

LEMMA NextTyped == Typed /\ [Next]_vars => Typed'
<1> SUFFICES ASSUME Typed, [Next]_vars PROVE Typed'
  OBVIOUS
<1>1. ASSUME NEW w \in Workers, NEW r \in Requests, Receive(w, r) PROVE Typed'
  BY <1>1, ReceiveTyped
<1>2. ASSUME NEW w \in Workers, Fault(w) \/ Respond(w) PROVE Typed'
  BY <1>2, FaultTyped, RespondTyped
<1>3. ASSUME NEW w \in Workers,
             \/ listDepartments(w) \/ getEmployee(w)
             \/ ListEmployees(w) \/ CountEmployees(w)
      PROVE  Typed'
  BY <1>3, listDepartmentsTyped, getEmployeeTyped, ListEmployeesTyped, CountEmployeesTyped
<1>4. ASSUME NEW w \in Workers,
             \/ createDepartment(w) \/ deleteDepartment(w)
             \/ createEmployee(w) \/ updateEmployee(w) \/ deleteEmployee(w)
      PROVE  Typed'
  <2>1. PICK a \in AnswerType : Return(w, a)
    BY <1>4, WritesEffect DEF OwnAnswers
  <2>2. pc[w] = "query"
    BY <1>4, WritesEffect
  <2>3. CASE UNCHANGED tables
    BY <2>1, <2>2, <2>3, ReadTyped
  <2>4. CASE Writes(req[w].organization_id)
    BY <2>1, <2>2, <2>4, WritesTyped, WriteTyped
  <2> QED
    BY <1>4, <2>3, <2>4, WritesEffect
<1>5. CASE UNCHANGED vars
  BY <1>5 DEF vars, Typed, TypeOK, Served
<1> QED
  BY <1>1, <1>2, <1>3, <1>4, <1>5 DEF Next, Statement

LEMMA TypedInvariant == Spec => []Typed
BY InitTyped, NextTyped, PTL DEF Spec

(* The tables, answers and program counters keep their types. *)
THEOREM TypeCorrect == Spec => []TypeOK
<1>1. Typed => TypeOK
  BY DEF Typed
<1> QED
  BY <1>1, TypedInvariant, PTL

(* A handler past its checks works on a request that passed them, nothing  *)
(* of an earlier request is left over, and no id is ever issued twice.     *)
THEOREM HandlersServed == Spec => []Served
<1>1. Typed => Served
  BY DEF Typed
<1> QED
  BY <1>1, TypedInvariant, PTL

-----------------------------------------------------------------------------
(* Every step leaves the rows alone or is one writing statement. *)
LEMMA TableSteps ==
    ASSUME Typed, [Next]_vars
    PROVE  \/ UNCHANGED <<departments, employees>>
           \/ \E w \in Workers : /\ pc[w] = "query" /\ pc'[w] = "reply"
                                /\ Writes(req[w].organization_id)
<1>1. ASSUME NEW w \in Workers,
             \/ \E r \in Requests : Receive(w, r)
             \/ listDepartments(w) \/ getEmployee(w)
             \/ ListEmployees(w) \/ CountEmployees(w)
             \/ Fault(w) \/ Respond(w)
      PROVE  UNCHANGED <<departments, employees>>
  BY <1>1 DEF Receive, listDepartments, getEmployee, ListEmployees, CountEmployees,
       Fault, Respond, tables
<1>2. ASSUME NEW w \in Workers,
             \/ createDepartment(w) \/ deleteDepartment(w)
             \/ createEmployee(w) \/ updateEmployee(w) \/ deleteEmployee(w)
      PROVE  \/ UNCHANGED <<departments, employees>>
             \/ /\ pc[w] = "query" /\ pc'[w] = "reply"
                /\ Writes(req[w].organization_id)
  BY <1>2, WritesEffect DEF tables
<1>3. CASE UNCHANGED vars
  BY <1>3 DEF vars
<1> QED
  BY <1>1, <1>2, <1>3 DEF Next, Statement

-----------------------------------------------------------------------------
(* Isolation. *)

LEMMA WritesIsolated ==
    ASSUME Typed, NEW o, Writes(o), NEW p, p # o
    PROVE  /\ OfTenant(departments', p) = OfTenant(departments, p)
           /\ OfTenant(employees', p) = OfTenant(employees, p)
<1> DEFINE Goal == /\ OfTenant(departments', p) = OfTenant(departments, p)
                   /\ OfTenant(employees', p) = OfTenant(employees, p)
<1>0. departments \in SUBSET DepartmentRows /\ employees \in SUBSET EmployeeRows
  BY DEF Typed, TypeOK
<1>1. ASSUME NEW d, InsertsDepartment(o, d) PROVE Goal
  BY <1>1 DEF InsertsDepartment, OfTenant
<1>2. ASSUME NEW i, DeletesDepartment(o, i) PROVE Goal
  <2>1. \A d \in departments : [d EXCEPT !.parent_id = Null].organization_id = d.organization_id
    BY <1>0 DEF DepartmentRows
  <2>2. \A e \in employees : [e EXCEPT !.department_id = Null].organization_id = e.organization_id
    BY <1>0 DEF EmployeeRows
  <2>3. OfTenant(WithoutDepartment(departments, o, i), p) = OfTenant(departments, p)
    BY <2>1 DEF WithoutDepartment, WithId, OfTenant
  <2>4. OfTenant(DetachedFrom(employees, o, i), p) = OfTenant(employees, p)
    BY <2>2 DEF DetachedFrom, OfTenant
  <2> QED
    BY <1>2, <2>3, <2>4 DEF DeletesDepartment
<1>3. ASSUME NEW e, InsertsEmployee(o, e) PROVE Goal
  BY <1>3 DEF InsertsEmployee, OfTenant
<1>4. ASSUME NEW e, NEW new, PatchesEmployee(o, e, new) PROVE Goal
  BY <1>4 DEF PatchesEmployee, Replace, OfTenant
<1>5. ASSUME NEW gone, DeletesEmployees(o, gone) PROVE Goal
  BY <1>5 DEF DeletesEmployees, OfTenant
<1> QED
  BY <1>1, <1>2, <1>3, <1>4, <1>5 DEF Writes

(* A step leaves the rows of every organisation alone but the one whose    *)
(* request it executes.                                                    *)
THEOREM Isolated == Spec => TenantIsolation
<1>1. Typed /\ [Next]_vars => IsolatedStep
  <2> SUFFICES ASSUME Typed, [Next]_vars PROVE IsolatedStep
    OBVIOUS
  <2>1. CASE UNCHANGED <<departments, employees>>
    BY <2>1 DEF IsolatedStep
  <2>2. ASSUME NEW w \in Workers, pc[w] = "query", pc'[w] = "reply",
               Writes(req[w].organization_id)
        PROVE  IsolatedStep
    BY <2>2, WritesIsolated DEF IsolatedStep, ExecutesFor
  <2> QED
    BY <2>1, <2>2, TableSteps
<1>2. Typed /\ [Next]_vars => [IsolatedStep]_vars
  BY <1>1
<1> QED
  BY <1>2, TypedInvariant, PTL DEF Spec, TenantIsolation

-----------------------------------------------------------------------------
(* References. *)

LEMMA WithoutDepartmentKeeps ==
    ASSUME NEW D \in SUBSET DepartmentRows, NEW o, NEW i, NEW p, NEW j,
           References(D, p, j), ~ (p = o /\ j = i)
    PROVE  References(WithoutDepartment(D, o, i), p, j)
<1>1. PICK x \in D : x.organization_id = p /\ x.id = j
  BY DEF References
<1> DEFINE y == IF x.organization_id = o /\ x.parent_id = i
                THEN [x EXCEPT !.parent_id = Null] ELSE x
<1>2. y.organization_id = p /\ y.id = j
  BY <1>1 DEF DepartmentRows
<1>3. x \in D \ WithId(D, o, i)
  BY <1>1 DEF WithId
<1>4. y \in WithoutDepartment(D, o, i)
  BY <1>3 DEF WithoutDepartment
<1> QED
  BY <1>2, <1>4 DEF References

LEMMA ReferencesKept ==
    ASSUME Typed, NoneDangles(departments, employees), NEW o, Writes(o)
    PROVE  NoneDangles(departments', employees')
<1> DEFINE Goal == NoneDangles(departments', employees')
<1>0. departments \in SUBSET DepartmentRows /\ employees \in SUBSET EmployeeRows
  BY DEF Typed, TypeOK
<1>1. ASSUME NEW d, InsertsDepartment(o, d) PROVE Goal
  <2>1. \A p, j : References(departments, p, j) => References(departments', p, j)
    BY <1>1 DEF InsertsDepartment, References
  <2>2. ~ DanglingReference(departments, d.organization_id, d.parent_id)
    BY <1>1 DEF InsertsDepartment, DepartmentState, Ok, UniqueViolation, ForeignKeyViolation
  <2> QED
    BY <1>1, <2>1, <2>2 DEF InsertsDepartment, NoneDangles, DanglingReference
<1>2. ASSUME NEW i, DeletesDepartment(o, i) PROVE Goal
  <2> DEFINE Kept == WithoutDepartment(departments, o, i)
  <2>1. \A d \in Kept : ~ DanglingReference(Kept, d.organization_id, d.parent_id)
    <3> SUFFICES ASSUME NEW d \in Kept PROVE ~ DanglingReference(Kept, d.organization_id, d.parent_id)
      OBVIOUS
    <3>1. PICK c \in departments :
            d = IF c.organization_id = o /\ c.parent_id = i
                THEN [c EXCEPT !.parent_id = Null] ELSE c
      BY DEF WithoutDepartment
    <3>2. CASE c.organization_id = o /\ c.parent_id = i
      BY <1>0, <3>1, <3>2 DEF DanglingReference, DepartmentRows
    <3>3. CASE ~ (c.organization_id = o /\ c.parent_id = i)
      BY <1>0, <3>1, <3>3, WithoutDepartmentKeeps DEF DanglingReference, NoneDangles
    <3> QED
      BY <3>2, <3>3
  <2>2. \A e \in DetachedFrom(employees, o, i) :
          /\ ~ DanglingReference(Kept, e.organization_id, e.department_id)
          /\ ~ DanglingReference(Designations, e.organization_id, e.designation_id)
    <3> SUFFICES ASSUME NEW e \in DetachedFrom(employees, o, i)
                 PROVE  /\ ~ DanglingReference(Kept, e.organization_id, e.department_id)
                        /\ ~ DanglingReference(Designations, e.organization_id, e.designation_id)
      OBVIOUS
    <3>1. PICK c \in employees :
            e = IF c.organization_id = o /\ c.department_id = i
                THEN [c EXCEPT !.department_id = Null] ELSE c
      BY DEF DetachedFrom
    <3>2. CASE c.organization_id = o /\ c.department_id = i
      BY <1>0, <3>1, <3>2 DEF DanglingReference, EmployeeRows, NoneDangles
    <3>3. CASE ~ (c.organization_id = o /\ c.department_id = i)
      BY <1>0, <3>1, <3>3, WithoutDepartmentKeeps DEF DanglingReference, NoneDangles
    <3> QED
      BY <3>2, <3>3
  <2> QED
    BY <1>2, <2>1, <2>2 DEF DeletesDepartment, NoneDangles
<1>3. ASSUME NEW e, InsertsEmployee(o, e) PROVE Goal
  <2>1. /\ ~ DanglingReference(departments, e.organization_id, e.department_id)
        /\ ~ DanglingReference(Designations, e.organization_id, e.designation_id)
    BY <1>3 DEF InsertsEmployee, EmployeeState, Ok, UniqueViolation, ForeignKeyViolation
  <2> QED
    BY <1>3, <2>1 DEF InsertsEmployee, NoneDangles
<1>4. ASSUME NEW e, NEW new, PatchesEmployee(o, e, new) PROVE Goal
  <2>1. /\ ~ DanglingReference(departments, new.organization_id, new.department_id)
        /\ ~ DanglingReference(Designations, new.organization_id, new.designation_id)
    BY <1>4 DEF PatchesEmployee, EmployeeState, Ok, UniqueViolation, ForeignKeyViolation
  <2> QED
    BY <1>4, <2>1 DEF PatchesEmployee, Replace, NoneDangles
<1>5. ASSUME NEW gone, DeletesEmployees(o, gone) PROVE Goal
  BY <1>5 DEF DeletesEmployees, NoneDangles
<1> QED
  BY <1>1, <1>2, <1>3, <1>4, <1>5 DEF Writes

-----------------------------------------------------------------------------
(* Keys. *)

LEMMA KeysKept ==
    ASSUME Typed, Keyed(departments, employees), NEW o, Writes(o)
    PROVE  Keyed(departments', employees')
<1> DEFINE Goal == Keyed(departments', employees')
<1>0. /\ departments \in SUBSET DepartmentRows /\ employees \in SUBSET EmployeeRows
      /\ \A x \in departments \cup employees : x.id \in issued
  BY DEF Typed, TypeOK, Served
<1>1. ASSUME NEW d, InsertsDepartment(o, d) PROVE Goal
  <2>1. \A x \in departments : ~ SameDepartment(x, d) /\ ~ SameDepartment(d, x)
    BY <1>0, <1>1 DEF InsertsDepartment, DepartmentState, DepartmentNameTaken,
       SameDepartment, Ok, UniqueViolation
  <2> QED
    BY <1>1, <2>1 DEF InsertsDepartment, Keyed
<1>2. ASSUME NEW i, DeletesDepartment(o, i) PROVE Goal
  <2>1. \A a, b \in WithoutDepartment(departments, o, i) : SameDepartment(a, b) => a = b
    <3> SUFFICES ASSUME NEW a \in WithoutDepartment(departments, o, i),
                        NEW b \in WithoutDepartment(departments, o, i), SameDepartment(a, b)
                 PROVE  a = b
      OBVIOUS
    <3> DEFINE Row(c) == IF c.organization_id = o /\ c.parent_id = i
                         THEN [c EXCEPT !.parent_id = Null] ELSE c
    <3>1. PICK c \in departments, d \in departments : a = Row(c) /\ b = Row(d)
      BY DEF WithoutDepartment
    <3>2. \A x \in departments : /\ Row(x).id = x.id /\ Row(x).name = x.name
                                 /\ Row(x).organization_id = x.organization_id
      BY <1>0 DEF DepartmentRows
    <3>3. SameDepartment(c, d)
      BY <3>1, <3>2 DEF SameDepartment
    <3> QED
      BY <3>1, <3>3 DEF Keyed
  <2>2. \A a, b \in DetachedFrom(employees, o, i) : SameEmployee(a, b) => a = b
    <3> SUFFICES ASSUME NEW a \in DetachedFrom(employees, o, i),
                        NEW b \in DetachedFrom(employees, o, i), SameEmployee(a, b)
                 PROVE  a = b
      OBVIOUS
    <3> DEFINE Row(c) == IF c.organization_id = o /\ c.department_id = i
                         THEN [c EXCEPT !.department_id = Null] ELSE c
    <3>1. PICK c \in employees, d \in employees : a = Row(c) /\ b = Row(d)
      BY DEF DetachedFrom
    <3>2. \A x \in employees : /\ Row(x).id = x.id /\ Row(x).email = x.email
                               /\ Row(x).employee_code = x.employee_code
                               /\ Row(x).organization_id = x.organization_id
      BY <1>0 DEF EmployeeRows
    <3>3. SameEmployee(c, d)
      BY <3>1, <3>2 DEF SameEmployee
    <3> QED
      BY <3>1, <3>3 DEF Keyed
  <2> QED
    BY <1>2, <2>1, <2>2 DEF DeletesDepartment, Keyed
<1>3. ASSUME NEW e, InsertsEmployee(o, e) PROVE Goal
  <2>1. \A x \in employees : x.id # e.id
    BY <1>0, <1>3 DEF InsertsEmployee
  <2>2. \A x \in employees : ~ SameEmployee(x, e) /\ ~ SameEmployee(e, x)
    BY <1>3, <2>1 DEF InsertsEmployee, EmployeeState, EmployeeTaken, SameEmployee,
       Ok, UniqueViolation
  <2> QED
    BY <1>3, <2>2 DEF InsertsEmployee, Keyed
<1>4. ASSUME NEW e, NEW new, PatchesEmployee(o, e, new) PROVE Goal
  <2>1. \A x \in employees \ {e} : x.id # new.id
    BY <1>4 DEF PatchesEmployee, Keyed, SameEmployee
  <2>2. \A x \in employees \ {e} : ~ SameEmployee(x, new) /\ ~ SameEmployee(new, x)
    BY <1>4, <2>1 DEF PatchesEmployee, EmployeeState, EmployeeTaken, SameEmployee,
       Ok, UniqueViolation
  <2> QED
    BY <1>4, <2>2 DEF PatchesEmployee, Replace, Keyed
<1>5. ASSUME NEW gone, DeletesEmployees(o, gone) PROVE Goal
  BY <1>5 DEF DeletesEmployees, Keyed
<1> QED
  BY <1>1, <1>2, <1>3, <1>4, <1>5 DEF Writes

-----------------------------------------------------------------------------
(* The department tree. *)

LEMMA ForestGrows ==
    ASSUME NEW D, Forest(D), NEW d, d.parent_id # d.id,
           \A x \in D : x.id # d.id /\ x.parent_id # d.id
    PROVE  Forest(D \cup {d})
<1> SUFFICES ASSUME NEW S \in SUBSET (D \cup {d}), S # {}
             PROVE  \E r \in S : \A x \in S : x.id # r.parent_id
  BY DEF Forest
<1>1. CASE S \ {d} = {}
  <2>1. S = {d}
    BY <1>1
  <2> QED
    BY <2>1
<1>2. CASE S \ {d} # {}
  <2>1. PICK r \in S \ {d} : \A x \in S \ {d} : x.id # r.parent_id
    <3>1. S \ {d} \in SUBSET D
      OBVIOUS
    <3> QED
      BY <1>2, <3>1 DEF Forest
  <2>2. d.id # r.parent_id
    BY <2>1
  <2> QED
    BY <2>1, <2>2
<1> QED
  BY <1>1, <1>2

LEMMA ForestPruned ==
    ASSUME NEW D \in SUBSET DepartmentRows, Forest(D), NEW o, NEW i
    PROVE  Forest(WithoutDepartment(D, o, i))
<1> DEFINE Row(c) == IF c.organization_id = o /\ c.parent_id = i
                     THEN [c EXCEPT !.parent_id = Null] ELSE c
<1> SUFFICES ASSUME NEW S \in SUBSET WithoutDepartment(D, o, i), S # {}
             PROVE  \E r \in S : \A x \in S : x.id # r.parent_id
  BY DEF Forest
<1> DEFINE Before == {c \in D \ WithId(D, o, i) : Row(c) \in S}
<1>1. \A s \in S : \E c \in Before : s = Row(c)
  BY DEF WithoutDepartment
<1>2. PICK r \in Before : \A c \in Before : c.id # r.parent_id
  <2>1. Before \in SUBSET D /\ Before # {}
    BY <1>1
  <2> QED
    BY <2>1 DEF Forest
<1>3. \A c \in D : Row(c).id = c.id /\ Row(c).parent_id \in {c.parent_id, Null}
  BY DEF DepartmentRows
<1>4. \A c \in D : c.id # Null
  BY TenancyAssumption DEF DepartmentRows
<1>5. \A x \in S : x.id # Row(r).parent_id
  BY <1>1, <1>2, <1>3, <1>4
<1> QED
  BY <1>5

LEMMA ForestKept ==
    ASSUME Typed, NoneDangles(departments, employees), Forest(departments),
           NEW o, Writes(o)
    PROVE  Forest(departments')
<1>1. ASSUME NEW d, InsertsDepartment(o, d) PROVE Forest(departments')
  <2>1. \A x \in departments : x.id # d.id
    BY <1>1 DEF InsertsDepartment, Typed, Served
  <2>2. \A x \in departments : x.parent_id # d.id
    <3> SUFFICES ASSUME NEW x \in departments, x.parent_id = d.id PROVE FALSE
      OBVIOUS
    <3>1. d.id # Null
      BY <1>1, TenancyAssumption DEF InsertsDepartment
    <3>2. References(departments, x.organization_id, x.parent_id)
      BY <3>1 DEF NoneDangles, DanglingReference
    <3> QED
      BY <2>1, <3>2 DEF References
  <2> QED
    BY <1>1, <2>1, <2>2, ForestGrows DEF InsertsDepartment
<1>2. ASSUME NEW i, DeletesDepartment(o, i) PROVE Forest(departments')
  BY <1>2, ForestPruned DEF DeletesDepartment, Typed, TypeOK
<1>3. ASSUME departments' = departments PROVE Forest(departments')
  BY <1>3
<1> QED
  BY <1>1, <1>2, <1>3 DEF Writes, InsertsEmployee, PatchesEmployee, DeletesEmployees

-----------------------------------------------------------------------------
(* References, keys and the tree are inductive together. *)

Sound == /\ Typed
         /\ RefsStayInTenant
         /\ KeysAreUnique
         /\ DepartmentsFormForest

LEMMA SoundInvariant == Spec => []Sound
<1>1. Init => Sound
  BY InitTyped, SeedAssumption DEF Init, Sound, RefsStayInTenant, KeysAreUnique,
     DepartmentsFormForest
<1>2. Sound /\ [Next]_vars => Sound'
  <2> SUFFICES ASSUME Sound, [Next]_vars PROVE Sound'
    OBVIOUS
  <2>1. Typed'
    BY NextTyped DEF Sound
  <2>2. CASE UNCHANGED <<departments, employees>>
    BY <2>1, <2>2 DEF Sound, RefsStayInTenant, KeysAreUnique, DepartmentsFormForest
  <2>3. ASSUME NEW w \in Workers, Writes(req[w].organization_id) PROVE Sound'
    BY <2>1, <2>3, ReferencesKept, KeysKept, ForestKept
       DEF Sound, RefsStayInTenant, KeysAreUnique, DepartmentsFormForest
  <2> QED
    BY <2>2, <2>3, TableSteps DEF Sound
<1> QED
  BY <1>1, <1>2, PTL DEF Spec

(* No reference ever leaves its organisation or names a row that is gone.  *)
THEOREM ReferencesSound == Spec => []RefsStayInTenant
<1>1. Sound => RefsStayInTenant
  BY DEF Sound
<1> QED
  BY <1>1, SoundInvariant, PTL

(* No two rows of an organisation share a key, and no two rows an id. *)
THEOREM KeysSound == Spec => []KeysAreUnique
<1>1. Sound => KeysAreUnique
  BY DEF Sound
<1> QED
  BY <1>1, SoundInvariant, PTL

(* The department hierarchy never closes a cycle. *)
THEOREM HierarchySound == Spec => []DepartmentsFormForest
<1>1. Sound => DepartmentsFormForest
  BY DEF Sound
<1> QED
  BY <1>1, SoundInvariant, PTL

-----------------------------------------------------------------------------
(* Answers. *)

LEMMA NoAnswerRows == NoAnswer.rows = {}
BY DEF NoAnswer, Answer

LEMMA ReturnStays ==
    ASSUME Typed, AnswersStayInTenant, NEW w \in Workers,
           NEW a \in OwnAnswers(req[w].organization_id), Return(w, a)
    PROVE  AnswersStayInTenant'
<1>1. PICK b \in OwnAnswers(req[w].organization_id) : resp' = [resp EXCEPT ![w] = b]
  BY EmptyAnswersOwn DEF Return
<1>2. req' = req /\ page' = page
  BY DEF Return
<1> QED
  BY <1>1, <1>2 DEF AnswersStayInTenant, OwnAnswers, Typed, TypeOK

LEMMA AnswersKept ==
    ASSUME Typed, AnswersStayInTenant, [Next]_vars
    PROVE  AnswersStayInTenant'
<1>1. ASSUME NEW w \in Workers, NEW r \in Requests, Receive(w, r) PROVE AnswersStayInTenant'
  <2>1. /\ page[w] = {} /\ resp[w].rows = {} /\ page' = page
        /\ req' = [req EXCEPT ![w] = r]
    <3>1. page[w] = {} /\ resp[w] = NoAnswer
      BY <1>1 DEF Receive, Typed, Served
    <3> QED
      BY <1>1, <3>1, NoAnswerRows DEF Receive
  <2>2. resp' = resp \/ \E a \in EarlyAnswer(r) : resp' = [resp EXCEPT ![w] = a]
    BY <1>1 DEF Receive
  <2>3. \A a \in EarlyAnswer(r) : a.rows = {}
    <3>1. \A code, fields : Validation(fields).rows = {} /\ Unauthenticated(code).rows = {}
      BY DEF Validation, Unauthenticated, Answer
    <3> QED
      BY <3>1 DEF EarlyAnswer, QueryAnswer, BodyAnswer
  <2> QED
    BY <2>1, <2>2, <2>3 DEF AnswersStayInTenant, Typed, TypeOK
<1>2. ASSUME NEW w \in Workers, Fault(w) PROVE AnswersStayInTenant'
  <2>1. /\ req' = req /\ page' = page /\ resp' = [resp EXCEPT ![w] = Faulted]
        /\ Faulted.rows = {}
    BY <1>2 DEF Fault, Faulted, Internal, Answer
  <2> QED
    BY <2>1 DEF AnswersStayInTenant, Typed, TypeOK
<1>3. ASSUME NEW w \in Workers, Respond(w) PROVE AnswersStayInTenant'
  <2>1. /\ req' = [req EXCEPT ![w] = Null] /\ page' = [page EXCEPT ![w] = {}]
        /\ resp' = [resp EXCEPT ![w] = NoAnswer] /\ NoAnswer.rows = {}
    BY <1>3 DEF Respond, NoAnswer, Answer
  <2> QED
    BY <2>1 DEF AnswersStayInTenant, Typed, TypeOK
<1>4. ASSUME NEW w \in Workers, listDepartments(w) PROVE AnswersStayInTenant'
  <2> DEFINE o == req[w].organization_id
             rows == OfTenant(departments, o)
  <2>1. Cardinality(rows) \in Nat
    BY FS_Subset, FS_CardinalityType DEF Typed, TypeOK, OfTenant
  <2>2. Page(rows, Cardinality(rows), Cardinality(rows), 0) \in OwnAnswers(o)
    <3>1. rows \in SUBSET (DepartmentRows \cup EmployeeRows) /\ \A x \in rows : x.organization_id = o
      BY DEF OfTenant, Typed, TypeOK
    <3> QED
      BY <2>1, <3>1, RowAnswersOwn
  <2> QED
    BY <1>4, <2>2, ReturnStays DEF listDepartments
<1>5. ASSUME NEW w \in Workers, getEmployee(w) PROVE AnswersStayInTenant'
  <2> DEFINE o == req[w].organization_id
             found == WithId(employees, o, req[w].id)
  <2>1. (IF found = {} THEN NotFound ELSE Answer("ok", found)) \in OwnAnswers(o)
    <3>1. found \in SUBSET (DepartmentRows \cup EmployeeRows) /\ \A x \in found : x.organization_id = o
      BY DEF WithId, Typed, TypeOK
    <3> QED
      BY <3>1, RowAnswersOwn, EmptyAnswersOwn
  <2> QED
    BY <1>5, <2>1, ReturnStays DEF getEmployee
<1>6. ASSUME NEW w \in Workers, ListEmployees(w) PROVE AnswersStayInTenant'
  <2> DEFINE r == req[w]
             asked == Matching(employees, r.organization_id, r.department_id, r.status)
  <2>1. r \in ListEmployeesRequest
    BY <1>6, QueryRequests, PassedChecks DEF ListEmployees, At
  <2>2. PICK p \in Pages(asked, Limit(r.limit), Offset(r.offset)) : page' = [page EXCEPT ![w] = p]
    BY <1>6 DEF ListEmployees
  <2>3. \A x \in p : x.organization_id = r.organization_id
    BY <2>1, <2>2, LimitsTyped, PagesTyped DEF Matching
  <2>4. req' = req /\ resp' = resp
    BY <1>6 DEF ListEmployees
  <2> QED
    BY <2>2, <2>3, <2>4 DEF AnswersStayInTenant, Typed, TypeOK
<1>7. ASSUME NEW w \in Workers, CountEmployees(w) PROVE AnswersStayInTenant'
  <2> DEFINE r == req[w]
             asked == Matching(employees, r.organization_id, r.department_id, r.status)
  <2>1. Limit(r.limit) \in Nat /\ Offset(r.offset) \in Nat
    BY <1>7, QueryRequests, PassedChecks, LimitsTyped DEF CountEmployees, At
  <2>2. Cardinality(asked) \in Nat
    <3>1. asked \in SUBSET employees
      BY DEF Matching
    <3> QED
      BY <3>1, FS_Subset, FS_CardinalityType DEF Typed, TypeOK
  <2>3. Page(page[w], Cardinality(asked), Limit(r.limit), Offset(r.offset))
          \in OwnAnswers(r.organization_id)
    <3>1. /\ page[w] \in SUBSET (DepartmentRows \cup EmployeeRows)
          /\ \A x \in page[w] : x.organization_id = r.organization_id
      BY DEF Typed, TypeOK, AnswersStayInTenant
    <3> QED
      BY <2>1, <2>2, <3>1, RowAnswersOwn
  <2> QED
    BY <1>7, <2>3, ReturnStays DEF CountEmployees, CountMatching
<1>8. ASSUME NEW w \in Workers,
             \/ createDepartment(w) \/ deleteDepartment(w)
             \/ createEmployee(w) \/ updateEmployee(w) \/ deleteEmployee(w)
      PROVE  AnswersStayInTenant'
  BY <1>8, WritesEffect, ReturnStays
<1>9. CASE UNCHANGED vars
  BY <1>9 DEF vars, AnswersStayInTenant
<1> QED
  BY <1>1, <1>2, <1>3, <1>4, <1>5, <1>6, <1>7, <1>8, <1>9 DEF Next, Statement

(* No answer, and no page a handler holds on to, shows another             *)
(* organisation's row.                                                     *)
THEOREM AnswersSound == Spec => []AnswersStayInTenant
<1>1. Init => AnswersStayInTenant
  BY NoAnswerRows DEF Init, AnswersStayInTenant
<1>2. Typed /\ AnswersStayInTenant /\ [Next]_vars => AnswersStayInTenant'
  BY AnswersKept
<1> QED
  BY <1>1, <1>2, TypedInvariant, PTL DEF Spec
-----------------------------------------------------------------------------
(* Pages.  Among rows whose names all differ in the collation, the rank of *)
(* a row is the number of rows before it; a page is a range of ranks.      *)

Ranked(rows) == \A x \in rows : Rank[x.full_name] \in Nat

Below(x, rows) == {y \in rows : Rank[y.full_name] < Rank[x.full_name]}

Position(x, rows) == Cardinality(Below(x, rows))

LEMMA Positions ==
    ASSUME NEW rows, IsFiniteSet(rows), Ranked(rows), NEW x \in rows
    PROVE  /\ Below(x, rows) \in SUBSET rows /\ IsFiniteSet(Below(x, rows))
           /\ Cardinality(rows) \in Nat
           /\ Position(x, rows) \in Nat /\ Position(x, rows) < Cardinality(rows)
<1>1. Below(x, rows) \in SUBSET rows /\ x \notin Below(x, rows)
  BY DEF Below, Ranked
<1>2. /\ IsFiniteSet(Below(x, rows)) /\ Position(x, rows) <= Cardinality(rows)
      /\ Position(x, rows) # Cardinality(rows)
  BY <1>1, FS_Subset DEF Position
<1>3. Cardinality(rows) \in Nat /\ Position(x, rows) \in Nat
  BY <1>2, FS_CardinalityType DEF Position
<1> QED
  BY <1>1, <1>2, <1>3

LEMMA PositionsRise ==
    ASSUME NEW rows, IsFiniteSet(rows), Ranked(rows), NEW x \in rows, NEW y \in rows,
           Rank[x.full_name] < Rank[y.full_name]
    PROVE  Position(x, rows) < Position(y, rows)
<1>1. /\ Below(x, rows) \in SUBSET Below(y, rows)
      /\ x \in Below(y, rows) /\ x \notin Below(x, rows)
  BY DEF Below, Ranked
<1>2. /\ Position(x, rows) <= Position(y, rows)
      /\ Position(x, rows) # Position(y, rows)
  BY <1>1, Positions, FS_Subset DEF Position
<1> QED
  BY <1>2, Positions

LEMMA PositionsDiffer ==
    ASSUME NEW rows, IsFiniteSet(rows), Ranked(rows), Untied(rows),
           NEW x \in rows, NEW y \in rows, Position(x, rows) = Position(y, rows)
    PROVE  x = y
<1>1. Position(x, rows) \in Nat /\ Position(y, rows) \in Nat
  BY Positions
<1>2. ~ (Rank[x.full_name] < Rank[y.full_name]) /\ ~ (Rank[y.full_name] < Rank[x.full_name])
  BY <1>1, PositionsRise
<1> QED
  BY <1>2 DEF Untied, Ranked

(* Every position below the number of rows is taken, so a range of them    *)
(* holds as many rows as it has positions.                                 *)
LEMMA RangesFull ==
    ASSUME NEW rows, IsFiniteSet(rows), Ranked(rows), Untied(rows),
           NEW first \in Nat, NEW last \in Nat, last <= Cardinality(rows), first <= last
    PROVE  LET range == {x \in rows : first <= Position(x, rows) /\ Position(x, rows) < last}
           IN  IsFiniteSet(range) /\ Cardinality(range) = last - first
<1> DEFINE n == Cardinality(rows)
           place == [x \in rows |-> Position(x, rows)]
           range == {x \in rows : first <= Position(x, rows) /\ Position(x, rows) < last}
           within == [x \in range |-> Position(x, rows)]
<1>1. n \in Nat /\ \A x \in rows : place[x] \in 0..(n - 1)
  BY Positions, FS_CardinalityType
<1>2. place \in Injection(rows, 0..(n - 1))
  BY <1>1, PositionsDiffer DEF Injection, IsInjective
<1>3. IsFiniteSet(0..(n - 1)) /\ Cardinality(0..(n - 1)) = n
  <2>1. n - 1 \in Int /\ 0 \in Int
    BY <1>1
  <2>2. /\ IsFiniteSet(0..(n - 1))
        /\ Cardinality(0..(n - 1)) = IF 0 > n - 1 THEN 0 ELSE n - 1 - 0 + 1
    BY <2>1, FS_Interval
  <2> QED
    BY <1>1, <2>2
<1>4. place \in Surjection(rows, 0..(n - 1))
  BY <1>2, <1>3, FS_Injection
<1>5. \A i \in first..(last - 1) : \E x \in rows : Position(x, rows) = i
  <2> SUFFICES ASSUME NEW i \in first..(last - 1) PROVE \E x \in rows : Position(x, rows) = i
    OBVIOUS
  <2>1. i \in 0..(n - 1)
    BY <1>1
  <2> QED
    BY <2>1, <1>4 DEF Surjection
<1>6. \A x \in range : within[x] \in first..(last - 1)
  BY Positions
<1>7. within \in Surjection(range, first..(last - 1))
  <2>1. within \in [range -> first..(last - 1)]
    BY <1>6
  <2>2. ASSUME NEW i \in first..(last - 1) PROVE \E x \in range : within[x] = i
    <3>1. PICK x \in rows : Position(x, rows) = i
      BY <1>5
    <3> QED
      BY <3>1
  <2> QED
    BY <2>1, <2>2 DEF Surjection
<1>8. within \in Injection(range, first..(last - 1))
  <2>1. \A x, y \in range : within[x] = within[y] => x = y
    BY PositionsDiffer
  <2> QED
    BY <1>6, <2>1 DEF Injection, IsInjective
<1>9. IsFiniteSet(range)
  BY FS_Subset
<1>10. Cardinality(range) = Cardinality(first..(last - 1))
  <2>1. IsFiniteSet(first..(last - 1))
    BY FS_Interval
  <2> QED
    BY <1>7, <1>8, <2>1, FS_Injection
<1>11. Cardinality(first..(last - 1)) = last - first
  <2>1. last - 1 \in Int /\ first \in Int
    OBVIOUS
  <2>2. Cardinality(first..(last - 1)) = IF first > last - 1 THEN 0 ELSE last - 1 - first + 1
    BY <2>1, FS_Interval
  <2> QED
    BY <2>2
<1> QED
  BY <1>9, <1>10, <1>11
LEMMA PageIsRange ==
    ASSUME NEW rows, IsFiniteSet(rows), Ranked(rows), Untied(rows),
           NEW limit \in Nat, NEW offset \in Nat, NEW p \in Pages(rows, limit, offset)
    PROVE  p = {x \in rows : offset <= Position(x, rows) /\ Position(x, rows) < offset + limit}
<1> DEFINE n == Cardinality(rows)
<1>1. PICK before \in SUBSET (rows \ p) :
        /\ Cardinality(before) = Smaller(offset, n)
        /\ \A b \in before, x \in p : Rank[b.full_name] <= Rank[x.full_name]
        /\ \A x \in before \cup p, r \in rows \ (before \cup p) :
              Rank[x.full_name] <= Rank[r.full_name]
  BY DEF Pages
<1>2. p \in SUBSET rows /\ Cardinality(p) = PageSize(n, limit, offset)
  BY DEF Pages
<1>3. /\ IsFiniteSet(p) /\ IsFiniteSet(before) /\ IsFiniteSet(before \cup p)
      /\ Cardinality(before \cup p) = Cardinality(before) + Cardinality(p)
      /\ Cardinality(before) \in Nat /\ Cardinality(p) \in Nat /\ n \in Nat
  <2>1. IsFiniteSet(p) /\ IsFiniteSet(before) /\ before \cap p = {}
    BY <1>2, FS_Subset
  <2>2. /\ IsFiniteSet(before \cup p)
        /\ Cardinality(before \cup p)
             = Cardinality(before) + Cardinality(p) - Cardinality(before \cap p)
    BY <2>1, FS_Union
  <2>3. Cardinality(before \cap p) = 0
    BY <2>1, FS_EmptySet
  <2>4. Cardinality(before) \in Nat /\ Cardinality(p) \in Nat /\ n \in Nat
    BY <2>1, FS_CardinalityType
  <2> QED
    BY <2>1, <2>2, <2>3, <2>4
<1>4. ASSUME NEW x \in rows, NEW y \in rows, x # y, Rank[x.full_name] <= Rank[y.full_name]
      PROVE  x \in Below(y, rows)
  BY <1>4 DEF Untied, Ranked, Below
<1>5. ASSUME NEW x \in before PROVE Position(x, rows) < offset
  <2>1. Below(x, rows) \in SUBSET (before \ {x})
    BY <1>1, <1>5 DEF Below, Ranked
  <2>2. IsFiniteSet(before \ {x}) /\ Cardinality(before \ {x}) = Cardinality(before) - 1
    BY <1>3, <1>5, FS_RemoveElement
  <2>3. Position(x, rows) <= Cardinality(before) - 1
    BY <2>1, <2>2, FS_Subset DEF Position
  <2>4. Position(x, rows) \in Nat
    BY <1>5, Positions
  <2> QED
    BY <1>1, <1>3, <2>3, <2>4 DEF Smaller
<1>6. ASSUME NEW x \in p
      PROVE  offset <= Position(x, rows) /\ Position(x, rows) < offset + limit
  <2>1. before \in SUBSET Below(x, rows)
    BY <1>1, <1>2, <1>4, <1>6
  <2>2. Below(x, rows) \in SUBSET ((before \cup p) \ {x})
    BY <1>1, <1>2, <1>6 DEF Below, Ranked
  <2>3. /\ IsFiniteSet((before \cup p) \ {x})
        /\ Cardinality((before \cup p) \ {x}) = Cardinality(before) + Cardinality(p) - 1
    <3>1. x \in before \cup p
      BY <1>6
    <3> DEFINE U == before \cup p
    <3>2. /\ x \in U /\ IsFiniteSet(U)
          /\ Cardinality(U) = Cardinality(before) + Cardinality(p)
      BY <1>3, <3>1
    <3> HIDE DEF U
    <3>3. IsFiniteSet(U \ {x}) /\ Cardinality(U \ {x}) = Cardinality(before) + Cardinality(p) - 1
      <4>1. /\ IsFiniteSet(U \ {x})
            /\ Cardinality(U \ {x}) = IF x \in U THEN Cardinality(U) - 1 ELSE Cardinality(U)
        BY <3>2, FS_RemoveElement
      <4> QED
        BY <1>3, <3>2, <4>1
    <3> QED
      BY <3>3 DEF U
  <2>4. /\ Cardinality(before) <= Position(x, rows)
        /\ Position(x, rows) <= Cardinality(before) + Cardinality(p) - 1
        /\ Position(x, rows) \in Nat /\ Position(x, rows) < n
    BY <1>2, <2>1, <2>2, <2>3, Positions, FS_Subset DEF Position
  <2> QED
    BY <1>1, <1>2, <1>3, <2>4 DEF Smaller, PageSize
<1>7. ASSUME NEW x \in rows \ (before \cup p)
      PROVE  ~ (offset <= Position(x, rows) /\ Position(x, rows) < offset + limit)
  <2>1. before \cup p \in SUBSET Below(x, rows)
    BY <1>1, <1>2, <1>4, <1>7
  <2>2. /\ Cardinality(before) + Cardinality(p) <= Position(x, rows)
        /\ Position(x, rows) \in Nat /\ Position(x, rows) < n
    BY <1>3, <2>1, Positions, FS_Subset DEF Position
  <2> QED
    BY <1>1, <1>2, <1>3, <2>2 DEF Smaller, PageSize
<1>8. \A x \in rows : Position(x, rows) \in Nat
  BY Positions
<1>9. \A x \in before : ~ (offset <= Position(x, rows) /\ Position(x, rows) < offset + limit)
  BY <1>1, <1>5, <1>8
<1>10. \A x \in rows : x \in p <=> offset <= Position(x, rows) /\ Position(x, rows) < offset + limit
  BY <1>6, <1>7, <1>9
<1> QED
  BY <1>2, <1>10

LEMMA PageExists ==
    ASSUME NEW rows, IsFiniteSet(rows), Ranked(rows), Untied(rows),
           NEW limit \in Nat, NEW offset \in Nat
    PROVE  Pages(rows, limit, offset) # {}
<1> DEFINE n == Cardinality(rows)
           first == Smaller(offset, n)
           last == first + PageSize(n, limit, offset)
           Within(a, b) == {x \in rows : a <= Position(x, rows) /\ Position(x, rows) < b}
           chosen == Within(first, last)
           before == Within(0, first)
<1>1. n \in Nat /\ \A x \in rows : Position(x, rows) \in Nat
  BY Positions, FS_CardinalityType
<1>2. first \in Nat /\ last \in Nat /\ first <= last /\ last <= n
  BY <1>1 DEF Smaller, PageSize
<1>3. Cardinality(chosen) = last - first /\ Cardinality(before) = first
  <2> HIDE DEF first, last
  <2>1. Cardinality(chosen) = last - first
    BY <1>2, RangesFull
  <2>2. Cardinality(before) = first - 0
    <3>1. first <= n /\ 0 <= first
      BY <1>1, <1>2
    <3> QED
      BY <1>2, <3>1, RangesFull
  <2> QED
    BY <1>2, <2>1, <2>2
<1>4. PageSize(n, limit, offset) = last - first
  BY <1>1, <1>2 DEF PageSize, Smaller
<1>5. \A x, y \in rows : Position(x, rows) < Position(y, rows) => Rank[x.full_name] <= Rank[y.full_name]
  <2> SUFFICES ASSUME NEW x \in rows, NEW y \in rows, Position(x, rows) < Position(y, rows),
                      ~ (Rank[x.full_name] <= Rank[y.full_name])
               PROVE  FALSE
    OBVIOUS
  <2>1. Rank[y.full_name] < Rank[x.full_name]
    BY DEF Ranked
  <2>2. Position(y, rows) < Position(x, rows)
    BY <2>1, PositionsRise
  <2> QED
    BY <1>1, <2>2
<1>6. before \in SUBSET (rows \ chosen)
  BY <1>1, <1>2
<1>7. \A b \in before, x \in chosen : Rank[b.full_name] <= Rank[x.full_name]
  BY <1>1, <1>2, <1>5
<1>8. \A x \in before \cup chosen, r \in rows \ (before \cup chosen) : Rank[x.full_name] <= Rank[r.full_name]
  BY <1>1, <1>2, <1>5
<1> HIDE DEF chosen, before, first, last
<1>9. chosen \in SUBSET rows /\ first = Smaller(offset, n)
  BY DEF chosen, first
<1>10. chosen \in Pages(rows, limit, offset)
  BY <1>3, <1>4, <1>6, <1>7, <1>8, <1>9 DEF Pages
<1> QED
  BY <1>10

(* A position belongs to one page of the walk, its quotient by the limit.  *)
LEMMA PageNumbers ==
    ASSUME NEW limit \in Nat \ {0}, NEW i \in Nat
    PROVE  \E k \in Nat : /\ k <= i
                          /\ \A j \in Nat : j * limit <= i /\ i < j * limit + limit <=> j = k
<1> DEFINE k == i \div limit
<1>1. k \in Nat /\ k * limit <= i /\ i < k * limit + limit
  OBVIOUS
<1>2. k <= i
  BY <1>1
<1> HIDE DEF k
<1>3. ASSUME NEW j \in Nat, j < k PROVE j * limit + limit <= k * limit
  BY <1>1, <1>3
<1>4. ASSUME NEW j \in Nat, k < j PROVE k * limit + limit <= j * limit
  BY <1>1, <1>4
<1>5. ASSUME NEW j \in Nat, j * limit <= i, i < j * limit + limit PROVE j = k
  <2>1. j * limit \in Nat /\ k * limit \in Nat
    BY <1>1
  <2> QED
    BY <1>1, <1>3, <1>4, <1>5, <2>1
<1> QED
  BY <1>1, <1>2, <1>5

(* Walking a list page by page meets every employee once. *)
THEOREM PagesSound == Spec => []PagesTile
<1>1. ASSUME Typed PROVE PagesTile
  <2> SUFFICES ASSUME NEW r \in Requests, r.op = "listEmployees", EarlyAnswer(r) = {},
                      Untied(Matching(employees, r.organization_id, r.department_id, r.status)),
                      Cardinality(Matching(employees, r.organization_id, r.department_id, r.status)) <= MaxOffset
               PROVE  LET rows == Matching(employees, r.organization_id, r.department_id, r.status)
                          limit == Limit(r.limit)
                          steps == {k \in 0..Cardinality(rows) : k * limit <= Cardinality(rows)}
                          walk == [k \in steps |-> Pages(rows, limit, Offset(k * limit))]
                      IN  /\ \A k \in DOMAIN walk : walk[k] # {}
                          /\ \A x \in rows : \E k \in DOMAIN walk :
                                \A j \in DOMAIN walk : \A p \in walk[j] : x \in p <=> j = k
    BY DEF PagesTile
  <2> DEFINE rows == Matching(employees, r.organization_id, r.department_id, r.status)
             limit == Limit(r.limit)
             steps == {k \in 0..Cardinality(rows) : k * limit <= Cardinality(rows)}
  <2>1. rows \in SUBSET EmployeeRows /\ IsFiniteSet(rows)
    <3>1. rows \in SUBSET employees
      BY DEF Matching
    <3> QED
      BY <1>1, <3>1, FS_Subset DEF Typed, TypeOK
  <2>2. Ranked(rows)
    BY <2>1, TenancyAssumption DEF Ranked, EmployeeRows
  <2>3. limit \in Nat \ {0}
    <3>1. r.limit \in IntParams
      BY PassedChecks DEF ListEmployeesRequest
    <3> QED
      BY <3>1, PagingAssumption DEF Limit, intParam, IntParams
  <2>4. Cardinality(rows) \in Nat /\ Cardinality(rows) <= MaxOffset
    BY <2>1, FS_CardinalityType
  <2> HIDE DEF rows, limit
  <2>5. \A k \in Nat : k * limit \in Nat
    BY <2>3
  <2>6. \A k \in steps : k \in Nat /\ Offset(k * limit) = k * limit
    <3>1. \A i \in 0..MaxOffset : Offset(i) = i
      BY PagingAssumption DEF Offset, intParam
    <3>2. \A k \in steps : k \in Nat /\ k * limit \in Nat /\ k * limit <= MaxOffset
      BY <2>4, <2>5, PagingAssumption
    <3> QED
      BY <3>1, <3>2, PagingAssumption
  <2>7. \A k \in steps : Pages(rows, limit, Offset(k * limit)) # {}
    BY <2>1, <2>2, <2>3, <2>5, <2>6, PageExists DEF rows
  <2>8. ASSUME NEW x \in rows
        PROVE  \E k \in steps : \A j \in steps :
                  \A p \in Pages(rows, limit, Offset(j * limit)) : x \in p <=> j = k
    <3>1. Position(x, rows) \in Nat /\ Position(x, rows) < Cardinality(rows) /\ Cardinality(rows) \in Nat
      BY <2>1, <2>2, Positions
    <3>2. PICK k \in Nat :
            /\ k <= Position(x, rows)
            /\ \A j \in Nat : j * limit <= Position(x, rows) /\ Position(x, rows) < j * limit + limit
                                <=> j = k
      BY <2>3, <3>1, PageNumbers
    <3>3. ASSUME NEW j \in steps, NEW p \in Pages(rows, limit, Offset(j * limit))
          PROVE  x \in p <=> j = k
      <4>1. p \in Pages(rows, limit, j * limit) /\ j \in Nat
        BY <2>6, <3>3
      <4>2. p = {y \in rows : j * limit <= Position(y, rows) /\ Position(y, rows) < j * limit + limit}
        BY <2>1, <2>2, <2>3, <2>5, <4>1, PageIsRange DEF rows
      <4> QED
        BY <3>2, <4>1, <4>2
    <3>4. k \in steps
      <4>1. k * limit <= Position(x, rows) /\ k * limit \in Nat
        BY <2>5, <3>2
      <4> QED
        BY <3>1, <3>2, <4>1
    <3> QED
      BY <3>3, <3>4
  <2> QED
    BY <2>7, <2>8 DEF rows, limit
<1> QED
  BY <1>1, TypedInvariant, PTL
=============================================================================
