----------------------- MODULE TenantRefinementProofs -----------------------
(***************************************************************************)
(* The shared tables implement a TenantStore for every organisation that   *)
(* looks, whatever the others do.                                          *)
(***************************************************************************)
EXTENDS TenantRefinement, TenantApiProofs

-----------------------------------------------------------------------------
(* Rows without their organisation. *)

LEMMA DepartmentColumns ==
    ASSUME NEW d \in DepartmentRows
    PROVE  Columns(d) = [id |-> d.id, name |-> d.name, parent_id |-> d.parent_id]
BY DEF Columns, DepartmentRows

LEMMA EmployeeColumns ==
    ASSUME NEW e \in EmployeeRows
    PROVE  Columns(e) = [id |-> e.id, employee_code |-> e.employee_code,
                         department_id |-> e.department_id,
                         designation_id |-> e.designation_id,
                         full_name |-> e.full_name, email |-> e.email,
                         status |-> e.status, employment_type |-> e.employment_type]
BY DEF Columns, EmployeeRows

(* Rows of one organisation differ in their columns. *)
Distinguished(rows) ==
    \A x, y \in OfTenant(rows, Observed) : Columns(x) = Columns(y) => x = y

LEMMA DepartmentsDistinguished ==
    ASSUME NEW D \in SUBSET DepartmentRows
    PROVE  Distinguished(D)
<1> SUFFICES ASSUME NEW x \in DepartmentRows, NEW y \in DepartmentRows,
                    x.organization_id = y.organization_id, Columns(x) = Columns(y)
             PROVE  x = y
  BY DEF Distinguished, OfTenant
<1>1. x.id = y.id /\ x.name = y.name /\ x.parent_id = y.parent_id
  BY DepartmentColumns
<1> QED
  BY <1>1 DEF DepartmentRows

LEMMA EmployeesDistinguished ==
    ASSUME NEW E \in SUBSET EmployeeRows
    PROVE  Distinguished(E)
<1> SUFFICES ASSUME NEW x \in EmployeeRows, NEW y \in EmployeeRows,
                    x.organization_id = y.organization_id, Columns(x) = Columns(y)
             PROVE  x = y
  BY DEF Distinguished, OfTenant
<1>1. /\ x.id = y.id /\ x.employee_code = y.employee_code
      /\ x.department_id = y.department_id /\ x.designation_id = y.designation_id
      /\ x.full_name = y.full_name /\ x.email = y.email
      /\ x.status = y.status /\ x.employment_type = y.employment_type
  BY EmployeeColumns
<1> QED
  BY <1>1 DEF EmployeeRows

LEMMA ViewCardinality ==
    ASSUME NEW rows, IsFiniteSet(rows), Distinguished(rows)
    PROVE  /\ IsFiniteSet(View(rows))
           /\ Cardinality(View(rows)) = Cardinality(OfTenant(rows, Observed))
<1> DEFINE own == OfTenant(rows, Observed)
           f == [x \in own |-> Columns(x)]
<1>1. IsFiniteSet(own)
  BY FS_Subset DEF OfTenant
<1>2. f \in Bijection(own, View(rows))
  <2>1. f \in [own -> View(rows)]
    BY DEF View
  <2>2. \A x, y \in own : f[x] = f[y] => x = y
    BY DEF Distinguished
  <2>3. \A c \in View(rows) : \E x \in own : f[x] = c
    BY DEF View
  <2> QED
    BY <2>1, <2>2, <2>3 DEF Bijection, Injection, Surjection, IsInjective
<1> QED
  BY <1>1, <1>2, FS_Bijection DEF ExistsBijection

LEMMA ViewAll ==
    ASSUME NEW rows, \A x \in rows : x.organization_id = Observed
    PROVE  View(rows) = {Columns(x) : x \in rows}
BY DEF View, OfTenant

LEMMA ViewNothing == View({}) = {}
BY DEF View, OfTenant

LEMMA ViewOne ==
    ASSUME NEW x, x.organization_id = Observed
    PROVE  View({x}) = {Columns(x)}
BY DEF View, OfTenant

LEMMA ViewAdds ==
    ASSUME NEW rows, NEW x, x.organization_id = Observed
    PROVE  View(rows \cup {x}) = View(rows) \cup {Columns(x)}
BY DEF View, OfTenant

(* The store counts as FiniteSets does. *)
LEMMA StoreCardinality ==
    ASSUME NEW S
    PROVE  Store!Cardinality(S) = Cardinality(S)
BY DEF Store!Cardinality, Cardinality

(* A page seen without its organisation is a page of the rows so seen. *)
LEMMA PagesViewed ==
    ASSUME NEW rows \in SUBSET EmployeeRows, IsFiniteSet(rows),
           \A x \in rows : x.organization_id = Observed,
           NEW limit, NEW offset, NEW p \in Pages(rows, limit, offset)
    PROVE  View(p) \in Store!Pages(View(rows), limit, offset)
<1>1. \A s \in SUBSET rows : /\ View(s) = {Columns(x) : x \in s}
                            /\ Cardinality(View(s)) = Cardinality(s)
  <2> SUFFICES ASSUME NEW s \in SUBSET rows
               PROVE  /\ View(s) = {Columns(x) : x \in s}
                      /\ Cardinality(View(s)) = Cardinality(s)
    OBVIOUS
  <2>1. IsFiniteSet(s) /\ Distinguished(s)
    BY FS_Subset, EmployeesDistinguished
  <2>2. OfTenant(s, Observed) = s
    BY DEF OfTenant
  <2> QED
    BY <2>1, <2>2, ViewAll, ViewCardinality
<1>2. \A x, y \in rows : Columns(x) = Columns(y) => x = y
  BY EmployeesDistinguished DEF Distinguished, OfTenant
<1>3. \A x \in rows : Columns(x).full_name = x.full_name
  BY EmployeeColumns
<1>4. PICK before \in SUBSET (rows \ p) :
        /\ Cardinality(before) = Smaller(offset, Cardinality(rows))
        /\ \A b \in before, x \in p : Rank[b.full_name] <= Rank[x.full_name]
        /\ \A x \in before \cup p, r \in rows \ (before \cup p) :
               Rank[x.full_name] <= Rank[r.full_name]
  BY DEF Pages
<1>5. p \in SUBSET rows /\ Cardinality(p) = PageSize(Cardinality(rows), limit, offset)
  BY DEF Pages
<1>6. View(before) \in SUBSET (View(rows) \ View(p))
  BY <1>1, <1>2, <1>5
<1>7. Cardinality(View(before)) = Store!Smaller(offset, Cardinality(View(rows)))
  BY <1>1, <1>4, <1>5 DEF Smaller, Store!Smaller
<1>8. \A b \in View(before), x \in View(p) : Rank[b.full_name] <= Rank[x.full_name]
  BY <1>1, <1>3, <1>4, <1>5
<1>9. ASSUME NEW x \in View(before) \cup View(p),
             NEW r \in View(rows) \ (View(before) \cup View(p))
      PROVE  Rank[x.full_name] <= Rank[r.full_name]
  <2>1. PICK y \in before \cup p : x = Columns(y)
    BY <1>1, <1>5
  <2>2. PICK s \in rows \ (before \cup p) : r = Columns(s)
    BY <1>1, <1>5
  <2> QED
    BY <1>3, <1>4, <1>5, <2>1, <2>2
<1>10. Cardinality(View(p)) = Store!PageSize(Cardinality(View(rows)), limit, offset)
  BY <1>1, <1>5 DEF PageSize, Store!PageSize, Smaller, Store!Smaller
<1>11. View(p) \in SUBSET View(rows)
  BY <1>1, <1>5
<1>12. \E b \in SUBSET (View(rows) \ View(p)) :
         /\ Cardinality(b) = Store!Smaller(offset, Cardinality(View(rows)))
         /\ \A x \in b, y \in View(p) : Rank[x.full_name] <= Rank[y.full_name]
         /\ \A x \in b \cup View(p), y \in View(rows) \ (b \cup View(p)) :
                Rank[x.full_name] <= Rank[y.full_name]
  BY <1>6, <1>7, <1>8, <1>9
<1> QED
  BY <1>10, <1>11, <1>12, StoreCardinality DEF Store!Pages

-----------------------------------------------------------------------------
(* A worker that replies has an answer. *)

Replied == \A w \in Workers : pc[w] = "reply" => resp[w].kind # "none"

LEMMA EarlyAnswersReply ==
    ASSUME NEW r, NEW a \in EarlyAnswer(r)
    PROVE  /\ a.kind \in {"unauthenticated", "validation"} /\ a.rows = {} /\ a.total = 0
           /\ EarlyAnswer(r) # {}
BY DEF EarlyAnswer, QueryAnswer, BodyAnswer, Unauthenticated, Validation, Answer

(* What the answers of the statements say. *)
LEMMA AnswerSays ==
    ASSUME NEW kind, NEW rows
    PROVE  /\ Answer(kind, rows).kind = kind /\ Answer(kind, rows).rows = rows
           /\ Answer(kind, rows).total = 0 /\ Answer(kind, rows).cause = ""
BY DEF Answer

LEMMA PageSays ==
    ASSUME NEW rows, NEW total, NEW limit, NEW offset
    PROVE  /\ Page(rows, total, limit, offset).kind = "ok"
           /\ Page(rows, total, limit, offset).rows = rows
           /\ Page(rows, total, limit, offset).total = total
BY DEF Answer, Page

LEMMA OthersSay ==
    /\ NotFound.kind = "not_found" /\ NotFound.rows = {} /\ NotFound.total = 0
    /\ NoAnswer.kind = "none" /\ NoAnswer.rows = {} /\ NoAnswer.total = 0
    /\ Faulted.kind = "internal" /\ Faulted.rows = {} /\ Faulted.total = 0
    /\ Faulted.cause = "fault"
    /\ \A code : /\ Conflict(code).kind = "conflict" /\ Conflict(code).rows = {}
                 /\ Conflict(code).total = 0
    /\ \A fields : /\ Validation(fields).kind = "validation" /\ Validation(fields).rows = {}
                   /\ Validation(fields).total = 0
    /\ \A cause : /\ Internal(cause).kind = "internal" /\ Internal(cause).rows = {}
                  /\ Internal(cause).total = 0 /\ Internal(cause).cause = cause
BY DEF Answer, NotFound, Conflict, Validation, Internal, NoAnswer, Faulted

LEMMA ReturnReplies ==
    ASSUME Typed, Replied, NEW w \in Workers, NEW a, a.kind # "none", Return(w, a)
    PROVE  Replied'
<1>1. PICK b \in {a, Faulted} : resp' = [resp EXCEPT ![w] = b]
  BY DEF Return
<1>2. b.kind # "none"
  BY <1>1, OthersSay
<1>3. pc' = [pc EXCEPT ![w] = "reply"]
  BY DEF Return, Goto
<1> QED
  BY <1>1, <1>2, <1>3 DEF Typed, TypeOK, Replied

LEMMA StatementReturns ==
    ASSUME NEW w \in Workers, Statement(w)
    PROVE  ListEmployees(w) \/ \E a : Return(w, a)
BY DEF Statement, listDepartments, createDepartment, deleteDepartment, CountEmployees,
       getEmployee, createEmployee, updateEmployee, deleteEmployee

LEMMA StatementReplies ==
    ASSUME Typed, Replied, NEW w \in Workers, Statement(w)
    PROVE  Replied'
<1>0. /\ \A rows : Answer("ok", rows).kind # "none" /\ Answer("created", rows).kind # "none"
      /\ Answer("no_content", {}).kind # "none" /\ NotFound.kind # "none"
      /\ \A state : /\ Internal(state).kind # "none"
                    /\ employeeConstraintError(state).kind # "none"
      /\ Conflict("department.name_taken").kind # "none"
  BY DEF Answer, NotFound, Internal, Conflict, Validation, employeeConstraintError
<1>1. CASE ListEmployees(w)
  BY <1>1 DEF ListEmployees, Goto, Typed, TypeOK, Replied
<1>2. CASE listDepartments(w)
  BY <1>2, ReturnReplies, PageSays DEF listDepartments
<1>3. CASE createDepartment(w)
  <2>1. \/ \E d : Return(w, Answer("created", {d}))
        \/ Return(w, Conflict("department.name_taken"))
        \/ \E state : Return(w, Internal(state))
    BY <1>3 DEF createDepartment
  <2> QED
    BY <1>0, <2>1, ReturnReplies
<1>4. CASE deleteDepartment(w)
  <2>1. Return(w, NotFound) \/ Return(w, Answer("no_content", {}))
    BY <1>4 DEF deleteDepartment
  <2> QED
    BY <1>0, <2>1, ReturnReplies
<1>5. CASE CountEmployees(w)
  BY <1>5, ReturnReplies, PageSays DEF CountEmployees
<1>6. CASE getEmployee(w)
  BY <1>0, <1>6, ReturnReplies DEF getEmployee
<1>7. CASE createEmployee(w)
  <2>1. \/ \E e : Return(w, Answer("created", {e}))
        \/ \E state : Return(w, employeeConstraintError(state))
    BY <1>7 DEF createEmployee
  <2> QED
    BY <1>0, <2>1, ReturnReplies
<1>8. CASE updateEmployee(w)
  <2>1. \/ Return(w, NotFound)
        \/ \E e : Return(w, Answer("ok", {e}))
        \/ \E state : Return(w, employeeConstraintError(state))
    BY <1>8 DEF updateEmployee
  <2> QED
    BY <1>0, <2>1, ReturnReplies
<1>9. CASE deleteEmployee(w)
  <2>1. Return(w, NotFound) \/ Return(w, Answer("no_content", {}))
    BY <1>9 DEF deleteEmployee
  <2> QED
    BY <1>0, <2>1, ReturnReplies
<1> QED
  BY <1>1, <1>2, <1>3, <1>4, <1>5, <1>6, <1>7, <1>8, <1>9 DEF Statement

LEMMA NextReplies == Typed /\ Replied /\ [Next]_vars => Replied'
<1> SUFFICES ASSUME Typed, Replied, [Next]_vars PROVE Replied'
  OBVIOUS
<1>1. ASSUME NEW w \in Workers, NEW r \in Requests, Receive(w, r) PROVE Replied'
  <2>1. CASE EarlyAnswer(r) = {}
    BY <1>1, <2>1 DEF Receive, Goto, Typed, TypeOK, Replied
  <2>2. CASE EarlyAnswer(r) # {}
    BY <1>1, <2>2, EarlyAnswersReply DEF Receive, Goto, Typed, TypeOK, Replied
  <2> QED
    BY <2>1, <2>2
<1>2. ASSUME NEW w \in Workers, Fault(w) \/ Respond(w) PROVE Replied'
  <2>1. CASE Fault(w)
    BY <2>1, OthersSay DEF Fault, Goto, Typed, TypeOK, Replied
  <2>2. CASE Respond(w)
    BY <2>2 DEF Respond, Goto, Typed, TypeOK, Replied
  <2> QED
    BY <1>2, <2>1, <2>2
<1>3. ASSUME NEW w \in Workers, Statement(w) PROVE Replied'
  BY <1>3, StatementReplies
<1>4. CASE UNCHANGED vars
  BY <1>4 DEF vars, Replied
<1> QED
  BY <1>1, <1>2, <1>3, <1>4 DEF Next

-----------------------------------------------------------------------------
(* What the observed organisation sees of the workers. *)

LEMMA Verdicts ==
    /\ Answered(Faulted) = Store!Failed
    /\ Answered(NoAnswer) = Store!Pending
    /\ \A a : a.kind # "none" => Answered(a) # Store!Pending
<1>1. /\ Verdict(Faulted) = "failed" /\ Verdict(NoAnswer) = "pending"
      /\ View(Faulted.rows) = {} /\ View(NoAnswer.rows) = {}
  BY OthersSay, ViewNothing DEF Verdict
<1>2. \A a : a.kind # "none" => Verdict(a) # "pending"
  BY DEF Verdict
<1> QED
  BY <1>1, <1>2, OthersSay DEF Answered, Store!Failed, Store!Pending, Store!Result

LEMMA Done ==
    ASSUME NEW a, a.kind \in {"ok", "created", "no_content"}
    PROVE  Verdict(a) = "done"
BY OthersSay DEF Verdict

(* A worker in the database has a pending call in the store. *)
LEMMA Calling ==
    ASSUME Typed, NEW w \in Workers, pc[w] \in {"query", "count"},
           req[w].organization_id = Observed
    PROVE  /\ Made[w] = req[w] /\ Seen[w] = View(page[w]) /\ Told[w] = Store!Pending
           /\ Store!Called(w, req[w].op)
<1>1. ServedFor(w) /\ resp[w] = NoAnswer
  BY DEF ServedFor, Typed, Served
<1>2. Made[w] = req[w] /\ Seen[w] = View(page[w]) /\ Told[w] = Store!Pending
  BY <1>1, Verdicts DEF Made, Seen, Told
<1>3. req[w] # Null
  BY QueryRequests, ApiAssumption
<1> QED
  BY <1>2, <1>3 DEF Store!Called

(* A returning statement concludes the call of the organisation it serves. *)
LEMMA ReturnConcludes ==
    ASSUME Typed, NEW w \in Workers, pc[w] \in {"query", "count"},
           req[w].organization_id = Observed, NEW a, Return(w, a)
    PROVE  Store!Conclude(w, Verdict(a), View(a.rows), a.total)
<1>1. PICK b \in {a, Faulted} : resp' = [resp EXCEPT ![w] = b]
  BY DEF Return
<1>2. pc' = [pc EXCEPT ![w] = "reply"] /\ req' = req /\ page' = page
  BY DEF Return, Goto
<1>3. ServedFor(w) /\ \A v \in Workers : ServedFor(v)' = ServedFor(v)
  BY <1>2 DEF ServedFor, Typed, TypeOK
<1>4. Made' = Made /\ Seen' = Seen
  BY <1>2, <1>3 DEF Made, Seen
<1>5. Told' = [Told EXCEPT ![w] = Answered(b)]
  BY <1>1, <1>3 DEF Told, Typed, TypeOK
<1>6. Answered(b) \in {Store!Result(Verdict(a), View(a.rows), a.total), Store!Failed}
  BY <1>1, Verdicts DEF Answered, Store!Result
<1> QED
  BY <1>4, <1>5, <1>6 DEF Store!Conclude

(* What a worker does for another organisation does not show in the calls. *)
LEMMA OtherCallsHidden ==
    ASSUME Typed, NEW w \in Workers, req[w].organization_id # Observed,
           Statement(w) \/ Fault(w) \/ Respond(w)
    PROVE  Made' = Made /\ Seen' = Seen /\ Told' = Told
<1>1. /\ \A v \in Workers \ {w} : /\ pc'[v] = pc[v] /\ req'[v] = req[v]
                                  /\ page'[v] = page[v] /\ resp'[v] = resp[v]
      /\ req'[w] = req[w] \/ pc'[w] = "idle"
  <2>1. CASE \E a : Return(w, a)
    BY <2>1 DEF Return, Goto, Typed, TypeOK
  <2>2. CASE ListEmployees(w) \/ Fault(w) \/ Respond(w)
    BY <2>2 DEF ListEmployees, Fault, Respond, Goto, Typed, TypeOK
  <2> QED
    BY <2>1, <2>2, StatementReturns
<1>2. /\ ~ ServedFor(w) /\ ~ ServedFor(w)'
      /\ \A v \in Workers \ {w} : ServedFor(v)' = ServedFor(v)
  BY <1>1 DEF ServedFor
<1>3. \A v \in Workers : ServedFor(v)' = ServedFor(v)
  BY <1>2 DEF ServedFor
<1>4. \A v \in Workers : ServedFor(v) => /\ req'[v] = req[v] /\ page'[v] = page[v]
                                         /\ resp'[v] = resp[v]
  BY <1>1, <1>2
<1> QED
  BY <1>3, <1>4 DEF Made, Seen, Told

-----------------------------------------------------------------------------
(* The tables as the observed organisation sees them. *)

LEMMA Tables ==
    ASSUME Typed
    PROVE  /\ departments \in SUBSET DepartmentRows /\ IsFiniteSet(departments)
           /\ employees \in SUBSET EmployeeRows /\ IsFiniteSet(employees)
           /\ \A x \in departments \cup employees : x.id \in issued
BY DEF Typed, TypeOK, Served

LEMMA ViewIds ==
    ASSUME NEW rows, rows \in SUBSET DepartmentRows \/ rows \in SUBSET EmployeeRows
    PROVE  \A i : i \in Store!IdsOf(View(rows)) <=> References(rows, Observed, i)
<1>1. \A x \in rows : Columns(x).id = x.id
  BY DepartmentColumns, EmployeeColumns
<1> QED
  BY <1>1 DEF Store!IdsOf, View, OfTenant, References

LEMMA TitlesViewed ==
    \A i : i \in {x.id : x \in OfTenant(Designations, Observed)}
             <=> References(Designations, Observed, i)
BY DEF OfTenant, References

(* The rows of a query, seen without their organisation. *)
LEMMA ViewMatching ==
    ASSUME NEW E \in SUBSET EmployeeRows, NEW department, NEW status
    PROVE  View(Matching(E, Observed, department, status))
             = {e \in View(E) : /\ department \in {Null, e.department_id}
                               /\ status \in {Null, e.status}}
<1>1. \A e \in E : /\ Columns(e).department_id = e.department_id
                   /\ Columns(e).status = e.status
  BY EmployeeColumns
<1> QED
  BY <1>1 DEF View, OfTenant, Matching

LEMMA ViewWithId ==
    ASSUME NEW rows, rows \in SUBSET DepartmentRows \/ rows \in SUBSET EmployeeRows, NEW i
    PROVE  /\ View(WithId(rows, Observed, i)) = {x \in View(rows) : x.id = i}
           /\ WithId(rows, Observed, i) = {} <=> ~ References(rows, Observed, i)
<1>1. \A x \in rows : Columns(x).id = x.id
  BY DepartmentColumns, EmployeeColumns
<1> QED
  BY <1>1 DEF View, OfTenant, WithId, References

LEMMA ViewOwn ==
    ASSUME NEW rows
    PROVE  View(OfTenant(rows, Observed)) = View(rows)
BY DEF View, OfTenant

-----------------------------------------------------------------------------
(* Reads. *)

LEMMA listDepartmentsRefines ==
    ASSUME Typed, NEW w \in Workers, listDepartments(w), req[w].organization_id = Observed
    PROVE  Store!ListDepts(w)
<1> DEFINE own == OfTenant(departments, Observed)
<1>1. pc[w] = "query" /\ req[w].op = "listDepartments"
  BY DEF listDepartments, At
<1>2. Return(w, Page(own, Cardinality(own), Cardinality(own), 0)) /\ UNCHANGED tables
  BY DEF listDepartments
<1>3. Store!Called(w, "listDepartments")
  BY <1>1, Calling
<1>4. Cardinality(own) = Store!Cardinality(View(departments))
  BY Tables, DepartmentsDistinguished, ViewCardinality, StoreCardinality
<1> DEFINE a == Page(own, Cardinality(own), Cardinality(own), 0)
<1>5. Verdict(a) = "done" /\ a.rows = own /\ a.total = Cardinality(own)
  BY PageSays, OthersSay DEF Verdict
<1> HIDE DEF a
<1>6. Store!Conclude(w, Verdict(a), View(a.rows), a.total)
  BY <1>1, <1>2, ReturnConcludes DEF a
<1>7. Store!Conclude(w, "done", View(departments), Store!Cardinality(View(departments)))
  BY <1>4, <1>5, <1>6, ViewOwn
<1> QED
  BY <1>2, <1>3, <1>7 DEF Store!ListDepts, tables

LEMMA getEmployeeRefines ==
    ASSUME Typed, NEW w \in Workers, getEmployee(w), req[w].organization_id = Observed
    PROVE  Store!Look(w)
<1> DEFINE found == WithId(employees, Observed, req[w].id)
           a == IF found = {} THEN NotFound ELSE Answer("ok", found)
           seen == {e \in View(employees) : e.id = Made[w].id}
<1>1. pc[w] = "query" /\ req[w].op = "getEmployee"
  BY DEF getEmployee, At
<1>2. Return(w, a) /\ UNCHANGED tables
  BY DEF getEmployee
<1>3. Store!Called(w, "getEmployee") /\ Made[w] = req[w]
  BY <1>1, Calling
<1>4. View(found) = seen
  BY <1>3, Tables, ViewWithId
<1>5. found = {} <=> seen = {}
  BY <1>3, <1>4, Tables, ViewNothing DEF WithId, View, OfTenant
<1>6. /\ Verdict(a) = IF seen = {} THEN "missing" ELSE "done"
      /\ View(a.rows) = seen /\ a.total = 0
  <2>1. CASE found = {}
    BY <2>1, <1>4, <1>5, OthersSay DEF Verdict
  <2>2. CASE found # {}
    <3>1. Answer("ok", found).kind = "ok" /\ Answer("ok", found).rows = found
          /\ Answer("ok", found).total = 0
      BY DEF Answer
    <3> QED
      BY <2>2, <3>1, <1>4, <1>5, OthersSay DEF Verdict
  <2> QED
    BY <2>1, <2>2
<1> HIDE DEF a
<1>7. Store!Conclude(w, IF seen = {} THEN "missing" ELSE "done", seen, 0)
  BY <1>1, <1>2, <1>6, ReturnConcludes
<1> QED
  BY <1>2, <1>3, <1>7 DEF Store!Look, tables

LEMMA LimitsSame ==
    \A raw : Limit(raw) = Store!Limit(raw) /\ Offset(raw) = Store!Offset(raw)
BY DEF Limit, Offset, intParam, Store!Limit, Store!Offset, Store!intParam

LEMMA ListEmployeesRefines ==
    ASSUME Typed, NEW w \in Workers, ListEmployees(w), req[w].organization_id = Observed
    PROVE  Store!ReadPage(w)
<1> DEFINE r == req[w]
           asked == Matching(employees, Observed, r.department_id, r.status)
<1>1. pc[w] = "query" /\ r.op = "listEmployees" /\ UNCHANGED tables
      /\ pc' = [pc EXCEPT ![w] = "count"] /\ req' = req /\ resp' = resp
  BY DEF ListEmployees, At, Goto, tables
<1>2. PICK rows \in Pages(asked, Limit(r.limit), Offset(r.offset)) :
        page' = [page EXCEPT ![w] = rows]
  BY DEF ListEmployees
<1>3. Store!Called(w, "listEmployees") /\ Made[w] = r
  BY <1>1, Calling
<1>4. asked \in SUBSET EmployeeRows /\ IsFiniteSet(asked)
      /\ \A x \in asked : x.organization_id = Observed
  BY Tables, FS_Subset DEF Matching
<1>5. View(rows) \in Store!Pages(View(asked), Store!Limit(r.limit), Store!Offset(r.offset))
  BY <1>2, <1>4, PagesViewed, LimitsSame
<1>6. View(asked) = Store!Asked(w)
  BY <1>3, Tables, ViewMatching DEF Store!Asked
<1>7. ServedFor(w) /\ \A v \in Workers : ServedFor(v)' = ServedFor(v)
  BY <1>1 DEF ServedFor, Typed, TypeOK
<1>8. Made' = Made /\ Told' = Told
  BY <1>1, <1>7 DEF Made, Told
<1>9. Seen' = [Seen EXCEPT ![w] = View(rows)]
  BY <1>2, <1>7 DEF Seen, Typed, TypeOK
<1> QED
  BY <1>1, <1>3, <1>5, <1>6, <1>8, <1>9 DEF Store!ReadPage, tables

LEMMA CountEmployeesRefines ==
    ASSUME Typed, NEW w \in Workers, CountEmployees(w), req[w].organization_id = Observed
    PROVE  Store!ReadTotal(w)
<1> DEFINE r == req[w]
           asked == Matching(employees, Observed, r.department_id, r.status)
           a == Page(page[w], Cardinality(asked), Limit(r.limit), Offset(r.offset))
<1>1. pc[w] = "count" /\ r.op = "listEmployees"
  BY DEF CountEmployees, At
<1>2. Return(w, a) /\ UNCHANGED tables
  BY DEF CountEmployees, CountMatching
<1>3. Store!Called(w, "listEmployees") /\ Made[w] = r /\ Seen[w] = View(page[w])
  BY <1>1, Calling
<1>4. View(asked) = Store!Asked(w)
  BY <1>3, Tables, ViewMatching DEF Store!Asked
<1>5. Cardinality(asked) = Store!Cardinality(Store!Asked(w))
  <2>1. IsFiniteSet(asked) /\ Distinguished(asked) /\ OfTenant(asked, Observed) = asked
    BY Tables, FS_Subset, EmployeesDistinguished DEF Matching, OfTenant
  <2> QED
    BY <2>1, <1>4, ViewCardinality, StoreCardinality
<1>6. Verdict(a) = "done" /\ a.rows = page[w] /\ a.total = Cardinality(asked)
  BY PageSays, OthersSay DEF Verdict
<1> HIDE DEF a
<1>7. Store!Conclude(w, Verdict(a), View(a.rows), a.total)
  BY <1>1, <1>2, ReturnConcludes
<1> QED
  BY <1>2, <1>3, <1>5, <1>6, <1>7 DEF Store!ReadTotal, tables

-----------------------------------------------------------------------------
(* Departments. *)

LEMMA createDepartmentRefines ==
    ASSUME Typed, NEW w \in Workers, createDepartment(w), req[w].organization_id = Observed
    PROVE  Store!AddDept(w)
<1> DEFINE r == req[w]
           new(i) == [id |-> i, name |-> Trim[r.name], parent_id |-> r.parent_id]
           clash == \E x \in View(departments) : Lower[x.name] = Lower[Trim[r.name]]
           fits == /\ Observed \in Organizations
                   /\ r.parent_id \in Store!IdsOf(View(departments)) \cup {Null}
<1>1. pc[w] = "query" /\ r.op = "createDepartment"
  BY DEF createDepartment, At
<1>2. r \in CreateDepartmentRequest
  BY <1>1, QueryRequests, PassedChecks
<1>3. Store!Called(w, "createDepartment") /\ Made[w] = r
  BY <1>1, Calling
<1>4. PICK i \in Ids \ (issued \cup {r.parent_id}) :
         LET d == CreateDepartment(i, [r EXCEPT !.name = Trim[@]])
             state == DepartmentState(departments, d)
         IN \/ /\ state = Ok
               /\ departments' = departments \cup {d}
               /\ issued' = issued \cup {i}
               /\ UNCHANGED employees
               /\ Return(w, Answer("created", {d}))
            \/ /\ state = UniqueViolation
               /\ Return(w, Conflict("department.name_taken"))
               /\ UNCHANGED tables
            \/ /\ state = ForeignKeyViolation
               /\ Return(w, Internal(state))
               /\ UNCHANGED tables
  BY DEF createDepartment
<1> DEFINE d == CreateDepartment(i, [r EXCEPT !.name = Trim[@]])
<1>5. /\ d \in DepartmentRows /\ d.organization_id = Observed
      /\ d.id = i /\ d.name = Trim[r.name] /\ d.parent_id = r.parent_id
  <2>1. Observed \in OrgIds
    BY <1>1, QueryRequests, PassedChecks
  <2> QED
    BY <1>2, <2>1, ApiAssumption DEF DepartmentRows, CreateDepartmentRequest, CreateDepartment
<1> HIDE DEF d
<1>6. Columns(d) = new(i)
  BY <1>5, DepartmentColumns
<1>7. i \in Ids \ Store!IdsOf(View(departments))
  <2>1. ~ References(departments, Observed, i)
    BY Tables DEF References
  <2> QED
    BY <2>1, Tables, ViewIds
<1>8. clash <=> DepartmentNameTaken(departments, Observed, d.name)
  <2>1. \A x \in departments : Columns(x).name = x.name
    BY Tables, DepartmentColumns
  <2> QED
    BY <1>5, <2>1 DEF DepartmentNameTaken, View, OfTenant
<1>9. fits <=> ~ (\/ Observed \notin Organizations
                  \/ DanglingReference(departments, Observed, d.parent_id))
  BY <1>5, Tables, ViewIds DEF DanglingReference
<1>10. DepartmentState(departments, d) =
         IF clash THEN UniqueViolation ELSE IF fits THEN Ok ELSE ForeignKeyViolation
  BY <1>5, <1>8, <1>9 DEF DepartmentState
<1>11. Ok # UniqueViolation /\ Ok # ForeignKeyViolation /\ UniqueViolation # ForeignKeyViolation
  BY DEF Ok, UniqueViolation, ForeignKeyViolation
<1>12. CASE clash
  <2>1. Return(w, Conflict("department.name_taken")) /\ UNCHANGED tables
    BY <1>4, <1>10, <1>11, <1>12 DEF d
  <2>2. /\ Verdict(Conflict("department.name_taken")) = "conflict"
        /\ View(Conflict("department.name_taken").rows) = {}
        /\ Conflict("department.name_taken").total = 0
    BY OthersSay, ViewNothing DEF Verdict
  <2>3. Store!Conclude(w, "conflict", {}, 0)
    BY <1>1, <2>1, <2>2, ReturnConcludes
  <2> QED
    BY <1>3, <1>7, <1>12, <2>1, <2>3 DEF Store!AddDept, tables
<1>13. CASE ~ clash /\ ~ fits
  <2>1. Return(w, Internal(ForeignKeyViolation)) /\ UNCHANGED tables
    BY <1>4, <1>10, <1>11, <1>13 DEF d
  <2>2. /\ Verdict(Internal(ForeignKeyViolation)) = "refused"
        /\ View(Internal(ForeignKeyViolation).rows) = {}
        /\ Internal(ForeignKeyViolation).total = 0
    BY OthersSay, ViewNothing DEF Verdict, ForeignKeyViolation
  <2>3. Store!Conclude(w, "refused", {}, 0)
    BY <1>1, <2>1, <2>2, ReturnConcludes
  <2> QED
    BY <1>3, <1>7, <1>13, <2>1, <2>3 DEF Store!AddDept, tables
<1>14. CASE ~ clash /\ fits
  <2>1. /\ departments' = departments \cup {d} /\ employees' = employees
        /\ Return(w, Answer("created", {d}))
    BY <1>4, <1>10, <1>11, <1>14 DEF d
  <2>2. /\ Verdict(Answer("created", {d})) = "done"
        /\ View(Answer("created", {d}).rows) = {new(i)}
        /\ Answer("created", {d}).total = 0
    <3>1. /\ Answer("created", {d}).kind = "created" /\ Answer("created", {d}).rows = {d}
          /\ Answer("created", {d}).total = 0
      BY DEF Answer
    <3>2. View({d}) = {new(i)}
      BY <1>5, <1>6, ViewOne
    <3> QED
      BY <3>1, <3>2, Done
  <2>3. Store!Conclude(w, "done", {new(i)}, 0)
    BY <1>1, <2>1, <2>2, ReturnConcludes
  <2>4. View(departments)' = View(departments) \cup {new(i)} /\ View(employees)' = View(employees)
    BY <1>5, <1>6, <2>1, ViewAdds
  <2> QED
    BY <1>3, <1>7, <1>14, <2>3, <2>4 DEF Store!AddDept
<1> QED
  BY <1>12, <1>13, <1>14

(* A cleared reference is cleared in the view. *)
LEMMA ClearedColumns ==
    /\ \A x \in DepartmentRows :
          Columns([x EXCEPT !.parent_id = Null]) = [Columns(x) EXCEPT !.parent_id = Null]
    /\ \A x \in EmployeeRows :
          Columns([x EXCEPT !.department_id = Null]) = [Columns(x) EXCEPT !.department_id = Null]
<1>1. ASSUME NEW x \in DepartmentRows
      PROVE  Columns([x EXCEPT !.parent_id = Null]) = [Columns(x) EXCEPT !.parent_id = Null]
  <2>1. [x EXCEPT !.parent_id = Null] \in DepartmentRows
    BY DEF DepartmentRows, OptionalId
  <2> QED
    BY <2>1, DepartmentColumns DEF DepartmentRows
<1>2. ASSUME NEW x \in EmployeeRows
      PROVE  Columns([x EXCEPT !.department_id = Null]) = [Columns(x) EXCEPT !.department_id = Null]
  <2>1. [x EXCEPT !.department_id = Null] \in EmployeeRows
    BY DEF EmployeeRows, OptionalId
  <2> QED
    BY <2>1, EmployeeColumns DEF EmployeeRows
<1> QED
  BY <1>1, <1>2

LEMMA ClearedDepartments ==
    ASSUME NEW D \in SUBSET DepartmentRows, NEW i \in Ids
    PROVE  View(WithoutDepartment(D, Observed, i))
             = {[d EXCEPT !.parent_id = IF @ = i THEN Null ELSE @] :
                   d \in {x \in View(D) : x.id # i}}
<1> DEFINE Kept(d) == IF d.organization_id = Observed /\ d.parent_id = i
                      THEN [d EXCEPT !.parent_id = Null] ELSE d
           Unless(c) == [c EXCEPT !.parent_id = IF @ = i THEN Null ELSE @]
           gone == WithId(D, Observed, i)
<1>1. ASSUME NEW d \in D
      PROVE  /\ Kept(d).organization_id = d.organization_id
             /\ Columns(d).id = d.id
             /\ d.organization_id = Observed => Columns(Kept(d)) = Unless(Columns(d))
  <2>1. /\ d \in DepartmentRows
        /\ Columns(d) = [id |-> d.id, name |-> d.name, parent_id |-> d.parent_id]
    BY DepartmentColumns
  <2>2. CASE d.organization_id = Observed /\ d.parent_id = i
    BY <2>1, <2>2, ClearedColumns DEF DepartmentRows
  <2>3. CASE ~ (d.organization_id = Observed /\ d.parent_id = i)
    BY <2>1, <2>3
  <2> QED
    BY <2>1, <2>2, <2>3
<1>2. WithoutDepartment(D, Observed, i) = {Kept(d) : d \in D \ gone}
  BY DEF WithoutDepartment
<1>3. View(D) = {Columns(d) : d \in {x \in D : x.organization_id = Observed}}
  BY DEF View, OfTenant
<1> HIDE DEF Kept, Unless
<1>4. View({Kept(d) : d \in D \ gone})
        = {Columns(Kept(d)) : d \in {x \in D \ gone : x.organization_id = Observed}}
  BY <1>1 DEF View, OfTenant
<1>5. {x \in D \ gone : x.organization_id = Observed}
        = {x \in D : x.organization_id = Observed /\ x.id # i}
  BY DEF WithId
<1>6. {x \in View(D) : x.id # i}
        = {Columns(d) : d \in {x \in D : x.organization_id = Observed /\ x.id # i}}
  BY <1>1, <1>3
<1>7. {Columns(Kept(d)) : d \in {x \in D : x.organization_id = Observed /\ x.id # i}}
        = {Unless(c) : c \in {x \in View(D) : x.id # i}}
  BY <1>1, <1>6
<1> QED
  BY <1>2, <1>4, <1>5, <1>7 DEF Unless

LEMMA ClearedEmployees ==
    ASSUME NEW E \in SUBSET EmployeeRows, NEW i \in Ids
    PROVE  View(DetachedFrom(E, Observed, i))
             = {[e EXCEPT !.department_id = IF @ = i THEN Null ELSE @] : e \in View(E)}
<1> DEFINE Kept(e) == IF e.organization_id = Observed /\ e.department_id = i
                      THEN [e EXCEPT !.department_id = Null] ELSE e
           Unless(c) == [c EXCEPT !.department_id = IF @ = i THEN Null ELSE @]
<1>1. ASSUME NEW e \in E
      PROVE  /\ Kept(e).organization_id = e.organization_id
             /\ e.organization_id = Observed => Columns(Kept(e)) = Unless(Columns(e))
  <2>1. e \in EmployeeRows
    OBVIOUS
  <2>2. CASE e.organization_id = Observed /\ e.department_id = i
    BY <2>1, <2>2, EmployeeColumns, ClearedColumns DEF EmployeeRows
  <2>3. CASE ~ (e.organization_id = Observed /\ e.department_id = i)
    BY <2>1, <2>3, EmployeeColumns
  <2> QED
    BY <2>2, <2>3
<1>2. DetachedFrom(E, Observed, i) = {Kept(e) : e \in E}
  BY DEF DetachedFrom
<1>3. View(E) = {Columns(e) : e \in {x \in E : x.organization_id = Observed}}
  BY DEF View, OfTenant
<1> HIDE DEF Kept, Unless
<1>4. View({Kept(e) : e \in E})
        = {Columns(Kept(e)) : e \in {x \in E : x.organization_id = Observed}}
  BY <1>1 DEF View, OfTenant
<1>5. {Columns(Kept(e)) : e \in {x \in E : x.organization_id = Observed}}
        = {Unless(c) : c \in View(E)}
  BY <1>1, <1>3
<1> QED
  BY <1>2, <1>4, <1>5 DEF Unless

(* Deleting what is not there changes nothing: nobody names it either. *)
LEMMA NothingToClear ==
    ASSUME Sound, NEW i \in Ids, ~ References(departments, Observed, i)
    PROVE  /\ WithoutDepartment(departments, Observed, i) = departments
           /\ DetachedFrom(employees, Observed, i) = employees
<1>1. i # Null
  BY TenancyAssumption
<1>2. /\ \A d \in departments : ~ (d.organization_id = Observed /\ d.parent_id = i)
      /\ \A e \in employees : ~ (e.organization_id = Observed /\ e.department_id = i)
  BY <1>1 DEF Sound, RefsStayInTenant, NoneDangles, DanglingReference
<1>3. WithId(departments, Observed, i) = {}
  BY DEF WithId, References
<1> QED
  BY <1>2, <1>3 DEF WithoutDepartment, DetachedFrom

LEMMA deleteDepartmentRefines ==
    ASSUME Sound, NEW w \in Workers, deleteDepartment(w), req[w].organization_id = Observed
    PROVE  Store!DropDept(w)
<1> DEFINE i == req[w].id
           a == IF WithId(departments, Observed, i) = {} THEN NotFound
                ELSE Answer("no_content", {})
<1>0. Typed
  BY DEF Sound
<1>1. pc[w] = "query" /\ req[w].op = "deleteDepartment"
  BY DEF deleteDepartment, At
<1>2. i \in Ids
  BY <1>0, <1>1, QueryRequests, PassedChecks DEF HasPathId
<1>3. Store!Called(w, "deleteDepartment") /\ Made[w] = req[w]
  BY <1>0, <1>1, Calling
<1>4. /\ departments' = WithoutDepartment(departments, Observed, i)
      /\ employees' = DetachedFrom(employees, Observed, i)
      /\ Return(w, a)
  BY DEF deleteDepartment
<1> HIDE DEF a
<1>5. CASE References(departments, Observed, i)
  <2>1. a = Answer("no_content", {})
    BY <1>5 DEF WithId, References, a
  <2>2. Verdict(a) = "done" /\ View(a.rows) = {} /\ a.total = 0
    <3>1. a.kind = "no_content" /\ a.rows = {} /\ a.total = 0
      BY <2>1 DEF Answer
    <3> QED
      BY <3>1, Done, ViewNothing
  <2>3. Store!Conclude(w, "done", {}, 0)
    BY <1>0, <1>1, <1>4, <2>2, ReturnConcludes
  <2>4. i \in Store!IdsOf(View(departments))
    BY <1>0, <1>5, Tables, ViewIds
  <2>5. /\ View(departments)' = {[d EXCEPT !.parent_id = IF @ = i THEN Null ELSE @] :
                                   d \in {x \in View(departments) : x.id # i}}
        /\ View(employees)' = {[e EXCEPT !.department_id = IF @ = i THEN Null ELSE @] :
                                 e \in View(employees)}
    BY <1>0, <1>2, <1>4, Tables, ClearedDepartments, ClearedEmployees
  <2> QED
    BY <1>3, <2>3, <2>4, <2>5 DEF Store!DropDept
<1>6. CASE ~ References(departments, Observed, i)
  <2>1. a = NotFound
    BY <1>6 DEF WithId, References, a
  <2>2. Verdict(a) = "missing" /\ View(a.rows) = {} /\ a.total = 0
    BY <2>1, OthersSay, ViewNothing DEF Verdict
  <2>3. Store!Conclude(w, "missing", {}, 0)
    BY <1>0, <1>1, <1>4, <2>2, ReturnConcludes
  <2>4. i \notin Store!IdsOf(View(departments))
    BY <1>0, <1>6, Tables, ViewIds
  <2>5. departments' = departments /\ employees' = employees
    BY <1>2, <1>4, <1>6, NothingToClear
  <2> QED
    BY <1>3, <2>3, <2>4, <2>5 DEF Store!DropDept
<1> QED
  BY <1>5, <1>6

-----------------------------------------------------------------------------
(* Employees. *)

LEMMA ClashViewed ==
    ASSUME NEW E \in SUBSET EmployeeRows, NEW e \in EmployeeRows, e.organization_id = Observed
    PROVE  EmployeeTaken(E, e) <=>
             \E x \in View(E) : /\ x.id # Columns(e).id
                               /\ \/ Lower[x.employee_code] = Lower[Columns(e).employee_code]
                                  \/ Lower[x.email] = Lower[Columns(e).email]
<1>1. \A x \in E \cup {e} : /\ Columns(x).id = x.id /\ Columns(x).email = x.email
                            /\ Columns(x).employee_code = x.employee_code
  BY EmployeeColumns
<1> QED
  BY <1>1 DEF EmployeeTaken, View, OfTenant

(* An INSERT or UPDATE of employees stores the row the observer asked for, *)
(* or is refused for the same reason.                                      *)
LEMMA RowStored ==
    ASSUME Typed, NEW w \in Workers, pc[w] = "query", req[w].organization_id = Observed,
           NEW e \in EmployeeRows, e.organization_id = Observed,
           NEW kind \in {"ok", "created"}, NEW old,
           \/ /\ EmployeeState(departments, employees, e) = Ok
              /\ View(employees)' = (View(employees) \ old) \cup {Columns(e)}
              /\ Return(w, Answer(kind, {e}))
           \/ /\ EmployeeState(departments, employees, e) # Ok
              /\ employees' = employees
              /\ Return(w, employeeConstraintError(EmployeeState(departments, employees, e)))
    PROVE  Store!Store(w, old, Columns(e))
<1>1. Store!Clash(Columns(e)) <=> EmployeeTaken(employees, e)
  BY Tables, ClashViewed DEF Store!Clash
<1>2. Store!Fits(Columns(e)) <=>
        ~ (\/ Observed \notin Organizations
           \/ DanglingReference(departments, Observed, e.department_id)
           \/ DanglingReference(Designations, Observed, e.designation_id))
  <2>1. /\ Columns(e).department_id = e.department_id
        /\ Columns(e).designation_id = e.designation_id
    BY EmployeeColumns
  <2> QED
    BY <2>1, Tables, ViewIds, TitlesViewed DEF Store!Fits, DanglingReference
<1>3. EmployeeState(departments, employees, e) =
        IF Store!Clash(Columns(e)) THEN UniqueViolation
        ELSE IF Store!Fits(Columns(e)) THEN Ok ELSE ForeignKeyViolation
  BY <1>1, <1>2 DEF EmployeeState
<1>4. Ok # UniqueViolation /\ Ok # ForeignKeyViolation /\ UniqueViolation # ForeignKeyViolation
  BY DEF Ok, UniqueViolation, ForeignKeyViolation
<1>5. CASE Store!Clash(Columns(e))
  <2> DEFINE a == Conflict("employee.duplicate")
  <2>1. Return(w, a) /\ employees' = employees
    BY <1>3, <1>4, <1>5 DEF employeeConstraintError
  <2>2. Verdict(a) = "conflict" /\ View(a.rows) = {} /\ a.total = 0
    BY OthersSay, ViewNothing DEF Verdict
  <2>3. Store!Conclude(w, "conflict", {}, 0)
    BY <2>1, <2>2, ReturnConcludes
  <2> QED
    BY <1>5, <2>1, <2>3 DEF Store!Store
<1>6. CASE ~ Store!Clash(Columns(e)) /\ ~ Store!Fits(Columns(e))
  <2> DEFINE a == Validation({"department_id"})
  <2>1. Return(w, a) /\ employees' = employees
    BY <1>3, <1>4, <1>6 DEF employeeConstraintError
  <2>2. Verdict(a) = "refused" /\ View(a.rows) = {} /\ a.total = 0
    BY OthersSay, ViewNothing DEF Verdict
  <2>3. Store!Conclude(w, "refused", {}, 0)
    BY <2>1, <2>2, ReturnConcludes
  <2> QED
    BY <1>6, <2>1, <2>3 DEF Store!Store
<1>7. CASE ~ Store!Clash(Columns(e)) /\ Store!Fits(Columns(e))
  <2> DEFINE a == Answer(kind, {e})
  <2>1. Return(w, a) /\ View(employees)' = (View(employees) \ old) \cup {Columns(e)}
    BY <1>3, <1>4, <1>7
  <2> HIDE DEF a
  <2>2. Verdict(a) = "done" /\ View(a.rows) = {Columns(e)} /\ a.total = 0
    <3>1. a.kind = kind /\ a.rows = {e} /\ a.total = 0
      BY DEF Answer, a
    <3>2. View({e}) = {Columns(e)}
      BY ViewOne
    <3> QED
      BY <3>1, <3>2, Done
  <2>3. Store!Conclude(w, "done", {Columns(e)}, 0)
    BY <2>1, <2>2, ReturnConcludes
  <2> QED
    BY <1>7, <2>1, <2>3 DEF Store!Store
<1> QED
  BY <1>5, <1>6, <1>7

LEMMA createEmployeeRefines ==
    ASSUME Typed, NEW w \in Workers, createEmployee(w), req[w].organization_id = Observed
    PROVE  Store!Hire(w)
<1> DEFINE r == req[w]
           Row(i) == CreateEmployee(i, [r EXCEPT !.employee_code = Trim[@],
                                                 !.full_name = Trim[@], !.email = Trim[@]])
<1>1. pc[w] = "query" /\ r.op = "createEmployee"
  BY DEF createEmployee, At
<1>2. /\ r \in CreateEmployeeRequest /\ Observed \in OrgIds
      /\ r.status # Malformed /\ r.employment_type # Malformed
  BY <1>1, QueryRequests, PassedChecks
<1>3. Store!Called(w, "createEmployee") /\ Made[w] = r
  BY <1>1, Calling
<1>4. PICK i \in Ids \ issued :
         \/ /\ EmployeeState(departments, employees, Row(i)) = Ok
            /\ employees' = employees \cup {Row(i)}
            /\ UNCHANGED departments
            /\ Return(w, Answer("created", {Row(i)}))
         \/ /\ EmployeeState(departments, employees, Row(i)) # Ok
            /\ Return(w, employeeConstraintError(EmployeeState(departments, employees, Row(i))))
            /\ UNCHANGED tables
  BY DEF createEmployee
<1> DEFINE e == Row(i)
<1>5. /\ Coalesce(r.status, Probation) \in Statuses
      /\ Coalesce(r.employment_type, FullTime) \in EmploymentTypes
  BY <1>2, TenancyAssumption DEF Coalesce, CreateEmployeeRequest, OptionalStatus, OptionalType
<1>6. /\ e \in EmployeeRows /\ e.organization_id = Observed
      /\ e = [organization_id |-> Observed, id |-> i, employee_code |-> Trim[r.employee_code],
              department_id |-> r.department_id, designation_id |-> r.designation_id,
              full_name |-> Trim[r.full_name], email |-> Trim[r.email],
              status |-> Coalesce(r.status, Probation),
              employment_type |-> Coalesce(r.employment_type, FullTime)]
  BY <1>2, <1>5, ApiAssumption DEF EmployeeRows, CreateEmployeeRequest, CreateEmployee
<1> HIDE DEF e
<1>7. Columns(e) = [id |-> i, employee_code |-> Trim[r.employee_code],
                    department_id |-> r.department_id, designation_id |-> r.designation_id,
                    full_name |-> Trim[r.full_name], email |-> Trim[r.email],
                    status |-> Store!Or(r.status, Probation),
                    employment_type |-> Store!Or(r.employment_type, FullTime)]
  BY <1>6, EmployeeColumns DEF Store!Or, Coalesce
<1>8. i \in Ids \ Store!IdsOf(View(employees))
  <2>1. ~ References(employees, Observed, i)
    BY Tables DEF References
  <2> QED
    BY <2>1, Tables, ViewIds
<1>9. /\ UNCHANGED departments
      /\ \/ /\ EmployeeState(departments, employees, e) = Ok
            /\ employees' = employees \cup {e}
            /\ Return(w, Answer("created", {e}))
         \/ /\ EmployeeState(departments, employees, e) # Ok
            /\ Return(w, employeeConstraintError(EmployeeState(departments, employees, e)))
            /\ employees' = employees
  BY <1>4 DEF e, tables
<1>10. employees' = employees \cup {e} =>
         View(employees)' = (View(employees) \ {}) \cup {Columns(e)}
  BY <1>6, ViewAdds
<1>11. Store!Store(w, {}, Columns(e))
  BY <1>1, <1>6, <1>9, <1>10, RowStored
<1> QED
  BY <1>3, <1>7, <1>8, <1>9, <1>11 DEF Store!Hire

(* coalesce(argument, column) is what the store does to the columns. *)
LEMMA PatchViewed ==
    ASSUME NEW e \in EmployeeRows, NEW r \in UpdateEmployeeRequest, r.id = e.id, r.id # Null,
           r.status # Malformed, r.employment_type # Malformed
    PROVE  Columns(Patched(e, r)) =
             [column \in DOMAIN Columns(e) |->
                IF column \in DOMAIN r THEN Store!Or(r[column], Columns(e)[column])
                ELSE Columns(e)[column]]
<1> DEFINE c == Columns(e)
<1>1. c = [id |-> e.id, employee_code |-> e.employee_code, department_id |-> e.department_id,
           designation_id |-> e.designation_id, full_name |-> e.full_name, email |-> e.email,
           status |-> e.status, employment_type |-> e.employment_type]
  BY EmployeeColumns
<1>2. Columns(Patched(e, r)) =
        [id |-> e.id, employee_code |-> e.employee_code,
         department_id |-> Store!Or(r.department_id, e.department_id),
         designation_id |-> Store!Or(r.designation_id, e.designation_id),
         full_name |-> Store!Or(r.full_name, e.full_name),
         email |-> Store!Or(r.email, e.email), status |-> Store!Or(r.status, e.status),
         employment_type |-> Store!Or(r.employment_type, e.employment_type)]
  <2>1. Patched(e, r) \in EmployeeRows
    BY PatchedTyped
  <2>2. /\ Patched(e, r).id = e.id /\ Patched(e, r).employee_code = e.employee_code
        /\ Patched(e, r).department_id = Store!Or(r.department_id, e.department_id)
        /\ Patched(e, r).designation_id = Store!Or(r.designation_id, e.designation_id)
        /\ Patched(e, r).full_name = Store!Or(r.full_name, e.full_name)
        /\ Patched(e, r).email = Store!Or(r.email, e.email)
        /\ Patched(e, r).status = Store!Or(r.status, e.status)
        /\ Patched(e, r).employment_type = Store!Or(r.employment_type, e.employment_type)
    BY DEF Patched, EmployeeRows, Coalesce, Store!Or
  <2> QED
    BY <2>1, <2>2, EmployeeColumns
<1>3. DOMAIN c = {"id", "employee_code", "department_id", "designation_id", "full_name",
                  "email", "status", "employment_type"}
  BY <1>1
<1>4. /\ {"id", "department_id", "designation_id", "full_name", "email", "status",
          "employment_type"} \subseteq DOMAIN r
      /\ "employee_code" \notin DOMAIN r
  BY DEF UpdateEmployeeRequest
<1>5. Store!Or(r.id, c.id) = e.id
  BY <1>1 DEF Store!Or
<1> DEFINE f == [column \in DOMAIN c |-> IF column \in DOMAIN r THEN Store!Or(r[column], c[column])
                                         ELSE c[column]]
<1>6. /\ f.id = e.id /\ f.employee_code = e.employee_code
      /\ f.department_id = Store!Or(r.department_id, e.department_id)
      /\ f.designation_id = Store!Or(r.designation_id, e.designation_id)
      /\ f.full_name = Store!Or(r.full_name, e.full_name)
      /\ f.email = Store!Or(r.email, e.email)
      /\ f.status = Store!Or(r.status, e.status)
      /\ f.employment_type = Store!Or(r.employment_type, e.employment_type)
  BY <1>1, <1>3, <1>4, <1>5
<1>7. DOMAIN f = DOMAIN c /\ f = [column \in DOMAIN f |-> f[column]]
  OBVIOUS
<1> HIDE DEF f, c
<1>8. f = Columns(Patched(e, r))
  BY <1>2, <1>3, <1>6, <1>7
<1> QED
  BY <1>8 DEF f, c

LEMMA updateEmployeeRefines ==
    ASSUME Sound, NEW w \in Workers, updateEmployee(w), req[w].organization_id = Observed
    PROVE  Store!Patch(w)
<1> DEFINE r == req[w]
           found == WithId(employees, Observed, r.id)
<1>0. Typed
  BY DEF Sound
<1>1. pc[w] = "query" /\ r.op = "updateEmployee"
  BY DEF updateEmployee, At
<1>2. /\ r \in UpdateEmployeeRequest /\ r.id \in Ids
      /\ r.status # Malformed /\ r.employment_type # Malformed
  BY <1>0, <1>1, QueryRequests, PassedChecks DEF HasPathId
<1>3. Store!Called(w, "updateEmployee") /\ Made[w] = r
  BY <1>0, <1>1, Calling
<1>4. ASSUME found = {}, Return(w, NotFound), UNCHANGED tables PROVE Store!Patch(w)
  <2>1. r.id \notin Store!IdsOf(View(employees))
    BY <1>0, <1>4, Tables, ViewIds, ViewWithId
  <2>2. Verdict(NotFound) = "missing" /\ View(NotFound.rows) = {} /\ NotFound.total = 0
    BY OthersSay, ViewNothing DEF Verdict
  <2>3. Store!Conclude(w, "missing", {}, 0)
    BY <1>0, <1>1, <1>4, <2>2, ReturnConcludes
  <2> QED
    BY <1>3, <1>4, <2>1, <2>3 DEF Store!Patch, tables
<1>5. ASSUME NEW e \in found,
             \/ /\ EmployeeState(departments, employees, Patched(e, r)) = Ok
                /\ employees' = Replace(employees, e, Patched(e, r))
                /\ Return(w, Answer("ok", {Patched(e, r)}))
                /\ UNCHANGED <<departments, issued>>
             \/ /\ EmployeeState(departments, employees, Patched(e, r)) # Ok
                /\ Return(w, employeeConstraintError(
                                EmployeeState(departments, employees, Patched(e, r))))
                /\ UNCHANGED tables
      PROVE  Store!Patch(w)
  <2> DEFINE new == Patched(e, r)
  <2>1. /\ e \in employees /\ e \in EmployeeRows /\ e.organization_id = Observed
        /\ e.id = r.id
    BY <1>0, <1>5, Tables DEF WithId
  <2>2. new \in EmployeeRows /\ new.organization_id = Observed
    BY <1>2, <2>1, PatchedTyped
  <2>3. r.id # Null
    BY <1>2, TenancyAssumption
  <2>4. Columns(new) = [column \in DOMAIN Columns(e) |->
                          IF column \in DOMAIN Made[w]
                          THEN Store!Or(Made[w][column], Columns(e)[column])
                          ELSE Columns(e)[column]]
    BY <1>2, <1>3, <2>1, <2>3, PatchViewed
  <2>5. Columns(e) \in View(employees) /\ Columns(e).id = Made[w].id
    BY <1>3, <2>1, EmployeeColumns DEF View, OfTenant
  <2> HIDE DEF new
  <2>6. View(Replace(employees, e, new)) = (View(employees) \ {Columns(e)}) \cup {Columns(new)}
    <3>1. View(employees \ {e}) = View(employees) \ {Columns(e)}
      BY <1>0, <2>1, Tables, EmployeesDistinguished DEF View, OfTenant, Distinguished
    <3> QED
      BY <2>2, <3>1, ViewAdds DEF Replace
  <2>7. Store!Store(w, {Columns(e)}, Columns(new))
    <3>1. \/ /\ EmployeeState(departments, employees, new) = Ok
             /\ View(employees)' = (View(employees) \ {Columns(e)}) \cup {Columns(new)}
             /\ Return(w, Answer("ok", {new}))
          \/ /\ EmployeeState(departments, employees, new) # Ok
             /\ employees' = employees
             /\ Return(w, employeeConstraintError(EmployeeState(departments, employees, new)))
      BY <1>5, <2>6 DEF new, tables
    <3> QED
      BY <1>0, <1>1, <2>2, <3>1, RowStored
  <2>8. departments' = departments
    BY <1>5 DEF tables
  <2> QED
    BY <1>3, <2>4, <2>5, <2>7, <2>8 DEF Store!Patch
<1> QED
  BY <1>4, <1>5 DEF updateEmployee

LEMMA deleteEmployeeRefines ==
    ASSUME Typed, NEW w \in Workers, deleteEmployee(w), req[w].organization_id = Observed
    PROVE  Store!Dismiss(w)
<1> DEFINE i == req[w].id
           found == WithId(employees, Observed, i)
           a == IF found = {} THEN NotFound ELSE Answer("no_content", {})
<1>1. pc[w] = "query" /\ req[w].op = "deleteEmployee"
  BY DEF deleteEmployee, At
<1>2. Store!Called(w, "deleteEmployee") /\ Made[w] = req[w]
  BY <1>1, Calling
<1>3. /\ Return(w, a) /\ departments' = departments
      /\ employees' = employees \ found
  BY DEF deleteEmployee, WithoutEmployee
<1>4. View(employees)' = {e \in View(employees) : e.id # i}
  <2>1. \A e \in employees : Columns(e).id = e.id
    BY Tables, EmployeeColumns
  <2> QED
    BY <1>3, <2>1 DEF View, OfTenant, WithId
<1>5. found = {} <=> i \notin Store!IdsOf(View(employees))
  BY Tables, ViewIds, ViewWithId
<1>6. /\ Verdict(a) = IF i \in Store!IdsOf(View(employees)) THEN "done" ELSE "missing"
      /\ View(a.rows) = {} /\ a.total = 0
  <2>1. Verdict(NotFound) = "missing" /\ View(NotFound.rows) = {} /\ NotFound.total = 0
    BY OthersSay, ViewNothing DEF Verdict
  <2>2. /\ Answer("no_content", {}).kind = "no_content" /\ Answer("no_content", {}).rows = {}
        /\ Answer("no_content", {}).total = 0
    BY DEF Answer
  <2>3. Verdict(Answer("no_content", {})) = "done"
    BY <2>2, Done
  <2> QED
    BY <1>5, <2>1, <2>2, <2>3, ViewNothing
<1> HIDE DEF a
<1>7. Store!Conclude(w, IF i \in Store!IdsOf(View(employees)) THEN "done" ELSE "missing", {}, 0)
  BY <1>1, <1>3, <1>6, ReturnConcludes
<1> QED
  BY <1>2, <1>3, <1>4, <1>7 DEF Store!Dismiss

-----------------------------------------------------------------------------
(* Steps. *)

LEMMA StatementRefines ==
    ASSUME Sound, NEW w \in Workers, Statement(w), req[w].organization_id = Observed
    PROVE  Store!Perform(w)
BY listDepartmentsRefines, createDepartmentRefines, deleteDepartmentRefines,
   ListEmployeesRefines, CountEmployeesRefines, getEmployeeRefines,
   createEmployeeRefines, updateEmployeeRefines, deleteEmployeeRefines
   DEF Sound, Statement, Store!Perform

LEMMA ReceiveRefines ==
    ASSUME Typed, NEW w \in Workers, NEW r \in Requests, Receive(w, r)
    PROVE  IF r.organization_id = Observed THEN Store!Call(w, r)
           ELSE Made' = Made /\ Seen' = Seen /\ Told' = Told
<1>1. /\ pc[w] = "idle" /\ req' = [req EXCEPT ![w] = r] /\ page' = page
      /\ page[w] = {} /\ resp[w] = NoAnswer /\ UNCHANGED tables
  BY DEF Receive, Typed, Served, tables
<1>2. PICK label \in {"query", "reply"} :
        /\ pc' = [pc EXCEPT ![w] = label]
        /\ label = "query" <=> EarlyAnswer(r) = {}
  BY DEF Receive, Goto
<1>3. PICK a : /\ resp' = [resp EXCEPT ![w] = a]
               /\ IF EarlyAnswer(r) = {} THEN a = NoAnswer ELSE a \in EarlyAnswer(r)
  <2>1. CASE EarlyAnswer(r) = {}
    BY <1>1, <2>1 DEF Receive, Typed, TypeOK
  <2>2. CASE EarlyAnswer(r) # {}
    BY <2>2 DEF Receive
  <2> QED
    BY <2>1, <2>2
<1>4. \A v \in Workers \ {w} : ServedFor(v)' = ServedFor(v)
  BY <1>1, <1>2 DEF ServedFor, Typed, TypeOK
<1>5. ~ ServedFor(w) /\ (ServedFor(w)' <=> r.organization_id = Observed)
  BY <1>1, <1>2 DEF ServedFor, Typed, TypeOK
<1>6. CASE r.organization_id # Observed
  <2>1. \A v \in Workers : ServedFor(v)' = ServedFor(v)
    BY <1>4, <1>5, <1>6 DEF ServedFor
  <2> QED
    BY <1>1, <1>3, <1>5, <1>6, <2>1 DEF Made, Seen, Told, Typed, TypeOK
<1>7. CASE r.organization_id = Observed
  <2>1. Made' = [Made EXCEPT ![w] = r] /\ Made[w] = Null
    BY <1>1, <1>4, <1>5, <1>7 DEF Made, Typed, TypeOK
  <2>2. Seen' = Seen
    BY <1>1, <1>4, <1>5, <1>7, ViewNothing DEF Seen, Typed, TypeOK
  <2>3. Told' = [Told EXCEPT ![w] = Answered(a)]
    BY <1>3, <1>4, <1>5, <1>7 DEF Told, Typed, TypeOK
  <2>4. Answered(a) = IF EarlyAnswer(r) = {} THEN Store!Pending ELSE Store!Result("refused", {}, 0)
    <3>1. CASE EarlyAnswer(r) = {}
      BY <1>3, <3>1, Verdicts
    <3>2. CASE EarlyAnswer(r) # {}
      <4>1. a.kind \in {"unauthenticated", "validation"} /\ a.rows = {} /\ a.total = 0
        BY <1>3, <3>2, EarlyAnswersReply
      <4>2. Verdict(a) = "refused"
        BY <4>1, OthersSay DEF Verdict
      <4> QED
        BY <3>2, <4>1, <4>2, ViewNothing DEF Answered, Store!Result
    <3> QED
      BY <3>1, <3>2
  <2> QED
    BY <1>1, <1>7, <2>1, <2>2, <2>3, <2>4 DEF Store!Call, tables
<1> QED
  BY <1>6, <1>7

LEMMA FaultRefines ==
    ASSUME Typed, NEW w \in Workers, Fault(w), req[w].organization_id = Observed
    PROVE  Store!Fail(w)
<1>1. /\ pc[w] \in {"query", "count"} /\ pc' = [pc EXCEPT ![w] = "reply"]
      /\ resp' = [resp EXCEPT ![w] = Faulted] /\ req' = req /\ page' = page
      /\ departments' = departments /\ employees' = employees
  BY DEF Fault, Goto
<1>2. Made[w] # Null /\ Told[w] = Store!Pending
  BY <1>1, Calling DEF Store!Called
<1>3. ServedFor(w) /\ \A v \in Workers : ServedFor(v)' = ServedFor(v)
  BY <1>1 DEF ServedFor, Typed, TypeOK
<1>4. Made' = Made /\ Seen' = Seen
  BY <1>1, <1>3 DEF Made, Seen
<1>5. Told' = [Told EXCEPT ![w] = Answered(Faulted)]
  BY <1>1, <1>3 DEF Told, Typed, TypeOK
<1> QED
  BY <1>1, <1>2, <1>4, <1>5, Verdicts DEF Store!Fail

LEMMA RespondRefines ==
    ASSUME Typed, Replied, NEW w \in Workers, Respond(w), req[w].organization_id = Observed
    PROVE  Store!Finish(w)
<1>1. /\ pc[w] = "reply" /\ pc' = [pc EXCEPT ![w] = "idle"]
      /\ req' = [req EXCEPT ![w] = Null] /\ page' = [page EXCEPT ![w] = {}]
      /\ resp' = [resp EXCEPT ![w] = NoAnswer]
      /\ departments' = departments /\ employees' = employees
  BY DEF Respond, Goto, tables
<1>2. /\ ServedFor(w) /\ ~ ServedFor(w)'
      /\ \A v \in Workers \ {w} : ServedFor(v)' = ServedFor(v)
  BY <1>1 DEF ServedFor, Typed, TypeOK
<1>3. Made[w] # Null /\ Told[w] # Store!Pending
  <2>1. req[w] # Null
    BY <1>1, ApiAssumption DEF Typed, Served
  <2>2. resp[w].kind # "none"
    BY <1>1 DEF Replied
  <2> QED
    BY <1>2, <2>1, <2>2, Verdicts DEF Made, Told
<1>4. Made' = [Made EXCEPT ![w] = Null]
  BY <1>1, <1>2 DEF Made, Typed, TypeOK
<1>5. Seen' = [Seen EXCEPT ![w] = {}]
  BY <1>1, <1>2 DEF Seen, Typed, TypeOK
<1>6. Told' = [Told EXCEPT ![w] = Answered(NoAnswer)]
  BY <1>1, <1>2 DEF Told, Typed, TypeOK
<1> QED
  BY <1>1, <1>3, <1>4, <1>5, <1>6, Verdicts DEF Store!Finish

(* What other organisations do does not show in the tables either. *)
LEMMA OtherTablesHidden ==
    ASSUME Typed, NEW w \in Workers, req[w].organization_id # Observed,
           Statement(w) \/ Fault(w) \/ Respond(w)
    PROVE  View(departments)' = View(departments) /\ View(employees)' = View(employees)
<1>1. CASE UNCHANGED <<departments, employees>>
  BY <1>1
<1>2. CASE Writes(req[w].organization_id)
  BY <1>2, WritesIsolated DEF View
<1>3. UNCHANGED <<departments, employees>> \/ Writes(req[w].organization_id)
  <2>1. CASE \/ createDepartment(w) \/ deleteDepartment(w)
             \/ createEmployee(w) \/ updateEmployee(w) \/ deleteEmployee(w)
    BY <2>1, WritesEffect DEF tables
  <2>2. CASE \/ listDepartments(w) \/ getEmployee(w) \/ ListEmployees(w)
             \/ CountEmployees(w) \/ Fault(w) \/ Respond(w)
    BY <2>2 DEF listDepartments, getEmployee, ListEmployees, CountEmployees, Fault, Respond,
         tables
  <2> QED
    BY <2>1, <2>2 DEF Statement
<1> QED
  BY <1>1, <1>2, <1>3

LEMMA StepRefines == Sound /\ Replied /\ [Next]_vars => [Store!StoreNext]_(Store!storeVars)
<1> SUFFICES ASSUME Sound, Replied, [Next]_vars
             PROVE  [Store!StoreNext]_(Store!storeVars)
  OBVIOUS
<1>0. Typed
  BY DEF Sound
<1> DEFINE Hidden == /\ View(departments)' = View(departments)
                     /\ View(employees)' = View(employees)
                     /\ Made' = Made /\ Seen' = Seen /\ Told' = Told
<1>1. ASSUME NEW w \in Workers, NEW r \in Requests, Receive(w, r)
      PROVE  Store!StoreNext \/ Hidden
  <2>1. CASE r.organization_id = Observed
    <3>1. Store!Call(w, r)
      BY <1>0, <1>1, <2>1, ReceiveRefines
    <3> QED
      BY <2>1, <3>1 DEF Store!StoreNext
  <2>2. CASE r.organization_id # Observed
    <3>1. Made' = Made /\ Seen' = Seen /\ Told' = Told
      BY <1>0, <1>1, <2>2, ReceiveRefines
    <3>2. departments' = departments /\ employees' = employees
      BY <1>1 DEF Receive
    <3> QED
      BY <3>1, <3>2
  <2> QED
    BY <2>1, <2>2
<1>2. ASSUME NEW w \in Workers, Statement(w) \/ Fault(w) \/ Respond(w)
      PROVE  Store!StoreNext \/ Hidden
  <2>1. CASE req[w].organization_id # Observed
    BY <1>0, <1>2, <2>1, OtherCallsHidden, OtherTablesHidden
  <2>2. CASE req[w].organization_id = Observed
    <3>1. Store!Perform(w) \/ Store!Fail(w) \/ Store!Finish(w)
      BY <1>0, <1>2, <2>2, StatementRefines, FaultRefines, RespondRefines
    <3> QED
      BY <3>1 DEF Store!StoreNext
  <2> QED
    BY <2>1, <2>2
<1>3. ASSUME UNCHANGED vars PROVE Hidden
  <2>1. \A v \in Workers : ServedFor(v)' = ServedFor(v)
    BY <1>3 DEF vars, ServedFor
  <2> QED
    BY <1>3, <2>1 DEF vars, Made, Seen, Told
<1> HIDE DEF Hidden
<1>4. Store!StoreNext \/ Hidden
  BY <1>1, <1>2, <1>3 DEF Next
<1> QED
  BY <1>4 DEF Hidden, Store!storeVars

LEMMA InitRefines == Init => Store!StoreInit
<1> SUFFICES ASSUME Init PROVE Store!StoreInit
  OBVIOUS
<1>1. \A w \in Workers : ~ ServedFor(w)
  BY DEF Init, ServedFor
<1>2. /\ Made = [w \in Workers |-> Null] /\ Seen = [w \in Workers |-> {}]
      /\ Told = [w \in Workers |-> Store!Pending]
  BY <1>1, Verdicts DEF Made, Seen, Told
<1> QED
  BY <1>2 DEF Init, Store!StoreInit

(* The service is a store of its own to every organisation that looks:     *)
(* each answer it gets is true at one moment between request and answer,   *)
(* and nothing another organisation does ever shows in it.                 *)
THEOREM Implements == Spec => ImplementsStore
<1>1. Init => Replied
  BY DEF Init, Replied
<1>2. Sound => Typed
  BY DEF Sound
<1>3. Spec => []Replied
  BY <1>1, <1>2, NextReplies, SoundInvariant, PTL DEF Spec
<1> QED
  BY <1>3, InitRefines, StepRefines, SoundInvariant, PTL
     DEF Spec, ImplementsStore, Store!StoreSpec
=============================================================================
