----------------------------- MODULE TenantStore -----------------------------
(***************************************************************************)
(* What the API promises ONE organisation, as if no other existed: a store *)
(* of departments and employees that performs each call at one moment      *)
(* between the call and its answer, or fails and may still have performed  *)
(* it.  There is no organisation id in this module; rows of other tenants  *)
(* neither show nor matter, whatever they contain.                         *)
(*                                                                         *)
(* A listing of employees is the one call made of two moments: its page    *)
(* is read at one and its total at a later one.                            *)
(***************************************************************************)
EXTENDS Paging

CONSTANTS
    Known,         \* whether the organisation exists
    Workers, Calls,
    Valid,         \* the calls that pass the request checks
    Ids, Titles,   \* row ids; ids of the organisation's designations
    Lower, Trim,
    Probation, FullTime,
    SeedDepts, SeedStaff

VARIABLES depts, staff, call, seen, outcome

storeVars == <<depts, staff, call, seen, outcome>>

Result(verdict, rows, total) == [verdict |-> verdict, rows |-> rows, total |-> total]
Pending == Result("pending", {}, 0)
Failed == Result("failed", {}, 0)

IdsOf(rows) == {x.id : x \in rows}
Or(new, old) == IF new = Null THEN old ELSE new

StoreInit ==
    /\ depts = SeedDepts
    /\ staff = SeedStaff
    /\ call = [w \in Workers |-> Null]
    /\ seen = [w \in Workers |-> {}]
    /\ outcome = [w \in Workers |-> Pending]

Called(w, op) == call[w] # Null /\ call[w].op = op /\ outcome[w] = Pending

Conclude(w, verdict, rows, total) ==
    /\ \E r \in {Result(verdict, rows, total), Failed} :
           outcome' = [outcome EXCEPT ![w] = r]
    /\ UNCHANGED <<call, seen>>

Call(w, c) ==
    /\ call[w] = Null
    /\ call' = [call EXCEPT ![w] = c]
    /\ outcome' = [outcome EXCEPT ![w] =
                     IF c \in Valid THEN Pending ELSE Result("refused", {}, 0)]
    /\ UNCHANGED <<depts, staff, seen>>

Fail(w) ==
    /\ call[w] # Null /\ outcome[w] = Pending
    /\ outcome' = [outcome EXCEPT ![w] = Failed]
    /\ UNCHANGED <<depts, staff, call, seen>>

Finish(w) ==
    /\ call[w] # Null /\ outcome[w] # Pending
    /\ call' = [call EXCEPT ![w] = Null]
    /\ seen' = [seen EXCEPT ![w] = {}]
    /\ outcome' = [outcome EXCEPT ![w] = Pending]
    /\ UNCHANGED <<depts, staff>>

-----------------------------------------------------------------------------
ListDepts(w) ==
    /\ Called(w, "listDepartments")
    /\ Conclude(w, "done", depts, Cardinality(depts))
    /\ UNCHANGED <<depts, staff>>

AddDept(w) ==
    /\ Called(w, "createDepartment")
    /\ \E i \in Ids \ IdsOf(depts) :
         LET d == [id |-> i, name |-> Trim[call[w].name], parent_id |-> call[w].parent_id]
             clash == \E x \in depts : Lower[x.name] = Lower[d.name]
             fits == Known /\ d.parent_id \in IdsOf(depts) \cup {Null}
         IN \/ clash /\ Conclude(w, "conflict", {}, 0) /\ UNCHANGED depts
            \/ ~ clash /\ ~ fits /\ Conclude(w, "refused", {}, 0) /\ UNCHANGED depts
            \/ /\ ~ clash /\ fits
               /\ depts' = depts \cup {d}
               /\ Conclude(w, "done", {d}, 0)
    /\ UNCHANGED staff

(* Removing a department clears every mention of it in the same moment. *)
DropDept(w) ==
    /\ Called(w, "deleteDepartment")
    /\ LET i == call[w].id
           Unless(x) == IF x = i THEN Null ELSE x
       IN IF i \in IdsOf(depts)
          THEN /\ depts' = {[d EXCEPT !.parent_id = Unless(@)] : d \in {x \in depts : x.id # i}}
               /\ staff' = {[e EXCEPT !.department_id = Unless(@)] : e \in staff}
               /\ Conclude(w, "done", {}, 0)
          ELSE Conclude(w, "missing", {}, 0) /\ UNCHANGED <<depts, staff>>

Asked(w) == {e \in staff : /\ call[w].department_id \in {Null, e.department_id}
                           /\ call[w].status \in {Null, e.status}}

ReadPage(w) ==
    /\ Called(w, "listEmployees")
    /\ \E p \in Pages(Asked(w), Limit(call[w].limit), Offset(call[w].offset)) :
           seen' = [seen EXCEPT ![w] = p]
    /\ UNCHANGED <<depts, staff, call, outcome>>

ReadTotal(w) ==
    /\ Called(w, "listEmployees")
    /\ Conclude(w, "done", seen[w], Cardinality(Asked(w)))
    /\ UNCHANGED <<depts, staff>>

Look(w) ==
    /\ Called(w, "getEmployee")
    /\ LET found == {e \in staff : e.id = call[w].id}
       IN Conclude(w, IF found = {} THEN "missing" ELSE "done", found, 0)
    /\ UNCHANGED <<depts, staff>>

Clash(e) == \E x \in staff : /\ x.id # e.id
                             /\ \/ Lower[x.employee_code] = Lower[e.employee_code]
                                \/ Lower[x.email] = Lower[e.email]
Fits(e) == /\ Known
           /\ e.department_id \in IdsOf(depts) \cup {Null}
           /\ e.designation_id \in Titles \cup {Null}

(* The row e takes the place of the rows old, unless a key or a reference  *)
(* forbids it.                                                             *)
Store(w, old, e) ==
    \/ Clash(e) /\ Conclude(w, "conflict", {}, 0) /\ UNCHANGED staff
    \/ ~ Clash(e) /\ ~ Fits(e) /\ Conclude(w, "refused", {}, 0) /\ UNCHANGED staff
    \/ /\ ~ Clash(e) /\ Fits(e)
       /\ staff' = (staff \ old) \cup {e}
       /\ Conclude(w, "done", {e}, 0)

Hire(w) ==
    /\ Called(w, "createEmployee")
    /\ \E i \in Ids \ IdsOf(staff) :
         Store(w, {}, [id |-> i, employee_code |-> Trim[call[w].employee_code],
                       department_id |-> call[w].department_id,
                       designation_id |-> call[w].designation_id,
                       full_name |-> Trim[call[w].full_name],
                       email |-> Trim[call[w].email],
                       status |-> Or(call[w].status, Probation),
                       employment_type |-> Or(call[w].employment_type, FullTime)])
    /\ UNCHANGED depts

(* A patch replaces the columns it names and no other; null names none. *)
Patch(w) ==
    /\ Called(w, "updateEmployee")
    /\ \/ /\ call[w].id \notin IdsOf(staff)
          /\ Conclude(w, "missing", {}, 0)
          /\ UNCHANGED staff
       \/ \E e \in staff :
            /\ e.id = call[w].id
            /\ Store(w, {e}, [column \in DOMAIN e |->
                                IF column \in DOMAIN call[w]
                                THEN Or(call[w][column], e[column]) ELSE e[column]])
    /\ UNCHANGED depts

Dismiss(w) ==
    /\ Called(w, "deleteEmployee")
    /\ staff' = {e \in staff : e.id # call[w].id}
    /\ Conclude(w, IF call[w].id \in IdsOf(staff) THEN "done" ELSE "missing", {}, 0)
    /\ UNCHANGED depts

Perform(w) ==
    \/ ListDepts(w) \/ AddDept(w) \/ DropDept(w) \/ ReadPage(w) \/ ReadTotal(w)
    \/ Look(w) \/ Hire(w) \/ Patch(w) \/ Dismiss(w)

StoreNext == \E w \in Workers :
    (\E c \in Calls : Call(w, c)) \/ Perform(w) \/ Fail(w) \/ Finish(w)

StoreSpec == StoreInit /\ [][StoreNext]_storeVars
=============================================================================
