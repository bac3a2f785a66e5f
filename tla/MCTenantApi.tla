----------------------------- MODULE MCTenantApi -----------------------------
(* Two organisations and one that does not exist, seeded as dev.sql seeds  *)
(* them: departments and employees in the first, a department in the       *)
(* second.  The requests are the ones that meet: same names in different   *)
(* case and spacing, ids of the other tenant, deletes of what others name. *)
EXTENDS TenantRefinement, TenantSchema, TLC

CONSTANTS o1, o2, o3, eng, acme, dev, ada, n1, n2, w1, w2

McTexts == {"", "a", "A", " a", "b"}
McLower == ("" :> "") @@ ("a" :> "a") @@ ("A" :> "a") @@ (" a" :> " a") @@ ("b" :> "b")
McTrim == ("" :> "") @@ ("a" :> "a") @@ ("A" :> "A") @@ (" a" :> "a") @@ ("b" :> "b")
McRank == ("" :> 0) @@ (" a" :> 1) @@ ("a" :> 2) @@ ("A" :> 3) @@ ("b" :> 4)

McDesignations == {[organization_id |-> o1, id |-> dev]}
McDepartments ==
    {[organization_id |-> o1, id |-> eng, name |-> "a", parent_id |-> Null],
     [organization_id |-> o2, id |-> acme, name |-> "a", parent_id |-> Null]}
McEmployees ==
    {[organization_id |-> o1, id |-> ada, employee_code |-> "a", department_id |-> eng,
      designation_id |-> dev, full_name |-> "a", email |-> "a",
      status |-> "active", employment_type |-> "full_time"]}

NewDepartment(o, name, parent) ==
    [op |-> "createDepartment", organization_id |-> o, decodes |-> TRUE,
     name |-> name, parent_id |-> parent]
ById(op, o, i) == [op |-> op, organization_id |-> o, id |-> i]
List(o, department, limit, offset) ==
    [op |-> "listEmployees", organization_id |-> o, department_id |-> department,
     status |-> Null, limit |-> limit, offset |-> offset]
NewEmployee(o, text, department, designation) ==
    [op |-> "createEmployee", organization_id |-> o, decodes |-> TRUE,
     employee_code |-> text, department_id |-> department,
     designation_id |-> designation, full_name |-> text, email |-> text,
     status |-> Null, employment_type |-> Null]
PatchOf(o, i, department, email) ==
    [op |-> "updateEmployee", organization_id |-> o, id |-> i, decodes |-> TRUE,
     department_id |-> department, designation_id |-> Null, full_name |-> Null,
     email |-> email, status |-> Null, employment_type |-> Null]

(* Departments created under departments that come and go. *)
TreeRequests ==
    {NewDepartment(o1, "b", eng), NewDepartment(o1, "A", n1), NewDepartment(o1, "A", n2),
     NewDepartment(o1, "", n1), NewDepartment(o1, "b", n2), NewDepartment(o2, "b", n1),
     ById("deleteDepartment", o1, eng), ById("deleteDepartment", o1, n1),
     ById("deleteDepartment", o1, n2), PatchOf(o1, ada, n1, Null), PatchOf(o1, ada, n2, Null)}

(* Everything the handlers distinguish, once. *)
AllRequests == TreeRequests \cup
    {[op |-> "listDepartments", organization_id |-> o1],
     NewDepartment(o1, "b", eng), NewDepartment(o2, "b", eng),
     NewDepartment(o3, "b", Null), NewDepartment(o1, "", Null),
     NewDepartment(Null, "b", Null), ById("deleteDepartment", o1, eng),
     ById("deleteDepartment", o2, eng), ById("deleteDepartment", Malformed, eng),
     List(o1, Null, 1, 0), List(o1, eng, Null, 1), List(o2, Malformed, 9, Malformed),
     ById("getEmployee", o1, ada), ById("getEmployee", o2, ada),
     ById("getEmployee", o1, Malformed),
     NewEmployee(o1, "b", eng, dev), NewEmployee(o2, "b", eng, Null),
     NewEmployee(o1, " a", Null, Null),
     NewEmployee(o1, "b", Null, n2),
     [NewEmployee(o1, "b", Null, Null) EXCEPT !.decodes = FALSE],
     [NewEmployee(o1, "", Null, Null) EXCEPT !.status = Malformed],
     PatchOf(o1, ada, Null, "b"), PatchOf(o1, n1, Null, "A"),
     PatchOf(o2, ada, acme, Null),
     [PatchOf(o1, ada, Null, Null) EXCEPT !.status = Malformed],
     [PatchOf(o1, ada, Null, Null) EXCEPT !.employment_type = Malformed],
     ById("deleteEmployee", o1, ada), ById("deleteEmployee", o2, ada)}

(* What two organisations do while the first one looks. *)
TenantRequests ==
    {[op |-> "listDepartments", organization_id |-> o1],
     NewDepartment(o1, "b", eng), NewDepartment(o1, "b", acme), NewDepartment(o2, "b", acme),
     ById("deleteDepartment", o1, eng), ById("deleteDepartment", o2, acme),
     List(o1, Null, 1, 0), List(o3, Null, Null, Null),
     ById("getEmployee", o3, ada),
     NewEmployee(o1, "b", eng, dev), NewEmployee(o2, "b", Null, Null),
     NewDepartment(o3, "b", Null), PatchOf(o1, ada, n1, "b"),
     ById("deleteEmployee", o1, ada)}

Symmetry == Permutations({w1, w2})
=============================================================================
