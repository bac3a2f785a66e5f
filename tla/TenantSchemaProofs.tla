-------------------------- MODULE TenantSchemaProofs --------------------------
(***************************************************************************)
(* Every write of the handlers is one statement of the schema, for any     *)
(* number of organisations, rows, workers and requests.                    *)
(*                                                                         *)
(* All keys of departments, designations and employees are ON DELETE SET   *)
(* NULL.  So a DELETE takes one row and nothing refuses it, and what       *)
(* remains is to see that it clears the columns the handlers' model says.  *)
(***************************************************************************)
EXTENDS TenantSchema, TenantApiProofs

-----------------------------------------------------------------------------
(* The three tables in the catalogue of all. *)
OfHandlers == {"departments", "designations", "employees"}

LEMMA HandlersTables ==
    ASSUME NEW t \in OfHandlers
    PROVE  t \in DOMAIN Office /\ Office[t] = OrgStructure[t]
<1>1. t \notin DOMAIN Identity BY DEF Identity, OfHandlers
<1>2. t \notin DOMAIN Configuration BY DEF Configuration, OfHandlers
<1>3. t \in DOMAIN OrgStructure BY DEF OrgStructure, OfHandlers
<1>4. t \notin DOMAIN Leave BY DEF Leave, OfHandlers
<1>5. t \notin DOMAIN Payroll BY DEF Payroll, OfHandlers
<1>6. t \notin DOMAIN Crm BY DEF Crm, OfHandlers
<1>7. t \notin DOMAIN Projects BY DEF Projects, OfHandlers
<1>8. t \notin DOMAIN Work BY DEF Work, OfHandlers
<1>9. t \notin DOMAIN Masters BY DEF Masters, OfHandlers
<1>10. t \notin DOMAIN Quotations BY DEF Quotations, OfHandlers
<1>11. t \notin DOMAIN Sales BY DEF Sales, OfHandlers
<1>12. t \notin DOMAIN Purchases BY DEF Purchases, OfHandlers
<1>13. t \notin DOMAIN Ledger BY DEF Ledger, OfHandlers
<1>14. t \notin DOMAIN Operations BY DEF Operations, OfHandlers
<1>15. \A part \in Parts : t \in DOMAIN part => part = OrgStructure
  BY <1>1, <1>2, <1>4, <1>5, <1>6, <1>7, <1>8, <1>9, <1>10, <1>11, <1>12, <1>13, <1>14
  DEF Parts
<1>16. OrgStructure \in Parts
  BY DEF Parts
<1>17. t \in UNION {DOMAIN part : part \in Parts}
  BY <1>3, <1>16
<1>18. (CHOOSE part \in Parts : t \in DOMAIN part) = OrgStructure
  BY <1>3, <1>15, <1>16
<1> QED
  BY <1>17, <1>18 DEF Office

(* Their keys, all of them ON DELETE SET NULL. *)
LEMMA HandlersKeys ==
    ASSUME NEW x
    PROVE  /\ x.table = "departments" =>
                 Database!KeysOf(x) = {SetNull("parent_id", "departments")}
           /\ x.table = "designations" => Database!KeysOf(x) = {}
           /\ x.table = "employees" =>
                 Database!KeysOf(x) = {
                    SetNull("user_id", "users"), SetNull("department_id", "departments"),
                    SetNull("team_id", "teams"), SetNull("designation_id", "designations"),
                    SetNull("manager_id", "employees")}
<1>1. /\ OrgStructure["departments"] = {SetNull("parent_id", "departments")}
      /\ OrgStructure["designations"] = {}
      /\ OrgStructure["employees"] = {
            SetNull("user_id", "users"), SetNull("department_id", "departments"),
            SetNull("team_id", "teams"), SetNull("designation_id", "designations"),
            SetNull("manager_id", "employees")}
  BY DEF OrgStructure
<1> QED
  BY <1>1, HandlersTables DEF Database!KeysOf, OfHandlers

LEMMA HandlersColumns ==
    /\ Database!Columns("departments") = {"parent_id"}
    /\ Database!Columns("designations") = {}
    /\ Database!Columns("employees") =
          {"user_id", "department_id", "team_id", "designation_id", "manager_id"}
<1>1. /\ Office["departments"] = {SetNull("parent_id", "departments")}
      /\ Office["designations"] = {}
      /\ Office["employees"] = {
            SetNull("user_id", "users"), SetNull("department_id", "departments"),
            SetNull("team_id", "teams"), SetNull("designation_id", "designations"),
            SetNull("manager_id", "employees")}
  BY HandlersTables DEF OfHandlers, OrgStructure
<1>2. \A c, t : SetNull(c, t).column = c
  BY DEF SetNull
<1> QED
  BY <1>1, <1>2 DEF Database!Columns

(* A row of the three tables in the form the schema has it. *)
LEMMA DepartmentColumns ==
    ASSUME NEW d
    PROVE  /\ AsDepartment(d).table = "departments"
           /\ AsDepartment(d).id = d.id
           /\ AsDepartment(d).org = d.organization_id
           /\ AsDepartment(d).ref["parent_id"] = d.parent_id
BY DEF AsDepartment

LEMMA DesignationColumns ==
    ASSUME NEW x
    PROVE  /\ AsDesignation(x).table = "designations"
           /\ AsDesignation(x).id = x.id
           /\ AsDesignation(x).org = x.organization_id
BY DEF AsDesignation

LEMMA EmployeeColumns ==
    ASSUME NEW e
    PROVE  /\ AsEmployee(e).table = "employees"
           /\ AsEmployee(e).id = e.id
           /\ AsEmployee(e).org = e.organization_id
           /\ AsEmployee(e).ref["user_id"] = Null
           /\ AsEmployee(e).ref["team_id"] = Null
           /\ AsEmployee(e).ref["manager_id"] = Null
           /\ AsEmployee(e).ref["department_id"] = e.department_id
           /\ AsEmployee(e).ref["designation_id"] = e.designation_id
BY DEF AsEmployee

-----------------------------------------------------------------------------
LEMMA SetNullKeys ==
    ASSUME NEW c, NEW t
    PROVE  SetNull(c, t).column = c /\ SetNull(c, t).to = t /\ SetNull(c, t).rule = "set null"
BY DEF SetNull

(* What their keys refer to. *)
LEMMA DepartmentRefers ==
    ASSUME NEW d, NEW y
    PROVE  Database!Refers(AsDepartment(d), SetNull("parent_id", "departments"), y) <=>
              y.table = "departments" /\ y.org = d.organization_id /\ y.id = d.parent_id
BY DEF Database!Refers, SetNull, AsDepartment

LEMMA EmployeeRefers ==
    ASSUME NEW e, NEW y
    PROVE  /\ Database!Refers(AsEmployee(e), SetNull("department_id", "departments"), y) <=>
                y.table = "departments" /\ y.org = e.organization_id /\ y.id = e.department_id
           /\ \A c, t : Database!Refers(AsEmployee(e), SetNull(c, t), y) =>
                y.table = t /\ y.id = AsEmployee(e).ref[c]
<1>1. Database!Refers(AsEmployee(e), SetNull("department_id", "departments"), y) <=>
        y.table = "departments" /\ y.org = e.organization_id /\ y.id = e.department_id
  BY DEF Database!Refers, SetNull, AsEmployee
<1>2. ASSUME NEW c, NEW t, NEW x, Database!Refers(x, SetNull(c, t), y)
      PROVE  y.table = t /\ y.id = x.ref[c]
  BY <1>2 DEF Database!Refers, SetNull
<1> QED
  BY <1>1, <1>2

(* The columns of the keys of employees, one by one. *)
LEMMA EmployeeKeyColumns ==
    /\ SetNull("user_id", "users").column = "user_id"
    /\ SetNull("department_id", "departments").column = "department_id"
    /\ SetNull("team_id", "teams").column = "team_id"
    /\ SetNull("designation_id", "designations").column = "designation_id"
    /\ SetNull("manager_id", "employees").column = "manager_id"
BY SetNullKeys

(* What ON DELETE makes of a row when y goes. *)
LEMMA DepartmentCleared ==
    ASSUME NEW d \in DepartmentRows, NEW y
    PROVE  Database!Cleared(AsDepartment(d), {y}) =
              IF y.table = "departments" /\ y.org = d.organization_id /\ y.id = d.parent_id
              THEN AsDepartment([d EXCEPT !.parent_id = Null]) ELSE AsDepartment(d)
<1> DEFINE x == AsDepartment(d)
           hit == y.table = "departments" /\ y.org = d.organization_id /\ y.id = d.parent_id
           clears(c) == \E k \in Database!KeysOf(x), z \in {y} :
                           k.column = c /\ k.rule = "set null" /\ Database!Refers(x, k, z)
           ref == [parent_id |-> IF hit THEN Null ELSE d.parent_id]
<1> HIDE DEF hit, x
<1>1. clears("parent_id") <=> hit
  <2>1. Database!KeysOf(x) = {SetNull("parent_id", "departments")}
    BY HandlersKeys, DepartmentColumns DEF x
  <2>2. Database!Refers(x, SetNull("parent_id", "departments"), y) <=> hit
    BY DepartmentRefers DEF x, hit
  <2> QED
    BY <2>1, <2>2, SetNullKeys
<1> HIDE DEF clears
<1>2. [c \in Database!Columns("departments") |-> IF clears(c) THEN Null ELSE x.ref[c]] = ref
  <2>1. [c \in {"parent_id"} |-> IF clears(c) THEN Null ELSE x.ref[c]] = ref
    BY <1>1, DepartmentColumns DEF x
  <2> QED
    BY <2>1, HandlersColumns
<1>3. Database!Cleared(x, {y}) = [x EXCEPT !.ref = ref]
  BY <1>2, DepartmentColumns DEF Database!Cleared, clears, x
<1>4. [x EXCEPT !.ref = ref]
        = [table |-> "departments", id |-> d.id, org |-> d.organization_id, ref |-> ref]
  BY DEF x, AsDepartment
<1>5. CASE hit
  <2>1. LET e == [d EXCEPT !.parent_id = Null]
        IN  e.id = d.id /\ e.organization_id = d.organization_id /\ e.parent_id = Null
    BY DEF DepartmentRows
  <2>2. ref = [parent_id |-> Null]
    BY <1>5
  <2>3. AsDepartment([d EXCEPT !.parent_id = Null])
          = [table |-> "departments", id |-> d.id, org |-> d.organization_id, ref |-> ref]
    BY <2>1, <2>2 DEF AsDepartment
  <2> QED
    BY <1>3, <1>4, <1>5, <2>3 DEF hit, x
<1>6. CASE ~ hit
  <2>1. AsDepartment(d)
          = [table |-> "departments", id |-> d.id, org |-> d.organization_id, ref |-> ref]
    BY <1>6 DEF AsDepartment
  <2> QED
    BY <1>3, <1>4, <1>6, <2>1 DEF hit, x
<1> QED
  BY <1>5, <1>6

LEMMA DesignationCleared ==
    ASSUME NEW t, NEW y
    PROVE  Database!Cleared(AsDesignation(t), {y}) = AsDesignation(t)
<1> DEFINE x == AsDesignation(t)
<1>1. x.table = "designations" /\ x.ref = [c \in {} |-> Null]
  BY DEF AsDesignation
<1>2. [x EXCEPT !.ref = x.ref] = x
  BY DEF AsDesignation
<1> HIDE DEF x
<1>3. Database!Cleared(x, {y}) = [x EXCEPT !.ref = x.ref]
  BY <1>1, HandlersColumns DEF Database!Cleared
<1> QED
  BY <1>2, <1>3 DEF x

LEMMA EmployeeCleared ==
    ASSUME NEW e \in EmployeeRows, NEW y, y.table \in {"departments", "employees"}, y.id # Null
    PROVE  Database!Cleared(AsEmployee(e), {y}) =
              IF y.table = "departments" /\ y.org = e.organization_id /\ y.id = e.department_id
              THEN AsEmployee([e EXCEPT !.department_id = Null]) ELSE AsEmployee(e)
<1> DEFINE x == AsEmployee(e)
           hit == y.table = "departments" /\ y.org = e.organization_id /\ y.id = e.department_id
           clears(c) == \E k \in Database!KeysOf(x), z \in {y} :
                           k.column = c /\ k.rule = "set null" /\ Database!Refers(x, k, z)
           ref == [user_id |-> Null, team_id |-> Null, manager_id |-> Null,
                   department_id |-> IF hit THEN Null ELSE e.department_id,
                   designation_id |-> e.designation_id]
           columns == {"user_id", "department_id", "team_id", "designation_id", "manager_id"}
<1> HIDE DEF hit, x
<1>1. /\ clears("department_id") <=> hit
      /\ \A c \in columns \ {"department_id"} : ~ clears(c)
  <2>1. Database!KeysOf(x) = {
            SetNull("user_id", "users"), SetNull("department_id", "departments"),
            SetNull("team_id", "teams"), SetNull("designation_id", "designations"),
            SetNull("manager_id", "employees")}
    BY HandlersKeys, EmployeeColumns DEF x
  <2>2. Database!Refers(x, SetNull("department_id", "departments"), y) <=> hit
    BY EmployeeRefers DEF x, hit
  <2>3. /\ ~ Database!Refers(x, SetNull("user_id", "users"), y)
        /\ ~ Database!Refers(x, SetNull("team_id", "teams"), y)
        /\ ~ Database!Refers(x, SetNull("designation_id", "designations"), y)
    <3>1. y.table # "users" /\ y.table # "teams" /\ y.table # "designations"
      OBVIOUS
    <3>2. \A c, t : Database!Refers(x, SetNull(c, t), y) => y.table = t
      BY EmployeeRefers DEF x
    <3> QED
      BY <3>1, <3>2
  <2>4. ~ Database!Refers(x, SetNull("manager_id", "employees"), y)
    <3>1. y.id # x.ref["manager_id"]
      BY EmployeeColumns DEF x
    <3> QED
      BY <3>1, EmployeeRefers DEF x
  <2>5. clears("department_id") <=> hit
    <3>1. ASSUME clears("department_id") PROVE hit
      <4>1. PICK k \in Database!KeysOf(x) : k.column = "department_id" /\ Database!Refers(x, k, y)
        BY <3>1
      <4>2. k = SetNull("department_id", "departments")
        BY <2>1, <4>1, EmployeeKeyColumns
      <4> QED
        BY <2>2, <4>1, <4>2
    <3>2. ASSUME hit PROVE clears("department_id")
      <4>1. SetNull("department_id", "departments") \in Database!KeysOf(x)
        BY <2>1
      <4>2. SetNull("department_id", "departments").rule = "set null"
        BY DEF SetNull
      <4> QED
        BY <2>2, <3>2, <4>1, <4>2, EmployeeKeyColumns
    <3> QED
      BY <3>1, <3>2
  <2>6. ASSUME NEW c \in columns \ {"department_id"} PROVE ~ clears(c)
    <3> SUFFICES ASSUME NEW k \in Database!KeysOf(x), k.column = c, Database!Refers(x, k, y)
                 PROVE  FALSE
      OBVIOUS
    <3>1. k # SetNull("department_id", "departments")
      BY EmployeeKeyColumns
    <3> QED
      BY <2>1, <2>3, <2>4, <3>1
  <2> QED
    BY <2>5, <2>6
<1> HIDE DEF clears
<1>2. [c \in columns |-> IF clears(c) THEN Null ELSE x.ref[c]] = ref
  <2>1. \A c \in columns : (IF clears(c) THEN Null ELSE x.ref[c]) = ref[c]
    BY <1>1, EmployeeColumns DEF x
  <2>2. DOMAIN ref = columns /\ ref = [c \in DOMAIN ref |-> ref[c]]
    OBVIOUS
  <2> HIDE DEF ref
  <2> QED
    BY <2>1, <2>2
<1>3. Database!Cleared(x, {y}) = [x EXCEPT !.ref = ref]
  <2>1. x.table = "employees" /\ Database!Columns("employees") = columns
    BY HandlersColumns, EmployeeColumns DEF x
  <2> HIDE DEF ref, columns
  <2> QED
    BY <1>2, <2>1 DEF Database!Cleared, clears
<1>4. [x EXCEPT !.ref = ref]
        = [table |-> "employees", id |-> e.id, org |-> e.organization_id, ref |-> ref]
  BY DEF x, AsEmployee
<1>5. CASE hit
  <2>1. LET f == [e EXCEPT !.department_id = Null]
        IN  /\ f.id = e.id /\ f.organization_id = e.organization_id
            /\ f.department_id = Null /\ f.designation_id = e.designation_id
    BY DEF EmployeeRows
  <2>2. AsEmployee([e EXCEPT !.department_id = Null])
          = [table |-> "employees", id |-> e.id, org |-> e.organization_id, ref |-> ref]
    BY <1>5, <2>1 DEF AsEmployee
  <2> QED
    BY <1>3, <1>4, <1>5, <2>2 DEF hit, x
<1>6. CASE ~ hit
  <2>1. AsEmployee(e)
          = [table |-> "employees", id |-> e.id, org |-> e.organization_id, ref |-> ref]
    BY <1>6 DEF AsEmployee
  <2> QED
    BY <1>3, <1>4, <1>6, <2>1 DEF hit, x
<1> QED
  BY <1>5, <1>6

-----------------------------------------------------------------------------
(* A DELETE in these tables takes its row alone, and no key refuses it. *)
LEMMA RowTables == \A x \in Rows : x.table \in OfHandlers
<1>1. "departments" \in OfHandlers /\ "designations" \in OfHandlers /\ "employees" \in OfHandlers
  BY DEF OfHandlers
<1>2. /\ \A d \in departments : AsDepartment(d).table \in OfHandlers
      /\ \A x \in Designations : AsDesignation(x).table \in OfHandlers
      /\ \A e \in employees : AsEmployee(e).table \in OfHandlers
  BY <1>1, DepartmentColumns, DesignationColumns, EmployeeColumns
<1> QED
  BY <1>2 DEF Rows

LEMMA OnlySetNull ==
    ASSUME NEW x \in Rows, NEW k \in Database!KeysOf(x)
    PROVE  k.rule = "set null"
<1>1. x.table \in OfHandlers
  BY RowTables
<1>2. \/ k = SetNull("parent_id", "departments") \/ k = SetNull("user_id", "users")
      \/ k = SetNull("department_id", "departments") \/ k = SetNull("team_id", "teams")
      \/ k = SetNull("designation_id", "designations") \/ k = SetNull("manager_id", "employees")
  BY <1>1, HandlersKeys DEF OfHandlers
<1>3. PICK c, t : k = SetNull(c, t)
  BY <1>2
<1> QED
  BY <1>3 DEF SetNull

LEMMA DeletesOne ==
    ASSUME NEW x \in Rows, Rows' = {Database!Cleared(z, {x}) : z \in Rows \ {x}}
    PROVE  Database!Delete({x})
<1>1. \A z, y \in Rows : ~ Database!CascadesFrom(z, y)
  BY OnlySetNull DEF Database!CascadesFrom
<1>2. Database!Closed({x})
  BY <1>1 DEF Database!Closed
<1>3. Database!Gone({x}) = {x}
  BY <1>2 DEF Database!Gone
<1>4. ~ Database!Refuses({x})
  BY OnlySetNull DEF Database!Refuses
<1>5. Organizations' = Organizations
  OBVIOUS
<1> QED
  BY <1>3, <1>4, <1>5 DEF Database!Delete, Database!Removes

(* The rows but one. *)
LEMMA RowsWithoutDepartment ==
    ASSUME KeysAreUnique, NEW d \in departments
    PROVE  Rows \ {AsDepartment(d)} =
              {AsDepartment(c) : c \in departments \ {d}} \cup {AsDesignation(t) : t \in Designations}
              \cup {AsEmployee(e) : e \in employees}
<1>1. \A c \in departments : AsDepartment(c) = AsDepartment(d) => c = d
  <2>1. \A c \in departments : AsDepartment(c) = AsDepartment(d) => c.id = d.id
    BY DepartmentColumns
  <2> QED
    BY <2>1 DEF KeysAreUnique, Keyed, SameDepartment
<1>2. \A t : AsDesignation(t) # AsDepartment(d) /\ AsEmployee(t) # AsDepartment(d)
  BY DepartmentColumns, DesignationColumns, EmployeeColumns
<1> QED
  BY <1>1, <1>2 DEF Rows

LEMMA RowsWithoutEmployee ==
    ASSUME KeysAreUnique, NEW e \in employees
    PROVE  Rows \ {AsEmployee(e)} =
              {AsDepartment(d) : d \in departments} \cup {AsDesignation(t) : t \in Designations}
              \cup {AsEmployee(c) : c \in employees \ {e}}
<1>1. \A c \in employees : AsEmployee(c) = AsEmployee(e) => c = e
  <2>1. \A c \in employees : AsEmployee(c) = AsEmployee(e) => c.id = e.id
    BY EmployeeColumns
  <2> QED
    BY <2>1 DEF KeysAreUnique, Keyed, SameEmployee
<1>2. \A t : AsDesignation(t) # AsEmployee(e) /\ AsDepartment(t) # AsEmployee(e)
  BY DepartmentColumns, DesignationColumns, EmployeeColumns
<1> QED
  BY <1>1, <1>2 DEF Rows

(* DELETE of a department clears what its key and that of employees clear. *)
LEMMA DepartmentGoes ==
    ASSUME Typed, KeysAreUnique, NEW o, NEW i, DeletesDepartment(o, i),
           NEW d \in WithId(departments, o, i)
    PROVE  TableStep
<1> DEFINE y == AsDepartment(d)
           Left(c) == IF c.organization_id = o /\ c.parent_id = i
                      THEN [c EXCEPT !.parent_id = Null] ELSE c
           Detached(e) == IF e.organization_id = o /\ e.department_id = i
                          THEN [e EXCEPT !.department_id = Null] ELSE e
<1>1. /\ departments \in SUBSET DepartmentRows /\ employees \in SUBSET EmployeeRows
      /\ d \in departments /\ d.organization_id = o /\ d.id = i /\ d \in DepartmentRows
  BY DEF Typed, TypeOK, WithId
<1>2. i # Null
  BY <1>1, TenancyAssumption DEF DepartmentRows
<1>3. WithId(departments, o, i) = {d}
  BY <1>1 DEF WithId, KeysAreUnique, Keyed, SameDepartment
<1>4. y.table = "departments" /\ y.org = o /\ y.id = i
  BY <1>1, DepartmentColumns
<1> HIDE DEF y
<1>5. \A c \in departments : AsDepartment(Left(c)) = Database!Cleared(AsDepartment(c), {y})
  BY <1>1, <1>4, DepartmentCleared
<1>6. \A e \in employees : AsEmployee(Detached(e)) = Database!Cleared(AsEmployee(e), {y})
  BY <1>1, <1>2, <1>4, EmployeeCleared
<1>7. \A t \in Designations : AsDesignation(t) = Database!Cleared(AsDesignation(t), {y})
  BY DesignationCleared
<1>8. /\ departments' = {Left(c) : c \in departments \ {d}}
      /\ employees' = {Detached(e) : e \in employees}
  BY <1>3 DEF DeletesDepartment, WithoutDepartment, DetachedFrom
<1> HIDE DEF Left, Detached
<1>9. Rows \ {y} =
        {AsDepartment(c) : c \in departments \ {d}} \cup {AsDesignation(t) : t \in Designations}
        \cup {AsEmployee(e) : e \in employees}
  BY <1>1, RowsWithoutDepartment DEF y
<1>10. Rows' = {Database!Cleared(z, {y}) : z \in Rows \ {y}}
  <2>1. Rows' = {AsDepartment(Left(c)) : c \in departments \ {d}}
                \cup {AsDesignation(t) : t \in Designations}
                \cup {AsEmployee(Detached(e)) : e \in employees}
    BY <1>8 DEF Rows
  <2> QED
    BY <1>5, <1>6, <1>7, <1>9, <2>1
<1>11. y \in Rows /\ y \notin Rows'
  <2>1. y \in Rows
    BY <1>1 DEF y, Rows
  <2>2. \A c \in departments \ {d} : AsDepartment(Left(c)) # y
    <3>1. \A c \in departments \ {d} : Left(c).id = c.id /\ c.id # i
      BY <1>1 DEF Left, DepartmentRows, KeysAreUnique, Keyed, SameDepartment
    <3> QED
      BY <1>4, <3>1, DepartmentColumns
  <2>3. \A t : AsDesignation(t) # y /\ AsEmployee(t) # y
    BY <1>4, DesignationColumns, EmployeeColumns
  <2> QED
    BY <1>8, <2>1, <2>2, <2>3 DEF Rows
<1> QED
  BY <1>10, <1>11, DeletesOne DEF TableStep

LEMMA EmployeeGoes ==
    ASSUME Typed, KeysAreUnique, NEW o, NEW gone, DeletesEmployees(o, gone), NEW e \in gone
    PROVE  TableStep
<1> DEFINE y == AsEmployee(e)
<1>1. /\ departments \in SUBSET DepartmentRows /\ employees \in SUBSET EmployeeRows
      /\ e \in employees /\ e \in EmployeeRows
  BY DEF Typed, TypeOK, DeletesEmployees
<1>2. e.id # Null
  BY <1>1, TenancyAssumption DEF EmployeeRows
<1>3. gone = {e}
  BY <1>1 DEF DeletesEmployees, WithId, KeysAreUnique, Keyed, SameEmployee
<1>4. y.table = "employees" /\ y.id = e.id
  BY EmployeeColumns
<1> HIDE DEF y
<1>5. \A c \in departments : Database!Cleared(AsDepartment(c), {y}) = AsDepartment(c)
  BY <1>1, <1>4, DepartmentCleared
<1>6. \A c \in employees : Database!Cleared(AsEmployee(c), {y}) = AsEmployee(c)
  <2>1. y.table \in {"departments", "employees"} /\ y.id # Null
    BY <1>2, <1>4
  <2>2. \A c \in EmployeeRows : Database!Cleared(AsEmployee(c), {y}) =
          IF y.table = "departments" /\ y.org = c.organization_id /\ y.id = c.department_id
          THEN AsEmployee([c EXCEPT !.department_id = Null]) ELSE AsEmployee(c)
    BY <2>1, EmployeeCleared
  <2>3. y.table # "departments"
    BY <1>4
  <2> QED
    BY <1>1, <2>2, <2>3
<1>7. \A t \in Designations : Database!Cleared(AsDesignation(t), {y}) = AsDesignation(t)
  BY DesignationCleared
<1>8. Rows \ {y} =
        {AsDepartment(d) : d \in departments} \cup {AsDesignation(t) : t \in Designations}
        \cup {AsEmployee(c) : c \in employees \ {e}}
  BY <1>1, RowsWithoutEmployee DEF y
<1>9. Rows' = Rows \ {y}
  BY <1>3, <1>8 DEF DeletesEmployees, Rows
<1>10. \A z \in Rows : Database!Cleared(z, {y}) = z
  BY <1>5, <1>6, <1>7 DEF Rows
<1>11. Rows' = {Database!Cleared(z, {y}) : z \in Rows \ {y}}
  BY <1>9, <1>10
<1>12. y \in Rows
  BY <1>1 DEF y, Rows
<1> QED
  BY <1>9, <1>11, <1>12, DeletesOne DEF TableStep

(* A DELETE that finds no row changes none. *)
LEMMA NothingGoes ==
    ASSUME Typed, RefsStayInTenant, NEW o, NEW i, DeletesDepartment(o, i),
           WithId(departments, o, i) = {}
    PROVE  UNCHANGED <<departments, employees>>
<1>1. departments \in SUBSET DepartmentRows /\ employees \in SUBSET EmployeeRows
  BY DEF Typed, TypeOK
<1>2. ~ References(departments, o, i)
  BY DEF WithId, References
<1>3. ASSUME NEW d \in departments, d.organization_id = o, d.parent_id = i
      PROVE  [d EXCEPT !.parent_id = Null] = d
  <2>1. i = Null
    BY <1>2, <1>3 DEF RefsStayInTenant, NoneDangles, DanglingReference
  <2> QED
    BY <1>1, <1>3, <2>1 DEF DepartmentRows
<1>4. ASSUME NEW e \in employees, e.organization_id = o, e.department_id = i
      PROVE  [e EXCEPT !.department_id = Null] = e
  <2>1. i = Null
    BY <1>2, <1>4 DEF RefsStayInTenant, NoneDangles, DanglingReference
  <2> QED
    BY <1>1, <1>4, <2>1 DEF EmployeeRows
<1>5. WithoutDepartment(departments, o, i) = departments
  BY <1>3 DEF WithoutDepartment
<1>6. DetachedFrom(employees, o, i) = employees
  BY <1>4 DEF DetachedFrom
<1> QED
  BY <1>5, <1>6 DEF DeletesDepartment

-----------------------------------------------------------------------------
(* What the constraints of an INSERT or UPDATE accept, the keys accept. *)
LEMMA AllOptional ==
    ASSUME NEW x, x.table \in OfHandlers, NEW k \in Database!KeysOf(x)
    PROVE  k.optional
<1>1. PICK c, t : k = SetNull(c, t)
  BY HandlersKeys DEF OfHandlers
<1> QED
  BY <1>1 DEF SetNull

LEMMA NothingRequired ==
    ASSUME NEW x, x.table \in OfHandlers
    PROVE  Database!NotNull(x)
<1>1. Database!Required(x.table) = {}
  BY AllOptional DEF Database!Required, Database!KeysOf
<1> QED
  BY <1>1 DEF Database!NotNull

LEMMA Accepted ==
    /\ \A d : DepartmentState(departments, d) = Ok =>
         /\ d.organization_id \in Organizations
         /\ ~ DanglingReference(departments, d.organization_id, d.parent_id)
    /\ \A e : EmployeeState(departments, employees, e) = Ok =>
         /\ e.organization_id \in Organizations
         /\ ~ DanglingReference(departments, e.organization_id, e.department_id)
         /\ ~ DanglingReference(Designations, e.organization_id, e.designation_id)
BY DEF DepartmentState, EmployeeState, Ok, UniqueViolation, ForeignKeyViolation

LEMMA DepartmentSatisfied ==
    ASSUME NEW d, d.organization_id \in Organizations,
           ~ DanglingReference(departments, d.organization_id, d.parent_id),
           NEW R, \A c \in departments : AsDepartment(c) \in R
    PROVE  Database!Satisfied(AsDepartment(d), R)
<1>2. ASSUME NEW k \in Database!KeysOf(AsDepartment(d)), AsDepartment(d).ref[k.column] # Null
      PROVE  \E y \in R : Database!Refers(AsDepartment(d), k, y)
  <2>1. k = SetNull("parent_id", "departments")
    BY <1>2, HandlersKeys, DepartmentColumns
  <2>2. k.column = "parent_id"
    BY <2>1 DEF SetNull
  <2>3. d.parent_id # Null
    BY <1>2, <2>2, DepartmentColumns
  <2>4. PICK c \in departments : c.organization_id = d.organization_id /\ c.id = d.parent_id
    BY <2>3 DEF DanglingReference, References
  <2>5. Database!Refers(AsDepartment(d), k, AsDepartment(c))
    BY <2>1, <2>4, DepartmentRefers, DepartmentColumns
  <2> QED
    BY <2>5
<1>3. AsDepartment(d).org \in Organizations
  BY DepartmentColumns
<1> QED
  BY <1>2, <1>3 DEF Database!Satisfied

LEMMA EmployeeSatisfied ==
    ASSUME NEW e, e.organization_id \in Organizations,
           ~ DanglingReference(departments, e.organization_id, e.department_id),
           ~ DanglingReference(Designations, e.organization_id, e.designation_id),
           NEW R, \A c \in departments : AsDepartment(c) \in R,
           \A t \in Designations : AsDesignation(t) \in R
    PROVE  Database!Satisfied(AsEmployee(e), R)
<1> DEFINE x == AsEmployee(e)
<1>2. ASSUME NEW k \in Database!KeysOf(x), x.ref[k.column] # Null
      PROVE  \E y \in R : Database!Refers(x, k, y)
  <2>1. \/ k = SetNull("user_id", "users") \/ k = SetNull("department_id", "departments")
        \/ k = SetNull("team_id", "teams") \/ k = SetNull("designation_id", "designations")
        \/ k = SetNull("manager_id", "employees")
    BY <1>2, HandlersKeys, EmployeeColumns
  <2>2. k.column # "user_id" /\ k.column # "team_id" /\ k.column # "manager_id"
    BY <1>2, EmployeeColumns
  <2>3. CASE k = SetNull("department_id", "departments")
    <3>1. e.department_id # Null
      BY <1>2, <2>3, EmployeeColumns, EmployeeKeyColumns
    <3>2. PICK c \in departments : c.organization_id = e.organization_id /\ c.id = e.department_id
      BY <3>1 DEF DanglingReference, References
    <3>3. Database!Refers(x, k, AsDepartment(c))
      BY <2>3, <3>2, EmployeeRefers, DepartmentColumns
    <3> QED
      BY <3>3
  <2>4. CASE k = SetNull("designation_id", "designations")
    <3>1. e.designation_id # Null
      BY <1>2, <2>4, EmployeeColumns, EmployeeKeyColumns
    <3>2. PICK t \in Designations : t.organization_id = e.organization_id /\ t.id = e.designation_id
      BY <3>1 DEF DanglingReference, References
    <3>3. Database!Refers(x, k, AsDesignation(t))
      BY <2>4, <3>2 DEF Database!Refers, SetNull, AsEmployee, AsDesignation
    <3> QED
      BY <3>3
  <2> QED
    BY <2>1, <2>2, <2>3, <2>4, EmployeeKeyColumns
<1>3. x.org \in Organizations
  BY EmployeeColumns
<1> HIDE DEF x
<1>4. Database!Satisfied(x, R)
  BY <1>2, <1>3 DEF Database!Satisfied
<1> QED
  BY <1>4 DEF x

(* Ids of designations were issued, every row is of an organisation that   *)
(* exists, and no row of one table has the id of a row of another.         *)
Placed ==
    /\ \A t \in Designations : t.id \in issued
    /\ \A x \in departments \cup employees : x.organization_id \in Organizations
    /\ \A d \in departments, e \in employees : d.id # e.id
    /\ \A t \in Designations, x \in departments \cup employees : t.id # x.id

LEMMA RowIds ==
    ASSUME Typed, Placed, NEW x \in Rows
    PROVE  x.id \in issued
<1>1. CASE \E d \in departments : x = AsDepartment(d)
  BY <1>1, DepartmentColumns DEF Typed, Served
<1>2. CASE \E t \in Designations : x = AsDesignation(t)
  BY <1>2, DesignationColumns DEF Placed
<1>3. CASE \E e \in employees : x = AsEmployee(e)
  BY <1>3, EmployeeColumns DEF Typed, Served
<1> QED
  BY <1>1, <1>2, <1>3 DEF Rows

LEMMA DepartmentComes ==
    ASSUME Typed, Placed, NEW o, NEW d, InsertsDepartment(o, d)
    PROVE  TableStep
<1> DEFINE x == AsDepartment(d)
<1>1. x.table \in OfHandlers /\ x.id = d.id
  <2>1. x.table = "departments" /\ x.id = d.id
    BY DepartmentColumns
  <2> QED
    BY <2>1 DEF OfHandlers
<1>2. x.id \notin issued
  BY <1>1 DEF InsertsDepartment
<1>3. Database!Satisfied(x, Rows \cup {x})
  <2>1. \A c \in departments : AsDepartment(c) \in Rows \cup {x}
    BY DEF Rows
  <2> HIDE DEF x
  <2> DEFINE R == Rows \cup {x}
  <2>2. \A c \in departments : AsDepartment(c) \in R
    BY <2>1
  <2> HIDE DEF R
  <2>3. Database!Satisfied(AsDepartment(d), R)
    BY <2>2, Accepted, DepartmentSatisfied DEF InsertsDepartment
  <2> QED
    BY <2>3 DEF R, x
<1>4. Rows' = Rows \cup {x}
  BY DEF InsertsDepartment, Rows
<1> HIDE DEF x
<1>5. x.id \notin Database!Present
  BY <1>2, RowIds DEF Database!Present
<1>6. x \notin Rows
  BY <1>2, RowIds
<1>7. Organizations' = Organizations
  OBVIOUS
<1>8. Database!InsertRow(x)
  BY <1>1, <1>3, <1>4, <1>5, <1>7, NothingRequired DEF Database!InsertRow
<1> QED
  BY <1>4, <1>6, <1>8 DEF TableStep

LEMMA EmployeeComes ==
    ASSUME Typed, Placed, NEW o, NEW e, InsertsEmployee(o, e)
    PROVE  TableStep
<1> DEFINE x == AsEmployee(e)
<1>1. x.table \in OfHandlers /\ x.id = e.id
  <2>1. x.table = "employees" /\ x.id = e.id
    BY EmployeeColumns
  <2> QED
    BY <2>1 DEF OfHandlers
<1>2. x.id \notin issued
  BY <1>1 DEF InsertsEmployee
<1>3. Database!Satisfied(x, Rows \cup {x})
  <2> HIDE DEF x
  <2> DEFINE R == Rows \cup {x}
  <2>1. /\ \A c \in departments : AsDepartment(c) \in R
        /\ \A t \in Designations : AsDesignation(t) \in R
    BY DEF Rows
  <2> HIDE DEF R
  <2>2. Database!Satisfied(AsEmployee(e), R)
    BY <2>1, Accepted, EmployeeSatisfied DEF InsertsEmployee
  <2> QED
    BY <2>2 DEF R, x
<1>4. Rows' = Rows \cup {x}
  BY DEF InsertsEmployee, Rows
<1> HIDE DEF x
<1>5. x.id \notin Database!Present
  BY <1>2, RowIds DEF Database!Present
<1>6. x \notin Rows
  BY <1>2, RowIds
<1>7. Organizations' = Organizations
  OBVIOUS
<1>8. Database!InsertRow(x)
  BY <1>1, <1>3, <1>4, <1>5, <1>7, NothingRequired DEF Database!InsertRow
<1> QED
  BY <1>4, <1>6, <1>8 DEF TableStep

(* A patch that touches no key leaves the rows, as the schema has them. *)
LEMMA EmployeeChanges ==
    ASSUME Typed, KeysAreUnique, NEW o, NEW e, NEW new, PatchesEmployee(o, e, new)
    PROVE  TableStep \/ UNCHANGED Rows
<1> DEFINE x == AsEmployee(e)
           y == AsEmployee(new)
<1>1. /\ e \in employees /\ new.id = e.id /\ new.organization_id = e.organization_id
      /\ EmployeeState(departments, employees, new) = Ok
      /\ employees' = (employees \ {e}) \cup {new} /\ departments' = departments
  BY DEF PatchesEmployee, Replace
<1>2. Rows \ {x} =
        {AsDepartment(d) : d \in departments} \cup {AsDesignation(t) : t \in Designations}
        \cup {AsEmployee(c) : c \in employees \ {e}}
  BY <1>1, RowsWithoutEmployee
<1>3. y.table \in OfHandlers
  <2>1. y.table = "employees"
    BY EmployeeColumns
  <2> QED
    BY <2>1 DEF OfHandlers
<1>4. [x EXCEPT !.ref = y.ref] = y
  BY <1>1 DEF AsEmployee
<1>5. \A z \in Rows \ {x} : z # y
  <2>1. \A c \in employees \ {e} : AsEmployee(c) # y
    <3>1. \A c \in employees \ {e} : c.id # new.id
      BY <1>1 DEF KeysAreUnique, Keyed, SameEmployee
    <3>2. \A c : AsEmployee(c).id = c.id
      BY EmployeeColumns
    <3> QED
      BY <3>1, <3>2
  <2>2. \A t : AsDesignation(t) # y /\ AsDepartment(t) # y
    BY DepartmentColumns, DesignationColumns, EmployeeColumns
  <2> HIDE DEF x, y
  <2> QED
    BY <1>2, <2>1, <2>2
<1>6. Rows' = (Rows \ {x}) \cup {y}
  <2>1. Rows' = {AsDepartment(d) : d \in departments} \cup {AsDesignation(t) : t \in Designations}
                \cup {AsEmployee(c) : c \in (employees \ {e}) \cup {new}}
    BY <1>1 DEF Rows
  <2>2. {AsEmployee(c) : c \in (employees \ {e}) \cup {new}}
          = {AsEmployee(c) : c \in employees \ {e}} \cup {y}
    OBVIOUS
  <2> HIDE DEF x, y
  <2> QED
    BY <1>2, <2>1, <2>2
<1>7. Database!Satisfied(y, Rows')
  <2> HIDE DEF x, y
  <2> DEFINE R == Rows'
  <2>1. /\ \A c \in departments : AsDepartment(c) \in R
        /\ \A t \in Designations : AsDesignation(t) \in R
    BY <1>2, <1>6
  <2> HIDE DEF R
  <2>2. Database!Satisfied(AsEmployee(new), R)
    BY <1>1, <2>1, Accepted, EmployeeSatisfied
  <2> QED
    BY <2>2 DEF R, y
<1>8. x \in Rows
  BY <1>1 DEF Rows
<1>9. Organizations' = Organizations
  OBVIOUS
<1> HIDE DEF x, y
<1>10. CASE x = y
  BY <1>6, <1>8, <1>10
<1>11. CASE x # y
  <2>1. x \in Rows \ Rows' /\ y \in Rows' \ Rows
    BY <1>5, <1>6, <1>8, <1>11
  <2>2. Database!Replaces(x, y)
    BY <1>3, <1>6, <1>7, <1>9, NothingRequired DEF Database!Replaces
  <2>3. Database!SetReferences(x, y.ref)
    BY <1>4, <2>2 DEF Database!SetReferences
  <2> QED
    BY <2>1, <2>3 DEF TableStep
<1> QED
  BY <1>10, <1>11

-----------------------------------------------------------------------------
LEMMA WritesFollow ==
    ASSUME Sound, Placed, NEW o, Writes(o)
    PROVE  TableStep \/ UNCHANGED Rows
<1>0. Typed /\ RefsStayInTenant /\ KeysAreUnique
  BY DEF Sound
<1>1. ASSUME UNCHANGED <<departments, employees>> PROVE UNCHANGED Rows
  BY <1>1 DEF Rows
<1>2. ASSUME NEW d, InsertsDepartment(o, d) PROVE TableStep
  BY <1>0, <1>2, DepartmentComes
<1>3. ASSUME NEW i, DeletesDepartment(o, i) PROVE TableStep \/ UNCHANGED Rows
  <2>1. CASE WithId(departments, o, i) = {}
    BY <1>0, <1>1, <1>3, <2>1, NothingGoes
  <2>2. CASE WithId(departments, o, i) # {}
    BY <1>0, <1>3, <2>2, DepartmentGoes
  <2> QED
    BY <2>1, <2>2
<1>4. ASSUME NEW e, InsertsEmployee(o, e) PROVE TableStep
  BY <1>0, <1>4, EmployeeComes
<1>5. ASSUME NEW e, NEW new, PatchesEmployee(o, e, new) PROVE TableStep \/ UNCHANGED Rows
  BY <1>0, <1>5, EmployeeChanges
<1>6. ASSUME NEW gone, DeletesEmployees(o, gone) PROVE TableStep \/ UNCHANGED Rows
  <2>1. CASE gone = {}
    BY <1>1, <1>6, <2>1 DEF DeletesEmployees
  <2>2. CASE gone # {}
    BY <1>0, <1>6, <2>2, EmployeeGoes
  <2> QED
    BY <2>1, <2>2
<1> QED
  BY <1>2, <1>3, <1>4, <1>5, <1>6 DEF Writes

(* No id is ever given back. *)
LEMMA IssuedGrows ==
    ASSUME Typed, [Next]_vars
    PROVE  issued \subseteq issued'
<1>1. ASSUME NEW w \in Workers,
             \/ \E r \in Requests : Receive(w, r)
             \/ listDepartments(w) \/ getEmployee(w)
             \/ ListEmployees(w) \/ CountEmployees(w)
             \/ Fault(w) \/ Respond(w)
      PROVE  issued' = issued
  BY <1>1 DEF Receive, listDepartments, getEmployee, ListEmployees, CountEmployees,
       Fault, Respond, tables
<1>2. ASSUME NEW w \in Workers,
             \/ createDepartment(w) \/ deleteDepartment(w)
             \/ createEmployee(w) \/ updateEmployee(w) \/ deleteEmployee(w)
      PROVE  issued \subseteq issued'
  <2>1. UNCHANGED tables \/ Writes(req[w].organization_id)
    BY <1>2, WritesEffect
  <2> QED
    BY <2>1 DEF tables, Writes, InsertsDepartment, DeletesDepartment, InsertsEmployee,
       PatchesEmployee, DeletesEmployees
<1>3. CASE UNCHANGED vars
  BY <1>3 DEF vars
<1> QED
  BY <1>1, <1>2, <1>3 DEF Next, Statement

LEMMA WritesPlace ==
    ASSUME Typed, Placed, NEW o, Writes(o)
    PROVE  Placed'
<1>0. /\ departments \in SUBSET DepartmentRows /\ employees \in SUBSET EmployeeRows
      /\ \A x \in departments \cup employees : x.id \in issued
  BY DEF Typed, TypeOK, Served
<1>1. ASSUME NEW d, InsertsDepartment(o, d) PROVE Placed'
  <2>1. d.organization_id \in Organizations
    BY <1>1, Accepted DEF InsertsDepartment
  <2> QED
    BY <1>0, <1>1, <2>1 DEF InsertsDepartment, Placed
<1>2. ASSUME NEW i, DeletesDepartment(o, i) PROVE Placed'
  <2>1. \A x \in WithoutDepartment(departments, o, i) :
          \E d \in departments : x.id = d.id /\ x.organization_id = d.organization_id
    BY <1>0 DEF WithoutDepartment, DepartmentRows
  <2>2. \A x \in DetachedFrom(employees, o, i) :
          \E e \in employees : x.id = e.id /\ x.organization_id = e.organization_id
    BY <1>0 DEF DetachedFrom, EmployeeRows
  <2> QED
    BY <1>2, <2>1, <2>2 DEF DeletesDepartment, Placed
<1>3. ASSUME NEW e, InsertsEmployee(o, e) PROVE Placed'
  <2>1. e.organization_id \in Organizations
    BY <1>3, Accepted DEF InsertsEmployee
  <2> QED
    BY <1>0, <1>3, <2>1 DEF InsertsEmployee, Placed
<1>4. ASSUME NEW e, NEW new, PatchesEmployee(o, e, new) PROVE Placed'
  BY <1>4 DEF PatchesEmployee, Replace, Placed
<1>5. ASSUME NEW gone, DeletesEmployees(o, gone) PROVE Placed'
  BY <1>5 DEF DeletesEmployees, Placed
<1> QED
  BY <1>1, <1>2, <1>3, <1>4, <1>5 DEF Writes

LEMMA PlacedInvariant == Spec => []Placed
<1>1. Init => Placed
  BY SeedAssumption DEF Init, Placed
<1>2. Typed /\ Placed /\ [Next]_vars => Placed'
  <2> SUFFICES ASSUME Typed, Placed, [Next]_vars PROVE Placed'
    OBVIOUS
  <2>1. CASE UNCHANGED <<departments, employees>>
    BY <2>1, IssuedGrows DEF Placed
  <2>2. ASSUME NEW w \in Workers, Writes(req[w].organization_id) PROVE Placed'
    BY <2>2, WritesPlace
  <2> QED
    BY <2>1, <2>2, TableSteps
<1> QED
  BY <1>1, <1>2, TypedInvariant, PTL DEF Spec

(* Whatever requests are interleaved, each change of the two tables is one *)
(* statement of the 45 tables of the schema: an INSERT or UPDATE that all  *)
(* its keys accept, or a DELETE of one row with what ON DELETE clears.     *)
THEOREM SchemaFollowed == Spec => FollowsSchema
<1>1. Sound /\ Placed /\ [Next]_vars => [[TableStep]_Rows]_<<departments, employees>>
  <2> SUFFICES ASSUME Sound, Placed, [Next]_vars
               PROVE  [TableStep]_Rows \/ UNCHANGED <<departments, employees>>
    OBVIOUS
  <2>1. ASSUME NEW w \in Workers, Writes(req[w].organization_id) PROVE [TableStep]_Rows
    BY <2>1, WritesFollow
  <2> QED
    BY <2>1, TableSteps DEF Sound
<1> QED
  BY <1>1, SoundInvariant, PlacedInvariant, PTL DEF Spec, FollowsSchema

-----------------------------------------------------------------------------
(* The rows are rows of the schema, in every state as its own statements   *)
(* leave them.                                                             *)
RowsFit == Database!TypeOK /\ Database!NothingDangles

LEMMA RowsTyped ==
    ASSUME Typed
    PROVE  Rows \subseteq Database!Row
<1>0. /\ departments \in SUBSET DepartmentRows /\ employees \in SUBSET EmployeeRows
      /\ Designations \subseteq [organization_id : OrgIds, id : Ids]
  BY TenancyAssumption DEF Typed, TypeOK
<1>1. \A t \in OfHandlers : t \in Database!Tables
  BY HandlersTables DEF Database!Tables
<1>2. ASSUME NEW t \in OfHandlers,
             NEW x \in [table : {t}, id : Ids, org : OrgIds, ref : [Database!Columns(t) -> Ids \cup {Null}]]
      PROVE  x \in Database!Row
  BY <1>1, <1>2 DEF Database!Row
<1>3. ASSUME NEW d \in departments PROVE AsDepartment(d) \in Database!Row
  <2>1. [parent_id |-> d.parent_id] \in [{"parent_id"} -> Ids \cup {Null}]
    BY <1>0 DEF DepartmentRows, OptionalId
  <2>2. AsDepartment(d) \in [table : {"departments"}, id : Ids, org : OrgIds,
                             ref : [{"parent_id"} -> Ids \cup {Null}]]
    BY <1>0, <2>1 DEF AsDepartment, DepartmentRows
  <2>3. "departments" \in OfHandlers
    BY DEF OfHandlers
  <2> QED
    BY <1>2, <2>2, <2>3, HandlersColumns
<1>4. ASSUME NEW x \in Designations PROVE AsDesignation(x) \in Database!Row
  <2>1. AsDesignation(x) \in [table : {"designations"}, id : Ids, org : OrgIds,
                              ref : [{} -> Ids \cup {Null}]]
    BY <1>0 DEF AsDesignation
  <2>2. "designations" \in OfHandlers
    BY DEF OfHandlers
  <2> QED
    BY <1>2, <2>1, <2>2, HandlersColumns
<1>5. ASSUME NEW e \in employees PROVE AsEmployee(e) \in Database!Row
  <2> DEFINE columns == {"user_id", "department_id", "team_id", "designation_id", "manager_id"}
             ref == [user_id |-> Null, team_id |-> Null, manager_id |-> Null,
                     department_id |-> e.department_id, designation_id |-> e.designation_id]
  <2>1. ref \in [columns -> Ids \cup {Null}]
    BY <1>0 DEF EmployeeRows, OptionalId
  <2>2. AsEmployee(e) = [table |-> "employees", id |-> e.id, org |-> e.organization_id, ref |-> ref]
    BY DEF AsEmployee
  <2>3. e.id \in Ids /\ e.organization_id \in OrgIds
    BY <1>0 DEF EmployeeRows
  <2> HIDE DEF ref, columns
  <2>4. AsEmployee(e) \in [table : {"employees"}, id : Ids, org : OrgIds,
                           ref : [columns -> Ids \cup {Null}]]
    BY <2>1, <2>2, <2>3
  <2>5. "employees" \in OfHandlers
    BY DEF OfHandlers
  <2> QED
    BY <1>2, <2>4, <2>5, HandlersColumns DEF columns
<1> QED
  BY <1>3, <1>4, <1>5 DEF Rows

LEMMA IdsDiffer ==
    ASSUME KeysAreUnique, Placed, NEW x \in Rows, NEW y \in Rows, x.id = y.id
    PROVE  x = y
<1>1. /\ \A a, b \in departments : a.id = b.id => a = b
      /\ \A a, b \in employees : a.id = b.id => a = b
      /\ \A a, b \in Designations : a.id = b.id => a = b
  BY TenancyAssumption DEF KeysAreUnique, Keyed, SameDepartment, SameEmployee
<1>2. \A a : AsDepartment(a).id = a.id /\ AsDesignation(a).id = a.id /\ AsEmployee(a).id = a.id
  BY DepartmentColumns, DesignationColumns, EmployeeColumns
<1>3. CASE \E d \in departments : x = AsDepartment(d)
  BY <1>1, <1>2, <1>3 DEF Rows, Placed
<1>4. CASE \E t \in Designations : x = AsDesignation(t)
  BY <1>1, <1>2, <1>4 DEF Rows, Placed
<1>5. CASE \E e \in employees : x = AsEmployee(e)
  BY <1>1, <1>2, <1>5 DEF Rows, Placed
<1> QED
  BY <1>3, <1>4, <1>5 DEF Rows

LEMMA RowsReferSoundly ==
    ASSUME RefsStayInTenant, Placed, NEW x \in Rows
    PROVE  Database!Satisfied(x, Rows)
<1>1. /\ \A d \in departments : AsDepartment(d) \in Rows
      /\ \A t \in Designations : AsDesignation(t) \in Rows
  BY DEF Rows
<1>2. ASSUME NEW d \in departments PROVE Database!Satisfied(AsDepartment(d), Rows)
  <2>1. /\ d.organization_id \in Organizations
        /\ ~ DanglingReference(departments, d.organization_id, d.parent_id)
    BY DEF Placed, RefsStayInTenant, NoneDangles
  <2> QED
    BY <1>1, <2>1, DepartmentSatisfied
<1>3. ASSUME NEW t \in Designations PROVE Database!Satisfied(AsDesignation(t), Rows)
  <2>1. Database!KeysOf(AsDesignation(t)) = {}
    BY HandlersKeys, DesignationColumns
  <2>2. AsDesignation(t).org \in Organizations
    BY DesignationColumns, TenancyAssumption
  <2> QED
    BY <2>1, <2>2 DEF Database!Satisfied
<1>4. ASSUME NEW e \in employees PROVE Database!Satisfied(AsEmployee(e), Rows)
  <2>1. /\ e.organization_id \in Organizations
        /\ ~ DanglingReference(departments, e.organization_id, e.department_id)
        /\ ~ DanglingReference(Designations, e.organization_id, e.designation_id)
    BY DEF Placed, RefsStayInTenant, NoneDangles
  <2> QED
    BY <1>1, <2>1, EmployeeSatisfied
<1> QED
  BY <1>2, <1>3, <1>4 DEF Rows

(* The tables of the handlers are at every moment tables the schema        *)
(* allows: typed, with ids that name one row, and without a reference that *)
(* dangles or leaves its organisation.                                     *)
THEOREM SchemaHolds == Spec => []RowsFit
<1>1. Sound /\ Placed => RowsFit
  <2> SUFFICES ASSUME Sound, Placed PROVE RowsFit
    OBVIOUS
  <2>0. Typed /\ RefsStayInTenant /\ KeysAreUnique
    BY DEF Sound
  <2>1. \A x \in Rows : \A k \in Database!KeysOf(x) : k.optional
    BY RowTables, AllOptional
  <2>2. Database!TypeOK
    BY <2>0, <2>1, TenancyAssumption, RowsTyped, IdsDiffer DEF Database!TypeOK
  <2>3. Database!NothingDangles
    BY <2>0, RowsReferSoundly DEF Database!NothingDangles, Database!Satisfied, Database!Refers
  <2> QED
    BY <2>2, <2>3 DEF RowsFit
<1> QED
  BY <1>1, SoundInvariant, PlacedInvariant, PTL

(* A statement on a row with values the schema allows is one of those that *)
(* ForeignKeys lets any session run.                                       *)
LEMMA CandidatesSatisfy ==
    ASSUME NEW x \in Database!Row, NEW R, R \subseteq Rows,
           Database!Satisfied(x, R \cup {x})
    PROVE  x.ref \in [Database!Columns(x.table) -> Database!Candidates(x.table, x.id)]
<1>1. PICK t \in Database!Tables :
        x \in [table : {t}, id : Ids, org : OrgIds, ref : [Database!Columns(t) -> Ids \cup {Null}]]
  BY DEF Database!Row
<1>2. x.table = t /\ x.ref \in [Database!Columns(t) -> Ids \cup {Null}]
  BY <1>1
<1>3. ASSUME NEW c \in Database!Columns(t) PROVE x.ref[c] \in Database!Candidates(t, x.id)
  <2>1. PICK k \in Office[t] : k.column = c
    BY DEF Database!Columns
  <2>2. k \in Database!KeysOf(x) /\ k.to \in Database!Targets(t)
    BY <1>2 DEF Database!KeysOf, Database!Targets
  <2>3. CASE x.ref[c] = Null
    BY <2>3 DEF Database!Candidates
  <2>4. CASE x.ref[c] # Null
    <3>1. PICK y \in R \cup {x} : Database!Refers(x, k, y)
      BY <2>1, <2>2, <2>4 DEF Database!Satisfied
    <3>2. y.table = k.to /\ y.id = x.ref[c]
      BY <2>1, <3>1 DEF Database!Refers
    <3>3. CASE y = x
      BY <1>2, <2>2, <3>2, <3>3 DEF Database!Candidates
    <3>4. CASE y # x
      BY <2>2, <3>1, <3>2, <3>4 DEF Database!Candidates
    <3> QED
      BY <3>3, <3>4
  <2> QED
    BY <2>3, <2>4
<1> QED
  BY <1>2, <1>3

LEMMA StepAllowed ==
    ASSUME RowsFit, RowsFit', TableStep
    PROVE  Database!Next
<1>1. Rows \subseteq Database!Row
  BY DEF RowsFit, Database!TypeOK
<1>2. Rows' \subseteq Database!Row
  BY DEF RowsFit, Database!TypeOK, Database!Row, Database!Columns, Database!Tables
<1>3. ASSUME NEW x \in Rows' \ Rows, Database!InsertRow(x) PROVE Database!Next
  <2>1. x.id \notin Database!Present /\ Database!Satisfied(x, Rows \cup {x})
    BY <1>3 DEF Database!InsertRow
  <2>2. x.ref \in [Database!Columns(x.table) -> Database!Candidates(x.table, x.id)]
    BY <1>2, <1>3, <2>1, CandidatesSatisfy
  <2>3. x.org \in Organizations
    BY <2>1 DEF Database!Satisfied
  <2>4. PICK t \in Database!Tables :
          x \in [table : {t}, id : Ids, org : OrgIds, ref : [Database!Columns(t) -> Ids \cup {Null}]]
    BY <1>2, <1>3 DEF Database!Row
  <2>5. /\ x = [table |-> x.table, id |-> x.id, org |-> x.org, ref |-> x.ref]
        /\ x.table \in Database!Tables /\ x.id \in Ids
    BY <2>4
  <2>6. Database!Insert
    BY <1>3, <2>1, <2>2, <2>3, <2>5 DEF Database!Insert
  <2> QED
    BY <2>6 DEF Database!Next
<1>4. ASSUME NEW x \in Rows \ Rows', NEW y \in Rows' \ Rows, Database!SetReferences(x, y.ref)
      PROVE  Database!Next
  <2> DEFINE z == [x EXCEPT !.ref = y.ref]
             R == Rows \ {x}
  <2>1. Database!Satisfied(z, Rows') /\ Rows' = R \cup {z}
    BY <1>4 DEF Database!SetReferences, Database!Replaces
  <2>2. z \in Database!Row
    BY <1>2, <2>1
  <2>3. PICK t \in Database!Tables :
          x \in [table : {t}, id : Ids, org : OrgIds, ref : [Database!Columns(t) -> Ids \cup {Null}]]
    BY <1>1, <1>4 DEF Database!Row
  <2>4. /\ z = [x EXCEPT !.id = x.id, !.org = x.org, !.ref = z.ref]
        /\ z.table = x.table /\ z.id = x.id /\ z.org = x.org /\ z.ref = y.ref
    BY <2>3
  <2>5. x.org \in Organizations
    BY <2>1, <2>4 DEF Database!Satisfied
  <2> HIDE DEF z
  <2>6. z.ref \in [Database!Columns(z.table) -> Database!Candidates(z.table, z.id)]
    BY <2>1, <2>2, CandidatesSatisfy
  <2>7. Database!Replaces(x, [x EXCEPT !.id = x.id, !.org = x.org, !.ref = z.ref])
    BY <1>4, <2>4 DEF Database!SetReferences, z
  <2>8. Database!Update(x)
    BY <2>4, <2>6, <2>5, <2>7 DEF Database!Update
  <2> QED
    BY <1>4, <2>8 DEF Database!Next
<1>5. ASSUME NEW x \in Rows \ Rows', Database!Delete({x}) PROVE Database!Next
  <2>1. {x} \in (SUBSET Rows) \ {{}}
    BY <1>5
  <2> QED
    BY <1>5, <2>1 DEF Database!Next
<1> QED
  BY <1>3, <1>4, <1>5 DEF TableStep

(* The handlers implement ForeignKeys with the keys of the migrations: to  *)
(* the schema a server is one more session, and what is proved of any SQL  *)
(* holds of its rows.                                                      *)
THEOREM SchemaImplemented == Spec => [][Database!Next]_(Database!vars)
<1>1. Sound /\ Placed /\ RowsFit /\ RowsFit' /\ [Next]_vars => [Database!Next]_(Database!vars)
  <2> SUFFICES ASSUME Sound, Placed, RowsFit, RowsFit', [Next]_vars
               PROVE  Database!Next \/ UNCHANGED Database!vars
    OBVIOUS
  <2>1. UNCHANGED Rows => UNCHANGED Database!vars
    BY DEF Database!vars
  <2>2. ASSUME NEW w \in Workers, Writes(req[w].organization_id)
        PROVE  Database!Next \/ UNCHANGED Database!vars
    BY <2>1, <2>2, WritesFollow, StepAllowed
  <2>3. CASE UNCHANGED <<departments, employees>>
    BY <2>1, <2>3 DEF Rows
  <2> QED
    BY <2>2, <2>3, TableSteps DEF Sound
<1> QED
  BY <1>1, SoundInvariant, PlacedInvariant, SchemaHolds, PTL DEF Spec
=============================================================================
