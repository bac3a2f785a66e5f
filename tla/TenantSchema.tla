---------------------------- MODULE TenantSchema ----------------------------
(***************************************************************************)
(* The two tables of the handlers inside the schema of the migrations.     *)
(* TenantTables says of departments, employees and designations what their *)
(* constraints refuse and what a DELETE clears; BusinessTables has the     *)
(* keys of all tables, and ForeignKeys what any statement does under them. *)
(* Each was read off the migrations by itself.                             *)
(***************************************************************************)
EXTENDS TenantApi, BusinessTables

AsDepartment(d) ==
    [table |-> "departments", id |-> d.id, org |-> d.organization_id,
     ref |-> [parent_id |-> d.parent_id]]

AsDesignation(x) ==
    [table |-> "designations", id |-> x.id, org |-> x.organization_id,
     ref |-> [c \in {} |-> Null]]

(* No handler writes user_id, team_id or manager_id. *)
AsEmployee(e) ==
    [table |-> "employees", id |-> e.id, org |-> e.organization_id,
     ref |-> [user_id |-> Null, team_id |-> Null, manager_id |-> Null,
              department_id |-> e.department_id, designation_id |-> e.designation_id]]

Rows ==
    {AsDepartment(d) : d \in departments} \cup {AsDesignation(x) : x \in Designations}
    \cup {AsEmployee(e) : e \in employees}

Database == INSTANCE ForeignKeys WITH
    Orgs <- OrgIds,
    NULL <- Null,
    Catalogue <- Office,
    Tenanted <- OwnedTables,
    organizations <- Organizations,
    rows <- Rows

TableStep ==
    \/ \E x \in Rows' \ Rows : Database!InsertRow(x)
    \/ \E x \in Rows \ Rows', y \in Rows' \ Rows : Database!SetReferences(x, y.ref)
    \/ \E x \in Rows \ Rows' : Database!Delete({x})

(* Whatever a handler does to the rows of departments and employees is one *)
(* statement of the schema: an INSERT or UPDATE all its keys accept, or a  *)
(* DELETE of one row with exactly what ON DELETE does to the others        *)
(* (000004_people.up.sql), so that nothing a handler relies on to be       *)
(* cleared, kept or refused is left to the handler.                        *)
FollowsSchema == [][[TableStep]_Rows]_<<departments, employees>>
=============================================================================
