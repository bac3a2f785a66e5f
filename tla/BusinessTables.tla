--------------------------- MODULE BusinessTables ---------------------------
(***************************************************************************)
(* The business tables of migrations 000003 to 000010: their foreign keys  *)
(* to each other, and which of them cascade from organizations.            *)
(*                                                                         *)
(* Columns without a foreign key on purpose are not listed: created_by and *)
(* updated_by, closed_by of periods, source_id of journals, entity_id of   *)
(* documents and of audit_log.  plans has no organization_id and nothing   *)
(* references it.                                                          *)
(***************************************************************************)

Cascade(c, t) == [column |-> c, to |-> t, rule |-> "cascade", optional |-> FALSE]
OptionalCascade(c, t) == [column |-> c, to |-> t, rule |-> "cascade", optional |-> TRUE]
SetNull(c, t) == [column |-> c, to |-> t, rule |-> "set null", optional |-> TRUE]
NoAction(c, t) == [column |-> c, to |-> t, rule |-> "no action", optional |-> FALSE]

Identity == [
    users |-> {},
    roles |-> {},
    user_roles |-> {Cascade("user_id", "users"), Cascade("role_id", "roles")},
    sessions |-> {Cascade("user_id", "users")}]

Configuration == [audit_log |-> {}, feature_flags |-> {}, number_series |-> {}, settings |-> {}]

OrgStructure == [
    departments |-> {SetNull("parent_id", "departments")},
    designations |-> {},
    teams |-> {SetNull("department_id", "departments"), SetNull("lead_id", "employees")},
    employees |-> {
        SetNull("user_id", "users"), SetNull("department_id", "departments"),
        SetNull("team_id", "teams"), SetNull("designation_id", "designations"),
        SetNull("manager_id", "employees")}]

Leave == [
    attendance |-> {Cascade("employee_id", "employees")},
    leave_types |-> {},
    leave_balances |-> {Cascade("employee_id", "employees"), Cascade("leave_type_id", "leave_types")},
    leave_requests |-> {
        Cascade("employee_id", "employees"), NoAction("leave_type_id", "leave_types"),
        SetNull("decided_by", "employees")}]

Payroll == [
    salary_structures |-> {Cascade("employee_id", "employees")},
    salary_components |-> {Cascade("salary_structure_id", "salary_structures")},
    payroll_runs |-> {},
    payslips |-> {Cascade("payroll_run_id", "payroll_runs"), Cascade("employee_id", "employees")}]

Crm == [
    enquiries |-> {SetNull("owner_id", "employees")},
    clients |-> {SetNull("owner_id", "employees")},
    leads |-> {
        SetNull("enquiry_id", "enquiries"), SetNull("client_id", "clients"),
        SetNull("owner_id", "employees")},
    client_contacts |-> {Cascade("client_id", "clients"), SetNull("user_id", "users")}]

Projects == [
    projects |-> {SetNull("client_id", "clients"), SetNull("manager_id", "employees")},
    project_members |-> {Cascade("project_id", "projects"), Cascade("employee_id", "employees")},
    milestones |-> {Cascade("project_id", "projects")}]

Work == [
    tasks |-> {
        Cascade("project_id", "projects"), SetNull("milestone_id", "milestones"),
        OptionalCascade("parent_task_id", "tasks"), SetNull("assignee_id", "employees")},
    timesheets |-> {
        Cascade("employee_id", "employees"), Cascade("project_id", "projects"),
        SetNull("task_id", "tasks"), SetNull("approved_by", "employees")}]

Masters == [
    accounts |-> {SetNull("parent_id", "accounts")},
    periods |-> {},
    tax_rates |-> {},
    vendors |-> {}]

Quotations == [
    quotations |-> {
        NoAction("client_id", "clients"), SetNull("lead_id", "leads"),
        SetNull("project_id", "projects")},
    quotation_lines |-> {
        Cascade("quotation_id", "quotations"), SetNull("tax_rate_id", "tax_rates")}]

(* Invoices and receipts that go with their client. *)
SalesWithClient == [
    invoices |-> {
        Cascade("client_id", "clients"), SetNull("project_id", "projects"),
        SetNull("quotation_id", "quotations")},
    invoice_lines |-> {Cascade("invoice_id", "invoices"), SetNull("tax_rate_id", "tax_rates")},
    receipts |-> {Cascade("client_id", "clients"), SetNull("invoice_id", "invoices")}]

Sales == [
    invoices |-> {
        NoAction("client_id", "clients"), SetNull("project_id", "projects"),
        SetNull("quotation_id", "quotations")},
    invoice_lines |-> {Cascade("invoice_id", "invoices"), SetNull("tax_rate_id", "tax_rates")},
    receipts |-> {NoAction("client_id", "clients"), SetNull("invoice_id", "invoices")}]

Purchases == [
    vendor_bills |-> {NoAction("vendor_id", "vendors"), SetNull("project_id", "projects")},
    expenses |-> {
        SetNull("employee_id", "employees"), SetNull("vendor_id", "vendors"),
        SetNull("project_id", "projects"), SetNull("account_id", "accounts"),
        SetNull("approved_by", "employees")}]

Ledger == [
    journals |-> {SetNull("period_id", "periods"), SetNull("reversed_by", "journals")},
    journal_lines |-> {
        Cascade("journal_id", "journals"), NoAction("account_id", "accounts"),
        SetNull("client_id", "clients"), SetNull("vendor_id", "vendors"),
        SetNull("project_id", "projects")}]

Operations == [
    assets |-> {SetNull("assigned_to", "employees"), SetNull("vendor_id", "vendors")},
    documents |-> {SetNull("uploaded_by", "users")},
    tickets |-> {
        SetNull("client_id", "clients"), SetNull("project_id", "projects"),
        SetNull("raised_by", "users"), SetNull("assignee_id", "employees")}]

Parts == {
    Identity, Configuration, OrgStructure, Leave, Payroll, Crm, Projects, Work,
    Masters, Quotations, Sales, Purchases, Ledger, Operations}

Office ==
    [t \in UNION {DOMAIN part : part \in Parts} |-> (CHOOSE part \in Parts : t \in DOMAIN part)[t]]

-----------------------------------------------------------------------------
(* The tables whose organization_id REFERENCES organizations ON DELETE     *)
(* CASCADE, migration by migration.                                        *)
PlatformOwned == {
    "users", "roles", "user_roles", "sessions", "audit_log", "feature_flags", "number_series",
    "settings"}

PeopleOwned == {
    "departments", "designations", "teams", "employees", "attendance", "leave_types",
    "leave_balances", "leave_requests", "salary_structures", "salary_components", "payroll_runs",
    "payslips"}

RevenueOwned == {"enquiries", "clients", "leads", "client_contacts"}

DeliveryOwned == {"projects", "project_members", "milestones", "tasks", "timesheets"}

MastersOwned == {"accounts", "periods", "tax_rates", "vendors"}

QuotationsOwned == {"quotations", "quotation_lines"}

(* One table was created without its ON DELETE CASCADE. *)
FinanceOwnedButReceipts == {
    "invoices", "invoice_lines", "vendor_bills", "expenses", "journals", "journal_lines"}

FinanceOwned == {
    "invoices", "invoice_lines", "receipts", "vendor_bills", "expenses", "journals",
    "journal_lines"}

OperationsOwned == {"assets", "documents", "tickets"}

OwnedTables ==
    PlatformOwned \cup PeopleOwned \cup RevenueOwned \cup DeliveryOwned \cup MastersOwned
    \cup QuotationsOwned \cup FinanceOwned \cup OperationsOwned
=============================================================================
