------------------------------- MODULE Schema -------------------------------
(* The statements of ForeignKeys on the tables of the migrations, and what *)
(* the comments of the migrations promise of them.                         *)
EXTENDS ForeignKeys, BusinessTables

(* What is kept for the books, and what the comments of the migrations say *)
(* outlives the people and parties it names.                               *)
Records == {
    "quotations", "invoices", "receipts", "vendor_bills", "expenses", "journals", "assets",
    "payroll_runs", "documents", "audit_log", "number_series"}

(* A record leaves the database only by a DELETE of its own or with its    *)
(* organisation: no cascade from an employee, a client, a project or an    *)
(* account reaches it, over any number of tables ("the asset outlives the  *)
(* employment", 000010_operations.up.sql:11; invoice numbers must stay     *)
(* sequential, 000009_finance_documents.up.sql:49).                        *)
RecordsAreKept ==
    [][\A r \in {x \in Lost : x.table \in Records} :
          \A D \in (SUBSET (Lost \ {r})) \ {{}} : ~ Delete(D)]_vars
=============================================================================
