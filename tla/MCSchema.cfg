\* Three rows in any of the tables, two organisations; statements that insert or
\* update a row or delete any number of rows.
CONSTANTS
    Orgs = {o1, o2}
    Ids = {r1, r2, r3}
    NULL = NULL
    Catalogue <- Office
    Tenanted <- OwnedTables
SPECIFICATION Spec
SYMMETRY Symmetry
CHECK_DEADLOCK TRUE
INVARIANTS
    TypeOK
    NothingDangles
    OrganisationsCanLeave
PROPERTIES
    DeletesStayInTenant
    RecordsAreKept
