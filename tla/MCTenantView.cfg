CONSTANTS
    o1 = o1
    o2 = o2
    o3 = o3
    eng = eng
    acme = acme
    dev = dev
    ada = ada
    n1 = n1
    n2 = n2
    w1 = w1
    w2 = w2
    Observed = o1
    Null = Null
    Malformed = Malformed
    OrgIds = {o1, o2, o3}
    Organizations = {o1, o2}
    Ids = {eng, acme, dev, ada, n1, n2}
    Workers = {w1, w2}
    Statuses = {"probation", "active"}
    EmploymentTypes = {"full_time", "intern"}
    Probation = "probation"
    FullTime = "full_time"
    Blank = ""
    DefaultLimit = 2
    MaxLimit = 2
    MaxOffset = 3
    MaxInt32 = 7
    Texts <- McTexts
    Lower <- McLower
    Trim <- McTrim
    Rank <- McRank
    Designations <- McDesignations
    SeedDepartments <- McDepartments
    SeedEmployees <- McEmployees
    Requests <- TenantRequests
SPECIFICATION Spec
SYMMETRY Symmetry
PROPERTIES ImplementsStore FollowsSchema
