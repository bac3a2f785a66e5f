SPECIFICATION FairSpec
CONSTANTS
    Null = Null
    Sessions = {s1, s2}
    Ids = {i1, i2, i3}
    Slugs = {"acme", "Acme", "beta"}
    Gstins = {"g"}
    MaxWrites = 2
    NewStatuses = {"suspended"}
    Lower <- SomeLower
INVARIANTS
    TypeOK
    SlugFinds
    GstinOnce
PROPERTIES
    WaitsEnd
CHECK_DEADLOCK FALSE
