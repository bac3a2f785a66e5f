\* Two callers and one connection: one of them waits for the pool.
CONSTANTS
    Calls = {c1, c2}
    Conns = {k1}
    Rows = {r1}
    None = None
SPECIFICATION FairSpec
PROPERTIES
    RunsReturn
    TransactionsEnd
