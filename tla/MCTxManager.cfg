\* Two callers and two connections: every interleaving of two transactions,
\* cancellations, lost connections and late commits.
CONSTANTS
    Calls = {c1, c2}
    Conns = {k1, k2}
    Rows = {r1, r2}
    None = None
SPECIFICATION Spec
SYMMETRY Symmetry
INVARIANTS
    TypeOK
    ErrorTellsTruth
    ConnectionsAccountedFor
    NoAbandonedTransaction
    PoolOutsideCircles
PROPERTIES
    ImplementsUnitOfWork
