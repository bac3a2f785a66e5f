\* Two operators with different checkouts type any command at any time; any
\* step can fail and any process can be killed.
CONSTANTS
    behind = behind
    current = current
    Operators = {behind, current}
    Latest = 4
    Files <- TwoCheckouts
    Requires <- FourFiles
    Replayable <- CreatesOrReplaces
    Tolerant <- DropsIfExists
    Commands <- CommandLines
    NoOne = NoOne
SPECIFICATION Spec
INVARIANTS
    TypeOK
    ClaimTrue
    DoubtIsOneStep
    OutcomeTrue
PROPERTIES
    ImplementsSchemaClaim
