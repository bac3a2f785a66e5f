\* The first migration is taken down and fails.
CONSTANTS
    behind = behind
    current = current
    Operators = {behind, current}
    Latest = 4
    Files <- TwoCheckouts
    Requires <- FourFiles
    Replayable <- CreatesOrReplaces
    Tolerant <- DropsIfExists
    Commands <- CommandLines
    NoOne = NoOne
SPECIFICATION Spec
PROPERTIES
    VersionShowsDirty
