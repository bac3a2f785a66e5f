\* One operator repairs every state that commands can leave behind.
CONSTANTS
    behind = behind
    current = current
    Operators = {current}
    Latest = 4
    Files <- OneCheckout
    Requires <- FourFiles
    Replayable <- CreatesOrReplaces
    Tolerant <- DropsIfExists
    Commands <- CommandLines
    NoOne = NoOne
SPECIFICATION RepairSpec
PROPERTIES
    Repaired
