SPECIFICATION FairSpec
CONSTANTS
    Requests = {r1, r2}
    MaxConns = 1
    MinJWTSecretLen = 32
    Parses = {"postgres://"}
    Length <- Secrets
    Environments <- SomeEnvironments
    Calls <- SomeCalls
INVARIANTS
    TypeOK
    ServesOnlyReady
    AnswersAgree
    Logged
    NothingCutInside
PROPERTIES
    SignalEnds
    RequestsEnd
    ImplementsService
CHECK_DEADLOCK FALSE
