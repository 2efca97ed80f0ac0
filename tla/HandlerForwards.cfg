\* Two forwards against a backend that fails or never answers.
CONSTANTS
    Req = {r1, r2}
    Shapes <- Forwards
    BackendCodes = {200}
    HasReporter = TRUE
    MaxResend = 1
SPECIFICATION FairSpec
INVARIANTS
    SilentOnlyToGone
    UnavailableHasCause
    BodyAtMostOnce
PROPERTIES
    EveryForwardEnds
    KeepsContract
