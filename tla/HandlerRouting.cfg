\* One request of every shape.
CONSTANTS
    Req = {r1}
    Shapes <- AllShapes
    BackendCodes = {200, 409}
    HasReporter = TRUE
    MaxResend = 1
SPECIFICATION Spec
INVARIANTS
    OnlyListedSpellings
    CredentialSurvives
    DocumentedReplies
