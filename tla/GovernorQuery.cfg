\* One request of every shape, for the documented treatment of query strings.
CONSTANTS
    Req = {r1}
    Shapes <- AllShapes
    BackendCodes = {200}
    HasReporter = TRUE
    MaxResend = 1
SPECIFICATION Spec
INVARIANT GovernorQueryKept
