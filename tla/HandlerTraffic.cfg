\* Three concurrent requests: generations and scrapes in every order.
CONSTANTS
    Req = {r1, r2, r3}
    Shapes <- Traffic
    BackendCodes = {200}
    HasReporter = TRUE
    MaxResend = 0
SYMMETRY Symmetry
SPECIFICATION Spec
INVARIANTS
    TypeOK
    InflightExact
    TotalsExact
    ScrapesMonotone
