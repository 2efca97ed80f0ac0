\* Two concurrent reports, two starts of the process, two certificates that are
\* swapped, damaged and removed at any moment.
CONSTANTS
    Req = {r1, r2}
    Shapes <- Challenges
    Cert = {c1, c2}
    Modes = {"plain", "ingress", "owner"}
    Configs <- Production
    Payloads = {}
    MaxGPU = 1
    MaxBoots = 2
SYMMETRY Symmetry
SPECIFICATION Spec
INVARIANTS
    TypeOK
    QuoteBindsReport
    ReportNamesListener
    ReportFollowsRenewal
    RefusalJustified
    QuoteAnswersOneChallenge
