SPECIFICATION FairSpec
CONSTANTS
    Certs <- MCCerts
    KeyOf <- MCKeyOf
    San <- MCSan
    Public = {"old", "renewed", "rekeyed"}
    Listens = {"noport", "mapped4", "zeros6"}
    Codes = {200, 302}
    MaxWrites = 2
INVARIANTS
    TypeOK
    HealthyMeansServed
    FailureJustified
PROPERTY
    ProbeEnds
