\* One process, three connections, up to two signals.
CONSTANTS
    Conn = {c1, c2, c3}
    MaxSignals = 2
SPECIFICATION FairSpec
INVARIANTS
    TypeOK
    NothingActiveAtExit
    CutOnlyAfterGrace
    SuccessOnlyOnSignal
PROPERTIES
    NoAcceptWhileDraining
    AlwaysEnds
