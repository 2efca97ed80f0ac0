\* Two reports with every source of GPU evidence and up to three GPUs.
CONSTANTS
    Req = {r1, r2}
    Shapes <- Parameters
    Cert = {c1}
    Modes = {"plain"}
    Configs <- EveryConfig
    Payloads <- Documents
    MaxGPU = 3
    MaxBoots = 1
SYMMETRY Symmetry
SPECIFICATION Spec
INVARIANTS
    EvidenceComplete
    RequiredEvidence
