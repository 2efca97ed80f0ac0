\* Two reports whose outside calls fail, time out or never return, while the
\* certificate is replaced and the process may end.
CONSTANTS
    Req = {r1, r2}
    Shapes <- Plainest
    Cert = {c1}
    Modes = {"ingress"}
    Configs <- Fallbacks
    Payloads <- FewDocuments
    MaxGPU = 1
    MaxBoots = 1
SPECIFICATION FairSpec
PROPERTY ReportEnds
