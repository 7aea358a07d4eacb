\* Every fault, cases the gates let through and cases they refuse, and a second run.
CONSTANTS
    Cases <- MCCases
    Platforms <- MCPlatforms
    MaxPolls = 1
    MaxRuns = 2
SPECIFICATION Spec
INVARIANTS
    HelpersReleased
    CertifiedCovered
    EvidenceOfOneRun
    QualifiedRuns
PROPERTY
    Settles
CHECK_DEADLOCK FALSE
