\* A damaged capture of either half of W1, a diagnosis of it, and a campaign.
CONSTANTS
    NumFrames = 2
    Depth = 1
    Threads = {t1, t2}
    MaxProbes = 1
    MaxRowFaults = 1
    Buses = {"mock", "vcan"}
    NumTraces = 2
    MaxRetries = 1
    MaxFaults = 1
    Kinds <- MCKinds
    Values = {v1, v2, v3}
    Baselines = {v1}
    Budgets = {2, 4}
    Repetitions = 2
    Outcomes <- MCOutcomes
    Thresholds <- MCThresholds
    Scale = 6
    MinGain = 2
    MinDelta = 0
    Commits = {c1, c2}
    MaxMoves = 1
    Profiles <- MCProfiles
SYMMETRY MCSymmetry
SPECIFICATION Spec
INVARIANTS AckEvidenceTrue CompleteLifeAdmitted AttributionSound MeasuredTruly DecisionSupported
PROPERTIES GateNeedsCause RecordsFinal
CHECK_DEADLOCK FALSE
