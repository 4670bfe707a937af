SPECIFICATION Spec
CONSTANTS
    MaxId = 4
    Rules = {r1, r2, r3}
    Deny = r1
    Absent = absent
    MaxRules = 2
    MaxCalls = 2
    MaxFaults = 1
    MaxOutside = 1
INVARIANTS ReportedStands RetainedStay QuietCallSucceeds
