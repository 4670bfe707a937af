SPECIFICATION Spec
CONSTANTS
    Names = {a, b}
    Sequences = {1, 2}
    permit = permit
    drop = drop
    Rules = {permit, drop}
    Deny = drop
    Wanted <- MCWanted
    Absent = absent
    None = none
    MaxCalls = 2
    MaxFaults = 1
    MaxOutside = 1
INVARIANTS ReportedStands UntouchedRulesStay QuietCallSucceeds NoDanglingBinding
PROPERTIES NeverUnbound
