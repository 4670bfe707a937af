SPECIFICATION Spec
CONSTANTS
    Ids = {1, 2}
    Ports = {p1, p2}
    Names = {x, y}
    Modes = {dynamic}
    Absent = absent
    Default = 1
    MaxCalls = 2
    MaxFaults = 1
    MaxOutside = 1
INVARIANTS ReportedStands
PROPERTIES DeletionIsGuarded NothingMasksRequests
