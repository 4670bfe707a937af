SPECIFICATION Spec
CONSTANTS
    Ids = {1, 2}
    Ports = {p1, p2}
    Names = {x, y}
    Modes = {dynamic}
    Absent = absent
    Default = 4095
    MaxCalls = 2
    MaxFaults = 1
    MaxOutside = 1
PROPERTIES DeletionIsGuarded
