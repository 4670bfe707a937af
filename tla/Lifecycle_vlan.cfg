SPECIFICATION LifecycleSpec
CONSTANTS
    Names = {n1, n2}
    Absent = absent
    Unread = unread
    Unverified = unverified
    Kinds = {"vlan", "port", "poe", "lldp_port"}
    MaxFaults = 1
    MaxEdits = 2
    MaxOutside = 0
INVARIANTS CleanMeansSaved
