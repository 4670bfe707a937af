SPECIFICATION Spec
CONSTANTS
    Ids = {1, 2, 3}
    Ports = {p1}
    Factory = 1
    Names = {plain}
    Reserved = reserved
    Nobody = nobody
    MaxCalls = 4
    MaxFaults = 1
    MaxOutside = 1
INVARIANTS OwnedStays NoFormerDefault
PROPERTIES ErasesOnlyTheVlan NeighboursSurvive
