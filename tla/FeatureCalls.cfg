CONSTANTS
    None = None
    Gone = Gone
    MaxCalls = 2
    MaxTroubles = 1
SPECIFICATION Spec
INVARIANTS
    ReportedStands
    QuietCallSucceeds
    DamageIsNotSaved
    NoListingIsLeft
    InForce
PROPERTIES
    OnlyWhatDiffers
    NeighboursSurvive
    LoginLast
