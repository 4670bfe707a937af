------------------------------ MODULE MCDevice ------------------------------
(* Instances of Device for TLC.                                            *)
EXTENDS DeviceInductive, TLC

CONSTANTS a, b, c, d1, d2, h1, e1, s1, none

\* Two updates and a save through two provider aliases of one switch.
AliasOps == {a, b, c}
AliasDeviceOf == a :> d1 @@ b :> d2 @@ c :> d1
OneHost == d1 :> h1 @@ d2 :> h1
OneEndpoint == d1 :> e1 @@ d2 :> e1
UpdateUpdateSave == a :> "update" @@ b :> "update" @@ c :> "save"

\* An update through one alias; a native read and a discovery of the other.
UpdateReadDiscover == a :> "update" @@ b :> "read" @@ c :> "discover"
=============================================================================
