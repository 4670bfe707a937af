--------------------------------- MODULE Vlan ---------------------------------
(* The VLAN resources of one switch: fastiron_vlan, fastiron_vlan_membership *)
(* and fastiron_default_vlan (internal/features/vlan).  The device lock      *)
(* runs their calls one at a time (Device proves it); other administrators   *)
(* act between any two requests of a call.                                   *)
EXTENDS Naturals, FiniteSets

CONSTANTS
    Ids, Ports,     \* VLAN identifiers and switch ports
    Factory,        \* the default VLAN of a switch without default-vlan-id
    Names, Reserved,\* ordinary VLAN names; the name DEFAULT-VLAN
    Nobody,         \* no default VLAN resource holds a selection
    MaxCalls, MaxFaults, MaxOutside     \* bounds; MaxOutside also on merges gone wrong

ASSUME VlanAssumption ==
    /\ Ids \subseteq Nat /\ Factory \in Ids /\ Reserved \notin Names /\ Nobody \notin Ids
    /\ MaxCalls \in Nat /\ MaxFaults \in Nat /\ MaxOutside \in Nat

VARIABLES
    default,        \* the native default VLAN
    names,          \* the native VLANs and their names
    links,          \* explicit memberships; a port in none is untagged in the default
    routed,         \* VLANs with a VE interface
    orphans,        \* ids RESTCONF still lists as DEFAULT-VLAN and the switch has left
    call, pc,       \* the call that holds the device lock, and its next request
    seen,           \* the configuration an earlier read of the call saw
    found,          \* the default VLAN that applyMembership's document named
    keys,           \* inventory keys that cleanDefaultEntries still has to examine
    writeFailed,    \* Update.err
    ownVlans, ownLinks, ownDefault,     \* what successful calls established
    calls, faults, outside, quiet       \* bounds; no outsider since the call began

switch == <<default, names, links, routed, orphans>>
owned == <<ownVlans, ownLinks, ownDefault>>
bounds == <<calls, faults, outside, quiet>>
progress == <<pc, seen, found, keys>>
vars == <<switch, call, progress, writeFailed, owned, bounds>>

Tags == {"tagged", "untagged"}
Links == [port : Ports, id : Ids, tag : Tags]
Link(c) == [port |-> c.port, id |-> c.id, tag |-> c.tag]

Calls ==
    [op : {"apply"}, id : Ids, name : Names]
    \union [op : {"remove"}, id : Ids]
    \union [op : {"join", "leave"}, port : Ports, id : Ids, tag : Tags]
    \union [op : {"select"}, id : Ids]
NoCall == [op |-> "none"]

Vlans == DOMAIN names
Of(p, tag) == {l \in links : l.port = p /\ l.tag = tag}
Access(p) == IF Of(p, "untagged") = {} THEN default ELSE (CHOOSE l \in Of(p, "untagged") : TRUE).id
Trunks(p) == {l.id : l \in Of(p, "tagged")}

\* The running configuration as nativeDefault splits it: what belongs to the
\* default VLAN without its number, and everything else.
Native ==
    [default |-> default, name |-> names[default], ve |-> default \in routed,
     vlans |-> [i \in Vlans \ {default} |-> names[i]], links |-> links, routed |-> routed \ {default}]
Preserves(before) ==
    LET now == Native IN
    /\ now.name = before.name /\ now.ve = before.ve
    /\ now.vlans = before.vlans /\ now.links = before.links /\ now.routed = before.routed

\* RESTCONF lists the native VLANs, and entries of a moved default.
Listed == Vlans \union orphans
ListedName(i) == IF i \in Vlans THEN names[i] ELSE Reserved

Init ==
    /\ default = Factory /\ names = [i \in {Factory} |-> Reserved]
    /\ links = {} /\ routed \in SUBSET {Factory} /\ orphans = {}
    /\ call = NoCall /\ pc = "idle" /\ seen = Native /\ found = default /\ keys = {}
    /\ writeFailed = FALSE
    /\ ownVlans = {} /\ ownLinks = {} /\ ownDefault = Nobody
    /\ calls = 0 /\ faults = 0 /\ outside = 0 /\ quiet = TRUE

-----------------------------------------------------------------------------
(* Calls.                                                                  *)

First(op) ==
    CASE op = "apply" -> "rejectDefault" [] op = "remove" -> "find"
      [] op \in {"join", "leave"} -> "port" [] op = "select" -> "readDefault"

\* A call takes over what it manages: until it succeeds nothing is promised.
Begin(c) ==
    /\ pc = "idle" /\ calls < MaxCalls /\ calls' = calls + 1
    /\ call' = c /\ pc' = First(c.op) /\ seen' = Native /\ keys' = {} /\ writeFailed' = FALSE
    /\ ownVlans' = IF c.op \in {"apply", "remove"} THEN ownVlans \ {c.id} ELSE ownVlans
    /\ ownLinks' = IF c.op \in {"join", "leave"} THEN ownLinks \ {Link(c)} ELSE ownLinks
    /\ ownDefault' = IF c.op = "select" THEN Nobody ELSE ownDefault
    /\ quiet' = TRUE
    /\ UNCHANGED <<switch, found, faults, outside>>

Frame == UNCHANGED <<switch, call, writeFailed, owned, bounds>>
Goto(next) == pc' = next /\ Frame /\ UNCHANGED <<seen, found, keys>>
See(next) == pc' = next /\ seen' = Native /\ Frame /\ UNCHANGED <<found, keys>>

\* The callback returned an error, or a write of it failed: nothing is established.
Failed ==
    /\ pc' = "idle" /\ call' = NoCall
    /\ UNCHANGED <<switch, seen, found, keys, writeFailed, owned, bounds>>

Established ==
    /\ ownVlans' = IF call.op = "apply" THEN ownVlans \union {call.id} ELSE ownVlans
    /\ ownLinks' = IF call.op = "join" THEN ownLinks \union {Link(call)} ELSE ownLinks
    /\ ownDefault' = IF call.op = "select" THEN call.id ELSE ownDefault

Succeed ==
    IF writeFailed THEN Failed
    ELSE /\ pc' = "idle" /\ call' = NoCall /\ Established
         /\ UNCHANGED <<switch, seen, found, keys, writeFailed, bounds>>

\* Any read may fail.
ReadFails ==
    /\ pc # "idle" /\ faults < MaxFaults /\ faults' = faults + 1
    /\ pc' = "idle" /\ call' = NoCall
    /\ UNCHANGED <<switch, seen, found, keys, writeFailed, owned, calls, outside, quiet>>

\* A request may take effect or not and its answer may say either; once one
\* failed, the others are not sent.
Request(effect, next) ==
    /\ pc' = next /\ UNCHANGED <<call, seen, found, keys, owned, calls, outside, quiet>>
    /\ \/ writeFailed /\ UNCHANGED <<switch, writeFailed, faults>>
       \/ ~writeFailed /\ effect /\ UNCHANGED <<writeFailed, faults>>
       \/ /\ ~writeFailed /\ faults < MaxFaults /\ faults' = faults + 1
          /\ \/ effect /\ writeFailed' = TRUE
             \/ UNCHANGED switch /\ writeFailed' \in BOOLEAN

-----------------------------------------------------------------------------
(* fastiron_vlan: apply and remove.                                        *)

\* Faults the properties must detect.
TrustPlan == TRUE
ForgetRoutes == call.id = default
NothingOrphaned(i) == FALSE
NotDefault == call.id # default

RejectDefault ==
    /\ pc = "rejectDefault"
    /\ IF NotDefault THEN Goto("current") ELSE Failed

\* The entry RESTCONF lists; a matching one needs no write.
ReadVlan ==
    /\ pc = "current"
    /\ IF call.id \in Listed /\ ListedName(call.id) = call.name
       THEN Succeed
       ELSE Goto(IF call.id \in Listed THEN "patch" ELSE "post")

WriteVlan ==
    /\ pc \in {"post", "patch"}
    /\ Request(/\ IF pc = "post" /\ call.id \in Vlans
                  THEN UNCHANGED names
                  ELSE names' = [i \in Vlans \union {call.id} |->
                                     IF i = call.id THEN call.name ELSE names[i]]
               /\ orphans' = orphans \ {call.id} /\ UNCHANGED <<default, links, routed>>,
               "readVlan")

VerifyVlan ==
    /\ pc = "readVlan"
    /\ IF call.id \in Listed /\ ListedName(call.id) = call.name THEN Succeed ELSE Failed

FindVlan ==
    /\ pc = "find"
    /\ IF call.id \in Listed THEN Goto("children") ELSE Succeed

\* vlanChildren: separately managed settings that deletion would erase.
MembersOf(i) == {l \in links : l.id = i}
HasChildren == call.id = default \/ call.id \in routed \/ MembersOf(call.id) # {}

CheckChildren ==
    /\ pc = "children"
    /\ IF HasChildren THEN Failed ELSE Goto("delete")

\* The switch erases what hangs on a VLAN it deletes, and keeps its default.
Erase(i) ==
    IF i = default THEN UNCHANGED switch
    ELSE /\ names' = [j \in Vlans \ {i} |-> names[j]]
         /\ links' = links \ MembersOf(i) /\ routed' = routed \ {i}
         /\ orphans' = orphans \ {i} /\ UNCHANGED default

DeleteVlan == pc = "delete" /\ Request(Erase(call.id), "gone")

VerifyGone ==
    /\ pc = "gone"
    /\ IF call.id \in Listed THEN Failed ELSE Succeed

-----------------------------------------------------------------------------
(* fastiron_vlan_membership: applyMembership.                              *)

Joining == call.op = "join"
Exists == IF call.tag = "untagged" THEN Access(call.port) = call.id
          ELSE call.id \in Trunks(call.port)

ReadPort ==
    /\ pc = "port"
    /\ See("membershipDefault")

\* The port as ReadPort saw it.
Was(tag) == {l.id : l \in {k \in seen.links : k.port = call.port /\ k.tag = tag}}
WasAccess == IF Was("untagged") = {} THEN seen.default ELSE CHOOSE i \in Was("untagged") : TRUE
WasMember ==
    IF call.tag = "untagged" THEN WasAccess = call.id ELSE call.id \in Was("tagged")

MembershipDefault ==
    /\ pc = "membershipDefault"
    /\ \/ ~NotDefault /\ Failed
       \/ NotDefault /\ WasMember = Joining /\ Succeed
       \/ /\ NotDefault /\ WasMember # Joining
          /\ pc' = (IF Joining THEN "parent" ELSE "relate") /\ found' = default
          /\ Frame /\ UNCHANGED <<seen, keys>>

\* A fault the properties must detect.
Unverified == TRUE

\* Another untagged VLAN, or this one with the other tagging, owns the port.
Conflict ==
    \/ call.tag = "untagged" /\ WasAccess \notin {found, call.id}
    \/ call.tag = "tagged" /\ call.id \in Was("untagged")
    \/ call.tag = "untagged" /\ call.id \in Was("tagged")

ReadParent ==
    /\ pc = "parent"
    /\ IF call.id \notin Listed \/ Conflict THEN Failed ELSE Goto("relate")

\* PATCH merges and replaces a port's untagged VLAN; a keyed DELETE removes one
\* relation.
Related ==
    LET l == Link(call)
        displaced == {k \in links : k.port = l.port /\ k # l
                          /\ (k.id = l.id \/ (l.tag = "untagged" /\ k.tag = "untagged"))}
    IN IF ~Joining THEN links \ {l}
       ELSE IF l.id \notin Vlans \ {default} THEN links
       ELSE (links \ displaced) \union {l}

\* A switch may replace the list that it should merge.
Replaced == {k \in links : k.port # call.port} \union {Link(call)}

Relate ==
    /\ pc = "relate"
    /\ \/ Request(links' = Related /\ UNCHANGED <<default, names, routed, orphans>>, "related")
       \/ /\ Joining /\ call.id \in Vlans \ {default} /\ ~writeFailed
          /\ outside < MaxOutside /\ outside' = outside + 1
          /\ links' = Replaced /\ pc' = "related"
          /\ UNCHANGED <<default, names, routed, orphans, call, seen, found, keys,
                         writeFailed, owned, calls, faults, quiet>>

\* Neighbours of the relation: another VLAN, or under a tagged change the
\* access VLAN, that an operation on one relation must leave alone.
NeighboursKept ==
    /\ call.tag = "tagged" => Access(call.port) = WasAccess
    /\ Was("tagged") \ {call.id} \subseteq Trunks(call.port)

VerifyMembership ==
    /\ pc = "related"
    /\ IF Exists = Joining /\ NeighboursKept THEN Succeed ELSE Failed

-----------------------------------------------------------------------------
(* fastiron_default_vlan: applyDefault and cleanDefaultEntries.            *)

ReadDefault ==
    /\ pc = "readDefault"
    /\ IF call.id # default /\ call.id \in Vlans THEN Failed ELSE See("inventory")

\* Only entries that name a former default, and no native VLAN, are cleaned.
Orphaned(i) == ListedName(i) = Reserved /\ i \notin DOMAIN seen.vlans \union {seen.default}

Inventory ==
    /\ pc = "inventory" /\ pc' = "recheck" /\ keys' = {i \in Listed : Orphaned(i)}
    /\ Frame /\ UNCHANGED <<seen, found>>

Unchanged(before) == default = before.default /\ Preserves(before)

\* The call selects the default it found, or moves on to selecting another.
Recheck ==
    /\ pc = "recheck"
    /\ IF keys = {}
       THEN IF call.id = seen.default THEN Succeed ELSE Goto("free")
       ELSE IF Unchanged(seen) THEN Goto("clean") ELSE Failed

Key == CHOOSE i \in keys : \A j \in keys : i <= j

Clean == pc = "clean" /\ Request(Erase(Key), "cleaned")

Cleaned ==
    /\ pc = "cleaned"
    /\ IF ~Unchanged(seen) \/ writeFailed THEN Failed ELSE Goto("remaining")

Remaining ==
    /\ pc = "remaining"
    /\ \/ Key \in Listed /\ Failed
       \/ /\ Key \notin Listed /\ keys' = keys \ {Key} /\ pc' = "recheck"
          /\ Frame /\ UNCHANGED <<seen, found>>

Free ==
    /\ pc = "free"
    /\ IF call.id \in Listed THEN Failed ELSE Goto("unchanged")

StillUnchanged ==
    /\ pc = "unchanged"
    /\ IF Unchanged(seen) THEN Goto("move") ELSE Failed

\* FastIron renumbers the default VLAN and its VE to an unused id.
Renumber(i) ==
    /\ default' = i
    /\ names' = [j \in (Vlans \ {default}) \union {i} |->
                     IF j = i THEN names[default] ELSE names[j]]
    /\ routed' = IF default \in routed THEN (routed \ {default}) \union {i} ELSE routed
    /\ UNCHANGED links

\* RESTCONF may keep the old entry.
Move ==
    /\ pc = "move"
    /\ Request(IF call.id \in Vlans THEN UNCHANGED switch
               ELSE /\ Renumber(call.id)
                    /\ orphans' \in {o \ {call.id} : o \in {orphans, orphans \union {default}}},
               "moved")

Moved ==
    /\ pc = "moved"
    /\ IF default = call.id /\ Preserves(seen) /\ ~writeFailed
       THEN See("inventory")
       ELSE Failed

-----------------------------------------------------------------------------
(* Other administrators: VLANs come, go and are renamed, ports join and    *)
(* leave, the default moves to a free VLAN, a VE appears.                  *)

Outside ==
    /\ outside < MaxOutside /\ outside' = outside + 1 /\ quiet' = FALSE
    /\ \/ \E i \in Ids \ {default}, n \in Names \union {Reserved} :
            /\ names' = [j \in Vlans \union {i} |-> IF j = i THEN n ELSE names[j]]
            /\ UNCHANGED <<default, links, routed>>
       \/ \E i \in Vlans \ {default} :
            /\ names' = [j \in Vlans \ {i} |-> names[j]]
            /\ links' = links \ MembersOf(i) /\ routed' = routed \ {i} /\ UNCHANGED default
       \/ \E l \in Links :
            /\ l.id \in Vlans \ {default} /\ ~\E k \in links : k.port = l.port /\ k.id = l.id
            /\ links' = {k \in links : ~(l.tag = "untagged" /\ k.port = l.port /\ k.tag = l.tag)}
                          \union {l}
            /\ UNCHANGED <<default, names, routed>>
       \/ \E l \in links : links' = links \ {l} /\ UNCHANGED <<default, names, routed>>
       \/ \E i \in Ids \ Vlans : Renumber(i)
       \/ \E i \in Vlans \ routed : routed' = routed \union {i} /\ UNCHANGED <<default, names, links>>
    /\ orphans' = orphans \ DOMAIN names'
    /\ UNCHANGED <<call, progress, writeFailed, owned, calls, faults>>

ApplyVlan == RejectDefault \/ ReadVlan \/ WriteVlan \/ VerifyVlan
RemoveVlan == FindVlan \/ CheckChildren \/ DeleteVlan \/ VerifyGone
ApplyMembership == ReadPort \/ MembershipDefault \/ ReadParent \/ Relate \/ VerifyMembership
CleanDefaultEntries == Inventory \/ Recheck \/ Clean \/ Cleaned \/ Remaining
ApplyDefault == ReadDefault \/ CleanDefaultEntries \/ Free \/ StillUnchanged \/ Move \/ Moved

\* Nothing is left to run.
Done == pc = "idle" /\ calls = MaxCalls /\ UNCHANGED vars

Next ==
    \/ \E c \in Calls : Begin(c)
    \/ ReadFails \/ ApplyVlan \/ RemoveVlan \/ ApplyMembership \/ ApplyDefault
    \/ Outside \/ Done

Spec == Init /\ [][Next]_vars

-----------------------------------------------------------------------------
(* Properties.                                                             *)

\* Every variable has its type.
TypeOK ==
    /\ default \in Vlans /\ Vlans \subseteq Ids /\ \A i \in Vlans : names[i] \in Names \union {Reserved}
    /\ links \subseteq Links /\ (\A l \in links : l.id \in Vlans \ {default}) /\ routed \subseteq Vlans /\ orphans \subseteq Ids \ Vlans
    /\ call \in Calls \union {NoCall} /\ (call = NoCall <=> pc = "idle")
    /\ keys \subseteq Ids /\ found \in Ids /\ writeFailed \in BOOLEAN
    /\ ownVlans \subseteq Ids /\ ownLinks \subseteq Links /\ ownDefault \in Ids \union {Nobody}
    /\ calls \in 0..MaxCalls /\ faults \in 0..MaxFaults /\ outside \in 0..MaxOutside

\* No call breaks what another established, whatever order they run in and
\* whichever requests fail half-way: while nobody else configures the switch
\* and it merges what it should, every VLAN, membership and selection that a
\* resource reported is still there, and no ordinary VLAN resource manages the
\* default (rejectDefault, vlanChildren, applyMembership's conflicts,
\* applyDefault's free target).
OwnedStays ==
    outside = 0 =>
        /\ ownVlans \subseteq Vlans \ {default}
        /\ ownLinks \subseteq links
        /\ ownDefault \in {Nobody, default}

\* Deleting a VLAN, or the entries of a former default, erases no membership,
\* no VE and no other VLAN, unless someone else acted since the call began.
NothingElseErased ==
    quiet' /\ pc \in {"delete", "clean"} =>
        /\ links' = links /\ routed' = routed
        /\ Vlans \ (IF pc = "delete" THEN {call.id} ELSE {}) \subseteq DOMAIN names'
ErasesOnlyTheVlan == [][NothingElseErased]_vars

\* A membership call that succeeds has kept the port's other memberships, even
\* on a switch that replaces the list it should merge.
JoinsBeside == \A l \in ownLinks' \ ownLinks : quiet' => seen.links \ {l} \subseteq links'
NeighboursSurvive == [][JoinsBeside]_vars

\* A selection that succeeded leaves no entry of a former default behind.
NoFormerDefault == ownDefault = default => orphans = {}
=============================================================================
