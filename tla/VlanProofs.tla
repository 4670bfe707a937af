------------------------------- MODULE VlanProofs -------------------------------
(* What the VLAN resources of a switch establish stays, and what they clean  *)
(* is all they erase, for any VLANs, ports and names and any number of calls.*)
EXTENDS Vlan, TLAPS, WellFoundedInduction

-----------------------------------------------------------------------------
(* The inductive invariant.                                                *)

ApplyPcs == {"rejectDefault", "current", "post", "patch", "readVlan"}
RemovePcs == {"find", "children", "delete", "gone"}
MemberPcs == {"port", "membershipDefault", "parent", "relate", "related"}
CleanPcs == {"recheck", "clean", "cleaned", "remaining"}
SelectPcs == {"readDefault", "inventory", "free", "unchanged", "move", "moved"} \union CleanPcs

\* A port is untagged in one VLAN.
OneAccess(ls) ==
    \A k, l \in ls : k.port = l.port /\ k.tag = "untagged" /\ l.tag = "untagged" => k = l

\* The switch is one that FastIron runs.
SwitchInv ==
    /\ default \in Vlans /\ Vlans \subseteq Ids /\ \A i \in Vlans : names[i] \in Names \union {Reserved}
    /\ links \subseteq Links /\ (\A l \in links : l.id \in Vlans \ {default}) /\ OneAccess(links)
    /\ routed \subseteq Vlans /\ orphans \subseteq Ids \ Vlans

\* A call is where its kind may be.
CallInv ==
    \/ pc = "idle" /\ call = NoCall
    \/ pc \in ApplyPcs /\ call \in [op : {"apply"}, id : Ids, name : Names]
    \/ pc \in RemovePcs /\ call \in [op : {"remove"}, id : Ids]
    \/ pc \in MemberPcs /\ call \in [op : {"join", "leave"}, port : Ports, id : Ids, tag : Tags]
    \/ pc \in SelectPcs /\ call \in [op : {"select"}, id : Ids]

\* What the call read is a configuration that the switch had.
SeenInv ==
    /\ seen.links \subseteq Links /\ OneAccess(seen.links) /\ \A l \in seen.links : l.id # seen.default
    /\ found \in Ids /\ keys \subseteq Ids

BoundInv ==
    /\ writeFailed \in BOOLEAN /\ calls \in 0..MaxCalls /\ faults \in 0..MaxFaults
    /\ outside \in 0..MaxOutside /\ quiet \in BOOLEAN /\ (outside = 0 => quiet)

\* Nothing is promised of what the call under way manages.
OwnInv ==
    /\ ownVlans \subseteq Ids /\ ownLinks \subseteq Links /\ ownDefault \in Ids \union {Nobody}
    /\ call.op \in {"apply", "remove"} => call.id \notin ownVlans
    /\ call.op \in {"join", "leave"} => Link(call) \notin ownLinks
    /\ call.op = "select" => ownDefault = Nobody

\* Before a join nothing of the port stands in its way.
NothingInTheWay ==
    \A k \in seen.links : k.port = call.port =>
        k.id # call.id /\ ~(k.tag = "untagged" /\ call.tag = "untagged")

\* While nobody else acts, what the call checked still holds.
CheckedInv ==
    quiet =>
        /\ pc \in {"current", "post", "patch", "readVlan", "parent", "relate", "related"} => call.id # default
        /\ pc = "delete" => call.id \notin routed \union {default} /\ MembersOf(call.id) = {}
        /\ pc \in {"membershipDefault", "parent", "relate"} => seen.links = links
        /\ pc \in MemberPcs \ {"port"} => seen.default = default
        /\ pc = "parent" => found = default /\ Joining
        /\ pc \in {"parent", "relate"} => WasMember # Joining
        /\ pc \in {"relate", "related"} /\ Joining => NothingInTheWay
        /\ pc = "related" => \A k \in seen.links : k.port # call.port => k \in links
        /\ pc = "inventory" => DOMAIN seen.vlans = Vlans \ {default}
        /\ pc \in {"inventory"} \union CleanPcs => seen.default = default
        /\ pc \in CleanPcs => keys \intersect Vlans = {}

\* Whatever others do, the entries of a former default are those the call
\* still has to examine, and none is left once a selection stands.
OrphanInv ==
    /\ ownDefault # Nobody => orphans = {}
    /\ pc = "inventory" => orphans \intersect (DOMAIN seen.vlans \union {seen.default}) = {}
    /\ pc \in CleanPcs => orphans \subseteq keys
    /\ pc \in {"clean", "cleaned", "remaining"} => keys # {}

IInv ==
    /\ SwitchInv /\ CallInv /\ SeenInv /\ BoundInv /\ OwnInv
    /\ CheckedInv /\ OrphanInv /\ OwnedStays

-----------------------------------------------------------------------------
(* Operators.                                                              *)

\* A read returns what the switch has.
LEMMA NativeIs ==
    Native.links = links /\ Native.default = default /\ DOMAIN Native.vlans = Vlans \ {default}
BY DEF Native

\* cleanDefaultEntries takes one of the keys it still has to examine.
LEMMA KeyIsOne == ASSUME keys \subseteq Ids, keys # {} PROVE Key \in keys
<1> DEFINE R == OpToRel(<, Nat)
<1>1. keys \subseteq Nat
  BY VlanAssumption
<1>2. PICK i \in keys : \A j \in keys : ~(<<j, i>> \in R)
  <2> HIDE DEF R
  <2>1. IsWellFoundedOn(R, Nat)
    BY NatLessThanWellFounded DEF R
  <2> QED BY <1>1, <2>1, WFMin
<1>3. \A j \in keys : i <= j
  <2> SUFFICES ASSUME NEW j \in keys PROVE ~(j < i)
    BY <1>1
  <2>1. j < i => <<j, i>> \in R
    BY <1>1 DEF OpToRel
  <2> QED BY <1>2, <2>1
<1> QED BY <1>3 DEF Key

\* The access VLAN of a port, and of the port the call read.
LEMMA AccessIs ==
    ASSUME NEW p
    PROVE  \/ Of(p, "untagged") = {} /\ Access(p) = default
           \/ \E l \in links : l.port = p /\ l.tag = "untagged" /\ Access(p) = l.id
BY DEF Access, Of

LEMMA WasAccessIs ==
    \/ /\ \A k \in seen.links : ~(k.port = call.port /\ k.tag = "untagged")
       /\ WasAccess = seen.default
    \/ \E k \in seen.links : k.port = call.port /\ k.tag = "untagged" /\ WasAccess = k.id
<1>1. CASE Was("untagged") = {}
  BY <1>1 DEF Was, WasAccess
<1>2. CASE Was("untagged") # {}
  <2>1. WasAccess \in Was("untagged")
    BY <1>2 DEF WasAccess
  <2> QED BY <2>1 DEF Was
<1> QED BY <1>1, <1>2

\* A link is what its fields say.
LEMMA LinkIs ==
    ASSUME NEW l \in Links
    PROVE  /\ l.port \in Ports /\ l.id \in Ids /\ l.tag \in Tags
           /\ \A k \in Links : k.port = l.port /\ k.id = l.id /\ k.tag = l.tag => k = l
BY DEF Links

LEMMA CallLink ==
    ASSUME call \in [op : {"join", "leave"}, port : Ports, id : Ids, tag : Tags]
    PROVE  /\ Link(call) \in Links
           /\ Link(call).port = call.port /\ Link(call).id = call.id /\ Link(call).tag = call.tag
           /\ call.op \in {"join", "leave"} /\ call.id \in Ids /\ call.tag \in Tags
BY DEF Link, Links

-----------------------------------------------------------------------------
LEMMA InitIInv == Init => IInv
<1> SUFFICES ASSUME Init PROVE IInv
  OBVIOUS
<1> USE VlanAssumption, NativeIs DEF Init, NoCall, Vlans
<1>1. SwitchInv BY DEF SwitchInv, OneAccess
<1>2. CallInv BY DEF CallInv
<1>3. SeenInv BY DEF SeenInv, OneAccess
<1>4. BoundInv
  <2>1. writeFailed \in BOOLEAN /\ quiet \in BOOLEAN /\ quiet BY Zenon
  <2>2. calls \in 0..MaxCalls /\ faults \in 0..MaxFaults /\ outside \in 0..MaxOutside BY SMT
  <2> QED BY <2>1, <2>2, Zenon DEF BoundInv
<1>5. OwnInv BY DEF OwnInv
<1>6. CheckedInv BY DEF CheckedInv, CleanPcs, MemberPcs
<1>7. OrphanInv BY DEF OrphanInv, CleanPcs
<1>8. OwnedStays BY DEF OwnedStays
<1> QED BY <1>1, <1>2, <1>3, <1>4, <1>5, <1>6, <1>7, <1>8 DEF IInv

-----------------------------------------------------------------------------
(* How a step keeps the invariant.                                         *)

LEMMA SwitchKept == SwitchInv /\ UNCHANGED switch => SwitchInv'
BY DEF SwitchInv, switch, Vlans

\* The bounds, when a step takes at most one more fault.
LEMMA BoundKept ==
    ASSUME BoundInv, UNCHANGED <<calls, outside, quiet>>,
           writeFailed' \in BOOLEAN, faults' \in 0..MaxFaults
    PROVE  BoundInv'
<1>1. quiet' \in BOOLEAN /\ (outside' = 0 => quiet')
  BY Zenon DEF BoundInv
<1>2. calls' \in 0..MaxCalls /\ outside' \in 0..MaxOutside
  BY DEF BoundInv
<1> QED BY <1>1, <1>2, Zenon DEF BoundInv

\* A step within a call.
LEMMA Within ==
    ASSUME IInv, UNCHANGED <<call, owned, calls, outside, quiet>>,
           writeFailed' \in BOOLEAN, faults' \in 0..MaxFaults,
           SwitchInv', CallInv', SeenInv', CheckedInv', OrphanInv', OwnedStays'
    PROVE  IInv'
<1>1. BoundInv'
  BY BoundKept DEF IInv
<1>2. OwnInv'
  BY DEF IInv, OwnInv, owned, Link
<1> QED BY <1>1, <1>2 DEF IInv

\* A step that neither writes nor ends the call.
LEMMA Moves ==
    ASSUME IInv, Frame, CallInv', SeenInv', CheckedInv', OrphanInv'
    PROVE  IInv'
<1>1. /\ UNCHANGED switch /\ UNCHANGED <<call, owned, calls, outside, quiet>>
      /\ writeFailed' = writeFailed /\ faults' = faults
  BY DEF Frame, bounds
<1>2. SwitchInv' BY <1>1, SwitchKept DEF IInv
<1>3. OwnedStays' BY <1>1 DEF IInv, OwnedStays, owned, switch, Vlans
<1>4. writeFailed' \in BOOLEAN /\ faults' \in 0..MaxFaults
  BY <1>1, Zenon DEF IInv, BoundInv
<1> QED BY <1>1, <1>2, <1>3, <1>4, Within

\* A call that ends with an error promises nothing new.
LEMMA Ends ==
    ASSUME IInv, pc' = "idle", call' = NoCall, UNCHANGED <<switch, seen, found, keys, owned>>,
           BoundInv', outside' = outside
    PROVE  IInv'
<1>1. SwitchInv' BY SwitchKept DEF IInv
<1>2. CallInv' BY DEF CallInv
<1>3. SeenInv' BY DEF IInv, SeenInv
<1>4. OwnInv' BY DEF IInv, OwnInv, owned, NoCall
<1>5. CheckedInv' BY DEF CheckedInv, MemberPcs, CleanPcs
<1>6. OrphanInv' BY DEF IInv, OrphanInv, owned, switch, CleanPcs
<1>7. OwnedStays' BY DEF IInv, OwnedStays, owned, switch, Vlans
<1> QED BY <1>1, <1>2, <1>3, <1>4, <1>5, <1>6, <1>7 DEF IInv

LEMMA Fails == ASSUME IInv, Failed PROVE IInv'
<1>1. BoundInv'
  BY BoundKept DEF IInv, Failed, bounds, BoundInv
<1> QED BY <1>1, Ends DEF Failed, bounds

LEMMA ReadFailsIInv == ASSUME IInv, ReadFails PROVE IInv'
<1>1. writeFailed' = writeFailed /\ UNCHANGED <<calls, outside, quiet>> /\ faults' \in 0..MaxFaults
  BY VlanAssumption DEF IInv, BoundInv, ReadFails
<1>2. BoundInv'
  BY <1>1, BoundKept, Zenon DEF IInv, BoundInv
<1> QED BY <1>1, <1>2, Ends DEF ReadFails

\* A call that succeeds establishes what the switch has.
LEMMA Succeeds ==
    ASSUME IInv, Succeed, pc # "idle",
           call.op = "apply" /\ outside = 0 => call.id \in Vlans \ {default},
           call.op = "join" /\ outside = 0 => Link(call) \in links,
           call.op = "select" => orphans = {} /\ (outside = 0 => call.id = default)
    PROVE  IInv'
<1>1. CASE Failed BY <1>1, Fails
<1>2. CASE ~Failed
  <2>1. /\ pc' = "idle" /\ call' = NoCall /\ Established
        /\ UNCHANGED switch /\ UNCHANGED <<seen, found, keys, writeFailed>>
        /\ UNCHANGED <<calls, faults, outside, quiet>>
    BY <1>2 DEF Succeed, bounds
  <2>2. SwitchInv' BY <2>1, SwitchKept DEF IInv
  <2>3. CallInv' BY <2>1 DEF CallInv
  <2>4. SeenInv' BY <2>1 DEF IInv, SeenInv
  <2>5. BoundInv' BY <2>1, BoundKept, Zenon DEF IInv, BoundInv
  <2>6. /\ call.op = "apply" => call.id \in Ids
        /\ call.op = "join" => Link(call) \in Links
        /\ call.op = "select" => call.id \in Ids
    BY CallLink DEF IInv, CallInv
  <2>7. OwnInv' BY <2>1, <2>6 DEF IInv, OwnInv, Established, NoCall
  <2>8. CheckedInv' BY <2>1 DEF CheckedInv, MemberPcs, CleanPcs
  <2>9. OrphanInv' BY <2>1 DEF IInv, OrphanInv, switch, Established, CleanPcs
  <2>10. OwnedStays' BY <2>1 DEF IInv, OwnedStays, switch, Established, Vlans
  <2> QED BY <2>2, <2>3, <2>4, <2>5, <2>7, <2>8, <2>9, <2>10 DEF IInv
<1> QED BY <1>1, <1>2

\* A request changes the switch as the call meant, or not at all.
Sent ==
    /\ UNCHANGED <<call, seen, found, keys, owned, calls, outside, quiet>>
    /\ writeFailed' \in BOOLEAN /\ faults' \in 0..MaxFaults

Harmless == SwitchInv' /\ OwnedStays' /\ orphans' \subseteq orphans

\* The bounds of a request; which effect it may have is of no matter.
LEMMA SentIs == ASSUME IInv, Request(TRUE, pc') PROVE Sent
<1>1. UNCHANGED <<call, seen, found, keys, owned, calls, outside, quiet>>
  BY DEF Request
<1>2. writeFailed' \in BOOLEAN
  BY Zenon DEF Request, IInv, BoundInv
<1>3. faults' = faults \/ (faults < MaxFaults /\ faults' = faults + 1)
  BY SMT DEF Request
<1>4. faults' \in 0..MaxFaults
  BY <1>3, VlanAssumption DEF IInv, BoundInv
<1> QED BY <1>1, <1>2, <1>4, Zenon DEF Sent

\* No request at all is harmless.
LEMMA NoEffect == ASSUME IInv, UNCHANGED switch, UNCHANGED <<owned, outside>> PROVE Harmless
<1>1. SwitchInv' BY SwitchKept DEF IInv
<1>2. OwnedStays' /\ orphans' \subseteq orphans
  BY DEF IInv, OwnedStays, owned, switch, Vlans
<1> QED BY <1>1, <1>2 DEF Harmless

-----------------------------------------------------------------------------
(* Every step keeps the invariant.                                         *)

LEMMA BeginIInv == ASSUME IInv, NEW c \in Calls, Begin(c) PROVE IInv'
<1>1. /\ UNCHANGED switch /\ call' = c /\ pc' = First(c.op) /\ seen' = Native /\ keys' = {}
      /\ UNCHANGED <<found, faults, outside>> /\ calls < MaxCalls /\ calls' = calls + 1
  BY DEF Begin
<1>2. quiet' = TRUE /\ writeFailed' = FALSE
  BY Zenon DEF Begin
<1>3. SwitchInv' BY <1>1, SwitchKept DEF IInv
<1>4. CallInv'
  BY <1>1 DEF Calls, CallInv, First, ApplyPcs, RemovePcs, MemberPcs, SelectPcs
<1>5. SeenInv'
  BY <1>1, NativeIs DEF IInv, SeenInv, SwitchInv
<1>6. BoundInv'
  <2>1. writeFailed' \in BOOLEAN /\ quiet' \in BOOLEAN /\ quiet' BY <1>2, Zenon
  <2>2. calls' \in 0..MaxCalls /\ faults' \in 0..MaxFaults /\ outside' \in 0..MaxOutside
    BY <1>1, VlanAssumption DEF IInv, BoundInv
  <2> QED BY <2>1, <2>2, Zenon DEF BoundInv
<1>7. OwnInv'
  BY <1>1 DEF Begin, IInv, OwnInv, Link
<1>8. CheckedInv'
  BY <1>1 DEF CheckedInv, First, Calls, MemberPcs, CleanPcs
<1>9. OrphanInv'
  BY <1>1 DEF Begin, IInv, OrphanInv, First, Calls, CleanPcs, switch
<1>10. OwnedStays'
  BY <1>1 DEF Begin, IInv, OwnedStays, switch, Vlans
<1> QED BY <1>3, <1>4, <1>5, <1>6, <1>7, <1>8, <1>9, <1>10 DEF IInv

\* What a request may do, once what it means is harmless.
LEMMA Writes ==
    ASSUME IInv, Sent, Harmless, pc # "idle", pc' # "idle",
           \E at \in {ApplyPcs, RemovePcs, MemberPcs, SelectPcs} : pc \in at /\ pc' \in at,
           CheckedInv', OrphanInv'
    PROVE  IInv'
<1>1. CallInv'
  BY DEF IInv, CallInv, Sent, ApplyPcs, RemovePcs, MemberPcs, SelectPcs, CleanPcs
<1>2. SeenInv'
  BY DEF IInv, SeenInv, Sent
<1>3. /\ UNCHANGED <<call, owned, calls, outside, quiet>>
      /\ writeFailed' \in BOOLEAN /\ faults' \in 0..MaxFaults
  BY DEF Sent
<1> QED BY <1>1, <1>2, <1>3, Within DEF Harmless

\* fastiron_vlan: apply.
WriteEffect ==
    /\ IF pc = "post" /\ call.id \in Vlans
       THEN UNCHANGED names
       ELSE names' = [i \in Vlans \union {call.id} |->
                          IF i = call.id THEN call.name ELSE names[i]]
    /\ orphans' = orphans \ {call.id} /\ UNCHANGED <<default, links, routed>>

LEMMA ApplyIInv == IInv /\ ApplyVlan => IInv'
<1> SUFFICES ASSUME IInv, ApplyVlan PROVE IInv'
  OBVIOUS
<1>0. pc \in ApplyPcs /\ call \in [op : {"apply"}, id : Ids, name : Names]
  BY DEF IInv, CallInv, ApplyVlan, RejectDefault, ReadVlan, WriteVlan, VerifyVlan,
         ApplyPcs, RemovePcs, MemberPcs, SelectPcs, CleanPcs
<1>1. call.op = "apply" /\ call.id \in Ids /\ call.name \in Names
  BY <1>0
<1>2. call.id \in Listed /\ ListedName(call.id) = call.name => call.id \in Vlans
  BY <1>1, VlanAssumption DEF Listed, ListedName
<1>3. CASE RejectDefault
  <2>1. CASE Failed BY <2>1, Fails
  <2>2. CASE ~Failed
    <3>1. Goto("current") /\ call.id # default BY <1>3, <2>2 DEF RejectDefault, NotDefault
    <3>2. CallInv' BY <1>0, <3>1 DEF Goto, Frame, CallInv, ApplyPcs
    <3>3. SeenInv' BY <3>1 DEF IInv, SeenInv, Goto
    <3>4. CheckedInv' BY <3>1 DEF CheckedInv, Goto, Frame, switch, MemberPcs, CleanPcs
    <3>5. OrphanInv' BY <3>1 DEF IInv, OrphanInv, Goto, Frame, switch, owned, CleanPcs
    <3> QED BY <3>1, <3>2, <3>3, <3>4, <3>5, Moves DEF Goto
  <2> QED BY <2>1, <2>2
<1>4. CASE ReadVlan
  <2>1. CASE call.id \in Listed /\ ListedName(call.id) = call.name
    <3>1. Succeed BY <1>4, <2>1 DEF ReadVlan
    <3>2. outside = 0 => call.id \in Vlans \ {default}
      BY <1>2, <1>4, <2>1 DEF IInv, BoundInv, CheckedInv, ReadVlan
    <3> QED BY <1>1, <1>4, <3>1, <3>2, Succeeds DEF ReadVlan
  <2>2. CASE ~(call.id \in Listed /\ ListedName(call.id) = call.name)
    <3>0. pc = "current" BY <1>4 DEF ReadVlan
    <3>1. (Goto("patch") \/ Goto("post")) /\ (quiet => call.id # default)
      BY <1>4, <2>2, <3>0 DEF ReadVlan, IInv, CheckedInv
    <3>2. CallInv' BY <1>0, <3>1 DEF Goto, Frame, CallInv, ApplyPcs
    <3>3. SeenInv' BY <3>1 DEF IInv, SeenInv, Goto
    <3>4. CheckedInv' BY <3>1 DEF CheckedInv, Goto, Frame, switch, bounds, MemberPcs, CleanPcs
    <3>5. OrphanInv' BY <3>1 DEF IInv, OrphanInv, Goto, Frame, switch, owned, CleanPcs
    <3>6. Frame BY <3>1 DEF Goto
    <3> QED BY <3>2, <3>3, <3>4, <3>5, <3>6, Moves
  <2> QED BY <2>1, <2>2
<1>5. CASE WriteVlan
  <2>1. pc' = "readVlan" /\ Sent /\ (WriteEffect \/ UNCHANGED switch) /\ pc \in {"post", "patch"}
    <3>1. Request(WriteEffect, "readVlan") /\ pc \in {"post", "patch"} BY <1>5 DEF WriteVlan, WriteEffect
    <3>2. pc' = "readVlan" /\ Request(TRUE, pc') /\ (WriteEffect \/ UNCHANGED switch)
      BY <3>1, Zenon DEF Request
    <3> QED BY <3>1, <3>2, SentIs
  <2>2. UNCHANGED <<owned, outside, quiet>> BY <2>1 DEF Sent
  <2>3. ASSUME WriteEffect PROVE Harmless
    <3>1. /\ Vlans' = Vlans \union {call.id} /\ default' = default /\ links' = links /\ routed' = routed
          /\ orphans' = orphans \ {call.id}
      BY <2>3 DEF WriteEffect, Vlans
    <3>2. \A i \in Vlans' : names'[i] \in Names \union {Reserved}
      BY <1>1, <2>3 DEF IInv, SwitchInv, WriteEffect, Vlans
    <3>3. SwitchInv'
      BY <1>1, <3>1, <3>2 DEF IInv, SwitchInv
    <3>4. OwnedStays' BY <2>2, <3>1 DEF IInv, OwnedStays, owned
    <3> QED BY <3>1, <3>3, <3>4 DEF Harmless
  <2>4. Harmless BY <2>1, <2>2, <2>3, NoEffect
  <2>5. CheckedInv'
    <3>1. default' = default BY <2>1 DEF switch, WriteEffect
    <3> QED BY <2>1, <3>1 DEF IInv, CheckedInv, Sent, MemberPcs, CleanPcs
  <2>6. OrphanInv' BY <2>1, <2>4 DEF IInv, OrphanInv, Harmless, Sent, owned, CleanPcs
  <2>7. pc \in ApplyPcs /\ pc' \in ApplyPcs /\ pc # "idle" /\ pc' # "idle"
    BY <2>1 DEF ApplyPcs
  <2>8. Sent BY <2>1
  <2> QED BY <2>4, <2>5, <2>6, <2>7, <2>8, Writes
<1>6. CASE VerifyVlan
  <2>1. CASE Failed BY <2>1, Fails
  <2>2. CASE ~Failed
    <3>1. Succeed /\ call.id \in Vlans BY <1>2, <1>6, <2>2 DEF VerifyVlan
    <3>2. outside = 0 => call.id # default BY <1>6 DEF IInv, BoundInv, CheckedInv, VerifyVlan
    <3> QED BY <1>1, <1>6, <3>1, <3>2, Succeeds DEF VerifyVlan
  <2> QED BY <2>1, <2>2
<1> QED BY <1>3, <1>4, <1>5, <1>6 DEF ApplyVlan

\* A step to another request of the call, which sees nothing new.
LEMMA Steps ==
    ASSUME IInv, Frame, UNCHANGED <<seen, found, keys>>, pc # "idle", pc' # "idle",
           \E at \in {ApplyPcs, RemovePcs, MemberPcs, SelectPcs} : pc \in at /\ pc' \in at,
           CheckedInv', pc' # "inventory", pc' \in CleanPcs => pc \in CleanPcs /\ keys # {}
    PROVE  IInv'
<1>1. CallInv'
  BY DEF IInv, CallInv, Frame, ApplyPcs, RemovePcs, MemberPcs, SelectPcs, CleanPcs
<1>2. SeenInv'
  BY DEF IInv, SeenInv
<1>3. OrphanInv'
  BY DEF IInv, OrphanInv, Frame, switch, owned, CleanPcs
<1> QED BY <1>1, <1>2, <1>3, Moves

\* What a deletion erases is nothing that stands, once nothing hangs on it.
LEMMA EraseHarmless ==
    ASSUME IInv, UNCHANGED <<owned, outside>>, NEW i, Erase(i),
           outside = 0 => i \notin ownVlans /\ MembersOf(i) = {}
    PROVE  Harmless /\ default' = default /\ Vlans' \subseteq Vlans
<1>1. CASE i = default
  <2>1. UNCHANGED switch BY <1>1 DEF Erase
  <2> QED BY <2>1, NoEffect DEF switch, Vlans
<1>2. CASE i # default
  <2>1. /\ Vlans' = Vlans \ {i} /\ default' = default /\ links' = links \ MembersOf(i)
        /\ routed' = routed \ {i} /\ orphans' = orphans \ {i}
        /\ \A j \in Vlans' : names'[j] = names[j]
    BY <1>2 DEF Erase, Vlans
  <2>2. SwitchInv'
    <3>1. links' \subseteq Links /\ (\A l \in links' : l.id \in Vlans' \ {default'})
      BY <2>1 DEF IInv, SwitchInv, MembersOf
    <3>2. OneAccess(links')
      BY <2>1 DEF IInv, SwitchInv, OneAccess
    <3> QED BY <1>2, <2>1, <3>1, <3>2 DEF IInv, SwitchInv
  <2>3. OwnedStays'
    BY <2>1 DEF IInv, OwnedStays, owned
  <2> QED BY <2>1, <2>2, <2>3 DEF Harmless
<1> QED BY <1>1, <1>2

\* fastiron_vlan: remove.
LEMMA RemoveIInv == IInv /\ RemoveVlan => IInv'
<1> SUFFICES ASSUME IInv, RemoveVlan PROVE IInv'
  OBVIOUS
<1>0. /\ pc \in RemovePcs /\ call.op = "remove" /\ call.id \notin ownVlans
      /\ pc # "idle"
  BY DEF IInv, CallInv, OwnInv, RemoveVlan, FindVlan, CheckChildren, DeleteVlan, VerifyGone,
         ApplyPcs, RemovePcs, MemberPcs, SelectPcs, CleanPcs
<1>1. ASSUME Succeed PROVE IInv'
  BY <1>0, <1>1, Succeeds
<1>2. ASSUME NEW next \in {"children", "delete"}, Goto(next), CheckedInv' PROVE IInv'
  <2>1. pc' = next /\ Frame /\ UNCHANGED <<seen, found, keys>> BY <1>2 DEF Goto
  <2>2. pc \in RemovePcs /\ pc' \in RemovePcs /\ pc' # "idle" /\ pc' # "inventory" /\ pc' \notin CleanPcs
    BY <1>0, <2>1 DEF RemovePcs, CleanPcs
  <2> QED BY <1>0, <1>2, <2>1, <2>2, Steps
<1>3. CASE FindVlan
  <2>1. Goto("children") => CheckedInv' BY DEF Goto, CheckedInv, MemberPcs, CleanPcs
  <2> QED BY <1>1, <1>2, <1>3, <2>1 DEF FindVlan
<1>4. CASE CheckChildren
  <2>1. CASE HasChildren BY <1>4, <2>1, Fails DEF CheckChildren
  <2>2. CASE ~HasChildren
    <3>1. Goto("delete") BY <1>4, <2>2 DEF CheckChildren
    <3>2. CheckedInv'
      BY <2>2, <3>1 DEF CheckedInv, Goto, Frame, switch, HasChildren, MembersOf, MemberPcs, CleanPcs
    <3> QED BY <1>2, <3>1, <3>2
  <2> QED BY <2>1, <2>2
<1>5. CASE DeleteVlan
  <2>1. pc = "delete" /\ pc' = "gone" /\ Request(TRUE, pc') /\ (Erase(call.id) \/ UNCHANGED switch)
    BY <1>5, Zenon DEF DeleteVlan, Request
  <2>2. Sent BY <2>1, SentIs
  <2>3. UNCHANGED <<owned, outside>> BY <2>2 DEF Sent
  <2>4. outside = 0 => MembersOf(call.id) = {}
    BY <2>1 DEF IInv, BoundInv, CheckedInv
  <2>5. Harmless BY <1>0, <2>1, <2>3, <2>4, EraseHarmless, NoEffect
  <2>6. CheckedInv' BY <2>1 DEF CheckedInv, MemberPcs, CleanPcs
  <2>7. OrphanInv' BY <2>1, <2>2, <2>5 DEF IInv, OrphanInv, Harmless, Sent, owned, CleanPcs
  <2>8. pc' \in RemovePcs /\ pc' # "idle" BY <2>1 DEF RemovePcs
  <2> QED BY <1>0, <2>2, <2>5, <2>6, <2>7, <2>8, Writes
<1>6. CASE VerifyGone
  BY <1>1, <1>6, Fails DEF VerifyGone
<1> QED BY <1>3, <1>4, <1>5, <1>6 DEF RemoveVlan

\* What the call read of the port is what the port has, while it does.
LEMMA SamePort ==
    ASSUME IInv, call.tag \in Tags, seen.links = links, seen.default = default
    PROVE  Exists <=> WasMember
<1>1. CASE call.tag = "untagged"
  <2>1. Access(call.port) = WasAccess
    <3>1. OneAccess(links) BY DEF IInv, SwitchInv
    <3>2. CASE Of(call.port, "untagged") = {}
      <4>1. \A k \in links : ~(k.port = call.port /\ k.tag = "untagged") BY <3>2 DEF Of
      <4> QED BY <4>1, AccessIs, WasAccessIs
    <3>3. CASE Of(call.port, "untagged") # {}
      <4>1. PICK l \in links : l.port = call.port /\ l.tag = "untagged" BY <3>3 DEF Of
      <4> QED BY <3>1, <3>3, <4>1, AccessIs, WasAccessIs DEF OneAccess
    <3> QED BY <3>2, <3>3
  <2> QED BY <1>1, <2>1 DEF Exists, WasMember
<1>2. CASE call.tag # "untagged"
  BY <1>2 DEF Exists, WasMember, Trunks, Of, Was
<1> QED BY <1>1, <1>2

\* A port that is a member of a VLAN other than the default has the link.
LEMMA MemberHasLink ==
    ASSUME IInv, call \in [op : {"join", "leave"}, port : Ports, id : Ids, tag : Tags],
           Exists, call.id # default
    PROVE  Link(call) \in links
<1>1. \E l \in links : l.port = call.port /\ l.id = call.id /\ l.tag = call.tag
  <2>1. CASE call.tag = "untagged"
    BY <2>1, AccessIs DEF Exists
  <2>2. CASE call.tag # "untagged"
    BY <2>2, CallLink DEF Exists, Trunks, Of, Tags
  <2> QED BY <2>1, <2>2
<1> QED BY <1>1, CallLink, LinkIs DEF IInv, SwitchInv

\* A call that does not find the port a member meets no link of its own.
LEMMA FreeWay ==
    ASSUME IInv, pc = "parent", quiet, ~Conflict, call.tag \in Tags
    PROVE  NothingInTheWay
<1>1. found = default /\ seen.default = default /\ Joining /\ ~WasMember /\ call.id # default
      /\ \A k \in seen.links : k.id # seen.default /\ k.tag \in Tags
  BY DEF IInv, CheckedInv, SeenInv, MemberPcs, Links
<1>2. CASE call.tag = "untagged"
  <2>1. WasAccess \in {default, call.id} /\ WasAccess # call.id
    BY <1>1, <1>2 DEF Conflict, WasMember
  <2>2. \A k \in seen.links : ~(k.port = call.port /\ k.tag = "untagged")
    BY <1>1, <2>1, WasAccessIs
  <2>3. call.id \notin Was("tagged")
    BY <1>2 DEF Conflict
  <2> QED BY <1>1, <2>2, <2>3 DEF NothingInTheWay, Was, Tags
<1>3. CASE call.tag # "untagged"
  <2>1. call.id \notin Was("tagged") \union Was("untagged")
    BY <1>1, <1>3 DEF Conflict, WasMember, Tags
  <2> QED BY <1>1, <1>3, <2>1 DEF NothingInTheWay, Was, Tags
<1> QED BY <1>2, <1>3

\* What a membership request changes: its own link, and what stands in the
\* way of a join.
RelateEffect == links' = Related /\ UNCHANGED <<default, names, routed, orphans>>

LEMMA RelateHarmless ==
    ASSUME IInv, pc = "relate", RelateEffect, UNCHANGED <<owned, outside>>
    PROVE  /\ Harmless /\ default' = default
           /\ \A k \in links : k.port # call.port => k \in links'
<1>1. /\ call \in [op : {"join", "leave"}, port : Ports, id : Ids, tag : Tags]
      /\ Link(call) \notin ownLinks
  BY CallLink DEF IInv, CallInv, OwnInv, ApplyPcs, RemovePcs, MemberPcs, SelectPcs, CleanPcs
<1>2. /\ Link(call) \in Links /\ Link(call).port = call.port /\ Link(call).id = call.id
      /\ Link(call).tag = call.tag /\ call.tag \in Tags
  BY <1>1, CallLink
<1>3. default' = default /\ Vlans' = Vlans /\ UNCHANGED <<names, routed, orphans>>
  BY DEF RelateEffect, Vlans
<1>4. links \subseteq Links /\ OneAccess(links) /\ \A l \in links : l.id \in Vlans \ {default}
  BY DEF IInv, SwitchInv
<1>5. /\ links' \subseteq links \union {Link(call)}
      /\ \A k \in links : k.port # call.port => k \in links'
      /\ Link(call) \in links' /\ Link(call) \notin links => call.id \in Vlans \ {default}
      /\ Link(call) \in links' /\ Link(call) \notin links /\ call.tag = "untagged" =>
           \A k \in links' : k.port = call.port /\ k.tag = "untagged" => k = Link(call)
  BY <1>2 DEF RelateEffect, Related
<1>6. OneAccess(links')
  BY <1>2, <1>4, <1>5 DEF OneAccess
<1>7. SwitchInv'
  BY <1>2, <1>3, <1>4, <1>5, <1>6 DEF IInv, SwitchInv
<1>8. OwnedStays'
  <2> SUFFICES ASSUME outside' = 0 PROVE OwnedStays'
    BY DEF OwnedStays
  <2>1. outside = 0 /\ quiet /\ ownLinks' = ownLinks /\ ownLinks \subseteq links
    BY DEF IInv, BoundInv, OwnedStays, owned
  <2>2. ownLinks \subseteq links'
    <3>1. CASE Joining
      <4>1. \A k \in links : k.port = call.port =>
                k.id # call.id /\ ~(k.tag = "untagged" /\ call.tag = "untagged")
        BY <2>1, <3>1 DEF IInv, CheckedInv, NothingInTheWay
      <4> QED BY <1>2, <2>1, <4>1 DEF RelateEffect, Related
    <3>2. CASE ~Joining
      BY <1>1, <2>1, <3>2 DEF RelateEffect, Related
    <3> QED BY <3>1, <3>2
  <2> QED BY <1>3, <2>1, <2>2 DEF IInv, OwnedStays, owned
<1> QED BY <1>3, <1>5, <1>7, <1>8 DEF Harmless

\* fastiron_vlan_membership.
LEMMA MembershipIInv == IInv /\ ApplyMembership => IInv'
<1> SUFFICES ASSUME IInv, ApplyMembership PROVE IInv'
  OBVIOUS
<1>0. /\ pc \in MemberPcs /\ call \in [op : {"join", "leave"}, port : Ports, id : Ids, tag : Tags]
      /\ pc # "idle"
  BY DEF IInv, CallInv, ApplyMembership, ReadPort, MembershipDefault, ReadParent, Relate, VerifyMembership,
         ApplyPcs, RemovePcs, MemberPcs, SelectPcs, CleanPcs
<1>1. call.op \in {"join", "leave"} /\ call.id \in Ids /\ call.tag \in Tags
  BY <1>0, CallLink
<1>2. ASSUME Succeed, outside = 0 /\ Joining => Exists /\ call.id # default PROVE IInv'
  BY <1>0, <1>1, <1>2, Succeeds, MemberHasLink DEF Joining
<1>3. CASE ReadPort
  <2>1. pc = "port" /\ pc' = "membershipDefault" /\ seen' = Native /\ Frame /\ UNCHANGED <<found, keys>>
    BY <1>3 DEF ReadPort, See
  <2>2. CallInv' BY <1>0, <2>1 DEF CallInv, MemberPcs, Frame
  <2>3. SeenInv' BY <2>1, NativeIs DEF IInv, SeenInv, SwitchInv
  <2>4. CheckedInv'
    BY <2>1, NativeIs DEF CheckedInv, Frame, switch, MemberPcs, CleanPcs
  <2>5. OrphanInv' BY <2>1 DEF IInv, OrphanInv, Frame, switch, owned, CleanPcs
  <2> QED BY <2>1, <2>2, <2>3, <2>4, <2>5, Moves
<1>4. CASE MembershipDefault
  <2>1. CASE Failed BY <2>1, Fails
  <2>2. CASE NotDefault /\ WasMember = Joining /\ Succeed
    <3>1. outside = 0 /\ Joining => WasMember /\ seen.links = links /\ seen.default = default
      BY <1>4, <2>2 DEF IInv, BoundInv, CheckedInv, MembershipDefault, MemberPcs, Joining
    <3> QED BY <1>1, <1>2, <2>2, <3>1, SamePort DEF NotDefault
  <2>3. CASE ~Failed /\ ~(NotDefault /\ WasMember = Joining /\ Succeed)
    <3>1. /\ NotDefault /\ WasMember # Joining /\ pc' = (IF Joining THEN "parent" ELSE "relate")
          /\ found' = default /\ Frame /\ UNCHANGED <<seen, keys>> /\ pc = "membershipDefault"
      BY <1>4, <2>3 DEF MembershipDefault
    <3>2. CallInv' BY <1>0, <3>1 DEF CallInv, MemberPcs, Frame
    <3>3. SeenInv' BY <3>1 DEF IInv, SeenInv, SwitchInv
    <3>4. CheckedInv'
      <4>1. WasMember' = WasMember /\ Joining' = Joining
        BY <3>1 DEF WasMember, Joining, Was, WasAccess, Frame
      <4> QED BY <3>1, <4>1 DEF IInv, CheckedInv, Frame, switch, bounds, NotDefault, MemberPcs, CleanPcs
    <3>5. OrphanInv' BY <3>1 DEF IInv, OrphanInv, Frame, switch, owned, CleanPcs
    <3> QED BY <3>1, <3>2, <3>3, <3>4, <3>5, Moves
  <2> QED BY <2>1, <2>2, <2>3
<1>5. CASE ReadParent
  <2>1. CASE Failed BY <2>1, Fails
  <2>2. CASE ~Failed
    <3>1. pc = "parent" /\ Goto("relate") /\ ~Conflict BY <1>5, <2>2 DEF ReadParent
    <3>2. pc' = "relate" /\ Frame /\ UNCHANGED <<seen, found, keys>> BY <3>1 DEF Goto
    <3>3. CheckedInv'
      <4>1. WasMember' = WasMember /\ Joining' = Joining /\ NothingInTheWay' = NothingInTheWay
        BY <3>2 DEF WasMember, Joining, Was, WasAccess, NothingInTheWay, Frame
      <4>2. quiet => NothingInTheWay BY <1>1, <3>1, FreeWay
      <4> QED BY <3>1, <3>2, <4>1, <4>2 DEF IInv, CheckedInv, Frame, switch, bounds, MemberPcs, CleanPcs
    <3>4. pc \in MemberPcs /\ pc' \in MemberPcs /\ pc' # "idle" /\ pc' # "inventory" /\ pc' \notin CleanPcs
      BY <3>1, <3>2 DEF MemberPcs, CleanPcs
    <3> QED BY <1>0, <3>2, <3>3, <3>4, Steps
  <2> QED BY <2>1, <2>2
<1>6. CASE Relate
  <2>1. pc = "relate" /\ pc' = "related" BY <1>6, Zenon DEF Relate, Request
  <2>2. ASSUME UNCHANGED <<call, seen, found, keys, owned, calls, quiet>>, default' = default,
               \A k \in links : k.port # call.port => k \in links'
        PROVE  CheckedInv'
    <3>1. Joining' = Joining /\ NothingInTheWay' = NothingInTheWay
      BY <2>2 DEF Joining, NothingInTheWay
    <3> QED BY <2>1, <2>2, <3>1 DEF IInv, CheckedInv, MemberPcs, CleanPcs
  <2>3. pc' \in MemberPcs /\ pc' # "idle" BY <2>1 DEF MemberPcs
  <2>4. CASE Request(RelateEffect, "related")
    <3>1. Request(TRUE, pc') /\ (RelateEffect \/ UNCHANGED switch)
      BY <2>1, <2>4, Zenon DEF Request
    <3>2. Sent BY <3>1, SentIs
    <3>3. UNCHANGED <<owned, outside>> BY <3>2 DEF Sent
    <3>4. /\ Harmless /\ default' = default /\ \A k \in links : k.port # call.port => k \in links'
      BY <2>1, <3>1, <3>3, RelateHarmless, NoEffect DEF switch
    <3>5. CheckedInv' BY <2>2, <3>2, <3>4 DEF Sent
    <3>6. OrphanInv' BY <2>1, <3>2, <3>4 DEF IInv, OrphanInv, Harmless, Sent, owned, CleanPcs
    <3> QED BY <1>0, <2>3, <3>2, <3>4, <3>5, <3>6, Writes
  <2>5. CASE ~Request(RelateEffect, "related")
    <3>1. /\ Joining /\ call.id \in Vlans \ {default} /\ outside < MaxOutside /\ outside' = outside + 1
          /\ links' = Replaced /\ UNCHANGED <<default, names, routed, orphans>>
          /\ UNCHANGED <<call, seen, found, keys, owned, calls, faults, quiet>>
      BY <1>6, <2>5, Zenon DEF Relate, RelateEffect
    <3>2. writeFailed' = writeFailed BY <1>6, <2>5, Zenon DEF Relate, RelateEffect
    <3>3. BoundInv'
      <4>1. writeFailed' \in BOOLEAN /\ quiet' \in BOOLEAN BY <3>1, <3>2, Zenon DEF IInv, BoundInv
      <4>2. /\ calls' \in 0..MaxCalls /\ faults' \in 0..MaxFaults
            /\ outside' \in 0..MaxOutside /\ outside' # 0
        BY <3>1, VlanAssumption DEF IInv, BoundInv
      <4> QED BY <4>1, <4>2, Zenon DEF BoundInv
    <3>4. SwitchInv'
      <4>1. Vlans' = Vlans BY <3>1 DEF Vlans
      <4>2. links' \subseteq Links /\ (\A l \in links' : l.id \in Vlans \ {default}) /\ OneAccess(links')
        BY <1>0, <3>1, CallLink DEF IInv, SwitchInv, Replaced, OneAccess
      <4> QED BY <3>1, <4>1, <4>2 DEF IInv, SwitchInv
    <3>5. CheckedInv' BY <2>2, <3>1 DEF Replaced
    <3>6. CallInv' /\ SeenInv' BY <1>0, <2>3, <3>1 DEF IInv, CallInv, SeenInv
    <3>7. OwnInv' BY <3>1 DEF IInv, OwnInv, owned, Link
    <3>8. OrphanInv' BY <2>1, <3>1 DEF IInv, OrphanInv, owned, CleanPcs
    <3>9. OwnedStays' BY <3>1 DEF IInv, BoundInv, OwnedStays
    <3> QED BY <3>3, <3>4, <3>5, <3>6, <3>7, <3>8, <3>9 DEF IInv
  <2> QED BY <2>4, <2>5
<1>7. CASE VerifyMembership
  <2>1. CASE Failed BY <2>1, Fails
  <2>2. CASE ~Failed
    <3>1. pc = "related" /\ Exists = Joining /\ Succeed BY <1>7, <2>2 DEF VerifyMembership
    <3>2. outside = 0 => call.id # default BY <3>1 DEF IInv, BoundInv, CheckedInv
    <3> QED BY <1>2, <3>1, <3>2 DEF Joining
  <2> QED BY <2>1, <2>2
<1> QED BY <1>3, <1>4, <1>5, <1>6, <1>7 DEF ApplyMembership

\* Renumbering the default VLAN to a free one leaves a switch.
LEMMA RenumberSwitch ==
    ASSUME IInv, NEW i \in Ids \ Vlans, Renumber(i), orphans' \subseteq Ids \ Vlans'
    PROVE  SwitchInv' /\ Vlans \ {default} = Vlans' \ {default'}
<1>1. /\ default' = i /\ Vlans' = (Vlans \ {default}) \union {i} /\ links' = links
      /\ \A j \in Vlans' : names'[j] = IF j = i THEN names[default] ELSE names[j]
      /\ routed' \subseteq (routed \ {default}) \union {i}
  BY DEF Renumber, Vlans, IInv, SwitchInv
<1>2. \A j \in Vlans' : names'[j] \in Names \union {Reserved}
  BY <1>1 DEF IInv, SwitchInv
<1>3. default' \in Vlans' /\ Vlans' \subseteq Ids /\ routed' \subseteq Vlans'
      /\ \A l \in links' : l.id \in Vlans' \ {default'}
  BY <1>1 DEF IInv, SwitchInv
<1>4. SwitchInv'
  BY <1>1, <1>2, <1>3 DEF IInv, SwitchInv
<1> QED BY <1>1, <1>4 DEF IInv, SwitchInv

\* A fresh look at the configuration before the inventory.
LEMMA LooksAgain ==
    ASSUME IInv, pc \in SelectPcs, See("inventory")
    PROVE  IInv'
<1>1. pc' = "inventory" /\ seen' = Native /\ Frame /\ UNCHANGED <<found, keys>>
  BY DEF See
<1>2. CallInv'
  BY <1>1 DEF IInv, CallInv, Frame, ApplyPcs, RemovePcs, MemberPcs, SelectPcs, CleanPcs
<1>3. SeenInv' BY <1>1, NativeIs DEF IInv, SeenInv, SwitchInv
<1>4. CheckedInv'
  BY <1>1, NativeIs DEF CheckedInv, Frame, switch, Vlans, MemberPcs, CleanPcs
<1>5. OrphanInv'
  <2>1. orphans \intersect (DOMAIN Native.vlans \union {Native.default}) = {}
    BY NativeIs DEF IInv, SwitchInv
  <2> QED BY <1>1, <2>1 DEF IInv, OrphanInv, Frame, switch, owned, CleanPcs
<1> QED BY <1>1, <1>2, <1>3, <1>4, <1>5, Moves

\* What selecting the default changes, when the switch lets it.
MoveEffect ==
    IF call.id \in Vlans THEN UNCHANGED switch
    ELSE /\ Renumber(call.id)
         /\ orphans' \in {o \ {call.id} : o \in {orphans, orphans \union {default}}}

\* fastiron_default_vlan.
LEMMA DefaultIInv == IInv /\ ApplyDefault => IInv'
<1> SUFFICES ASSUME IInv, ApplyDefault PROVE IInv'
  OBVIOUS
<1>0. /\ pc \in SelectPcs /\ call \in [op : {"select"}, id : Ids] /\ pc # "idle"
  BY DEF IInv, CallInv, ApplyDefault, CleanDefaultEntries, ReadDefault, Inventory, Recheck, Clean,
         Cleaned, Remaining, Free, StillUnchanged, Move, Moved,
         ApplyPcs, RemovePcs, MemberPcs, SelectPcs, CleanPcs
<1>1. call.op = "select" /\ call.id \in Ids /\ ownDefault = Nobody
  BY <1>0 DEF IInv, OwnInv
<1>2. ASSUME NEW next \in SelectPcs \ {"inventory"}, Goto(next), next \in CleanPcs => pc \in CleanPcs /\ keys # {}
      PROVE  IInv'
  <2>1. pc' = next /\ Frame /\ UNCHANGED <<seen, found, keys>> BY <1>2 DEF Goto
  <2>2. CheckedInv'
    BY <1>2, <2>1 DEF IInv, CheckedInv, Frame, switch, bounds, Vlans, SelectPcs, MemberPcs, CleanPcs
  <2>3. pc' \in SelectPcs /\ pc' # "idle" /\ pc' # "inventory" /\ (pc' \in CleanPcs => pc \in CleanPcs /\ keys # {})
    BY <1>2, <2>1 DEF SelectPcs, CleanPcs
  <2> QED BY <1>0, <2>1, <2>2, <2>3, Steps
<1>3. CASE ReadDefault
  BY <1>0, <1>3, Fails, LooksAgain DEF ReadDefault
<1>4. CASE Inventory
  <2>1. pc = "inventory" /\ pc' = "recheck" /\ keys' = {i \in Listed : Orphaned(i)}
        /\ Frame /\ UNCHANGED <<seen, found>>
    BY <1>4 DEF Inventory
  <2>2. CallInv' BY <1>0, <2>1 DEF CallInv, Frame, SelectPcs, CleanPcs
  <2>3. SeenInv' BY <2>1 DEF IInv, SeenInv, SwitchInv, Listed
  <2>4. CheckedInv'
    <3>1. quiet => keys' \intersect Vlans = {} /\ seen.default = default
      BY <2>1 DEF IInv, CheckedInv, Orphaned, SwitchInv
    <3> QED BY <2>1, <3>1 DEF CheckedInv, Frame, switch, bounds, Vlans, MemberPcs, CleanPcs
  <2>5. OrphanInv'
    <3>1. orphans \subseteq keys'
      BY <2>1 DEF IInv, OrphanInv, SwitchInv, Orphaned, Listed, ListedName
    <3> QED BY <1>1, <2>1, <3>1 DEF OrphanInv, Frame, switch, owned
  <2> QED BY <2>1, <2>2, <2>3, <2>4, <2>5, Moves
<1>5. CASE Recheck
  <2>1. pc = "recheck" /\ pc \in CleanPcs BY <1>5 DEF Recheck, CleanPcs
  <2>2. CASE Failed BY <2>2, Fails
  <2>3. CASE keys = {} /\ call.id = seen.default
    <3>1. Succeed BY <1>5, <2>3 DEF Recheck
    <3>2. orphans = {} /\ (outside = 0 => call.id = default)
      BY <2>1, <2>3 DEF IInv, OrphanInv, CheckedInv, BoundInv
    <3> QED BY <1>0, <1>1, <3>1, <3>2, Succeeds
  <2>4. CASE ~Failed /\ ~(keys = {} /\ call.id = seen.default)
    <3>1. Goto("free") \/ (keys # {} /\ Goto("clean")) BY <1>5, <2>4 DEF Recheck
    <3> QED BY <1>2, <2>1, <3>1 DEF SelectPcs, CleanPcs
  <2> QED BY <2>2, <2>3, <2>4
<1>6. CASE Clean
  <2>1. pc = "clean" /\ pc' = "cleaned" /\ Request(TRUE, pc') /\ (Erase(Key) \/ UNCHANGED switch)
    BY <1>6, Zenon DEF Clean, Request
  <2>2. Sent BY <2>1, SentIs
  <2>3. UNCHANGED <<owned, outside>> BY <2>2 DEF Sent
  <2>4. outside = 0 /\ keys # {} => Key \notin ownVlans /\ MembersOf(Key) = {}
    <3>1. outside = 0 => keys \intersect Vlans = {} /\ ownVlans \subseteq Vlans
      BY <2>1 DEF IInv, BoundInv, CheckedInv, OwnedStays, CleanPcs
    <3>2. keys # {} => Key \in keys BY KeyIsOne DEF IInv, SeenInv
    <3> QED BY <3>1, <3>2 DEF IInv, SwitchInv, MembersOf
  <2>5. keys # {} BY <2>1 DEF IInv, OrphanInv
  <2>6. Harmless /\ default' = default /\ Vlans' \subseteq Vlans
    BY <2>1, <2>3, <2>4, <2>5, EraseHarmless, NoEffect DEF switch, Vlans
  <2>7. CheckedInv'
    <3>1. quiet => keys \intersect Vlans = {} /\ seen.default = default
      BY <2>1 DEF IInv, CheckedInv, CleanPcs
    <3> QED BY <2>1, <2>2, <2>6, <3>1 DEF CheckedInv, Sent, MemberPcs, CleanPcs
  <2>8. OrphanInv'
    BY <2>1, <2>2, <2>6 DEF IInv, OrphanInv, Harmless, Sent, owned, CleanPcs
  <2>9. pc' \in SelectPcs /\ pc' # "idle" BY <2>1 DEF SelectPcs, CleanPcs
  <2> QED BY <1>0, <2>2, <2>6, <2>7, <2>8, <2>9, Writes
<1>7. CASE Cleaned
  <2>1. pc \in CleanPcs /\ keys # {} BY <1>7 DEF Cleaned, CleanPcs, IInv, OrphanInv
  <2> QED BY <1>2, <1>7, <2>1, Fails DEF Cleaned, SelectPcs, CleanPcs
<1>8. CASE Remaining
  <2>1. CASE Failed BY <2>1, Fails
  <2>2. CASE ~Failed
    <3>1. /\ pc = "remaining" /\ Key \notin Listed /\ keys' = keys \ {Key} /\ pc' = "recheck"
          /\ Frame /\ UNCHANGED <<seen, found>>
      BY <1>8, <2>2 DEF Remaining
    <3>2. CallInv' BY <1>0, <3>1 DEF CallInv, Frame, SelectPcs, CleanPcs
    <3>3. SeenInv' BY <3>1 DEF IInv, SeenInv
    <3>4. CheckedInv'
      BY <3>1 DEF IInv, CheckedInv, Frame, switch, bounds, Vlans, MemberPcs, CleanPcs
    <3>5. OrphanInv'
      BY <1>1, <3>1 DEF IInv, OrphanInv, Listed, Frame, switch, owned, CleanPcs
    <3> QED BY <3>1, <3>2, <3>3, <3>4, <3>5, Moves
  <2> QED BY <2>1, <2>2
<1>9. CASE Free
  BY <1>2, <1>9, Fails DEF Free, SelectPcs, CleanPcs
<1>10. CASE StillUnchanged
  BY <1>2, <1>10, Fails DEF StillUnchanged, SelectPcs, CleanPcs
<1>11. CASE Move
  <2>1. pc = "move" /\ pc' = "moved" /\ Request(TRUE, pc') /\ (MoveEffect \/ UNCHANGED switch)
    BY <1>11, Zenon DEF Move, MoveEffect, Request
  <2>2. Sent BY <2>1, SentIs
  <2>3. SwitchInv' /\ OwnedStays'
    <3>1. CASE UNCHANGED switch
      BY <2>2, <3>1, NoEffect DEF Harmless, Sent
    <3>2. CASE ~UNCHANGED switch
      <4>1. call.id \in Ids \ Vlans /\ Renumber(call.id)
            /\ orphans' \subseteq (orphans \union {default}) \ {call.id}
        BY <1>1, <2>1, <3>2 DEF MoveEffect
      <4>2. Vlans' = (Vlans \ {default}) \union {call.id} /\ links' = links
        BY <4>1 DEF Renumber, Vlans
      <4>3. orphans' \subseteq Ids \ Vlans'
        BY <4>1, <4>2 DEF IInv, SwitchInv
      <4>4. SwitchInv' /\ Vlans \ {default} = Vlans' \ {default'}
        BY <4>1, <4>3, RenumberSwitch
      <4>5. OwnedStays'
        BY <1>1, <2>2, <4>2, <4>4 DEF IInv, OwnedStays, Sent, owned
      <4> QED BY <4>4, <4>5
    <3> QED BY <3>1, <3>2
  <2>4. CallInv' BY <1>0, <2>1, <2>2 DEF CallInv, Sent, SelectPcs
  <2>5. SeenInv' BY <2>2 DEF IInv, SeenInv, Sent
  <2>6. CheckedInv' BY <2>1 DEF CheckedInv, MemberPcs, CleanPcs
  <2>7. OrphanInv' BY <1>1, <2>1, <2>2 DEF OrphanInv, Sent, owned, CleanPcs
  <2>8. /\ UNCHANGED <<call, owned, calls, outside, quiet>>
        /\ writeFailed' \in BOOLEAN /\ faults' \in 0..MaxFaults
    BY <2>2 DEF Sent
  <2> QED BY <2>3, <2>4, <2>5, <2>6, <2>7, <2>8, Within
<1>12. CASE Moved
  BY <1>0, <1>12, Fails, LooksAgain DEF Moved
<1> QED BY <1>3, <1>4, <1>5, <1>6, <1>7, <1>8, <1>9, <1>10, <1>11, <1>12
        DEF ApplyDefault, CleanDefaultEntries

\* Other administrators leave a switch, and no entry of a former default.
LEMMA OutsideSwitch == ASSUME IInv, Outside PROVE SwitchInv' /\ orphans' \subseteq orphans
<1>1. orphans' = orphans \ DOMAIN names'
  BY DEF Outside
<1>2. orphans' \subseteq Ids \ Vlans' /\ orphans' \subseteq orphans
  BY <1>1 DEF IInv, SwitchInv, Vlans
<1>3. ASSUME NEW i \in Ids \ {default}, NEW n \in Names \union {Reserved},
             names' = [j \in Vlans \union {i} |-> IF j = i THEN n ELSE names[j]],
             UNCHANGED <<default, links, routed>>
      PROVE  SwitchInv'
  <2>1. Vlans' = Vlans \union {i} /\ \A j \in Vlans' : names'[j] = IF j = i THEN n ELSE names[j]
    BY <1>3 DEF Vlans
  <2>2. \A j \in Vlans' : names'[j] \in Names \union {Reserved}
    BY <2>1 DEF IInv, SwitchInv
  <2> QED BY <1>2, <1>3, <2>1, <2>2 DEF IInv, SwitchInv
<1>4. ASSUME NEW i \in Vlans \ {default}, names' = [j \in Vlans \ {i} |-> names[j]],
             links' = links \ MembersOf(i), routed' = routed \ {i}, default' = default
      PROVE  SwitchInv'
  <2>1. Vlans' = Vlans \ {i} /\ \A j \in Vlans' : names'[j] = names[j]
    BY <1>4 DEF Vlans
  <2>2. links' \subseteq Links /\ (\A l \in links' : l.id \in Vlans' \ {default'}) /\ OneAccess(links')
    BY <1>4, <2>1 DEF IInv, SwitchInv, MembersOf, OneAccess
  <2> QED BY <1>2, <1>4, <2>1, <2>2 DEF IInv, SwitchInv
<1>5. ASSUME NEW l \in Links, l.id \in Vlans \ {default},
             links' = {k \in links : ~(l.tag = "untagged" /\ k.port = l.port /\ k.tag = l.tag)} \union {l},
             UNCHANGED <<default, names, routed>>
      PROVE  SwitchInv'
  <2>1. Vlans' = Vlans BY <1>5 DEF Vlans
  <2>2. links' \subseteq Links /\ (\A k \in links' : k.id \in Vlans \ {default}) /\ OneAccess(links')
    BY <1>5 DEF IInv, SwitchInv, OneAccess
  <2> QED BY <1>2, <1>5, <2>1, <2>2 DEF IInv, SwitchInv
<1>6. ASSUME NEW l \in links, links' = links \ {l}, UNCHANGED <<default, names, routed>>
      PROVE  SwitchInv'
  BY <1>2, <1>6 DEF IInv, SwitchInv, Vlans, OneAccess
<1>7. ASSUME NEW i \in Ids \ Vlans, Renumber(i) PROVE SwitchInv'
  BY <1>2, <1>7, RenumberSwitch
<1>8. ASSUME NEW i \in Vlans \ routed, routed' = routed \union {i}, UNCHANGED <<default, names, links>>
      PROVE  SwitchInv'
  BY <1>2, <1>8 DEF IInv, SwitchInv, Vlans
<1>9. SwitchInv'
  BY <1>3, <1>4, <1>5, <1>6, <1>7, <1>8, Zenon DEF Outside
<1> QED BY <1>2, <1>9

LEMMA OutsideIInv == ASSUME IInv, Outside PROVE IInv'
<1>1. /\ outside < MaxOutside /\ outside' = outside + 1
      /\ UNCHANGED <<call, progress, owned, calls, faults>>
  BY DEF Outside
<1>2. quiet' = FALSE /\ writeFailed' = writeFailed
  BY Zenon DEF Outside
<1>3. SwitchInv' /\ orphans' \subseteq orphans
  BY OutsideSwitch
<1>4. BoundInv'
  <2>1. writeFailed' \in BOOLEAN /\ quiet' \in BOOLEAN BY <1>2, Zenon DEF IInv, BoundInv
  <2>2. /\ calls' \in 0..MaxCalls /\ faults' \in 0..MaxFaults
        /\ outside' \in 0..MaxOutside /\ outside' # 0
    BY <1>1, VlanAssumption DEF IInv, BoundInv
  <2> QED BY <2>1, <2>2, Zenon DEF BoundInv
<1>5. CallInv' BY <1>1 DEF IInv, CallInv, progress
<1>6. SeenInv' BY <1>1 DEF IInv, SeenInv, progress
<1>7. OwnInv' BY <1>1 DEF IInv, OwnInv, owned, Link
<1>8. CheckedInv' BY <1>2, Zenon DEF CheckedInv
<1>9. OrphanInv' BY <1>1, <1>3 DEF IInv, OrphanInv, progress, owned
<1>10. OwnedStays' BY <1>1 DEF IInv, BoundInv, OwnedStays
<1> QED BY <1>3, <1>4, <1>5, <1>6, <1>7, <1>8, <1>9, <1>10 DEF IInv

LEMMA StutterIInv == ASSUME IInv, UNCHANGED vars PROVE IInv'
<1>1. /\ UNCHANGED switch /\ UNCHANGED <<call, seen, found, keys, pc, owned, calls, outside, quiet>>
      /\ UNCHANGED <<writeFailed, faults>>
  BY DEF vars, progress, bounds
<1>2. SwitchInv' BY <1>1, SwitchKept DEF IInv
<1>3. CallInv' /\ SeenInv' BY <1>1 DEF IInv, CallInv, SeenInv
<1>4. BoundInv' BY <1>1, BoundKept, Zenon DEF IInv, BoundInv
<1>5. OwnInv' BY <1>1 DEF IInv, OwnInv, owned, Link
<1>6. CheckedInv'
  <2>1. /\ Joining' = Joining /\ WasMember' = WasMember /\ NothingInTheWay' = NothingInTheWay
        /\ Vlans' = Vlans /\ MembersOf(call.id)' = MembersOf(call.id) /\ quiet' = quiet
    BY <1>1 DEF Joining, WasMember, Was, WasAccess, NothingInTheWay, Vlans, MembersOf, switch
  <2> QED BY <1>1, <2>1 DEF IInv, CheckedInv, switch
<1>7. OrphanInv' BY <1>1 DEF IInv, OrphanInv, owned, switch
<1>8. OwnedStays' BY <1>1 DEF IInv, OwnedStays, owned, switch, Vlans
<1> QED BY <1>2, <1>3, <1>4, <1>5, <1>6, <1>7, <1>8 DEF IInv

-----------------------------------------------------------------------------
(* Theorems.                                                               *)

\* The invariant the others follow from: whatever the calls, the failures and
\* the other administrators do, a call that was not disturbed acts on what it
\* checked.
THEOREM Inductive == Spec => []IInv
<1>1. IInv /\ [Next]_vars => IInv'
  <2> SUFFICES ASSUME IInv, [Next]_vars PROVE IInv'
    OBVIOUS
  <2>1. CASE \E c \in Calls : Begin(c) BY <2>1, BeginIInv
  <2>2. CASE ReadFails BY <2>2, ReadFailsIInv
  <2>3. CASE ApplyVlan BY <2>3, ApplyIInv
  <2>4. CASE RemoveVlan BY <2>4, RemoveIInv
  <2>5. CASE ApplyMembership BY <2>5, MembershipIInv
  <2>6. CASE ApplyDefault BY <2>6, DefaultIInv
  <2>7. CASE Outside BY <2>7, OutsideIInv
  <2>8. CASE Done \/ UNCHANGED vars BY <2>8, StutterIInv DEF Done
  <2> QED BY <2>1, <2>2, <2>3, <2>4, <2>5, <2>6, <2>7, <2>8 DEF Next
<1> QED BY InitIInv, <1>1, PTL DEF Spec

\* The state of a switch and of its calls is of its type.
THEOREM TypeCorrect == Spec => []TypeOK
<1>1. IInv => TypeOK
  <2> SUFFICES ASSUME IInv PROVE TypeOK
    OBVIOUS
  <2>1. call \in Calls \union {NoCall} /\ (call = NoCall <=> pc = "idle")
    BY DEF IInv, CallInv, Calls, NoCall, ApplyPcs, RemovePcs, MemberPcs, SelectPcs, CleanPcs
  <2>2. writeFailed \in BOOLEAN
    BY Zenon DEF IInv, BoundInv
  <2> QED BY <2>1, <2>2 DEF IInv, SwitchInv, SeenInv, BoundInv, OwnInv, TypeOK
<1> QED BY Inductive, <1>1, PTL

\* While nobody else configures the switch, every VLAN, membership and default
\* that a resource established is still there (rejectDefault, vlanChildren and
\* the conflicts of applyMembership keep the calls apart).
THEOREM OwnedIsKept == Spec => []OwnedStays
<1>1. IInv => OwnedStays BY DEF IInv
<1> QED BY Inductive, <1>1, PTL

\* No entry of a former default is left once a selection stands, whatever
\* others did while the call cleaned them (cleanDefaultEntries).
THEOREM FormerDefaultsAreCleaned == Spec => []NoFormerDefault
<1>1. IInv => NoFormerDefault
  BY VlanAssumption DEF IInv, OrphanInv, SwitchInv, NoFormerDefault
<1> QED BY Inductive, <1>1, PTL

\* What hangs on a VLAN stays when a VLAN without it goes.
LEMMA ErasesOne ==
    ASSUME SwitchInv, NEW i, Erase(i), i = default \/ (i \notin routed /\ MembersOf(i) = {})
    PROVE  links' = links /\ routed' = routed /\ Vlans \ {i} \subseteq DOMAIN names'
<1>1. CASE i = default
  BY <1>1 DEF Erase, switch, Vlans
<1>2. CASE i # default
  BY <1>2 DEF SwitchInv, Erase, Vlans
<1> QED BY <1>1, <1>2

\* Deleting a VLAN or cleaning a former default erases no membership, no VE
\* and no other VLAN while nobody else acts (vlanChildren, cleanDefaultEntries).
THEOREM ErasesOnlyIt == Spec => ErasesOnlyTheVlan
<1>1. IInv /\ [Next]_vars => NothingElseErased
  <2> SUFFICES ASSUME IInv, [Next]_vars, quiet', pc \in {"delete", "clean"}
               PROVE  /\ links' = links /\ routed' = routed
                      /\ Vlans \ (IF pc = "delete" THEN {call.id} ELSE {}) \subseteq DOMAIN names'
    BY DEF NothingElseErased
  <2>1. CASE UNCHANGED switch
    BY <2>1 DEF switch, Vlans
  <2>2. CASE DeleteVlan
    <3>1. pc = "delete" /\ Request(TRUE, pc') /\ (Erase(call.id) \/ UNCHANGED switch)
      BY <2>2, Zenon DEF DeleteVlan, Request
    <3>2. quiet BY <3>1, SentIs, Zenon DEF Sent
    <3>3. call.id \notin routed /\ MembersOf(call.id) = {}
      BY <3>1, <3>2 DEF IInv, CheckedInv
    <3> QED BY <2>1, <3>1, <3>3, ErasesOne DEF IInv
  <2>3. CASE Clean
    <3>1. pc = "clean" /\ Request(TRUE, pc') /\ (Erase(Key) \/ UNCHANGED switch)
      BY <2>3, Zenon DEF Clean, Request
    <3>2. quiet BY <3>1, SentIs, Zenon DEF Sent
    <3>3. Key \notin Vlans
      BY <3>1, <3>2, KeyIsOne DEF IInv, CheckedInv, OrphanInv, SeenInv, CleanPcs
    <3>4. Key \notin routed /\ MembersOf(Key) = {}
      BY <3>3 DEF IInv, SwitchInv, MembersOf
    <3> QED BY <2>1, <3>1, <3>3, <3>4, ErasesOne DEF IInv
  <2>4. CASE Outside
    <3>1. quiet' = FALSE BY <2>4, Zenon DEF Outside
    <3> QED BY <3>1, Zenon
  <2>5. CASE \E c \in Calls : Begin(c)
    BY <2>5 DEF Begin
  <2>6. CASE ReadFails
    BY <2>1, <2>6 DEF ReadFails
  <2>7. CASE ApplyVlan
    BY <2>7 DEF ApplyVlan, RejectDefault, ReadVlan, WriteVlan, VerifyVlan
  <2>8. CASE FindVlan \/ CheckChildren \/ VerifyGone
    BY <2>1, <2>8 DEF FindVlan, CheckChildren, VerifyGone, Goto, Frame, Failed
  <2>9. CASE ApplyMembership
    BY <2>9 DEF ApplyMembership, ReadPort, MembershipDefault, ReadParent, Relate, VerifyMembership
  <2>10. CASE ApplyDefault /\ ~Clean
    BY <2>10 DEF ApplyDefault, CleanDefaultEntries, ReadDefault, Inventory, Recheck, Cleaned,
                 Remaining, Free, StillUnchanged, Move, Moved
  <2>11. CASE Done \/ UNCHANGED vars
    BY <2>1, <2>11 DEF Done, vars
  <2> QED BY <2>2, <2>3, <2>4, <2>5, <2>6, <2>7, <2>8, <2>9, <2>10, <2>11 DEF Next, RemoveVlan
<1> QED BY Inductive, <1>1, PTL DEF Spec, ErasesOnlyTheVlan

\* A membership that is established has cost the port no other one.
LEMMA JoinKeeps ==
    ASSUME IInv, pc = "related", quiet, Joining, Exists, NeighboursKept, NEW k \in seen.links, k # Link(call)
    PROVE  k \in links
<1>0. /\ call \in [op : {"join", "leave"}, port : Ports, id : Ids, tag : Tags]
      /\ k \in Links /\ links \subseteq Links /\ k.tag \in Tags /\ call.tag \in Tags
  BY CallLink, LinkIs DEF IInv, CallInv, SeenInv, SwitchInv, ApplyPcs, RemovePcs, MemberPcs, SelectPcs, CleanPcs
<1>1. /\ NothingInTheWay /\ seen.default = default /\ k.id # default
      /\ k.port # call.port => k \in links
  BY DEF IInv, CheckedInv, SeenInv, MemberPcs
<1>2. CASE k.port # call.port
  BY <1>1, <1>2
<1>3. CASE k.port = call.port /\ k.tag = "tagged"
  <2>1. k.id \in Was("tagged") /\ k.id # call.id
    BY <1>1, <1>3 DEF Was, NothingInTheWay
  <2>2. \E l \in links : l.port = k.port /\ l.tag = k.tag /\ l.id = k.id
    BY <1>3, <2>1 DEF NeighboursKept, Trunks, Of
  <2> QED BY <1>0, <2>2, LinkIs
<1>4. CASE k.port = call.port /\ k.tag = "untagged"
  <2>1. call.tag = "tagged"
    BY <1>0, <1>1, <1>4 DEF NothingInTheWay, Tags
  <2>2. WasAccess = k.id
    BY <1>4, WasAccessIs DEF IInv, SeenInv, OneAccess
  <2>3. Access(call.port) = k.id /\ k.id # default
    BY <1>1, <2>1, <2>2 DEF NeighboursKept
  <2>4. \E l \in links : l.port = k.port /\ l.tag = k.tag /\ l.id = k.id
    BY <1>4, <2>3, AccessIs
  <2> QED BY <1>0, <2>4, LinkIs
<1> QED BY <1>0, <1>2, <1>3, <1>4 DEF Tags

\* A membership call that succeeds kept the port's other memberships, even if
\* the switch replaced the list it should merge (checkNeighbours).
THEOREM NeighboursAreKept == Spec => NeighboursSurvive
<1>1. IInv /\ [Next]_vars => JoinsBeside
  <2> SUFFICES ASSUME IInv, [Next]_vars, NEW l \in ownLinks' \ ownLinks, quiet'
               PROVE  seen.links \ {l} \subseteq links'
    BY DEF JoinsBeside
  <2>0. ownLinks' # ownLinks
    OBVIOUS
  <2>1. CASE pc = "membershipDefault" /\ WasMember = Joining /\ Succeed /\ ApplyMembership
    <3>1. UNCHANGED <<switch, bounds>> BY <2>1 DEF Succeed, Failed
    <3>2. quiet' = quiet BY <3>1 DEF bounds
    <3>3. quiet BY <3>2, Zenon
    <3>4. seen.links = links BY <2>1, <3>3 DEF IInv, CheckedInv
    <3> QED BY <3>1, <3>4 DEF switch
  <2>2. CASE VerifyMembership
    <3>1. pc = "related" /\ Exists = Joining /\ NeighboursKept /\ Succeed
      BY <2>0, <2>2 DEF VerifyMembership, Failed, owned
    <3>2. UNCHANGED <<switch, bounds>> BY <3>1 DEF Succeed, Failed
    <3>3. quiet' = quiet BY <3>2 DEF bounds
    <3>4. quiet BY <3>3, Zenon
    <3>5. Joining /\ l = Link(call)
      BY <2>0, <3>1 DEF Succeed, Failed, Established, Joining, owned
    <3> QED BY <3>1, <3>2, <3>4, <3>5, JoinKeeps DEF switch
  <2>3. ASSUME UNCHANGED owned PROVE FALSE
    BY <2>0, <2>3 DEF owned
  <2>4. CASE \E c \in Calls : Begin(c)
    BY <2>0, <2>4 DEF Begin
  <2>5. CASE ReadFails \/ Outside \/ Done \/ UNCHANGED vars
    BY <2>3, <2>5 DEF ReadFails, Outside, Done, vars
  <2>6. CASE ApplyVlan
    <3>1. call.op = "apply"
      BY <2>6 DEF IInv, CallInv, ApplyVlan, RejectDefault, ReadVlan, WriteVlan, VerifyVlan,
                  ApplyPcs, RemovePcs, MemberPcs, SelectPcs, CleanPcs
    <3>2. UNCHANGED owned \/ Succeed
      BY <2>6, Zenon DEF ApplyVlan, RejectDefault, ReadVlan, WriteVlan, VerifyVlan, Goto, Frame, Failed, Request
    <3> QED BY <2>0, <2>3, <3>1, <3>2 DEF Succeed, Failed, Established
  <2>7. CASE RemoveVlan
    <3>1. call.op = "remove"
      BY <2>7 DEF IInv, CallInv, RemoveVlan, FindVlan, CheckChildren, DeleteVlan, VerifyGone,
                  ApplyPcs, RemovePcs, MemberPcs, SelectPcs, CleanPcs
    <3>2. UNCHANGED owned \/ Succeed
      BY <2>7 DEF RemoveVlan, FindVlan, CheckChildren, DeleteVlan, VerifyGone, Goto, Frame, Failed, Request
    <3> QED BY <2>0, <2>3, <3>1, <3>2 DEF Succeed, Failed, Established
  <2>8. CASE ApplyDefault
    <3>1. call.op = "select"
      BY <2>8 DEF IInv, CallInv, ApplyDefault, CleanDefaultEntries, ReadDefault, Inventory, Recheck, Clean,
                  Cleaned, Remaining, Free, StillUnchanged, Move, Moved,
                  ApplyPcs, RemovePcs, MemberPcs, SelectPcs, CleanPcs
    <3>2. UNCHANGED owned \/ Succeed
      BY <2>8 DEF ApplyDefault, CleanDefaultEntries, ReadDefault, Inventory, Recheck, Clean,
                  Cleaned, Remaining, Free, StillUnchanged, Move, Moved, Goto, See, Frame, Failed, Request
    <3> QED BY <2>0, <2>3, <3>1, <3>2 DEF Succeed, Failed, Established
  <2>9. CASE ReadPort \/ ReadParent \/ Relate
    BY <2>3, <2>9 DEF ReadPort, ReadParent, Relate, See, Goto, Frame, Failed, Request
  <2>10. CASE MembershipDefault
    <3>1. \/ UNCHANGED owned
          \/ pc = "membershipDefault" /\ WasMember = Joining /\ Succeed
      BY <2>10 DEF MembershipDefault, Frame, Failed
    <3> QED BY <2>1, <2>3, <2>10, <3>1 DEF ApplyMembership
  <2> QED BY <2>2, <2>4, <2>5, <2>6, <2>7, <2>8, <2>9, <2>10 DEF Next, ApplyMembership
<1> QED BY Inductive, <1>1, PTL DEF Spec, NeighboursSurvive
=============================================================================
