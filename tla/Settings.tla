------------------------------ MODULE Settings ------------------------------
(* Settings that RESTCONF masks: a request for a value its copy already    *)
(* holds may be acknowledged without reaching the switch.  Each feature    *)
(* has its own way of making the copy agree before it changes or removes a *)
(* value (internal/features/dscptrust, protectedport, voicevlan,           *)
(* stormcontrol, jumbo, poe, ethernet, lag/interface.go, stp/interface.go, *)
(* lldp, igmp).                                                            *)
EXTENDS Workflow, Sequences

CONSTANTS
    None,           \* RESTCONF has no entry
    Gone            \* the interface or VLAN does not exist

-----------------------------------------------------------------------------
(* What each feature reads.  Of every field 0 is the default; the other    *)
(* numbers are values it may take.                                         *)

\* Flags.
DscpTrustSettings == [value : 0..1]
ProtectedPortSettings == [value : 0..1]
JumboSettings == [value : 0..1]

\* A policy written as a whole; a VLAN, 0 for none.
PoeSettings == [value : 0..2]
VoiceVlanSettings == [value : 0..2]

\* A port receives and transmits (0), does neither (1) or only receives (2).
LldpSettings == [value : 0..2]
LldpGlobalSettings == [value : 0..1]

\* A name and the administrative state (1: disabled).
EthernetSettings == [name : 0..2, enabled : 0..1]

\* Disabling an aggregate disables its members; 2: it has none.
LagInterfaceSettings == {s \in [name : 0..1, enabled : 0..1, members : 0..2] : s.members \in {s.enabled, 2}}

StpInterfaceSettings == [edge : 0..1, guard : 0..1]

\* Mode: active (1), passive (2), disabled in a VLAN (3).
IgmpGlobalSettings == [mode : 0..2, version : 0..1]
IgmpVlanSettings == [mode : 0..3, version : 0..1]

\* Limits of two traffic classes, in packets (1, 2) or kilobits (3); all
\* classes of a port have one unit.
Unit(limit) == IF limit = 0 THEN "" ELSE IF limit = 3 THEN "kbps" ELSE "pps"
StormSettings ==
    {s \in [broadcast : 0..3, multicast : 0..1] :
        {Unit(s.broadcast), Unit(s.multicast)} \ {""} # {"pps", "kbps"}}

SettingsOf ==
    [dscptrust |-> DscpTrustSettings, protectedport |-> ProtectedPortSettings,
     voicevlan |-> VoiceVlanSettings, storm |-> StormSettings, jumbo |-> JumboSettings,
     poe |-> PoeSettings, ethernet |-> EthernetSettings, lag |-> LagInterfaceSettings,
     stp |-> StpInterfaceSettings, lldp |-> LldpSettings, lldpglobal |-> LldpGlobalSettings,
     igmpglobal |-> IgmpGlobalSettings, igmpvlan |-> IgmpVlanSettings]

Features == DOMAIN SettingsOf
Fields(f) == DOMAIN (CHOOSE s \in SettingsOf[f] : TRUE)
Default(f) == [x \in Fields(f) |-> 0]

(* What RESTCONF's copy may hold: some features have an entry only of what *)
(* is set; trust, jumbo frames and an aggregate's interface always have one. *)
DscpTrustCopies == [value : {0, 1}]
ProtectedPortCopies == [value : {None, 1}]
VoiceVlanCopies == [value : {None, 1, 2}]
StormCopies == [broadcast : {None, 1, 2, 3}, multicast : {None, 1}]
JumboCopies == [value : {0, 1}]
PoeCopies == [value : {None, 0, 1, 2}]
EthernetCopies == [name : {None, 0, 1, 2}, enabled : {None, 0, 1}]
LagInterfaceCopies == [name : {0, 1}, enabled : {0, 1}, members : {0}]
StpInterfaceCopies == [edge : {None, 0, 1}, guard : {None, 0, 1}]
LldpCopies == [value : {None, 0, 1}]                \* it cannot express one way
LldpGlobalCopies == [value : {None, 0, 1}]
IgmpGlobalCopies == [mode : {None, 1, 2}, version : {None, 1}]
IgmpVlanCopies == [mode : {None, 1, 2}, version : {None, 1}]    \* nor this a disabled VLAN

CopiesOf ==
    [dscptrust |-> DscpTrustCopies, protectedport |-> ProtectedPortCopies,
     voicevlan |-> VoiceVlanCopies, storm |-> StormCopies, jumbo |-> JumboCopies,
     poe |-> PoeCopies, ethernet |-> EthernetCopies, lag |-> LagInterfaceCopies,
     stp |-> StpInterfaceCopies, lldp |-> LldpCopies, lldpglobal |-> LldpGlobalCopies,
     igmpglobal |-> IgmpGlobalCopies, igmpvlan |-> IgmpVlanCopies]

Expressible(f, x) == {c[x] : c \in CopiesOf[f]} \ {None}

\* Parents that may be missing: aggregates, and the VLAN of an override.
Parented == {"dscptrust", "protectedport", "storm", "lag", "stp", "igmpvlan"}

\* What a caller may ask for: a one-way port and a disable flag cannot be
\* asked for, only found; `remove` is the Delete of the resource.
Wanted(f) ==
    LET fit(v) == CASE f = "lldp" -> v.value # 2
                    [] f = "lag" -> v.members = v.enabled
                    [] f = "igmpvlan" -> v.mode # 3
                    [] OTHER -> TRUE
    IN  [value : {v \in SettingsOf[f] : fit(v)}, remove : {FALSE}]
          \union (IF f \in Parented THEN {[value |-> Default(f), remove |-> TRUE]} ELSE {})

Init ==
    /\ feature \in Features
    /\ native \in SettingsOf[feature] \union (IF feature \in Parented THEN {Gone} ELSE {})
    /\ cache \in CopiesOf[feature]
    /\ unowned \in {Untouched, [Untouched EXCEPT !.near = feature \in {"dscptrust", "storm"}]}
    /\ call = NoCall /\ reported = {}
    /\ calls = 0 /\ troubles = 0

-----------------------------------------------------------------------------
(* The switch.                                                             *)

\* The administrative state of an aggregate carries its members along.
Carried(s) ==
    IF feature = "lag" /\ s.enabled # native.enabled /\ native.members # 2
    THEN [s EXCEPT !.members = s.enabled] ELSE s

\* PATCH and PUT: a field whose copy already holds the value may be skipped.
Written(values) ==
    LET masked == {x \in DOMAIN values : cache[x] = values[x]}
    IN  {Carried([x \in DOMAIN native |->
                    IF x \in DOMAIN values \ skipped THEN values[x] ELSE native[x]]) :
            skipped \in SUBSET masked}

\* RESTCONF's copy with what a request wrote.
Overlaid(values) == [x \in DOMAIN cache |-> IF x \in DOMAIN values THEN values[x] ELSE cache[x]]

Patch(values, label, expected) ==
    Request(Written(values), Overlaid(values), label, expected)

\* DELETE of a leaf resets what RESTCONF knows of, and reports 404 otherwise.
Reset(fields) ==
    {Carried([x \in DOMAIN native |-> IF x \in fields /\ cache[x] # None THEN 0 ELSE native[x]])}
Emptied(fields) ==
    [x \in DOMAIN cache |-> IF x \in fields THEN (IF feature = "lag" THEN 0 ELSE None) ELSE cache[x]]

Delete(fields, label, expected) == Request(Reset(fields), Emptied(fields), label, expected)

\* The switch rebuilds an entry from its native value; a default has none.
Synchronized(x) ==
    IF native[x] \in Expressible(feature, x) THEN (IF native[x] = 0 /\ cache[x] = None THEN None ELSE native[x])
    ELSE IF 0 \in Expressible(feature, x) THEN 0 ELSE None

CacheSyncs ==
    /\ native # Gone
    /\ \E x \in DOMAIN cache : cache' = [cache EXCEPT ![x] = Synchronized(x)]
    /\ UNCHANGED <<feature, native, unowned, call, reported, bounds>>

Outside ==
    Interference({s \in SettingsOf[feature] : native # Gone /\ \E x \in DOMAIN s : s = Carried([native EXCEPT ![x] = s[x]])})

-----------------------------------------------------------------------------
(* The beginning of every apply.                                           *)

want == call.job.value
seen == call.seen
before == call.before

\* LLDP compares whether the port takes part at all, an aggregate's apply
\* begins with its name and its own state.
Agrees(s, v) ==
    CASE feature = "lldp" -> (s.value = 1) = (v.value = 1)
      [] feature = "lag" -> s.name = v.name /\ s.enabled = v.enabled
      [] OTHER -> s = v
SameAs(v) == {s \in SettingsOf[feature] : Agrees(s, v)}

\* RESTCONF omits defaults of spanning tree and of LLDP.
CopyAgrees(copy) ==
    Agrees([x \in DOMAIN copy |-> IF copy[x] = None THEN 0 ELSE copy[x]], seen)

\* A missing parent has nothing left to remove, but what a failed call left
\* must still be saved; removing spanning tree also clears its entry.
NothingLeft ==
    call.job.remove \/ (feature \in {"dscptrust", "protectedport", "storm"} /\ want = Default(feature))

Observed == [call EXCEPT !.seen = native, !.before = native, !.cached = cache,
                         !.others = Preserved, !.fresh = TRUE]

\* Reasons to send nothing: options of a storm policy that RESTCONF would drop,
\* symmetrical flow control beside trust, which aligning would write, too.
Unwritable ==
    /\ unowned.near
    /\ feature = "storm" \/ (feature = "dscptrust" /\ (native.value = 1 \/ want.value = 1))

Start ==
    /\ At("read")
    /\ \/ Continue([Observed EXCEPT !.pc =
             IF native = Gone THEN (IF NothingLeft THEN "done" ELSE "failed")
             ELSE IF Unwritable THEN "refused"
             ELSE IF Agrees(native, want) /\ ~(feature = "stp" /\ call.job.remove) THEN "done"
             ELSE IF feature = "lag" /\ native.members = 2 THEN "refused"
             ELSE "start"])
       \/ TimesOut

AnyValue == {}
Accept(ok) == Goto(IF ok THEN "done" ELSE "failed")
Converged == IF feature = "lag" THEN seen = want ELSE Agrees(seen, want)
Check == At("check") /\ Accept(Converged)

-----------------------------------------------------------------------------
(* Write the current value first, then the wanted one.                     *)

DscpTrust ==
    /\ feature = "dscptrust"
    /\ \/ At("start") /\ Patch(before, "aligned", {before})
       \/ At("aligned") /\ Patch(want, "check", {want})

\* Only when the copy disagrees; then it must follow before the next request.
StpInterface ==
    /\ feature = "stp"
    /\ \/ /\ At("start") /\ seen # want
          /\ IF CopyAgrees(call.cached) THEN Patch(want, "entry", {want}) ELSE Patch(seen, "wait", {seen})
       \/ At("start") /\ seen = want /\ Goto("entry")
       \/ At("wait") /\ IF CopyAgrees(cache) THEN Patch(want, "entry", {want}) ELSE TimesOut
       \/ At("entry") /\ ~call.job.remove /\ Goto("check")
       \/ At("entry") /\ call.job.remove /\ Delete(DOMAIN cache, "forgotten", {want})
       \/ At("forgotten") /\ Accept(\A x \in DOMAIN cache : cache[x] = None)

\* A cached value may suppress the request: wait until RESTCONF agrees.
Jumbo ==
    /\ feature = "jumbo"
    /\ \/ /\ At("start")
          /\ \/ unowned \notin call.others /\ Goto("failed")
             \/ unowned \in call.others /\ native = want /\ Goto("done")
             \/ unowned \in call.others /\ native # want /\ cache = native /\ Patch(want, "check", AnyValue)
             \/ native # want /\ cache # native /\ TimesOut

\* Priming a one-way port opens it both ways, which the wanted value undoes;
\* the copy must follow every request.
Following(label) == IF CopyAgrees(cache) THEN Goto(label) ELSE Goto("failed")
ThenWanted == Patch(want, "follow", SameAs(want))
PrimeAndFollow ==
    \/ At("start") /\ CopyAgrees(call.cached) /\ ThenWanted
    \/ /\ At("start") /\ ~CopyAgrees(call.cached)
       /\ Patch([value |-> IF seen.value = 1 THEN 1 ELSE 0], "primed", SameAs(seen))
    \/ At("primed") /\ Following("aligned")
    \/ At("aligned") /\ ThenWanted
    \/ At("follow") /\ Following("check")

LldpPort == feature = "lldp" /\ PrimeAndFollow
LldpGlobal == feature = "lldpglobal" /\ PrimeAndFollow

\* PUT of the whole policy is carried out whatever RESTCONF holds.
Poe ==
    /\ feature = "poe" /\ At("start")
    /\ Request({want}, want, "check", AnyValue)

\* Only fields to be changed whose copy already holds the wanted value.
Changed == {x \in DOMAIN seen : seen[x] # want[x]}
Masked == {x \in Changed : call.cached[x] = want[x]}
Ethernet ==
    /\ feature = "ethernet"
    /\ \/ At("start") /\ Masked = {} /\ Goto("write")
       \/ /\ At("start") /\ Masked # {}
          /\ Patch([x \in Masked |-> seen[x]], "write", {before})
       \/ At("write") /\ Patch([x \in Changed |-> want[x]], "check", {want})

\* Prime and write each field without a read between them, keep writing
\* after an error (which Update holds back), then read until it converges.
LagInterface ==
    LET patch(values, label) ==
            Send(Written(values), Overlaid(values), [call EXCEPT !.pc = label])
        admin == IF before.enabled = want.enabled THEN "poll" ELSE "admin"
    IN  /\ feature = "lag"
        /\ \/ At("start") /\ before.name # want.name /\ patch([name |-> before.name], "rename")
           \/ At("start") /\ before.name = want.name /\ Goto(admin)
           \/ At("rename") /\ patch([name |-> want.name], admin)
           \/ /\ At("admin") /\ want.enabled = 0
              /\ Send(Reset({"enabled"}), Emptied({"enabled"}), [call EXCEPT !.pc = "poll"])
           \/ At("admin") /\ want.enabled = 1 /\ patch([enabled |-> 0], "disable")
           \/ At("disable") /\ patch([enabled |-> 1], "poll")
           \/ At("poll") /\ Continue([call EXCEPT !.pc = "readback", !.then = "check", !.expect = AnyValue])

-----------------------------------------------------------------------------
(* Remove the cached entry, so that the value written next is carried out; *)
(* a removal must first create the entry of a native-only value.           *)

\* Fault the properties must detect.
NothingToMaterialise(x) == 0

\* The value that stands in for a native one RESTCONF does not have: a
\* passive querier and version 3 where the current value cannot be sent.
StandIn(x) ==
    CASE x = "mode" -> 2
      [] x = "version" /\ feature = "igmpglobal" -> 1
      [] OTHER -> seen[x]

Materialised(x) == IF seen[x] # 0 THEN StandIn(x) ELSE 0

Set(x) == IF want[x] # 0 THEN want[x] ELSE Materialised(x)

\* One leaf after the other; the head of `todo` is the one at hand.
Leaf == Head(call.todo)
Replace(leaves) == At("start") /\ Continue([call EXCEPT !.pc = "clear", !.todo = leaves])
Unneeded == want[Leaf] # 0 \/ seen[Leaf] = 0
NextLeaf(c) == [c EXCEPT !.pc = "readback", !.then = "clear", !.expect = AnyValue, !.todo = Tail(@)]
ReplaceLeaf ==
    \/ /\ At("clear") /\ call.todo = <<>> /\ Goto("check")
    \/ /\ At("clear") /\ call.todo # <<>>
       /\ \/ seen[Leaf] # want[Leaf] /\ Delete({Leaf}, "set", AnyValue)
          \/ seen[Leaf] = want[Leaf] /\ Continue([call EXCEPT !.todo = Tail(@)])
    \/ /\ At("set")
       /\ IF Set(Leaf) = 0 THEN Goto("unset") ELSE Patch([x \in {Leaf} |-> Set(Leaf)], "unset", AnyValue)
    \/ /\ At("unset")
       /\ IF Unneeded THEN Continue([call EXCEPT !.pc = "clear", !.todo = Tail(@)])
          ELSE Send(Reset({Leaf}), Emptied({Leaf}), NextLeaf(call))

VoiceVlan == feature = "voicevlan" /\ (Replace(<<"value">>) \/ ReplaceLeaf)
ProtectedPort == feature = "protectedport" /\ (Replace(<<"value">>) \/ ReplaceLeaf)
IgmpGlobal == feature = "igmpglobal" /\ (Replace(<<"mode", "version">>) \/ ReplaceLeaf)
IgmpVlan == feature = "igmpvlan" /\ (Replace(<<"mode", "version">>) \/ ReplaceLeaf)

-----------------------------------------------------------------------------
(* Storm control: seed what is to change, clear all for another unit, take *)
(* classes away one by one, then write what is new.                        *)

Limited(s) == {x \in DOMAIN s : s[x] # 0}
UnitOf(s) == IF Limited(s) = {} THEN "" ELSE Unit(s[CHOOSE x \in Limited(s) : TRUE])
Without(s, x) == [s EXCEPT ![x] = 0]

Seeded == {x \in Limited(seen) : UnitOf(seen) # UnitOf(want) \/ seen[x] # want[x]}
\* Fault the properties must detect.
AlwaysResets == Limited(seen) # {}

NewUnit == Limited(seen) # {} /\ UnitOf(seen) # UnitOf(want)
Dropped == Limited(seen) \ Limited(want)

StormSeed ==
    /\ At("start")
    /\ IF Seeded = {} THEN Goto("reset") ELSE Patch([x \in Seeded |-> seen[x]], "reset", {before})

StormReset ==
    /\ At("reset")
    /\ IF NewUnit THEN Delete(DOMAIN seen, "drop", {Default("storm")}) ELSE Goto("drop")

StormDrop ==
    /\ At("drop")
    /\ \/ \E x \in Dropped : Delete({x}, "drop", {Without(seen, x)})
       \/ /\ Dropped = {}
          /\ \E order \in Orders(Limited(want) \ Limited(seen)) :
                Continue([call EXCEPT !.pc = "invalidate", !.todo = order])

\* A copy left by a removal on the CLI would suppress the new limit.
StormInvalidate ==
    /\ At("invalidate")
    /\ \/ /\ call.todo # <<>>
          /\ Send(Reset({Head(call.todo)}), Emptied({Head(call.todo)}),
                  [call EXCEPT !.pc = "readback", !.then = "invalidate",
                               !.expect = {seen}, !.todo = Tail(@)])
       \/ call.todo = <<>> /\ Goto("write")

StormWrite ==
    /\ At("write")
    /\ \/ Changed = {} /\ Goto("check")
       \/ Changed # {} /\ Patch([x \in Changed |-> want[x]], "check", AnyValue)

StormControl ==
    /\ feature = "storm"
    /\ StormSeed \/ StormReset \/ StormDrop \/ StormInvalidate \/ StormWrite

-----------------------------------------------------------------------------
Apply ==
    \/ Start \/ Refuse \/ Readback \/ Check \/ Return
    \/ DscpTrust \/ StpInterface \/ Jumbo \/ LldpPort \/ LldpGlobal \/ Poe \/ Ethernet \/ LagInterface
    \/ VoiceVlan \/ ProtectedPort \/ IgmpGlobal \/ IgmpVlan \/ StormControl

Next ==
    \/ \E job \in Wanted(feature) : Begin(job)
    \/ Apply \/ CacheSyncs \/ Outside \/ Finished

Spec == Init /\ [][Next]_vars

-----------------------------------------------------------------------------
(* Properties.                                                             *)

\* What a call reported as done stands until somebody touches it: the wanted
\* value, or a parent that is gone when it was to be removed (each apply's
\* final comparison with the native configuration).
ReportedStands ==
    \A job \in reported :
        IF native = Gone THEN job.value = Default(feature) ELSE Agrees(native, job.value)

\* Whatever RESTCONF holds when a call begins, a call that sends anything and
\* that nothing disturbs succeeds: each way of aligning the copy works from
\* every divergence.
QuietCallSucceeds == ~(Fails /\ call.quiet /\ before # Gone)

\* A field that already has its wanted value is not touched on the way: no
\* link goes down to be renamed, no limit is lifted that is to stay, unless
\* the unit of the limits changes.
TouchesOnlyWhatDiffers ==
    ~Idle /\ call.quiet /\ call'.quiet /\ native' # native /\ before # Gone
        /\ (feature = "storm" => UnitOf(before) = UnitOf(want))
    => \A x \in DOMAIN native : before[x] = want[x] /\ x # "members" => native'[x] = native[x]
=============================================================================
