------------------------------ MODULE Entries ------------------------------
(* Configuration entries that exist or do not: a routed interface on a     *)
(* VLAN, a VLAN's spanning tree, an LLDP-MED policy, a DNS server, an OSPF *)
(* area and an interface in it, a static route, an interface's address     *)
(* (internal/features/ve, stp/vlan_write.go, lldp/med_write.go, dns, ospf, *)
(* route, address).  Some wait for RESTCONF's copy; some only send a       *)
(* request and look at what became of it.                                  *)
EXTENDS Workflow, Sequences

CONSTANT None       \* no entry

-----------------------------------------------------------------------------
(* What the native configuration may say of an entry.                      *)

\* A routed interface without (0) or with a name; a spanning tree of one of
\* two modes and priorities; one of two policies, distances or prefix lengths.
VeValues == 0..2
StpVlanValues == 1..4
MedValues == 1..2
DnsValues == {1}
AreaValues == {1}
RouteValues == 1..2
AddressValues == 1..2       \* RESTCONF's collection is all that is read of it

\* An interface in the area (1) or in another one (2).
BindingValues == 1..2

ValuesOf ==
    [ve |-> VeValues, stpvlan |-> StpVlanValues, med |-> MedValues, dns |-> DnsValues,
     area |-> AreaValues, binding |-> BindingValues, route |-> RouteValues, address |-> AddressValues]

Features == DOMAIN ValuesOf

Mode(value) == IF value <= 2 THEN "stp" ELSE "rstp"
DefaultSTP == 1

\* Child configuration: addresses and routing of an interface, bindings and
\* options of an area, options of a binding or a route, VRRP of an address.
Childless == {"stpvlan", "med", "dns"}

\* The parent: a VLAN, a port, an area, a routed interface.
Parentless == {"dns", "area", "route"}

Entry(value, parent, child) == [entry |-> value, parent |-> parent, child |-> child]
Settings(k) ==
    {s \in {Entry(v, p, c) : v \in ValuesOf[k] \union {None}, p \in BOOLEAN, c \in BOOLEAN} :
        /\ s.child => s.entry # None /\ k \notin Childless
        /\ s.entry # None /\ ~(k = "binding" /\ s.entry = 2) => s.parent
        /\ k \in Parentless => s.parent}

\* RESTCONF's copy: the entries it lists, the containers it has for them.
AtMostOne(values) == {{}} \union {{v} : v \in values}
VeListings == AtMostOne(VeValues)
StpVlanListings == AtMostOne(StpVlanValues)
DnsListings == AtMostOne(DnsValues)
AreaListings == AtMostOne(AreaValues)
RouteListings == AtMostOne(RouteValues)
MedListings == SUBSET MedValues     \* an attachment for each value of a policy
AddressListings == {{}}             \* it is `native` already
ListingsOf ==
    [ve |-> VeListings, stpvlan |-> StpVlanListings, med |-> MedListings, dns |-> DnsListings,
     area |-> AreaListings, binding |-> AtMostOne(BindingValues), route |-> RouteListings,
     address |-> AddressListings]

Shapes(k, listed) ==
    CASE k = "route" -> IF listed = {} THEN {"none", "container", "prefix"} ELSE {"prefix"}
      [] k = "area" -> IF listed = {} THEN {"none", "container"} ELSE {"container"}
      [] OTHER -> {"container"}
Copies(k) == UNION {{[listed |-> l, shape |-> x] : x \in Shapes(k, l)} : l \in ListingsOf[k]}

Job(value, remove) == [value |-> value, remove |-> remove]
Wanted(k) ==
    {Job(v, FALSE) : v \in IF k = "binding" THEN {1} ELSE ValuesOf[k]}
        \union {Job(v, TRUE) : v \in IF k \in {"route", "address"} THEN ValuesOf[k] ELSE {1}}

Init ==
    /\ feature \in Features
    /\ native \in Settings(feature) /\ cache \in Copies(feature)
    /\ unowned = Untouched
    /\ call = NoCall /\ reported = {}
    /\ calls = 0 /\ troubles = 0

-----------------------------------------------------------------------------
(* The switch.                                                             *)

Listing(values) ==
    [cache EXCEPT !.listed = IF feature = "address" THEN {} ELSE values,
                  !.shape = IF values = {} THEN @ ELSE IF feature = "route" THEN "prefix" ELSE "container"]

With(value) == [native EXCEPT !.entry = value]
Erased == [native EXCEPT !.entry = None, !.child = FALSE]

\* A request answered with an error, or acknowledged and not carried out.
Ignored(label, expected) ==
    \/ Request({native}, cache, label, expected)
    \/ Send({native}, cache, [call EXCEPT !.pc = "readback", !.then = label, !.expect = expected, !.failed = TRUE])

\* PUT and PATCH of what is already listed may be ignored; POST of it is.
Put(value, label, expected) ==
    Request({With(value)} \union (IF value \in cache.listed THEN {native} ELSE {}),
            Listing(IF feature = "med" THEN cache.listed \union {value} ELSE {value}), label, expected)
Post(value, label, expected) ==
    IF cache.listed = {} THEN Put(value, label, expected) ELSE Ignored(label, expected)

\* DELETE of what RESTCONF does not list is not found.
Delete(outcomes, label, expected) ==
    IF feature = "address" \/ cache.listed # {}
    THEN Request(outcomes, Listing({}), label, expected)
    ELSE Ignored(label, expected)

\* The switch rebuilds its listing, which disturbs a call that is removing
\* the attachments it has listed.
CacheSyncs ==
    /\ feature # "address"
    /\ cache' = Listing(IF native.entry = None THEN {} ELSE {native.entry})
    /\ call' = IF feature = "med" /\ ~Idle THEN [call EXCEPT !.quiet = FALSE] ELSE call
    /\ UNCHANGED <<feature, native, unowned, reported, bounds>>

Outside == Interference(Settings(feature))

-----------------------------------------------------------------------------
want == call.job.value
remove == call.job.remove
seen == call.seen.entry
listed == call.cached.listed

Observed == [call EXCEPT !.seen = native, !.before = native, !.cached = cache, !.others = Preserved,
                         !.fresh = TRUE]
Again == [call EXCEPT !.seen = native, !.cached = cache, !.fresh = TRUE]
Start == At("read") /\ (Continue([Observed EXCEPT !.pc = "start"]) \/ TimesOut)

Accept(ok) == Goto(IF ok THEN "done" ELSE "failed")

\* Both views hold the same.
Agree(value, values) == values = (IF value = None THEN {} ELSE {value})

\* Whether there is something to write or to remove.
Mine(value) == IF feature = "binding" THEN value = 1 ELSE value # None
Differs == IF remove THEN Mine(seen) ELSE seen # want

\* Reasons to send nothing at all: no parent, children that would be erased
\* with the entry, another owner, another value.
VeRefused == IF remove THEN call.seen.child ELSE ~call.seen.parent
MedRefused == ~call.seen.parent
AreaRefused == remove /\ call.seen.child
BindingRefused ==
    IF remove THEN seen = 1 /\ call.seen.child ELSE seen = 2 \/ ~call.seen.parent
RouteRefused == seen \notin {None, want} \/ (remove /\ call.seen.child)
AddressRefused == RouteRefused \/ (~remove /\ ~call.seen.parent)

Refused ==
    \/ feature = "ve" /\ VeRefused
    \/ feature = "med" /\ MedRefused
    \/ feature = "area" /\ AreaRefused
    \/ feature = "binding" /\ BindingRefused
    \/ feature = "route" /\ RouteRefused
    \/ feature = "address" /\ AddressRefused

Reject == At("start") /\ Refused /\ Goto("refused")

-----------------------------------------------------------------------------
(* One request, one look (dns, ospf, route, address).                      *)

\* The form of a creating request follows the containers RESTCONF has.
Form(shape) ==
    IF shape = "none" THEN "protocol"
    ELSE IF feature = "area" \/ shape = "prefix" THEN "patch"
    ELSE "post"

Create ==
    LET form == Form(call.cached.shape)
    IN  IF (form = "protocol") # (cache.shape = "none") \/ (form = "post" /\ cache.shape = "prefix")
        THEN Ignored("done", {With(want)})
        ELSE IF form = "patch" THEN Put(want, "done", {With(want)})
        ELSE Post(want, "done", {With(want)})

OneRequest ==
    /\ At("start") /\ ~Refused
    /\ \/ ~Differs /\ Goto("done")
       \/ Differs /\ ~remove /\ Create
       \/ Differs /\ remove /\ Delete({Erased}, "done", {Erased})

DnsServer == feature = "dns" /\ OneRequest
OspfArea == feature = "area" /\ OneRequest
OspfBinding == feature = "binding" /\ OneRequest
StaticRoute == feature = "route" /\ OneRequest
InterfaceAddress == feature = "address" /\ OneRequest

-----------------------------------------------------------------------------
(* A routed interface is written only when both views agree, or to remove  *)
(* its name, which works regardless; a removal waits for both views.       *)

VeReady == Agree(seen, listed) \/ (seen # None /\ want = 0)

VeWrite ==
    /\ At("start") /\ ~remove /\ ~Refused
    /\ \/ ~Differs /\ Goto("done")
       \/ Differs /\ VeReady /\
            IF seen = None THEN Post(want, "poll", {})
            ELSE IF want = 0 THEN Request({With(0)}, Listing({0}), "poll", {})
            ELSE Put(want, "poll", {})
       \/ /\ Differs /\ ~VeReady
          /\ \/ Continue(IF unowned \in call.others THEN Again ELSE Fail)
             \/ TimesOut

VeRemove ==
    /\ At("start") /\ remove /\ ~Refused
    /\ IF seen = None
       THEN Continue([call EXCEPT !.pc = "readback", !.then = "poll", !.expect = {}])
       ELSE Delete({Erased}, "poll", {})

\* Fault the properties must detect.
NativeAbsent == seen = None

BothAbsent == seen = None /\ cache.listed = {}

VePoll ==
    /\ At("poll")
    /\ IF IF remove THEN BothAbsent ELSE seen = want THEN Goto("done")
       ELSE Goto("readback") \/ TimesOut

RoutedInterface == feature = "ve" /\ (VeWrite \/ VeRemove \/ VePoll)

-----------------------------------------------------------------------------
(* Spanning tree of a VLAN: wait until the views agree, write or remove;   *)
(* removing RSTP may leave classic STP, which RESTCONF may hide at first.  *)

StpBegin ==
    /\ At("start")
    /\ IF ~remove /\ ~Differs THEN Goto("done") ELSE Goto("wait")

ViewsAgree == Agree(native.entry, cache.listed)

StpWait ==
    /\ At("wait")
    /\ \/ /\ ViewsAgree
          /\ Continue(IF remove /\ call.todo = <<>> THEN [Observed EXCEPT !.pc = "act"]
                      ELSE IF unowned \in call.others /\ ~call.failed THEN [Again EXCEPT !.pc = "act"]
                      ELSE [Fail EXCEPT !.seen = native, !.fresh = TRUE])
       \/ TimesOut

StpWrite ==
    /\ At("act") /\ ~remove
    /\ \/ ~Differs /\ Goto("done")
       \/ /\ Differs /\ (~call.seen.parent \/ (seen # None /\ Mode(seen) # Mode(want)))
          /\ Goto("refused")
       \/ /\ Differs /\ call.seen.parent
          /\ \/ seen = None /\ Post(want, "done", {With(want)})
             \/ seen # None /\ Mode(seen) = Mode(want) /\ Put(want, "done", {With(want)})

\* `todo` holds the modes removed so far: a deletion is not repeated.
StpLeft == IF Mode(native.entry) = "rstp" THEN {Erased, With(DefaultSTP)} ELSE {Erased}

StpRemove ==
    /\ At("act") /\ remove
    /\ \/ seen = None /\ Goto("done")
       \/ /\ seen # None /\ (Mode(seen) \in Range(call.todo) \/ (call.todo # <<>> /\ Mode(seen) # "stp"))
          /\ Goto("failed")
       \/ /\ seen # None /\ Mode(seen) \notin Range(call.todo) /\ (call.todo = <<>> \/ Mode(seen) = "stp")
          /\ LET c == [call EXCEPT !.pc = "wait", !.todo = Append(@, Mode(seen))]
             IN  IF \E v \in cache.listed : Mode(v) = Mode(seen)
                 THEN Send(IF native.entry = None THEN {native} ELSE StpLeft, Listing({}), c)
                 ELSE Send({native}, cache, [c EXCEPT !.failed = TRUE])

VlanSpanningTree == feature = "stpvlan" /\ (StpBegin \/ StpWait \/ StpWrite \/ StpRemove)

-----------------------------------------------------------------------------
(* A MED policy: every listed attachment of the port is removed, whatever  *)
(* its value, before the wanted policy is written.                         *)

MedBegin ==
    /\ At("start") /\ ~Refused
    /\ IF ~remove /\ ~Differs THEN Goto("done")
       ELSE IF listed = {} /\ seen # None THEN Put(seen, "attached", {call.seen})
       ELSE \E order \in Orders(listed) : Continue([call EXCEPT !.pc = "detach", !.todo = order])

\* The listing of a native-only policy.
MedAttached ==
    /\ At("attached")
    /\ IF cache.listed = {} THEN Continue(Fail)
       ELSE \E order \in Orders(cache.listed) :
                Continue([call EXCEPT !.pc = "detach", !.cached = cache, !.todo = order])

\* Deleting an attachment deletes the policy of the port.
MedDetach ==
    /\ At("detach")
    /\ \/ /\ call.todo # <<>> /\ Head(call.todo) \notin listed
          /\ Continue([call EXCEPT !.todo = Tail(@)])
       \/ /\ call.todo # <<>> /\ Head(call.todo) \in listed
          /\ IF Head(call.todo) \in cache.listed
             THEN Request({Erased}, Listing(cache.listed \ {Head(call.todo)}), "detached", {})
             ELSE Ignored("detached", {})
       \/ /\ call.todo = <<>>
          /\ IF seen # None \/ cache.listed # {} THEN Goto("failed")
             ELSE IF remove THEN Goto("done") ELSE Put(want, "check", {With(want)})

MedDetached ==
    /\ At("detached")
    /\ Continue(IF Head(call.todo) \in cache.listed THEN Fail
                ELSE [call EXCEPT !.pc = "detach", !.cached = cache, !.todo = Tail(@)])

MedCheck == At("check") /\ Accept(cache.listed = {want})

MedPolicy == feature = "med" /\ (MedBegin \/ MedAttached \/ MedDetach \/ MedDetached \/ MedCheck)

-----------------------------------------------------------------------------
Apply ==
    \/ Start \/ Refuse \/ Reject \/ Readback \/ Return
    \/ DnsServer \/ OspfArea \/ OspfBinding \/ StaticRoute \/ InterfaceAddress
    \/ RoutedInterface \/ VlanSpanningTree \/ MedPolicy

Next ==
    \/ \E job \in Wanted(feature) : Begin(job)
    \/ Apply \/ CacheSyncs \/ Outside \/ Finished

Spec == Init /\ [][Next]_vars

-----------------------------------------------------------------------------
(* Properties.                                                             *)

\* What a call reported as done stands until somebody touches it.
ReportedStands ==
    \A job \in reported :
        IF job.remove THEN ~Mine(native.entry) ELSE native.entry = job.value

\* No request is under way for what a routed interface's apply waits for.
Stuck ==
    /\ feature = "ve" /\ At("poll")
    /\ IF remove THEN native.entry # None ELSE native.entry # want

\* Servers, areas, bindings, routes and a routed interface's removal send one
\* request, in the form that suits RESTCONF's listing, and do not align it.
Trusting == feature \in {"dns", "area", "binding", "route"} \/ (feature = "ve" /\ remove)
TrueListing == listed # {} <=> call.before.entry # None

\* A call that is not refused at the start and that nothing disturbs succeeds
\* and waits for nothing in vain, whatever RESTCONF lists; the trusting ones
\* if RESTCONF lists an entry just when there is one.
QuietCallSucceeds ==
    call.quiet /\ (Fails \/ Stuck) => Trusting /\ ~TrueListing

\* A removal that was reported leaves no listing behind that would stand in
\* the way of removing the parent, or claim the port for an old policy.
NoListingIsLeft ==
    \A job \in reported : job.remove /\ feature \in {"ve", "stpvlan", "med"} => cache.listed = {}

\* No call erases what was configured below its entry.
LeavesChildren == ~Idle /\ call'.quiet /\ native.child => native'.child
=============================================================================
