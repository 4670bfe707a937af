--------------------------- MODULE Authentication ---------------------------
(* 802.1X and MAC authentication (internal/features/authentication): the   *)
(* global settings, whose failure and timeout actions depend on VLANs, and *)
(* one port, whose enablement depends on the global settings and resets    *)
(* the actions in force.                                                   *)
EXTENDS Workflow, Sequences

Features == {"authglobal", "authport"}

-----------------------------------------------------------------------------
(* The configuration.                                                      *)

\* `vlan`: the default VLAN, without which nothing can be enabled;
\* `restricted`: the VLAN an action needs.  The settings nothing depends on are
\* written between them and left out.  An action is configured but not in force (1), in force (2), or
\* a variant RESTCONF cannot write (3); native text does not tell 1 from 2.
\* `member`: the port's explicit untagged membership.
Modes == {"force-authorized", "auto"}
Globals == [vlan : 0..1, restricted : 0..1, action : 0..3, dot1x : 0..1, mac : 0..1]

Valid(s) ==
    /\ s.dot1x = 1 \/ s.mac = 1 => s.vlan = 1
    /\ s.action # 0 => s.restricted = 1
    /\ s.dot1xPort <= s.dot1x /\ s.macPort <= s.mac
    /\ s.control # "force-authorized" => s.dot1xPort = 1
    /\ s.member = 1 => s.dot1xPort = 0 /\ s.macPort = 0
Configurations ==
    {s \in [vlan : 0..1, restricted : 0..1, action : 0..3, dot1x : 0..1, mac : 0..1,
            dot1xPort : 0..1, macPort : 0..1, control : Modes, member : 0..1] : Valid(s)}

\* What the code can tell from the native text.
Indistinguishable(s) ==
    IF s.action \in {1, 2} THEN {[s EXCEPT !.action = a] : a \in {1, 2}} ELSE {s}

GlobalJobs ==
    {g \in Globals : /\ g.action \in 0..1
                     /\ (g.dot1x = 1 \/ g.mac = 1 => g.vlan = 1) /\ (g.action = 1 => g.restricted = 1)}
PortJobs ==
    {p \in [dot1xPort : 0..1, macPort : 0..1, control : Modes] :
        p.dot1xPort = 0 => p.control = "force-authorized"}
Wanted(f) == IF f = "authglobal" THEN GlobalJobs ELSE PortJobs

\* RESTCONF may list the port under modes it no longer has.
Init ==
    /\ feature \in Features
    /\ native \in Configurations
    /\ native.restricted = 1 /\ native.action = 0 => feature = "authglobal"
    /\ feature = "authglobal" => native.member = 0 /\ native.control = "force-authorized"
    /\ feature = "authport" => native.vlan = 1
    /\ cache \in IF feature = "authport" THEN SUBSET Modes ELSE {{}}
    /\ unowned = Untouched
    /\ call = NoCall /\ reported = {}
    /\ calls = 0 /\ troubles = 0

-----------------------------------------------------------------------------
(* The switch.                                                             *)

want == call.job
seen == call.seen

\* Disabling a feature removes it from the ports.
WithGlobal(field, value) ==
    LET s == [native EXCEPT ![field] = IF field = "action" /\ value = 1 THEN 2 ELSE value]
    IN  CASE field = "dot1x" /\ value = 0 -> [s EXCEPT !.dot1xPort = 0, !.control = "force-authorized"]
          [] field = "mac" /\ value = 0 -> [s EXCEPT !.macPort = 0]
          [] OTHER -> s

\* Enabling or disabling a port resets the actions in force; enabling takes
\* its membership, disabling dot1x its control mode.
WithPort(field, value) ==
    [native EXCEPT ![field] = value,
                   !.action = IF native.action = 2 THEN 1 ELSE native.action,
                   !.member = IF value = 1 THEN 0 ELSE native.member,
                   !.control = IF field = "dot1xPort" /\ value = 0 THEN "force-authorized" ELSE native.control]

\* The switch refuses a configuration that lacks a prerequisite.
Write(s, copies, c, expected) ==
    LET reading == [c EXCEPT !.pc = "readback", !.expect = expected]
    IN  IF Valid(s) THEN Send({s}, copies, reading)
        ELSE Send({native}, cache, [reading EXCEPT !.failed = TRUE])

Then(label) == [call EXCEPT !.then = label]

Outside == Interference({s \in {[native EXCEPT ![x] = v[x]] : x \in DOMAIN native, v \in Configurations} : Valid(s)})

-----------------------------------------------------------------------------
Observed == [call EXCEPT !.seen = native, !.before = native, !.others = Preserved, !.fresh = TRUE]
Start == At("read") /\ (Continue([Observed EXCEPT !.pc = "start"]) \/ TimesOut)

-----------------------------------------------------------------------------
(* The global settings (applyGlobal).                                      *)

\* Fault the properties must detect.
PortsAreNotAskedAfter == seen.action = 3

\* A port must not lose its settings, nor an action be rewritten that
\* RESTCONF cannot express.
GlobalRefused ==
    \/ \E x \in {<<"dot1x", "dot1xPort">>, <<"mac", "macPort">>} :
            seen[x[1]] = 1 /\ want[x[1]] = 0 /\ seen[x[2]] = 1
    \/ seen.action = 3

Step(kind, field) == [kind |-> kind, field |-> field]

GlobalSteps ==
    <<Step("clear", "action"), Step("disable", "dot1x"), Step("disable", "mac"),
      Step("set", "vlan"), Step("set", "restricted"), Step("set", "dot1x"), Step("set", "mac"),
      Step("apply", "action")>>

Present(s, field) == IF field = "action" /\ s[field] = 2 THEN 1 ELSE s[field]

\* Wanted actions are written even if they are there already.
Needed(step) ==
    LET is == Present(seen, step.field)
        to == want[step.field]
    IN  CASE step.kind = "clear" -> is # 0 /\ is # to
          [] step.kind = "disable" -> is = 1 /\ to = 0
          [] step.kind = "set" -> is # to
          [] step.kind = "apply" -> to # 0

GlobalBegin ==
    /\ At("start")
    /\ \/ GlobalRefused /\ Goto("refused")
       \/ want.vlan = 1 /\ Goto("refused")      \* the VLAN does not exist
       \/ ~GlobalRefused /\ Continue([call EXCEPT !.pc = "global", !.todo = GlobalSteps])

GlobalWrite ==
    /\ At("global")
    /\ \/ (\A i \in DOMAIN call.todo : ~Needed(call.todo[i])) /\ Goto("done")
       \/ \E i \in DOMAIN call.todo :
            /\ Needed(call.todo[i]) /\ \A j \in 1..(i - 1) : ~Needed(call.todo[j])
            /\ LET step == call.todo[i]
                   value == IF step.kind \in {"clear", "disable"} THEN 0 ELSE want[step.field]
               IN  Write(WithGlobal(step.field, value), cache,
                         [call EXCEPT !.then = "global", !.todo = SubSeq(@, i + 1, Len(@))],
                         Indistinguishable([seen EXCEPT ![step.field] = value]))

Global == feature = "authglobal" /\ (GlobalBegin \/ GlobalWrite)

-----------------------------------------------------------------------------
(* One port (applyInterface).                                              *)

Flags == {"dot1xPort", "macPort"}
Enabling == \E x \in Flags : want[x] = 1
GlobalOf(flag) == IF flag = "dot1xPort" THEN "dot1x" ELSE "mac"

\* Enablement would take the port's explicit untagged membership.
Untagged == Enabling /\ seen.member = 1

PortRefused ==
    \/ Untagged
    \/ \E x \in Flags : want[x] = 1 /\ seen[GlobalOf(x)] = 0
    \/ seen.action = 3 /\ \E x \in Flags : want[x] # seen[x]

PortBegin == At("start") /\ Goto(IF PortRefused THEN "refused" ELSE "dot1xPort")

\* dot1x is changed before MAC authentication.
PortFlag ==
    \E x \in Flags :
        /\ At(x)
        /\ LET label == IF x = "dot1xPort" THEN "macPort" ELSE "actions"
               expected == [seen EXCEPT ![x] = want[x],
                                !.control = IF x = "dot1xPort" /\ want[x] = 0 THEN "force-authorized"
                                            ELSE seen.control]
           IN  IF seen[x] = want[x] THEN Goto(label)
               ELSE Write(WithPort(x, want[x]), cache, Then(label), Indistinguishable(expected))

\* Fault the properties must detect.
ReappliedAfterChange ==
    seen.action \in {1, 2} /\ \E x \in Flags : call.before[x] # want[x]

\* Actions are applied again whether or not this call changed a flag.
Reapplied == seen.action \in {1, 2}

PortActions ==
    /\ At("actions")
    /\ IF Reapplied THEN Write(WithGlobal("action", 1), cache, Then("mode"), Indistinguishable(seen))
       ELSE Goto("mode")

\* A listing under the wanted mode would suppress the request: it is removed
\* first, which may reset the mode.
WithControl(mode) == [native EXCEPT !.control = mode]

PortMode ==
    /\ At("mode")
    /\ IF seen.control = want.control THEN Goto("done")
       ELSE Request(IF want.control \in cache THEN {native, WithControl("force-authorized")} ELSE {native},
                    cache \ {want.control}, "modeset",
                    UNION {Indistinguishable([seen EXCEPT !.control = m]) : m \in Modes})

PortModeSet ==
    /\ At("modeset")
    /\ IF want.control \in cache
       THEN Request({s \in {native, WithControl(want.control)} : Valid(s)}, cache, "done",
                    Indistinguishable([seen EXCEPT !.control = want.control]))
       ELSE Write(WithControl(want.control), cache \union {want.control}, Then("done"),
                  Indistinguishable([seen EXCEPT !.control = want.control]))

Port == feature = "authport" /\ (PortBegin \/ PortFlag \/ PortActions \/ PortMode \/ PortModeSet)

-----------------------------------------------------------------------------
Apply == Start \/ Refuse \/ Readback \/ Return \/ Global \/ Port

Next ==
    \/ \E job \in Wanted(feature) : Begin(job)
    \/ Apply \/ Outside \/ Finished

Spec == Init /\ [][Next]_vars

-----------------------------------------------------------------------------
(* Properties.                                                             *)

Has(s, job) == \A x \in DOMAIN job : Present(s, x) = job[x]

\* What a call reported as done stands until somebody touches it.
ReportedStands == \A job \in reported : Has(native, job)

\* A call that nothing disturbs succeeds, whatever earlier calls left: no
\* step lacks a prerequisite that a later one provides.
QuietCallSucceeds == ~(Fails /\ call.quiet)

\* A call that nothing disturbed and that succeeded leaves the configured
\* actions in force, although it or an earlier failed call reset them.
ActionsInForce == At("done") /\ call.quiet => native.action # 1

\* Calls on the global settings leave the port alone, and calls on the port
\* leave global settings and its membership alone.
LeavesNeighbours ==
    ~Idle /\ call'.quiet
    => \A x \in DOMAIN native \ ({"action"} \union DOMAIN want) : native'[x] = native[x]
=============================================================================
