------------------------------ MODULE Workflow ------------------------------
(* What the calls of the small features have in common: a callback of      *)
(* fastiron.Reconcile that reads, sends requests one by one, reads back    *)
(* after each, and reports what it saw.  The switch keeps the settings and *)
(* RESTCONF its own copy of them; gates, sessions and saving are Device's. *)
EXTENDS Naturals, FiniteSets, Functions

CONSTANTS
    MaxCalls,       \* bound on calls
    MaxTroubles     \* bound on requests and reads that go wrong and changes by others

ASSUME WorkflowAssumption == MaxCalls \in Nat /\ MaxTroubles \in Nat

VARIABLES
    feature,        \* which feature the calls belong to
    native,         \* its settings as the switch runs them
    cache,          \* RESTCONF's copy, which may be behind
    unowned,        \* everything else in the running configuration
    call,           \* the call under way
    reported,       \* jobs that succeeded and that nothing has undone since
    calls, troubles

\* Everything else in two parts: what every readback compares that compares
\* anything (`near`: the interface's other addresses, the other AAA or user
\* lines, the options of a policy, flow control), and the rest (`far`).
Rest == [near : BOOLEAN, far : BOOLEAN]
Untouched == [near |-> FALSE, far |-> FALSE]

\* Features whose readbacks tell the two parts apart; for the others damage to
\* `near` stands for any.
ComparedInPart == {"address", "aaaserver", "aaauser"}
Damages == {r \in Rest : r.far => feature \in ComparedInPart}

\* What a readback takes for the same configuration: an Ethernet port's
\* compares only the port, an address's the addresses there were before, a
\* server's and a user's the commands of their kind, and all others every
\* command they do not own.
Preserved ==
    CASE feature = "ethernet" -> Rest
      [] feature \in ComparedInPart -> {r \in Rest : r.near = unowned.near}
      [] OTHER -> {unowned}

switch == <<native, cache, unowned>>
bounds == <<calls, troubles>>
vars == <<feature, switch, call, reported, bounds>>

NoCall == [pc |-> "idle", quiet |-> TRUE]
Idle == call = NoCall

At(label) == call.pc = label

\* The error of a request is kept by Update and fails the call in the end
\* even if the callback carries on; `quiet` is for the properties: nothing
\* went wrong and nobody interfered since the call began; `fresh`: nobody did
\* since its last read.
Begin(job) ==
    /\ Idle /\ calls < MaxCalls /\ calls' = calls + 1
    /\ call' = [pc |-> "read", job |-> job, before |-> native, seen |-> native,
                cached |-> cache, others |-> Preserved, failed |-> FALSE,
                expect |-> {}, then |-> "idle", todo |-> <<>>, fresh |-> TRUE, quiet |-> TRUE]
    /\ reported' = {}
    /\ UNCHANGED <<feature, switch, troubles>>

Continue(c) ==
    /\ call' = c
    /\ UNCHANGED <<feature, switch, reported, bounds>>

Goto(label) == Continue([call EXCEPT !.pc = label])

\* The elements of a set one after the other: a map is ranged over in any
\* order, and a switch lists in its own.
Orders(S) == Surjection(1..Cardinality(S), S)

Faulty ==
    /\ troubles < MaxTroubles /\ troubles' = troubles + 1
    /\ UNCHANGED <<feature, reported, calls>>

Sound == UNCHANGED <<feature, reported, bounds>>

\* Faults the properties must detect.
LooksOnlyAtItsOwn == ~call.failed /\ (call.expect = {} \/ native \in call.expect)
TrustsTheAnswer == ~call.failed /\ unowned \in call.others

\* A request that would leave the switch with `settings` and RESTCONF with
\* `copies`, after which the code is at `label`.  After an error Update sends
\* nothing (update.go:66).  A request that goes wrong is carried out or not,
\* damages something else or not, and is answered with an error or not.
Send(settings, copies, c) ==
    \/ /\ call.failed /\ call' = c /\ UNCHANGED switch /\ Sound
    \/ /\ ~call.failed
       /\ native' \in settings /\ cache' = copies /\ UNCHANGED unowned
       /\ call' = c /\ Sound
    \/ /\ ~call.failed /\ Faulty
       /\ native' \in settings \union {native} /\ cache' \in {cache, copies}
       /\ unowned' \in Damages
       /\ \E error \in BOOLEAN : call' = [c EXCEPT !.failed = error, !.quiet = FALSE]

\* The request is followed by a read of the native configuration.
Request(settings, copies, label, expected) ==
    Send(settings, copies, [call EXCEPT !.pc = "readback", !.then = label, !.expect = expected])

Fail == [call EXCEPT !.pc = "failed"]

\* What a readback compares: the request's answer, what it looks at of the
\* configuration nobody asked to change, and the value if the step has an
\* expected one.
Confirmed ==
    /\ ~call.failed /\ unowned \in call.others
    /\ call.expect = {} \/ native \in call.expect

Readback ==
    /\ At("readback")
    /\ \/ /\ call' = [IF Confirmed THEN [call EXCEPT !.pc = call.then] ELSE Fail
                      EXCEPT !.seen = native, !.fresh = TRUE]
          /\ UNCHANGED switch /\ Sound
       \/ /\ Faulty /\ call' = [Fail EXCEPT !.quiet = FALSE] /\ UNCHANGED switch

\* A deadline passes, or a read fails, while the code waits for the switch.
TimesOut ==
    /\ Faulty /\ call' = [Fail EXCEPT !.quiet = FALSE] /\ UNCHANGED switch

\* An error that the callback did not return fails the call all the same.
Succeeds == At("done") /\ ~call.failed
Fails == At("failed") \/ (At("done") /\ call.failed)

\* Success lets Reconcile save; a failure leaves the settings as they are,
\* and neither leaves earlier reports on the same settings standing.
Return ==
    /\ At("done") \/ At("failed")
    /\ reported' = IF Succeeds /\ call.fresh THEN {call.job} ELSE {}
    /\ call' = NoCall
    /\ UNCHANGED <<feature, switch, bounds>>

\* A call that is refused has sent nothing.
Refuse == At("refused") /\ call' = NoCall /\ reported' = {} /\ UNCHANGED <<feature, switch, bounds>>

\* Another administrator works on the CLI, past RESTCONF.
Interference(settings) ==
    /\ troubles < MaxTroubles /\ troubles' = troubles + 1
    /\ \/ native' \in settings \ {native} /\ UNCHANGED <<cache, unowned>>
       \/ unowned' \in Damages \ {unowned} /\ UNCHANGED <<native, cache>>
    /\ call' = IF Idle THEN NoCall ELSE [call EXCEPT !.quiet = FALSE, !.fresh = FALSE]
    /\ reported' = {}
    /\ UNCHANGED <<feature, calls>>

Finished == Idle /\ calls = MaxCalls /\ UNCHANGED vars
-----------------------------------------------------------------------------
\* A call that changed what its readbacks compare does not succeed, and so is
\* not saved, unless the damage was done after its last look.
DamageIsSeen == Succeeds /\ call.fresh => unowned \in call.others
=============================================================================
