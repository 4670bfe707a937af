------------------------------ MODULE Lifecycle ------------------------------
(* One resource over many OpenTofu runs: refresh, plan, apply, and what its *)
(* state remembers of an operation that failed                             *)
(* (internal/features/*/*resource.go).  The actions are those all resources *)
(* share; where they differ they ask the kind, a record of ResourceKinds.   *)
EXTENDS Naturals, ResourceKinds

CONSTANTS
    Names,          \* configurations the operator may ask for
    Absent,         \* the resource does not exist
    Unread,         \* apply returned no observation
    Unverified,     \* nor could it verify what it requested
    Kinds,          \* names of the kinds of resource
    MaxFaults,      \* bound on failing reads, writes and saves
    MaxEdits,       \* bound on changes of the operator's configuration
    MaxOutside      \* bound on changes made by others, reloads included

ASSUME LifecycleAssumption ==
    /\ Names # {} /\ Names \intersect {Absent, Unread, Unverified} = {}
    /\ Absent # Unread /\ Absent # Unverified /\ Unread # Unverified
    /\ Kinds \subseteq DOMAIN KindOf /\ Kinds # {}
    /\ \A k \in Kinds : KindOf[k] \in KindSet
    /\ MaxFaults \in Nat /\ MaxEdits \in Nat /\ MaxOutside \in Nat

VARIABLES
    kind,           \* of resource
    config,         \* what the operator's configuration asks for
    state,          \* OpenTofu's state of the resource: a set of at most one record
    running, startup,
    phase,          \* what the run is doing
    goal,           \* what the call under way is to establish
    failed,         \* the call under way met an error
    observed,       \* what apply last read
    faults, edits, outside

lifecycle == <<kind, config, state, running, startup, phase, goal, failed, observed,
               faults, edits, outside>>
asked == <<kind, config>>
device == <<running, startup>>
call == <<goal, failed, observed>>
bounds == <<faults, edits, outside>>

Values == Names \union {Absent}
Nothing == {Unread, Unverified}

\* What the operator may ask for: an immutable resource has one value, as one
\* with another value is another resource.
Choices == IF kind.mutable THEN Values ELSE {Absent, CHOOSE n \in Names : TRUE}

Tracked == state # {}
Current == CHOOSE s \in state : TRUE

LifecycleInit ==
    /\ kind \in {KindOf[k] : k \in Kinds}
    /\ config \in Choices
    /\ state = {} /\ running = Absent /\ startup = Absent
    /\ phase = "idle" /\ goal = Absent /\ failed = FALSE /\ observed = Unread
    /\ faults = 0 /\ edits = 0 /\ outside = 0

Fault == faults < MaxFaults /\ faults' = faults + 1 /\ UNCHANGED <<edits, outside>>
NoFault == UNCHANGED bounds

-----------------------------------------------------------------------------
(* Refresh and plan.                                                       *)

\* Faults the properties must detect.
NoChangeDespitePending(s) == s.value = config /\ ~s.tainted
DeleteForgets(s) == {}

\* Resource.Read: what is missing is kept while a failed operation has to be
\* saved; a setting is never missing.
Refreshed(s) ==
    IF running # Absent \/ kind.shape = "setting" THEN {[s EXCEPT !.value = running]}
    ELSE IF ~s.pending THEN {}
    ELSE IF kind.shape = "value" THEN {[s EXCEPT !.value = Absent]}
    ELSE {s}

Refresh ==
    /\ phase = "idle"
    /\ \/ state' = UNION {Refreshed(s) : s \in state} /\ phase' = "refreshed" /\ NoFault
       \/ Tracked /\ Fault /\ UNCHANGED <<state, phase>>
    /\ UNCHANGED <<asked, device, call>>

\* ModifyPlan plans persistence_pending = false, so a pending state is a
\* difference even when every other attribute agrees.
NoChange(s) == s.value = config /\ ~s.pending /\ ~s.tainted

\* OpenTofu calls Delete to destroy and, before Create, to replace a tainted
\* resource; a call ends before the next begins.
Begin(target) ==
    /\ goal' = target /\ failed' = FALSE /\ observed' = Unread /\ phase' = "read"
    /\ UNCHANGED <<asked, state, device, bounds>>

Plan ==
    /\ phase = "refreshed"
    /\ \/ ~Tracked /\ config # Absent /\ Begin(config)
       \/ Tracked /\ (config = Absent \/ Current.tainted) /\ Begin(Absent)
       \/ Tracked /\ config # Absent /\ ~Current.tainted /\ ~NoChange(Current) /\ Begin(config)
       \/ /\ IF Tracked THEN NoChange(Current) ELSE config = Absent
          /\ phase' = "idle"
          /\ UNCHANGED <<asked, state, device, call, bounds>>

\* ModifyPlan's check of the switch fails: nothing is applied.
PlanFails ==
    /\ phase = "refreshed" /\ config # Absent
    /\ Fault /\ phase' = "idle"
    /\ UNCHANGED <<asked, state, device, call>>

-----------------------------------------------------------------------------
(* apply and remove, under the device lock.                                *)

Goto(next) == phase' = next /\ UNCHANGED <<asked, state, goal, edits, outside>>
Fail(next) == failed' = TRUE /\ Goto(next)

\* What apply makes of what it read.
Seen == IF running = Absent /\ kind.shape = "object" THEN Unread ELSE running

\* The current object is read; a matching one needs no write but still a save.
AfterRead == IF running # goal THEN "write" ELSE "save"

ReadCurrent ==
    /\ phase = "read"
    /\ \/ /\ Goto(AfterRead)
          /\ observed' = Seen /\ UNCHANGED <<failed, faults>>
       \/ Fault /\ Fail("return") /\ UNCHANGED observed
    /\ UNCHANGED device

\* A request may fail with or without its effect.
Write ==
    /\ phase = "write"
    /\ \/ running' = goal /\ Goto("readback") /\ UNCHANGED <<failed, faults>>
       \/ /\ Fault /\ Fail("readback")
          /\ running' \in {running, goal}
    /\ UNCHANGED <<observed, startup>>

\* Read after every attempted write.  If that fails, apply returns what it
\* read before, or nothing at all.
Readback ==
    /\ phase = "readback"
    /\ \/ /\ observed' = Seen
          /\ failed' = (failed \/ running # goal)
          /\ Goto(IF failed' THEN "return" ELSE "save")
          /\ UNCHANGED faults
       \/ /\ Fault /\ Fail("return")
          /\ observed' = IF kind.blind THEN Unverified ELSE observed
    /\ UNCHANGED device

\* Device.save succeeds only with startup equal to running.
Save ==
    /\ phase = "save"
    /\ \/ startup' = running /\ Goto("return") /\ UNCHANGED <<failed, faults>>
       \/ startup' \in {startup, running} /\ Fault /\ Fail("return")
    /\ UNCHANGED <<running, observed>>

-----------------------------------------------------------------------------
(* Create, Update and Delete store what apply returned.                    *)

Store(next) ==
    /\ state' = next /\ phase' = "idle"
    /\ UNCHANGED <<asked, device, call, bounds>>

\* What is stored of an observation.
Shown == IF observed = Absent /\ kind.shape = "binding" THEN goal ELSE observed

\* A Create that fails with a state leaves it tainted.
Created(v) == {[value |-> v, pending |-> failed, tainted |-> failed]}

CreateReturns ==
    /\ phase = "return" /\ goal # Absent /\ ~Tracked
    /\ Store(IF observed \notin Nothing THEN Created(Shown)
             ELSE IF observed = Unverified /\ kind.unmade = "planned" THEN Created(goal)
             ELSE {})

\* A fault the properties must detect.
KeepsWhatItHad(s) == s

\* What Update leaves of the state s when apply returned no observation.
Unobserved(s) ==
    CASE kind.unread = "kept" -> s
      [] kind.unread = "marked" -> [s EXCEPT !.pending = @ \/ failed]
      [] kind.unread = "planned" -> [s EXCEPT !.value = goal, !.pending = failed]

UpdateReturns ==
    /\ phase = "return" /\ goal # Absent /\ Tracked
    /\ Store(IF observed \notin Nothing
             THEN {[value |-> Shown, pending |-> failed, tainted |-> FALSE]}
             ELSE {Unobserved(Current)})

\* A failed Delete keeps the identity until its save can be retried.
Undeleted(s) ==
    {[s EXCEPT !.pending = TRUE,
               !.value = IF kind.undeleted = "observed" /\ observed \notin Nothing
                         THEN observed ELSE @]}

DeleteReturns ==
    /\ phase = "return" /\ goal = Absent
    /\ Store(IF failed THEN Undeleted(Current) ELSE {})

-----------------------------------------------------------------------------
(* The operator and other administrators.                                  *)

Edit ==
    /\ phase = "idle" /\ edits < MaxEdits /\ edits' = edits + 1
    /\ config' \in Choices \ {config}
    /\ UNCHANGED <<kind, state, device, phase, call, faults, outside>>

Outside ==
    /\ outside < MaxOutside /\ outside' = outside + 1
    /\ running' \in Choices
    /\ startup' \in {startup, running'}
    /\ UNCHANGED <<asked, state, phase, call, faults, edits>>

Run ==
    \/ Refresh \/ Plan \/ PlanFails \/ ReadCurrent \/ Write \/ Readback \/ Save
    \/ CreateReturns \/ UpdateReturns \/ DeleteReturns

LifecycleNext == Run \/ Edit \/ Outside

LifecycleSpec == LifecycleInit /\ [][LifecycleNext]_lifecycle

\* The operator keeps running apply.
LifecycleFairSpec == LifecycleSpec /\ WF_lifecycle(Run)

-----------------------------------------------------------------------------
(* Properties.                                                             *)

\* Between calls, a state without persistence_pending that agrees with the
\* switch means the switch has it saved: the next plan, which would find
\* nothing to do, is right to do nothing (Resource.Update, Resource.Read).
\* persistence_pending is documented to say so for every resource.
CleanMeansSaved ==
    \A s \in state :
        phase \in {"idle", "refreshed"} /\ outside = 0
            /\ ~s.pending /\ ~s.tainted /\ s.value = running
        => startup = running

\* The resources that lose what a failing readback should tell them: an Update
\* that stores nothing then leaves the state as clean as it was.
Careful == ~(kind.blind /\ kind.mutable /\ kind.unread = "kept")

\* For every other resource a clean state is a saved one, whichever request,
\* read or save failed in whichever call (Create, Update, Delete and Read of
\* the resources).
CarefulMeansSaved == Careful => CleanMeansSaved

\* A resource that is forgotten once it is gone is gone from the startup
\* configuration too: a failed delete is kept until its save succeeded
\* (Resource.Delete, Resource.Read).
ForgottenMeansSaved ==
    phase = "idle" /\ ~Tracked /\ outside = 0 /\ running = Absent => startup = Absent

\* Whatever failed before, repeated runs end with the requested configuration
\* running and saved, and with a plan that has nothing left to do; what others
\* have changed meanwhile, and what a careless resource takes for saved, need
\* not be saved by anyone.
Converges ==
    <>[](config # Absent =>
           /\ running = config /\ (Careful /\ outside = 0 => startup = config)
           /\ \E s \in state : NoChange(s))
=============================================================================
