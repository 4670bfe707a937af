---------------------------- MODULE FeatureCalls ----------------------------
(* The small features as one system: a behaviour is a series of calls of   *)
(* one of them, over every configuration of its settings and every copy    *)
(* RESTCONF may have of them, with the requests that may go wrong, the     *)
(* reads that may fail and the administrator who may interfere.            *)
EXTENDS Workflow

CONSTANTS None, Gone

Values == INSTANCE Settings
Listed == INSTANCE Entries
Access == INSTANCE Authentication
Accounts == INSTANCE Aaa

\* What is missing is not some value.
ASSUME FeatureCallsAssumption ==
    /\ \A f \in Values!Features : Gone \notin [Values!Fields(f) -> 0..3]
    /\ None \notin 0..4

Init == Values!Init \/ Listed!Init \/ Access!Init \/ Accounts!Init

Next ==
    \/ feature \in Values!Features /\ Values!Next
    \/ feature \in Listed!Features /\ Listed!Next
    \/ feature \in Access!Features /\ Access!Next
    \/ feature \in Accounts!Features /\ Accounts!Next

Spec == Init /\ [][Next]_vars

-----------------------------------------------------------------------------
\* What a call reported as done stands until somebody touches it: every apply
\* reads the switch after its last request, and a step that follows a check
\* does not undo what the check saw.
ReportedStands ==
    /\ feature \in Values!Features => Values!ReportedStands
    /\ feature \in Listed!Features => Listed!ReportedStands
    /\ feature \in Access!Features => Access!ReportedStands
    /\ feature \in Accounts!Features => Accounts!ReportedStands

\* A call that is not refused before its first request (no parent, dependents,
\* options it cannot keep, ...) and that nothing disturbs succeeds, whatever an
\* earlier call left half done: no step lacks a prerequisite that a later one
\* provides, and where the code aligns RESTCONF's copy it does so from every
\* divergence.  DNS servers, areas, bindings, routes and the removal of a
\* routed interface do not align it: their calls succeed if RESTCONF lists the
\* entry just when the switch has it.  A wait for RESTCONF to catch up counts
\* as a disturbance only if its deadline passes.
QuietCallSucceeds ==
    /\ feature \in Values!Features => Values!QuietCallSucceeds
    /\ feature \in Listed!Features => Listed!QuietCallSucceeds
    /\ feature \in Access!Features => Access!QuietCallSucceeds
    /\ feature \in Accounts!Features => Accounts!QuietCallSucceeds

\* A call after which what its readbacks compare is no longer as it was does
\* not succeed and so is not saved, unless it changed after the last look.
\* Most compare every command they do not own; an address's compares only the
\* addresses that its interface had (address/backend.go), a server's the AAA
\* lines and a user's the username lines (aaa), and an Ethernet port's none of
\* it: damage beyond that is saved.
DamageIsNotSaved == DamageIsSeen

\* Aligning RESTCONF's copy changes nothing on the switch that the caller did
\* not ask to change, not even for a moment (the seeds and stand-ins of the
\* applies write values the switch already has).
OnlyWhatDiffers == [][(feature \in Values!Features => Values!TouchesOnlyWhatDiffers)]_vars

\* No call erases what was configured below its entry, nor the port or global
\* settings that the switch drops along with it: the checks before the first
\* request see every such dependent.
NeighboursSurvive ==
    [][ /\ feature \in Listed!Features => Listed!LeavesChildren
        /\ feature \in Access!Features => Access!LeavesNeighbours ]_vars

\* A removal that was reported leaves no listing behind that would stand in
\* the way of removing the parent, or claim the port for an old policy.
NoListingIsLeft == feature \in Listed!Features => Listed!NoListingIsLeft

\* What cannot be read back is right all the same: after an undisturbed call
\* the failure actions are in force, although a port's change suspends them
\* without a trace in the configuration, and the secret is the one given.
InForce ==
    /\ feature \in Access!Features => Access!ActionsInForce
    /\ feature \in Accounts!Features => Accounts!SecretsInForce

\* Login methods change only when all the rest of the policy is in place:
\* every later request might no longer be let in.
LoginLast == [][(feature \in Accounts!Features => Accounts!ChangesLoginLast)]_vars
=============================================================================
