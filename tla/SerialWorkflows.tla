--------------------------- MODULE SerialWorkflows ---------------------------
(* What the fastiron package promises its callers about Update and Save:   *)
(* workflows against one switch run one after another, only the running    *)
(* workflow changes the switch, and a workflow that saves succeeds only    *)
(* with the running configuration saved.  Changes that come from outside   *)
(* suspend the last promise: the package says so by comparing, and cannot  *)
(* prevent them.                                                           *)
CONSTANTS
    Workflows,      \* calls of Update and Save
    Hosts,
    HostOf,         \* the switch a workflow addresses
    Savers,         \* workflows that save before they succeed
    Settings, Values,
    Foreign         \* the value of every setting at the start

VARIABLES status, running, startup, disturbed

vars == <<status, running, startup, disturbed>>

Init ==
    /\ status = [o \in Workflows |-> "waiting"]
    /\ running = [h \in Hosts |-> [s \in Settings |-> Foreign]]
    /\ startup = running
    /\ disturbed = FALSE

Start(o) ==
    /\ status[o] = "waiting"
    /\ \A p \in Workflows : status[p] = "active" => HostOf[p] # HostOf[o]
    /\ status' = [status EXCEPT ![o] = "active"]
    /\ UNCHANGED <<running, startup, disturbed>>

Configure(o) ==
    /\ status[o] = "active"
    /\ \E s \in Settings : running' = [running EXCEPT ![HostOf[o]][s] = o]
    /\ UNCHANGED <<status, startup, disturbed>>

Saved(h) ==
    /\ startup' = [startup EXCEPT ![h] = running[h]]
    /\ UNCHANGED <<running, disturbed>>

\* The switch saves; the workflow that asked may fail in the same step.
Persist(h) ==
    /\ Saved(h)
    /\ \/ UNCHANGED status
       \/ \E o \in Workflows :
            /\ status[o] = "active" /\ HostOf[o] = h
            /\ status' = [status EXCEPT ![o] = "failed"]

Succeed(o) ==
    /\ status[o] = "active"
    /\ o \in Savers /\ ~disturbed => startup[HostOf[o]] = running[HostOf[o]]
    /\ status' = [status EXCEPT ![o] = "succeeded"]
    /\ UNCHANGED <<running, startup, disturbed>>

\* One workflow fails, or several do because their process dies.
Fail(group) ==
    /\ \A o \in group : status[o] \in {"waiting", "active"}
    /\ status' = [o \in Workflows |-> IF o \in group THEN "failed" ELSE status[o]]
    /\ UNCHANGED <<running, startup, disturbed>>

Disturb(h) ==
    /\ \E c \in [Settings -> Values] :
          running' = [running EXCEPT ![h] = c]
    /\ disturbed' = TRUE
    /\ UNCHANGED <<status, startup>>

Next ==
    \/ \E o \in Workflows : Start(o) \/ Configure(o) \/ Succeed(o)
    \/ \E group \in SUBSET Workflows : Fail(group)
    \/ \E h \in Hosts : Persist(h) \/ Disturb(h)

Spec == Init /\ [][Next]_vars
=============================================================================
