---------------------------------- MODULE Lag ----------------------------------
(* fastiron_lag: creating, changing and deleting link aggregates whose native *)
(* configuration and RESTCONF cache drift apart (internal/features/lag).     *)
(* Calls hold the device lock; other administrators and the cache move       *)
(* between any two of their requests.                                        *)
EXTENDS Naturals, FiniteSets

CONSTANTS
    Ids, Ports, Names, Modes,
    Absent,         \* no aggregate
    Default,        \* the default VLAN of the switch
    MaxCalls, MaxFaults, MaxOutside     \* bounds

\* Where a call may be; while a port leaves or joins, `pc` is that port.
ApplyLabels ==
    {"read", "retained", "ports", "create", "prime", "rename", "named", "leave", "detach", "attach", "final"}
DeleteLabels == {"find", "children", "reference", "delete", "missing", "gone"}

ASSUME LagAssumption ==
    /\ Absent \notin Ids /\ Absent \notin [name : Names, mode : Modes, members : SUBSET Ports]
    /\ Default \in 1..4095
    /\ Ports \intersect (ApplyLabels \union DeleteLabels \union {"idle"}) = {}
    /\ MaxCalls \in Nat /\ MaxFaults \in Nat /\ MaxOutside \in Nat

VARIABLES
    native,         \* the running configuration: id -> aggregate or Absent
    access,         \* access VLAN of ports and of aggregates' ids; Default: no membership
    policies,       \* aggregates with interface or protocol settings of their own
    cached,         \* aggregates RESTCONF lists, id -> name or Absent
    refs,           \* the aggregate RESTCONF shows for a port
    reference,      \* RESTCONF has spanning-tree defaults of the aggregate to be deleted
    call, pc, current, todo, writeFailed,
    own,            \* aggregates a successful call established: id -> aggregate or Absent
    calls, faults, outside, quiet, faultless

switch == <<native, access, policies, cached, refs, reference>>
bounds == <<calls, faults, outside, quiet, faultless>>
vars == <<switch, call, pc, current, todo, writeFailed, own, bounds>>

\* VLAN 1, and any other VLAN a port or an aggregate belongs to explicitly.
AccessVlans == {Default, 1, 2}
Lags == [name : Names, mode : Modes, members : SUBSET Ports]
Calls == [op : {"apply"}, id : Ids, lag : Lags] \union [op : {"delete"}, id : Ids]
NoCall == [op |-> "none"]

Exists(i) == native[i] # Absent
Members(i) == IF Exists(i) THEN native[i].members ELSE {}
Taken == UNION {Members(i) : i \in Ids}

Init ==
    /\ native = [i \in Ids |-> Absent] /\ policies = {}
    /\ \E p \in Ports, v \in AccessVlans :
          access = [[x \in Ids \union Ports |-> Default] EXCEPT ![p] = v]
    /\ cached = [i \in Ids |-> Absent] /\ refs = [p \in Ports |-> Absent]
    /\ reference = FALSE
    /\ call = NoCall /\ pc = "idle" /\ current = Absent /\ todo = {} /\ writeFailed = FALSE
    /\ own = [i \in Ids |-> Absent]
    /\ calls = 0 /\ faults = 0 /\ outside = 0 /\ quiet = TRUE /\ faultless = TRUE

-----------------------------------------------------------------------------
(* Calls, reads and requests.                                              *)

Begin(c) ==
    /\ pc = "idle" /\ calls < MaxCalls /\ calls' = calls + 1
    /\ call' = c /\ pc' = IF c.op = "apply" THEN "read" ELSE "find"
    /\ current' = Absent /\ todo' = {} /\ writeFailed' = FALSE
    /\ own' = [own EXCEPT ![c.id] = Absent]
    /\ quiet' = TRUE /\ faultless' = TRUE
    /\ reference' \in (IF c.op = "delete" THEN BOOLEAN ELSE {FALSE})
    /\ UNCHANGED <<native, access, policies, cached, refs, faults, outside>>

Id == call.id
Wanted == call.lag

Frame == UNCHANGED <<switch, call, writeFailed, own, bounds>>
Goto(next) == pc' = next /\ Frame /\ UNCHANGED <<current, todo>>

Return(established) ==
    /\ pc' = "idle" /\ call' = NoCall /\ own' = established
    /\ UNCHANGED <<switch, current, todo, writeFailed, bounds>>

Failed == Return(own)
Succeed ==
    IF writeFailed THEN Failed
    ELSE Return(IF call.op = "apply" THEN [own EXCEPT ![Id] = Wanted] ELSE own)

Fault ==
    /\ faults < MaxFaults /\ faults' = faults + 1 /\ faultless' = FALSE
    /\ UNCHANGED <<calls, outside, quiet>>

\* readLAGs waits until no member references a missing aggregate, then reads
\* the native configuration against RESTCONF's port inventory.
Synced == \A p \in Ports : refs[p] # Absent => cached[refs[p]] # Absent

\* A read fails, or a wait for the cache or for convergence times out.
ReadFails ==
    /\ pc # "idle" /\ Fault /\ pc' = "idle" /\ call' = NoCall
    /\ UNCHANGED <<switch, current, todo, writeFailed, own>>

\* The switch answers a request it performs or masks with success; a fault
\* loses the answer or the request.  After a failed request none is sent.
Request(effect, next) ==
    /\ pc' = next /\ UNCHANGED <<call, own>>
    /\ \/ writeFailed /\ UNCHANGED <<switch, writeFailed, bounds>>
       \/ ~writeFailed /\ effect /\ UNCHANGED <<writeFailed, bounds>>
       \/ /\ ~writeFailed /\ Fault
          /\ \/ effect /\ writeFailed' = TRUE
             \/ UNCHANGED switch /\ writeFailed' \in BOOLEAN

Refused == UNCHANGED switch

-----------------------------------------------------------------------------
(* What the switch does with a request (docs/guides/lags.md): the cache    *)
(* answers before the configuration does.                                  *)

\* Creating an aggregate the cache retains is a conflict.
Create(i, lag) ==
    IF cached[i] # Absent \/ Exists(i) THEN Refused
    ELSE /\ native' = [native EXCEPT ![i] = [lag EXCEPT !.members = {}]]
         /\ cached' = [cached EXCEPT ![i] = lag.name] /\ UNCHANGED <<access, policies, refs, reference>>

\* A PATCH to the value the cache holds changes nothing.
Rename(i, name) ==
    IF cached[i] = name \/ ~Exists(i) THEN Refused
    ELSE /\ native' = [native EXCEPT ![i].name = name]
         /\ cached' = [cached EXCEPT ![i] = name] /\ UNCHANGED <<access, policies, refs, reference>>

Attach(p, i) ==
    IF refs[p] = i \/ ~Exists(i) \/ p \in Taken THEN Refused
    ELSE /\ native' = [native EXCEPT ![i].members = @ \union {p}]
         /\ refs' = [refs EXCEPT ![p] = i] /\ UNCHANGED <<access, policies, cached, reference>>

Detach(p, i) ==
    IF ~Exists(i) THEN Refused
    ELSE /\ native' = [native EXCEPT ![i].members = @ \ {p}]
         /\ refs' = [refs EXCEPT ![p] = Absent] /\ UNCHANGED <<access, policies, cached, reference>>

\* References of the members may outlive the aggregate, and the cache may not
\* know an aggregate the configuration has.
Destroy(i) ==
    IF cached[i] = Absent THEN Refused
    ELSE /\ native' = [native EXCEPT ![i] = Absent] /\ cached' = [cached EXCEPT ![i] = Absent]
         /\ access' = [access EXCEPT ![i] = Default]
         /\ policies' = policies \ {i} /\ UNCHANGED <<refs, reference>>

-----------------------------------------------------------------------------
(* applyLAG.                                                               *)

\* The switchport that ReadSwitchport returns has an access VLAN above 1 or trunks.
HasVlans(x) == access[x] > 1

\* Faults the properties must detect.
SettleForMembers == Wanted.members \subseteq native[Id].members
Unprimed == UNCHANGED switch
ReferenceStays == pc = "reference" /\ Goto("delete")
IgnorePolicies == HasVlans(Id)

\* Another aggregate has the name or a member; the mode cannot change.
Conflict ==
    \/ \E i \in Ids \ {Id} :
           Exists(i) /\ (native[i].name = Wanted.name \/ native[i].members \intersect Wanted.members # {})
    \/ Exists(Id) /\ native[Id].mode # Wanted.mode

ReadLags ==
    /\ pc = "read" /\ Synced
    /\ \/ Conflict /\ Failed
       \/ /\ ~Conflict /\ current' = native[Id]
          /\ pc' = (IF Exists(Id) THEN "ports" ELSE "retained")
          /\ Frame /\ UNCHANGED todo

Retained ==
    /\ pc = "retained"
    /\ IF cached[Id] # Absent THEN Failed ELSE Goto("ports")

\* A port joins without VLAN memberships of its own.
Joining == Wanted.members \ (IF current = Absent THEN {} ELSE current.members)

CheckPorts ==
    /\ pc = "ports"
    /\ IF \E p \in Joining : HasVlans(p) THEN Failed
       ELSE Goto(IF current = Absent THEN "create"
                 ELSE IF current.name # Wanted.name THEN "prime" ELSE "leave")

CreateLag ==
    /\ pc = "create" /\ Request(Create(Id, Wanted), "named") /\ UNCHANGED <<current, todo>>

\* The native name first, so that a cache holding the wanted one cannot mask it.
PrimeName == Rename(Id, current.name)

Prime == pc = "prime" /\ Request(PrimeName, "rename") /\ UNCHANGED <<current, todo>>

RenameLag ==
    /\ pc = "rename" /\ Request(Rename(Id, Wanted.name), "named") /\ UNCHANGED <<current, todo>>

\* A wait ends when the native configuration matches; ReadFails ends the others.
Named ==
    /\ pc = "named" /\ Synced /\ Exists(Id)
    /\ native[Id].name = Wanted.name /\ native[Id].mode = Wanted.mode
    /\ current' = native[Id] /\ pc' = "leave" /\ Frame /\ UNCHANGED todo

Foreign == current.members \ Wanted.members

Leave ==
    /\ pc = "leave" /\ todo' = Foreign /\ pc' = "detach"
    /\ Frame /\ UNCHANGED current

DetachPort ==
    /\ pc = "detach"
    /\ \/ todo = {} /\ todo' = Wanted.members /\ pc' = "attach" /\ Frame
       \/ \E p \in todo : UNCHANGED todo /\ Request(Detach(p, Id), p)
    /\ UNCHANGED current

\* pc names the port whose departure is awaited.
Detached ==
    /\ pc \in todo /\ Synced /\ pc \notin Wanted.members
    /\ pc \notin Members(Id)
    /\ todo' = todo \ {pc} /\ pc' = "detach" /\ Frame /\ UNCHANGED current

AttachPort ==
    /\ pc = "attach" /\ Synced
    /\ \/ todo = {} /\ Goto("final")
       \/ todo # {} /\ ~Exists(Id) /\ Failed
       \/ \E p \in todo :
            /\ Exists(Id) /\ UNCHANGED current
            /\ IF p \in Members(Id)
               THEN todo' = todo \ {p} /\ pc' = "attach" /\ Frame
               ELSE Request(Attach(p, Id), p) /\ UNCHANGED todo

Attached ==
    /\ pc \in todo /\ Synced /\ pc \in Wanted.members
    /\ pc \in Members(Id)
    /\ todo' = todo \ {pc} /\ pc' = "attach" /\ Frame /\ UNCHANGED current

Settled == native[Id] = Wanted

Final == pc = "final" /\ Synced /\ Exists(Id) /\ Settled /\ Succeed

ApplyLag ==
    \/ ReadLags \/ Retained \/ CheckPorts \/ CreateLag \/ Prime \/ RenameLag \/ Named
    \/ Leave \/ DetachPort \/ Detached \/ AttachPort \/ Attached \/ Final

-----------------------------------------------------------------------------
(* deleteLAG.                                                              *)

Find ==
    /\ pc = "find" /\ Synced
    /\ IF Exists(Id) THEN current' = native[Id] /\ pc' = "children" /\ Frame /\ UNCHANGED todo
       ELSE Succeed

\* VLAN memberships and native settings that deletion would erase, or a member
\* that was not among those read.
HasChildren == HasVlans(Id) \/ Id \in policies
Children == HasChildren \/ ~Exists(Id) \/ ~(native[Id].members \subseteq current.members)

CheckChildren ==
    /\ pc = "children"
    /\ IF Children THEN Failed ELSE Goto("reference")

\* The spanning-tree defaults go just before the aggregate they refer to.
RemoveReference ==
    /\ pc = "reference"
    /\ Request(reference' = FALSE /\ UNCHANGED <<native, access, policies, cached, refs>>, "delete")
    /\ UNCHANGED <<current, todo>>

\* RESTCONF answers 404 for an aggregate its cache does not hold, and for one
\* that spanning-tree defaults still refer to.
Deletable == cached[Id] # Absent /\ ~reference

DeleteLag ==
    /\ pc = "delete"
    /\ \/ writeFailed /\ Failed
       \/ /\ ~writeFailed /\ Deletable
          /\ Request(Destroy(Id), "gone") /\ UNCHANGED <<current, todo>>
       \/ /\ ~writeFailed /\ ~Deletable
          /\ writeFailed' = TRUE /\ pc' = "missing"
          /\ UNCHANGED <<switch, call, current, todo, own, bounds>>

Missing ==
    /\ pc = "missing"
    /\ IF Exists(Id) THEN Failed ELSE Goto("gone")

Gone == pc = "gone" /\ Synced /\ ~Exists(Id) /\ Succeed

DeleteLAG == Find \/ CheckChildren \/ RemoveReference \/ DeleteLag \/ Missing \/ Gone

-----------------------------------------------------------------------------
(* The cache catches up, one entry at a time, and spanning-tree defaults are *)
(* built again, whenever the switch is read; not between priming a name and *)
(* changing it, nor between removing the defaults and the aggregate, where   *)
(* the code does not read.                                                   *)

CacheSyncs ==
    /\ pc \notin {"rename", "delete"}
    /\ \/ \E i \in Ids : cached' = [cached EXCEPT ![i] = IF Exists(i) THEN native[i].name ELSE Absent]
             /\ UNCHANGED <<refs, reference>>
       \/ \E p \in Ports :
             /\ refs' = [refs EXCEPT ![p] =
                    IF p \in Taken THEN CHOOSE i \in Ids : p \in Members(i)
                    ELSE Absent]
             /\ UNCHANGED <<cached, reference>>
       \/ call.op = "delete" /\ reference' = TRUE /\ UNCHANGED <<cached, refs>>
    /\ UNCHANGED <<native, access, policies, call, pc, current, todo, writeFailed, own, bounds>>

\* Other administrators work on the CLI, past the cache.
Outside ==
    /\ outside < MaxOutside /\ outside' = outside + 1 /\ quiet' = FALSE
    /\ \/ \E i \in Ids, lag \in Lags :
            /\ lag.members \intersect (Taken \ Members(i)) = {}
            /\ \A j \in Ids \ {i} : Exists(j) => native[j].name # lag.name
            /\ native' = [native EXCEPT ![i] = lag] /\ own' = [own EXCEPT ![i] = Absent]
            /\ UNCHANGED <<access, policies>>
       \/ \E i \in Ids :
            /\ Exists(i) /\ native' = [native EXCEPT ![i] = Absent]
            /\ own' = [own EXCEPT ![i] = Absent]
            /\ access' = [access EXCEPT ![i] = Default] /\ policies' = policies \ {i}
       \/ \E i \in Ids, v \in AccessVlans \ {Default} :
            /\ Exists(i) /\ access' = [access EXCEPT ![i] = v]
            /\ UNCHANGED <<native, policies, own>>
       \/ \E i \in Ids : Exists(i) /\ policies' = policies \union {i} /\ UNCHANGED <<native, access, own>>
    /\ UNCHANGED <<cached, refs, reference, call, pc, current, todo, writeFailed>>
    /\ UNCHANGED <<calls, faults, faultless>>

Done == pc = "idle" /\ calls = MaxCalls /\ UNCHANGED vars

Next ==
    \/ \E c \in Calls : Begin(c)
    \/ ReadFails \/ ApplyLag \/ DeleteLAG \/ CacheSyncs \/ Outside \/ Done

Spec == Init /\ [][Next]_vars

-----------------------------------------------------------------------------
(* Properties.                                                             *)

\* Every variable has its type, and no port is in two aggregates.
TypeOK ==
    /\ native \in [Ids -> Lags \union {Absent}] /\ own \in [Ids -> Lags \union {Absent}]
    /\ \A i, j \in Ids : i # j /\ Exists(i) /\ Exists(j)
          => Members(i) \intersect Members(j) = {}
    /\ access \in [Ids \union Ports -> AccessVlans] /\ policies \subseteq {i \in Ids : Exists(i)}
    /\ cached \in [Ids -> Names \union {Absent}] /\ refs \in [Ports -> Ids \union {Absent}]
    /\ call \in Calls \union {NoCall} /\ (call = NoCall <=> pc = "idle")
    /\ reference \in BOOLEAN /\ current \in Lags \union {Absent} /\ todo \subseteq Ports /\ writeFailed \in BOOLEAN
    /\ calls \in 0..MaxCalls /\ faults \in 0..MaxFaults /\ outside \in 0..MaxOutside

\* An aggregate that a call reported is exactly as reported, name, mode and
\* members, however stale the cache was, until another administrator or a
\* call of its own changes it (applyLAG, deleteLAG).
ReportedStands == \A i \in Ids : own[i] # Absent => native[i] = own[i]

\* Deleting an aggregate erases no VLAN membership and no policy that stood
\* when the call began (deleteLAG, CheckLAGRemoval).
ErasesNothing == pc = "delete" /\ quiet' => access' = access /\ policies' = policies

DeletionIsGuarded == [][ErasesNothing]_vars

\* The name the caller asked for, once the switch answered the request well.
NamedAsWanted == Exists(Id) /\ native[Id].name = Wanted.name

\* What RESTCONF has of an aggregate stands in the way of no request: a name
\* it already holds is changed natively all the same, otherwise the wait could
\* only time out (applyLAG's retained-aggregate check and priming), and
\* spanning-tree defaults that nobody configured never have a deletion
\* answered with 404 (deleteLAG, which removes them with nothing in between).
Unmasked ==
    quiet' /\ faultless' =>
        /\ pc' = "named" => NamedAsWanted'
        /\ pc = "delete" /\ pc' = "missing" => cached[Id] = Absent

NothingMasksRequests == [][Unmasked]_vars
=============================================================================
