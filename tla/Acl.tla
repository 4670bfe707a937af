---------------------------------- MODULE Acl ----------------------------------
(* fastiron_ip_access_list_*, fastiron_ipv6_access_list and the access-group  *)
(* resources (internal/features/acl): rule sets reconciled one verified write *)
(* at a time against a RESTCONF database that CLI edits leave behind, and the *)
(* binding of an ACL to an interface.  Calls hold the device lock; another    *)
(* administrator and the database move between any two requests.              *)
EXTENDS Naturals, FiniteSets, Functions

CONSTANTS
    Names,          \* access lists of one family
    Sequences, Rules,
    Deny,           \* the rule that denies everything
    Wanted,         \* the rule sets configurations ask for
    Absent,         \* no access list
    None,           \* no binding
    MaxCalls, MaxFaults, MaxOutside     \* bounds

\* Rule sets: a rule per sequence number, no rule twice (validateIP).
RuleSets == UNION {{f \in [D -> Rules] : IsInjective(f)} : D \in SUBSET Sequences}
Empty == [s \in {} |-> Deny]
Seed == [s \in {1} |-> Deny]

ASSUME AclAssumption ==
    /\ Sequences \subseteq Nat \ {0} /\ 1 \in Sequences /\ Deny \in Rules /\ Wanted \subseteq RuleSets
    /\ Absent \notin RuleSets /\ (\A d \in SUBSET Sequences : d # Absent) /\ None \notin Names
    /\ MaxCalls \in Nat /\ MaxFaults \in Nat /\ MaxOutside \in Nat

VARIABLES
    standard,       \* the family is that of the standard IPv4 access lists
    native,         \* the running configuration: access list -> rule set or Absent
    bound,          \* the access list bound to the interface, or None
    db,             \* sequences the RESTCONF database holds, access list -> set or Absent
    keys,           \* access lists RESTCONF holds for the interface
    call, pc, current, unowned, expected, after, todo, writeFailed,
    before,         \* the rules a call first read
    own,            \* what a call said, or last read, of an access list nobody changed since
    result, calls, faults, outside, quiet, faultless

switch == <<standard, native, bound, db, keys>>
local == <<current, unowned, expected, after, todo, writeFailed, before>>
bounds == <<calls, faults, outside, quiet, faultless>>
vars == <<switch, call, pc, local, own, result, bounds>>

Calls ==
    [op : {"apply"}, name : Names, rules : Wanted] \union [op : {"delete"}, name : Names]
        \union [op : {"bind"}, name : Names \union {None}]
NoCall == [op |-> "none"]
Id == call.name

Seqs(rules) == IF rules = Absent THEN Absent ELSE DOMAIN rules
Synced(a) == db[a] = Seqs(native[a])

Init ==
    /\ standard \in BOOLEAN
    /\ native \in [Names -> Wanted \union {Absent}]
    /\ bound \in {None} \union {a \in Names : native[a] # Absent}
    /\ db = [a \in Names |-> Seqs(native[a])] /\ keys = {bound} \ {None}
    /\ call = NoCall /\ pc = "idle" /\ current = Absent /\ unowned = {} /\ expected = Absent
    /\ after = "idle" /\ todo = {} /\ writeFailed = FALSE /\ before = Absent
    /\ own = [a \in Names |-> None] /\ result = "none"
    /\ calls = 0 /\ faults = 0 /\ outside = 0 /\ quiet = TRUE /\ faultless = TRUE

-----------------------------------------------------------------------------
(* Calls, requests and readback.                                           *)

\* A call is born quiet unless RESTCONF does not know the binding it is about, or
\* the rules of the standard access list.
Begin(c) ==
    /\ pc = "idle" /\ calls < MaxCalls /\ calls' = calls + 1
    /\ call' = c /\ pc' = (IF c.op = "bind" THEN "view" ELSE "read")
    /\ result' = "none"
    /\ own' = IF c.op = "bind" THEN own ELSE [own EXCEPT ![c.name] = None]
    /\ quiet' = (IF c.op = "bind" THEN bound \in keys \union {None} ELSE standard => Synced(c.name))
    /\ faultless' = TRUE
    /\ UNCHANGED <<switch, local, faults, outside>>

Goto(next) ==
    /\ pc' = next
    /\ UNCHANGED <<switch, call, local, own, result, bounds>>

\* A call ends, and with it what it knew.
End(how) ==
    /\ pc' = "idle" /\ call' = NoCall /\ result' = how
    /\ current' = Absent /\ unowned' = {} /\ expected' = Absent /\ after' = "idle"
    /\ todo' = {} /\ writeFailed' = FALSE /\ before' = Absent
    /\ UNCHANGED switch

Noting(rules) == IF call.op = "bind" THEN own ELSE [own EXCEPT ![Id] = rules]

Failed == End("failed") /\ own' = Noting(None) /\ UNCHANGED bounds

Refuse == End("refused") /\ own' = Noting(None) /\ UNCHANGED bounds

Fault ==
    /\ faults < MaxFaults /\ faults' = faults + 1 /\ faultless' = FALSE
    /\ UNCHANGED <<calls, outside, quiet>>

\* A session drops, a read is malformed or RESTCONF does not answer one.
ReadFails ==
    /\ pc # "idle" /\ Fault /\ End("failed") /\ own' = Noting(None)

Goal == IF call.op = "apply" THEN call.rules ELSE Absent

\* Success saves the whole running configuration (Device).
Save ==
    /\ pc = "save"
    /\ \/ /\ End("done") /\ UNCHANGED bounds
          /\ own' = IF call.op = "bind" \/ own[Id] = None THEN own ELSE Noting(Goal)
       \/ Fault /\ End("failed") /\ own' = Noting(None)

Put(a, rules) ==
    /\ native' = [native EXCEPT ![a] = rules] /\ db' = [db EXCEPT ![a] = Seqs(rules)]
    /\ UNCHANGED <<standard, bound, keys>>

\* A faulty write may store other rules, or damage another access list too.
Garble(wanted) ==
    /\ call.op # "bind" /\ writeFailed' = FALSE
    /\ \E a \in Names, rules \in RuleSets :
          LET stored == [native EXCEPT ![Id] = wanted, ![a] = rules]
          IN  /\ native' = stored /\ db' = [b \in Names |-> IF b \in {Id, a} THEN Seqs(stored[b]) ELSE db[b]]
              /\ own' = [own EXCEPT ![Id] = None, ![a] = None]
    /\ UNCHANGED <<standard, bound, keys>>

\* A request takes effect and is answered, or a fault loses the request or the
\* answer, or answers well what was not done.
Write(effect, refused, wanted, next) ==
    /\ \/ effect /\ writeFailed' = refused /\ own' = Noting(None) /\ UNCHANGED bounds
       \/ /\ Fault
          /\ \/ effect /\ writeFailed' = TRUE /\ own' = Noting(None)
             \/ UNCHANGED <<switch, own>> /\ writeFailed' \in BOOLEAN
             \/ Garble(wanted)
    /\ expected' = wanted /\ after' = next /\ pc' = "verify"
    /\ UNCHANGED <<call, current, unowned, before, result>>

\* What the configuration holds beside the access list, or beside the binding.
Neighbors == IF call.op = "bind" THEN native ELSE <<[a \in Names \ {Id} |-> native[a]], bound>>
Readback == IF call.op = "bind" THEN [acl |-> bound, keys |-> keys] ELSE native[Id]
\* Faults the properties must detect.
AnyRules ==
    CASE call.op = "bind" -> bound = expected.acl /\ expected.gone \notin keys
      [] call.op = "apply" -> native[Id] # Absent
      [] OTHER -> native[Id] = Absent
Unchecked == TRUE
Unreferenced == FALSE
UnbindFirst == current.acl # None
SettleUnpruned ==
    /\ pc = "again" /\ todo' = {} /\ pc' = "prune again"
    /\ UNCHANGED <<switch, call, current, unowned, expected, after, writeFailed,
                   before, own, result, bounds>>

Converged ==
    IF call.op = "bind" THEN bound = expected.acl /\ expected.gone \notin keys
    ELSE native[Id] = expected

Undisturbed == Neighbors = unowned

\* Every write is read back before the next one.
Verify ==
    /\ pc = "verify"
    /\ IF Undisturbed /\ Converged /\ ~writeFailed
       THEN /\ pc' = after /\ current' = Readback
            /\ own' = Noting(native[Id])
            /\ UNCHANGED <<switch, call, unowned, expected, after, todo, writeFailed,
                           before, result, bounds>>
       ELSE Failed

-----------------------------------------------------------------------------
(* What the switch does with a request (docs/guides/acls.md).              *)

\* Against a stale database a mutation may rewrite any rule.
Exactly(a, rules) ==
    IF Synced(a) THEN Put(a, rules) ELSE \E any \in RuleSets : Put(a, any)

RulesOf(a) == IF native[a] = Absent THEN Empty ELSE native[a]
Merged(a, rules) ==
    [s \in DOMAIN rules \union DOMAIN RulesOf(a) |->
        IF s \in DOMAIN rules THEN rules[s] ELSE native[a][s]]

\* A filter must go before it changes, and the same filter cannot stand twice.
Collides(a, rules) ==
    DOMAIN rules \intersect DOMAIN RulesOf(a) # {} \/ Merged(a, rules) \notin RuleSets

Patch(a, rules) ==
    IF Synced(a) /\ Collides(a, rules) THEN UNCHANGED switch ELSE Exactly(a, Merged(a, rules))

DeleteEntry(a, s) ==
    IF Synced(a) /\ s \notin DOMAIN RulesOf(a) THEN UNCHANGED switch
    ELSE Exactly(a, Restrict(RulesOf(a), DOMAIN RulesOf(a) \ {s}))

\* 404 when RESTCONF does not have the list, and when it refuses a bound one.
DeleteSet(a) ==
    \/ db[a] # Absent /\ Put(a, Absent)
    \/ (db[a] = Absent \/ bound = a) /\ UNCHANGED switch

\* Binding keeps the RESTCONF key of the access list it replaces.
PatchBinding(a) ==
    bound' = a /\ keys' = keys \union {a} /\ UNCHANGED <<standard, native, db>>

DeleteBinding(a) ==
    /\ keys' = keys \ {a}
    /\ \/ bound' = IF bound = a THEN None ELSE bound
       \/ a \notin keys /\ UNCHANGED bound
    /\ UNCHANGED <<standard, native, db>>

-----------------------------------------------------------------------------
(* applyIP and applyStandard.                                              *)

Desired == call.rules

\* Sequences to delete: gone, or with another rule.
Changed == {s \in DOMAIN current : s \notin DOMAIN Desired \/ Desired[s] # current[s]}
Additional == Restrict(Desired, {s \in DOMAIN Desired : s \notin DOMAIN current \/ Desired[s] # current[s]})

Read ==
    /\ pc = "read" /\ current' = native[Id] /\ unowned' = Neighbors /\ before' = native[Id]
    /\ pc' = (IF call.op = "delete" THEN "find" ELSE "compare") /\ own' = Noting(native[Id])
    /\ UNCHANGED <<switch, call, expected, after, todo, writeFailed, result, bounds>>

Compare ==
    /\ pc = "compare"
    /\ IF current = Desired THEN Goto("save") ELSE Goto("sequences")

\* checkIPSequences; a standard access list has no such check.
SequencesAgree == standard \/ db[Id] = Seqs(current)

CheckSequences ==
    /\ pc = "sequences"
    /\ IF SequencesAgree
       THEN Goto(IF call.op = "delete" THEN "drop" ELSE IF current = Absent THEN "create" ELSE "remove")
       ELSE Refuse

\* An empty access list is made from one rule that denies everything.
Initial == IF Desired = Empty THEN Seed ELSE Desired

Create ==
    pc = "create" /\ Write(Patch(Id, Initial), Collides(Id, Initial), Initial, "remove") /\ UNCHANGED todo

\* Removals come before additions.
Remove ==
    /\ pc = "remove"
    /\ \/ Changed = {} /\ Goto("add")
       \/ \E s \in Changed :
            /\ \A t \in Changed : s <= t
            /\ Write(DeleteEntry(Id, s), FALSE, Restrict(current, DOMAIN current \ {s}), "remove")
            /\ UNCHANGED todo

Add ==
    /\ pc = "add"
    /\ IF Additional = Empty THEN Goto("save")
       ELSE /\ Write(Patch(Id, Additional), Collides(Id, Additional), Desired, "save")
            /\ UNCHANGED todo

Apply == Compare \/ Create \/ Remove \/ Add

-----------------------------------------------------------------------------
(* deleteIP and deleteStandard.                                            *)

\* referencesACL looks in what was read with the access list.
Referenced == unowned[2] = Id

Find ==
    /\ pc = "find"
    /\ IF current = Absent THEN Goto("save")
       ELSE IF Referenced THEN Refuse ELSE Goto("sequences")

Drop == pc = "drop" /\ Write(DeleteSet(Id), FALSE, Absent, "save") /\ UNCHANGED todo

-----------------------------------------------------------------------------
(* applyAccessGroup.                                                       *)

HasParent == Id = None \/ native[Id] # Absent

View ==
    /\ pc = "view"
    /\ IF HasParent
       THEN /\ current' = [acl |-> bound, keys |-> keys] /\ unowned' = native
            /\ pc' = "prune" /\ todo' = keys
            /\ UNCHANGED <<switch, call, expected, after, writeFailed, before, own, result, bounds>>
       ELSE Refuse

\* Every key but that of the active binding goes, before the replacement and
\* after it.
Prune(phase, next) ==
    /\ pc = phase
    /\ \/ todo = {} /\ Goto(next)
       \/ \E a \in todo :
            /\ todo' = todo \ {a}
            /\ IF a = current.acl
               THEN pc' = phase /\ UNCHANGED <<switch, call, current, unowned, expected,
                                               after, writeFailed, before, own, result, bounds>>
               ELSE Write(DeleteBinding(a), FALSE, [acl |-> current.acl, gone |-> a], phase)

Unbinds == current.acl # None /\ Id = None

Unbind ==
    /\ pc = "unbind"
    /\ IF Unbinds
       THEN Write(DeleteBinding(current.acl), FALSE, [acl |-> None, gone |-> current.acl], "bind") /\ UNCHANGED todo
       ELSE Goto("bind")

Bind ==
    /\ pc = "bind"
    /\ IF Id # None /\ current # [acl |-> Id, keys |-> {Id}]
       THEN Write(PatchBinding(Id), FALSE, [acl |-> Id, gone |-> None], "again") /\ UNCHANGED todo
       ELSE Goto("again")

Again ==
    /\ pc = "again" /\ todo' = current.keys /\ pc' = "prune again"
    /\ UNCHANGED <<switch, call, current, unowned, expected, after, writeFailed,
                   before, own, result, bounds>>

Settled == current = [acl |-> Id, keys |-> {Id} \ {None}]

Settle ==
    /\ pc = "settle"
    /\ IF Settled THEN Goto("save") ELSE Failed

AccessGroup ==
    View \/ Prune("prune", "unbind") \/ Unbind \/ Bind \/ Again \/ Prune("prune again", "settle")
         \/ Settle

-----------------------------------------------------------------------------
(* The surroundings.                                                       *)

\* restconf config-sync, by hand or by the switch itself.
DatabaseSyncs ==
    /\ \E a \in Names : ~Synced(a) /\ db' = [db EXCEPT ![a] = Seqs(native[a])]
    /\ UNCHANGED <<standard, native, bound, keys, call, pc, local, own, result, bounds>>

\* Another administrator at the CLI, past the database.
Outside ==
    /\ outside < MaxOutside /\ outside' = outside + 1 /\ quiet' = FALSE
    /\ \/ \E a \in Names, rules \in Wanted \union {Absent} :
            /\ bound = a => rules # Absent
            /\ native' = [native EXCEPT ![a] = rules] /\ own' = [own EXCEPT ![a] = None]
            /\ UNCHANGED bound
       \/ \E a \in Names \union {None} :
            /\ a # None => native[a] # Absent
            /\ bound' = a /\ UNCHANGED <<native, own>>
    /\ UNCHANGED <<standard, db, keys, call, pc, local, result, calls, faults, faultless>>

Done == pc = "idle" /\ calls = MaxCalls /\ UNCHANGED vars

Step == Read \/ Apply \/ CheckSequences \/ Find \/ Drop \/ AccessGroup \/ Verify \/ Save

Next ==
    \/ \E c \in Calls : Begin(c)
    \/ Step \/ ReadFails \/ DatabaseSyncs \/ Outside \/ Done

Spec == Init /\ [][Next]_vars

-----------------------------------------------------------------------------
(* Properties.                                                             *)

\* Every variable has its type; no access list holds a rule twice.
TypeOK ==
    /\ native \in [Names -> RuleSets \union {Absent}] /\ bound \in Names \union {None}
    /\ db \in [Names -> {Absent} \union SUBSET Sequences] /\ keys \subseteq Names
    /\ call \in Calls \union {NoCall} /\ (call = NoCall <=> pc = "idle")
    /\ standard \in BOOLEAN /\ todo \subseteq Names /\ writeFailed \in BOOLEAN
    /\ before \in RuleSets \union {Absent} /\ own \in [Names -> RuleSets \union {Absent, None}]
    /\ result \in {"none", "done", "refused", "failed"}

\* An access list is exactly what the last successful call said, rule by rule,
\* whatever the database held, until another call or administrator changes it
\* (applyIP, applyStandard, deleteIP, deleteStandard).
ReportedStands == \A a \in Names : own[a] # None => native[a] = own[a]

\* While nobody else works on the switch, a rule that stood before an update
\* and is wanted after it filters packets throughout (checkIPSequences).
UntouchedRulesStay ==
    ~standard /\ call.op = "apply" /\ pc # "read" /\ quiet /\ faultless /\ before # Absent =>
        \A s \in DOMAIN before \intersect DOMAIN Desired :
            before[s] = Desired[s] => s \in DOMAIN RulesOf(Id) /\ native[Id][s] = before[s]

\* Without faults and outside changes, a call its guards let through succeeds:
\* no write of it collides with rules it has yet to remove, no key it has left
\* makes the views differ (removal before addition, prune).
QuietCallSucceeds == result = "failed" => ~quiet \/ ~faultless

\* No call, or sequence of calls, leaves the interface with a binding to an
\* access list that is gone (referencesACL, checkParents).
NoDanglingBinding == outside = 0 /\ bound # None => native[bound] # Absent

StaysBound == call.op = "bind" /\ Id # None /\ bound # None /\ quiet' => bound' # None

\* Replacing a binding never leaves the interface without one (prune).
NeverUnbound == [][StaysBound]_vars
=============================================================================
