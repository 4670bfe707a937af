-------------------------------- MODULE MacAcl --------------------------------
(* fastiron_mac_access_list (internal/features/acl/mac_write.go): an ordered   *)
(* rule list whose RESTCONF entry IDs change when the switch reboots.          *)
EXTENDS MacTargets, SequencesExt

CONSTANTS
    Rules,
    Deny,           \* the rule that denies everything
    Absent,         \* no access list
    MaxRules, MaxCalls, MaxFaults, MaxOutside       \* bounds

ASSUME MacAclAssumption ==
    /\ Deny \in Rules /\ MaxRules \in Nat /\ MaxRules <= MaxId
    /\ MaxCalls \in Nat /\ MaxFaults \in Nat /\ MaxOutside \in Nat
    /\ \A S \in SUBSET (1..MaxId) : Absent \notin [S -> Rules]

\* Ordered rules without a duplicate (validateMAC).
Lists == {rules \in SeqOf(Rules, MaxId) : IsInjective(rules)}
Wanted == {rules \in Lists : Len(rules) <= MaxRules}
NoEntries == [id \in {} |-> Deny]

VARIABLES
    native,         \* rules of the running configuration in order, or Absent
    db,             \* RESTCONF entries, ID -> rule, or Absent
    bound,          \* whether an interface refers to the access list
    call, pc, current, unowned,
    entries,        \* the entries a call last knew
    target,         \* the entries it works towards
    expected,       \* the entries its request is to leave
    writeFailed,
    began,          \* the entries a call first knew
    own,            \* what a call said, or last read, of rules nobody changed since
    result, calls, faults, outside, quiet, faultless

switch == <<native, db, bound>>
local == <<current, unowned, entries, target, expected, writeFailed, began>>
bounds == <<calls, faults, outside, quiet, faultless>>
vars == <<switch, call, pc, local, own, result, bounds>>

Calls == [op : {"apply"}, rules : Wanted] \union {[op |-> "delete"]}
NoCall == [op |-> "none"]

\* The IDs of entries, ascending, and their rules in that order.
Ids(e) == CHOOSE ids \in [1..Cardinality(DOMAIN e) -> DOMAIN e] : Ascending(ids)
ListOf(e) == LET ids == Ids(e) IN [i \in 1..Len(ids) |-> e[ids[i]]]
Synced == IF db = Absent THEN native = Absent ELSE native # Absent /\ ListOf(db) = native

\* rules under ids.
Numbered(ids, rules) ==
    [id \in {ids[i] : i \in 1..Len(rules)} |->
        rules[CHOOSE i \in 1..Len(rules) : ids[i] = id]]

\* Any ascending numbering of rules.
Numberings(rules) ==
    {Numbered(ids, rules) : ids \in {i \in [1..Len(rules) -> 1..MaxId] : Ascending(i)}}

Init ==
    /\ native \in Wanted \union {Absent} /\ bound = FALSE
    /\ db \in IF native = Absent THEN {Absent} ELSE Numberings(native)
    /\ call = NoCall /\ pc = "idle" /\ current = Absent /\ unowned = FALSE
    /\ entries = NoEntries /\ target = NoEntries /\ expected = NoEntries /\ writeFailed = FALSE
    /\ began = NoEntries /\ own = "none" /\ result = "none"
    /\ calls = 0 /\ faults = 0 /\ outside = 0 /\ quiet = TRUE /\ faultless = TRUE

-----------------------------------------------------------------------------
(* Calls.                                                                  *)

Begin(c) ==
    /\ pc = "idle" /\ calls < MaxCalls /\ calls' = calls + 1
    /\ call' = c /\ pc' = "read" /\ current' = Absent /\ unowned' = FALSE
    /\ entries' = NoEntries /\ target' = NoEntries /\ expected' = NoEntries
    /\ began' = NoEntries /\ writeFailed' = FALSE /\ own' = "none" /\ result' = "none"
    /\ quiet' = TRUE /\ faultless' = TRUE
    /\ UNCHANGED <<switch, faults, outside>>

Return(how, note) ==
    /\ pc' = "idle" /\ call' = NoCall /\ result' = how /\ own' = note
    /\ UNCHANGED switch

Goal == IF call.op = "apply" THEN call.rules ELSE Absent
Succeed == Return("done", IF own = "none" THEN own ELSE <<Goal>>) /\ UNCHANGED <<local, bounds>>
Failed == Return("failed", "none") /\ UNCHANGED <<local, bounds>>
Refuse == Return("refused", "none") /\ UNCHANGED <<local, bounds>>

Fault ==
    /\ faults < MaxFaults /\ faults' = faults + 1 /\ faultless' = FALSE
    /\ UNCHANGED <<calls, outside, quiet>>

ReadFails == pc # "idle" /\ Fault /\ Return("failed", "none") /\ UNCHANGED local

Goto(next) == pc' = next /\ UNCHANGED <<switch, call, local, own, result, bounds>>

-----------------------------------------------------------------------------
(* The switch.  Entries in the order of their IDs are the native rules.    *)

Put(e) ==
    /\ db' = e /\ native' = (IF e = Absent THEN Absent ELSE ListOf(e)) /\ UNCHANGED bound

\* A mutation against a stale database can leave anything.
Exactly(e) ==
    IF Synced THEN Put(e)
    ELSE \E rules \in Wanted \union {Absent} :
            /\ native' = rules /\ UNCHANGED bound
            /\ db' \in IF rules = Absent THEN {Absent} ELSE Numberings(rules)

Entries == IF db = Absent THEN NoEntries ELSE db

\* An ID is taken, or the rule stands already.
Collides(added) ==
    \E id \in DOMAIN added, other \in DOMAIN Entries :
        id = other \/ added[id] = Entries[other]

With(added) ==
    [id \in DOMAIN added \union DOMAIN Entries |->
        IF id \in DOMAIN added THEN added[id] ELSE Entries[id]]

Patch(added) == IF Collides(added) THEN UNCHANGED switch ELSE Exactly(With(added))

DeleteEntry(id) ==
    IF id \notin DOMAIN Entries THEN UNCHANGED switch
    ELSE Exactly(Restrict(Entries, DOMAIN Entries \ {id}))

\* 404 is the answer for what RESTCONF lacks and for what it refuses.
DeleteSet ==
    \/ db # Absent /\ Put(Absent)
    \/ (db = Absent \/ bound) /\ UNCHANGED switch

\* The answer reports a refusal; a fault loses request or answer.
Request(effect, refused) ==
    /\ pc' = "verify" /\ own' = "none"
    /\ \/ effect /\ writeFailed' = refused /\ UNCHANGED bounds
       \/ Fault /\ effect /\ writeFailed' = TRUE
       \/ Fault /\ UNCHANGED switch /\ writeFailed' \in BOOLEAN
    /\ UNCHANGED <<call, current, unowned, entries, target, expected, began, result>>

-----------------------------------------------------------------------------
(* applyMAC and deleteMAC.                                                 *)

\* Faults the properties must detect.
AnyRules == call.op = "apply" => native # Absent
AllEntries == DOMAIN entries
OnlyGone == {id \in DOMAIN entries : id \notin DOMAIN target}

\* macEntries: what RESTCONF lists is what the configuration was read to be.
Agrees == IF db = Absent THEN current = Absent ELSE current # Absent /\ ListOf(db) = current

\* Another native line refers to the access list.
Referenced == bound

Read ==
    /\ pc = "read" /\ current' = native /\ unowned' = bound /\ own' = <<native>>
    /\ pc' = IF native = Goal THEN "save"
             ELSE IF call.op = "delete" /\ Referenced THEN "refuse" ELSE "entries"
    /\ UNCHANGED <<switch, call, entries, target, expected, writeFailed, began, result, bounds>>

RefuseBound == pc = "refuse" /\ Refuse

\* The IDs reconciliation is to use.
Target == Numbered(Targets(Ids(Entries), Len(call.rules)), call.rules)

ReadEntries ==
    /\ pc = "entries"
    /\ IF ~Agrees THEN Refuse
       ELSE /\ entries' = Entries /\ began' = Entries
            /\ target' = (IF call.op = "apply" THEN Target ELSE NoEntries)
            /\ pc' = (IF call.op = "delete" THEN "drop" ELSE "next")
            /\ UNCHANGED <<switch, call, current, unowned, expected, writeFailed, own, result, bounds>>

\* Entries that go, and those that come.
Changed == {id \in DOMAIN entries : id \notin DOMAIN target \/ target[id] # entries[id]}
Added == Restrict(target, {id \in DOMAIN target : id \notin DOMAIN entries \/ target[id] # entries[id]})

\* An empty list is made from one rule that denies everything.
Initial == IF target = NoEntries THEN [id \in {1} |-> Deny] ELSE target

\* Creation first, then removals from the last entry on, then additions.
Result ==
    IF current = Absent THEN Initial
    ELSE IF Changed # {} THEN Restrict(entries, DOMAIN entries \ {Max(Changed)})
    ELSE target

\* IDs are used only while they still identify the rules observed.
Known == Agrees /\ Entries = entries

CheckIds ==
    /\ pc = "next"
    /\ IF current # Absent /\ Changed = {} /\ DOMAIN Added = {} THEN Goto("save")
       ELSE IF ~Known THEN Failed
       ELSE /\ expected' = Result /\ pc' = "write"
            /\ UNCHANGED <<switch, call, current, unowned, entries, target, writeFailed, began,
                           own, result, bounds>>

Write ==
    /\ pc = "write"
    /\ IF current = Absent THEN Request(Patch(Initial), Collides(Initial))
       ELSE IF Changed # {} THEN Request(DeleteEntry(Max(Changed)), FALSE)
       ELSE Request(Patch(Added), Collides(Added))

Drop == pc = "drop" /\ Request(DeleteSet, FALSE)

Converged ==
    IF call.op = "delete" THEN native = Absent ELSE native # Absent /\ native = ListOf(expected)

Verify ==
    /\ pc = "verify"
    /\ IF bound = unowned /\ Converged /\ ~writeFailed
       THEN /\ current' = native /\ own' = <<native>>
            /\ entries' = expected /\ pc' = (IF call.op = "delete" THEN "save" ELSE "next")
            /\ UNCHANGED <<switch, call, unowned, target, expected, writeFailed, began, result, bounds>>
       ELSE Failed

Save == pc = "save" /\ Succeed

Step == Read \/ RefuseBound \/ ReadEntries \/ CheckIds \/ Write \/ Drop \/ Verify \/ Save

-----------------------------------------------------------------------------
(* The surroundings.                                                       *)

DatabaseSyncs ==
    /\ ~Synced
    /\ db' \in IF native = Absent THEN {Absent} ELSE Numberings(native)
    /\ UNCHANGED <<native, bound, call, pc, local, own, result, bounds>>

Disturb == outside < MaxOutside /\ outside' = outside + 1 /\ quiet' = FALSE

\* A reboot numbers the entries anew.
Renumber ==
    /\ Disturb /\ db # Absent /\ db' \in Numberings(ListOf(db))
    /\ UNCHANGED <<native, bound, call, pc, local, own, result, calls, faults, faultless>>

\* Another administrator at the CLI.
Outside ==
    /\ Disturb
    /\ \/ \E rules \in Wanted \union {Absent} :
            (bound => rules # Absent) /\ native' = rules /\ own' = "none" /\ UNCHANGED bound
       \/ native # Absent /\ bound' = ~bound /\ UNCHANGED <<native, own>>
    /\ UNCHANGED <<db, call, pc, local, result, calls, faults, faultless>>

Done == pc = "idle" /\ calls = MaxCalls /\ UNCHANGED vars

Next ==
    \/ \E c \in Calls : Begin(c)
    \/ Step \/ ReadFails \/ DatabaseSyncs \/ Renumber \/ Outside \/ Done

Spec == Init /\ [][Next]_vars

-----------------------------------------------------------------------------
(* Properties.                                                             *)

\* Every variable has its type; the database numbers entries within the IDs.
TypeOK ==
    /\ native \in {Absent} \union Lists /\ bound \in BOOLEAN
    /\ db # Absent => DOMAIN db \subseteq 1..MaxId
    /\ call \in {NoCall} \union Calls /\ (call = NoCall <=> pc = "idle")
    /\ \A e \in {entries, target, expected, began} : DOMAIN e \subseteq 1..MaxId
    /\ writeFailed \in BOOLEAN /\ result \in {"none", "done", "refused", "failed"}

\* The rules are, in order, those the last successful call said, whatever IDs
\* the switch gave them meanwhile (applyMAC, deleteMAC).
ReportedStands == own # "none" => own = <<native>>

\* While nothing else happens on the switch, an entry that is to stay, at the
\* ID it has, stands throughout the update (macTargets, write).
RetainedStay ==
    call.op = "apply" /\ pc \notin {"read", "entries"} /\ quiet /\ faultless =>
        \A id \in DOMAIN began \intersect DOMAIN target :
            began[id] = target[id] => id \in DOMAIN Entries /\ Entries[id] = began[id]

\* Without faults and outside events a call that is let through succeeds: no
\* target ID collides with an entry still there (macTargets, removal first).
QuietCallSucceeds == result = "failed" => ~quiet \/ ~faultless
=============================================================================
