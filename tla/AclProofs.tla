-------------------------------- MODULE AclProofs --------------------------------
(* What a call reports of an access list stands, nothing is bound to a list   *)
(* that is gone, and an undisturbed call succeeds and drops no rule it keeps: *)
(* for any lists, sequences, rules and any number of calls, faults and edits. *)
EXTENDS Acl, TLAPS

-----------------------------------------------------------------------------
(* The inductive invariant.                                                *)

MaybeRules == RuleSets \union {Absent}
Bindings == Names \union {None}

ApplyCall == [op : {"apply"}, name : Names, rules : Wanted]
DeleteCall == [op : {"delete"}, name : Names]
BindCall == [op : {"bind"}, name : Bindings]

\* The program counters of each kind of call, but for the readback they share.
ApplyPcs == {"read", "compare", "sequences", "create", "remove", "add", "save"}
DeletePcs == {"read", "find", "sequences", "drop", "save"}
BindPcs == {"view", "prune", "unbind", "bind", "again", "prune again", "settle", "save"}

SwitchInv ==
    /\ native \in [Names -> MaybeRules] /\ bound \in Bindings
    /\ db \in [Names -> {Absent} \union SUBSET Sequences] /\ keys \subseteq Names
    /\ own \in [Names -> MaybeRules \union {None}] /\ todo \subseteq Names

BoundInv ==
    /\ standard \in BOOLEAN /\ quiet \in BOOLEAN /\ faultless \in BOOLEAN /\ writeFailed \in BOOLEAN
    /\ outside \in Nat

\* A call is where its kind may be, and knows what it read.
ApplyInv ==
    /\ call \in ApplyCall
    /\ \/ pc \in ApplyPcs
       \/ pc = "verify" /\ after = "remove" /\ expected \in RuleSets
       \/ pc = "verify" /\ after = "save" /\ expected = Desired
    /\ pc # "read" => current \in MaybeRules /\ before \in MaybeRules
    /\ pc \in {"compare", "sequences", "create"} => before = current
    /\ pc = "create" => current = Absent
    /\ pc \in {"remove", "add"} => current \in RuleSets
    /\ pc = "add" => Changed = {}
    /\ pc = "save" => current = Desired

DeleteInv ==
    /\ call \in DeleteCall
    /\ pc \in DeletePcs \/ (pc = "verify" /\ after = "save" /\ expected = Absent)
    /\ pc # "read" => current \in MaybeRules /\ before \in MaybeRules
    /\ pc \in {"sequences", "drop"} => current \in RuleSets
    /\ pc \in {"sequences", "drop", "verify"} => ~Referenced
    /\ pc = "save" => current = Absent

BindInv ==
    /\ call \in BindCall
    /\ \/ pc \in BindPcs
       \/ /\ pc = "verify" /\ after \in {"prune", "bind", "again", "prune again"}
          /\ expected \in [acl : Bindings, gone : Bindings]
    /\ pc # "view" => current \in [acl : Bindings, keys : SUBSET Names]

CallInv == (pc = "idle" /\ call = NoCall /\ before = Absent) \/ ApplyInv \/ DeleteInv \/ BindInv

Reconciles == call.op \in {"apply", "delete"}
Binds == call.op = "bind"

\* What a call noted of its access list is what it knows.
NotedInv == Reconciles /\ pc \notin {"read", "verify"} => own[Id] \in {None, current}

\* While nobody else acts, what the call checked of the binding still holds.
ParentInv ==
    outside = 0 =>
        /\ Reconciles /\ pc # "read" => unowned[2] = bound
        /\ Binds /\ pc # "view" /\ Id # None => native[Id] # Absent

\* The active binding is the one the call saw.
ActiveInv == quiet /\ Binds /\ pc \notin {"view", "verify"} => current.acl = bound

\* A call nothing disturbs knows its access list, and so does RESTCONF.
ReconcileInv ==
    quiet /\ faultless /\ Reconciles =>
        /\ standard \/ pc \in {"create", "remove", "add", "drop", "verify"} => Synced(Id)
        /\ pc # "read" => Undisturbed
        /\ pc \notin {"read", "verify"} => native[Id] = current
        /\ pc = "verify" => native[Id] = expected /\ ~writeFailed

\* Where a call is, or goes on once its write is verified.
At == IF pc = "verify" THEN after ELSE pc

\* The keys a call has yet to look at, and the active one, are all there are.
Unseen == IF At \in {"prune", "prune again"} THEN todo ELSE {}

BindingInv ==
    quiet /\ faultless /\ Binds =>
        /\ bound \in keys \union {None}
        /\ pc # "view" => native = unowned
        /\ pc \notin {"view", "verify"} => current = [acl |-> bound, keys |-> keys]
        /\ pc = "verify" => bound = expected.acl /\ expected.gone \notin keys /\ ~writeFailed
        /\ At \in {"prune", "unbind", "bind", "prune again", "settle"} => keys \subseteq Unseen \union {bound}
        /\ At = "bind" /\ Id = None => bound = None
        /\ At \in {"again", "prune again", "settle"} => bound = Id

IInv ==
    /\ SwitchInv /\ BoundInv /\ CallInv /\ NotedInv /\ ParentInv /\ ActiveInv
    /\ ReconcileInv /\ BindingInv
    /\ ReportedStands /\ NoDanglingBinding /\ QuietCallSucceeds /\ UntouchedRulesStay

-----------------------------------------------------------------------------
(* Rule sets.                                                              *)

LEMMA RuleSetIs ==
    \A f : f \in RuleSets <=> /\ DOMAIN f \subseteq Sequences /\ IsInjective(f)
                              /\ f \in [DOMAIN f -> Rules]
<1>1. ASSUME NEW f \in RuleSets
      PROVE  DOMAIN f \subseteq Sequences /\ IsInjective(f) /\ f \in [DOMAIN f -> Rules]
  <2>1. PICK D \in SUBSET Sequences : f \in [D -> Rules] /\ IsInjective(f)
    BY DEF RuleSets
  <2> QED BY <2>1
<1>2. ASSUME NEW f, DOMAIN f \subseteq Sequences, IsInjective(f), f \in [DOMAIN f -> Rules]
      PROVE  f \in RuleSets
  BY <1>2 DEF RuleSets
<1> QED BY <1>1, <1>2

\* Two rule sets with the same rules are the same.
LEMMA SameRules ==
    ASSUME NEW f \in RuleSets, NEW g \in RuleSets, DOMAIN f = DOMAIN g,
           \A s \in DOMAIN f : f[s] = g[s]
    PROVE  f = g
BY RuleSetIs

LEMMA Presence == Absent \notin RuleSets /\ Absent \notin SUBSET Sequences /\ \A f \in RuleSets : Seqs(f) = DOMAIN f
BY AclAssumption DEF Seqs

LEMMA EmptyRules == Empty \in RuleSets /\ Seed \in RuleSets /\ DOMAIN Empty = {}
<1>1. DOMAIN Empty = {} /\ DOMAIN Seed = {1} /\ Seed[1] = Deny
  BY DEF Empty, Seed
<1>2. Empty \in [DOMAIN Empty -> Rules] /\ Seed \in [DOMAIN Seed -> Rules]
  BY AclAssumption DEF Empty, Seed
<1>3. IsInjective(Empty) /\ IsInjective(Seed)
  BY <1>1 DEF IsInjective
<1> QED BY <1>1, <1>2, <1>3, RuleSetIs, AclAssumption

\* Some of the rules of a rule set are a rule set.
LEMMA SomeRules ==
    ASSUME NEW f \in RuleSets, NEW D \in SUBSET DOMAIN f
    PROVE  /\ Restrict(f, D) \in RuleSets /\ DOMAIN Restrict(f, D) = D
           /\ \A s \in D : Restrict(f, D)[s] = f[s]
<1>1. DOMAIN Restrict(f, D) = D /\ \A s \in D : Restrict(f, D)[s] = f[s]
  BY DEF Restrict
<1>2. /\ DOMAIN f \subseteq Sequences /\ \A s \in DOMAIN f : f[s] \in Rules
      /\ \A s, t \in DOMAIN f : f[s] = f[t] => s = t
  BY RuleSetIs DEF IsInjective
<1>3. IsInjective(Restrict(f, D))
  BY <1>1, <1>2 DEF IsInjective
<1>4. Restrict(f, D) \in [D -> Rules]
  BY <1>2 DEF Restrict
<1> QED BY <1>1, <1>2, <1>3, <1>4, RuleSetIs

\* What a configuration asks for is a rule set.
LEMMA WantedRules == Wanted \subseteq RuleSets
BY AclAssumption

\* A known list of rules, as a function.
LEMMA RulesAre ==
    ASSUME SwitchInv, NEW a \in Names
    PROVE  /\ native[a] \in MaybeRules /\ RulesOf(a) \in RuleSets
           /\ native[a] # Absent => RulesOf(a) = native[a] /\ native[a] \in RuleSets
           /\ native[a] = Absent => DOMAIN RulesOf(a) = {}
BY EmptyRules DEF SwitchInv, MaybeRules, RulesOf

LEMMA InitIInv == Init => IInv
<1> SUFFICES ASSUME Init PROVE IInv
  OBVIOUS
<1>0. /\ native \in [Names -> MaybeRules] /\ Wanted \subseteq RuleSets
  BY WantedRules DEF Init, MaybeRules
<1>1. SwitchInv
  <2>1. db \in [Names -> {Absent} \union SUBSET Sequences]
    <3>1. \A a \in Names : Seqs(native[a]) \in {Absent} \union SUBSET Sequences
      BY <1>0, RuleSetIs DEF Seqs, MaybeRules
    <3> QED BY <3>1 DEF Init
  <2> QED BY <1>0, <2>1 DEF Init, SwitchInv, Bindings
<1>2. BoundInv
  <2>1. standard \in BOOLEAN /\ quiet \in BOOLEAN /\ faultless \in BOOLEAN /\ writeFailed \in BOOLEAN
    BY Zenon DEF Init
  <2>2. outside \in Nat BY DEF Init
  <2> QED BY <2>1, <2>2, Zenon DEF BoundInv
<1>3. CallInv BY DEF Init, CallInv
<1>4. call.op = "none" BY DEF Init, NoCall
<1>5. NotedInv /\ ParentInv /\ ActiveInv /\ ReconcileInv /\ BindingInv
  BY <1>4 DEF NotedInv, ParentInv, ActiveInv, ReconcileInv, BindingInv, Reconciles, Binds
<1>6. ReportedStands /\ NoDanglingBinding
  BY DEF Init, ReportedStands, NoDanglingBinding
<1>7. QuietCallSucceeds /\ UntouchedRulesStay
  BY <1>4 DEF Init, QuietCallSucceeds, UntouchedRulesStay
<1> QED BY <1>1, <1>2, <1>3, <1>5, <1>6, <1>7 DEF IInv

-----------------------------------------------------------------------------
(* How a step keeps the invariant.                                         *)

\* The kinds of call.
LEMMA Kinds ==
    ASSUME CallInv, pc # "idle"
    PROVE  \/ /\ ApplyInv /\ Reconciles /\ ~Binds /\ call.op = "apply"
              /\ Id \in Names /\ Desired \in RuleSets /\ Goal = Desired
           \/ /\ DeleteInv /\ Reconciles /\ ~Binds /\ call.op = "delete" /\ Id \in Names /\ Goal = Absent
           \/ /\ BindInv /\ Binds /\ ~Reconciles /\ call.op = "bind" /\ Id \in Bindings
<1>1. CASE ApplyInv
  BY <1>1, WantedRules DEF ApplyInv, ApplyCall, Reconciles, Binds, Id, Desired, Goal
<1>2. CASE DeleteInv
  BY <1>2 DEF DeleteInv, DeleteCall, Reconciles, Binds, Id, Goal
<1>3. CASE BindInv
  BY <1>3 DEF BindInv, BindCall, Reconciles, Binds, Id
<1> QED BY <1>1, <1>2, <1>3 DEF CallInv

LEMMA NoneCalls == ASSUME CallInv, pc = "idle" PROVE call.op = "none"
<1>1. ~ApplyInv BY DEF ApplyInv, ApplyPcs
<1>2. ~DeleteInv BY DEF DeleteInv, DeletePcs
<1>3. ~BindInv BY DEF BindInv, BindPcs
<1> QED BY <1>1, <1>2, <1>3 DEF CallInv, NoCall

\* A report that is only withdrawn, of a switch that nobody changed, stands.
LEMMA Withdraws ==
    ASSUME SwitchInv, ReportedStands, native' = native, own' = Noting(None)
    PROVE  ReportedStands' /\ own' \in [Names -> MaybeRules \union {None}]
BY DEF SwitchInv, ReportedStands, Noting

\* A call that ends leaves the switch, and what stands of its reports.
LEMMA Ends ==
    ASSUME IInv, NEW how, End(how), ReportedStands', own' \in [Names -> MaybeRules \union {None}],
           UNCHANGED <<calls, outside, quiet>>, faultless' \in BOOLEAN,
           how = "failed" => ~quiet \/ ~faultless'
    PROVE  IInv'
<1>1. SwitchInv'
  BY DEF IInv, SwitchInv, End, switch
<1>2. BoundInv'
  <2>1. writeFailed' = FALSE /\ quiet' = quiet /\ outside' = outside /\ standard' = standard
    BY Zenon DEF End, switch
  <2>2. outside' \in Nat BY <2>1 DEF IInv, BoundInv
  <2> QED BY <2>1, <2>2, Zenon DEF IInv, BoundInv
<1>3. call'.op = "none" /\ CallInv'
  BY DEF End, NoCall, CallInv
<1>4. NotedInv' /\ ParentInv' /\ ActiveInv' /\ ReconcileInv' /\ BindingInv' /\ UntouchedRulesStay'
  BY <1>3 DEF NotedInv, ParentInv, ActiveInv, ReconcileInv, BindingInv, Reconciles, Binds, UntouchedRulesStay
<1>5. NoDanglingBinding'
  BY DEF IInv, NoDanglingBinding, End, switch
<1>6. QuietCallSucceeds'
  BY Zenon DEF QuietCallSucceeds, End
<1> QED BY <1>1, <1>2, <1>3, <1>4, <1>5, <1>6 DEF IInv

LEMMA Fails ==
    ASSUME IInv, Failed, ~quiet \/ ~faultless
    PROVE  IInv'
<1>1. End("failed") /\ own' = Noting(None) /\ UNCHANGED bounds /\ native' = native
  BY DEF Failed, End, switch
<1>2. UNCHANGED <<calls, outside, quiet>> /\ faultless' = faultless
  BY <1>1 DEF bounds
<1>3. faultless' \in BOOLEAN /\ (~quiet \/ ~faultless')
  BY <1>2, Zenon DEF IInv, BoundInv
<1>4. ReportedStands' /\ own' \in [Names -> MaybeRules \union {None}]
  BY <1>1, Withdraws DEF IInv
<1> QED BY <1>1, <1>2, <1>3, <1>4, Ends

LEMMA Refuses == ASSUME IInv, Refuse PROVE IInv'
<1>1. End("refused") /\ own' = Noting(None) /\ UNCHANGED bounds /\ native' = native
  BY DEF Refuse, End, switch
<1>2. UNCHANGED <<calls, outside, quiet>> /\ faultless' = faultless
  BY <1>1 DEF bounds
<1>3. faultless' \in BOOLEAN
  BY <1>2, Zenon DEF IInv, BoundInv
<1>4. ReportedStands' /\ own' \in [Names -> MaybeRules \union {None}]
  BY <1>1, Withdraws DEF IInv
<1> QED BY <1>1, <1>2, <1>3, <1>4, Ends

LEMMA Faults == ASSUME IInv, Fault, End("failed"), own' = Noting(None) PROVE IInv'
<1>1. UNCHANGED <<calls, outside, quiet>> /\ native' = native
  BY DEF Fault, End, switch
<1>2. faultless' = FALSE /\ faultless' \in BOOLEAN /\ ~faultless'
  BY Zenon DEF Fault
<1>3. ReportedStands' /\ own' \in [Names -> MaybeRules \union {None}]
  BY <1>1, Withdraws DEF IInv
<1> QED BY <1>1, <1>2, <1>3, Ends

\* What the properties and the guards need of a step within a call.
LEMMA Within ==
    ASSUME IInv, pc # "idle", call' = call, UNCHANGED <<calls, outside, quiet>>, faultless' \in BOOLEAN,
           writeFailed' \in BOOLEAN, standard' = standard, faultless' => faultless, result' = result,
           SwitchInv', CallInv', NotedInv', ParentInv', ActiveInv', ReconcileInv', BindingInv',
           ReportedStands', NoDanglingBinding', UntouchedRulesStay'
    PROVE  IInv'
<1>1. BoundInv'
  <2>1. quiet' \in BOOLEAN /\ standard' \in BOOLEAN BY Zenon DEF IInv, BoundInv
  <2>2. outside' \in Nat BY DEF IInv, BoundInv
  <2> QED BY <2>1, <2>2, Zenon DEF BoundInv
<1>2. result' = result /\ QuietCallSucceeds
  BY DEF IInv
<1>4. quiet' = quiet
  OBVIOUS
<1>3. QuietCallSucceeds'
  <2> SUFFICES ASSUME result' = "failed", quiet', faultless' PROVE FALSE
    BY Zenon DEF QuietCallSucceeds
  <2>1. result = "failed" BY <1>2
  <2>2. quiet BY <1>4
  <2>3. faultless BY Zenon
  <2> QED BY <1>2, <2>1, <2>2, <2>3, Zenon DEF QuietCallSucceeds
<1> QED BY <1>1, <1>3 DEF IInv

\* A step that writes nothing and notes nothing.
LEMMA Moves ==
    ASSUME IInv, pc # "idle", UNCHANGED <<switch, call, own, writeFailed, result, bounds>>, todo' \subseteq Names,
           CallInv', NotedInv', ActiveInv', ReconcileInv', BindingInv', ParentInv', UntouchedRulesStay'
    PROVE  IInv'
<1>1. UNCHANGED <<standard, native, bound, db, keys>>
  BY DEF switch
<1>2. UNCHANGED <<calls, outside, quiet>> /\ faultless' = faultless
  BY DEF bounds
<1>3. /\ faultless' \in BOOLEAN /\ writeFailed' \in BOOLEAN
      /\ faultless' => faultless
  BY <1>2, Zenon DEF IInv, BoundInv
<1>4. SwitchInv'
  BY <1>1 DEF IInv, SwitchInv
<1>5. ReportedStands' /\ NoDanglingBinding'
  BY <1>1, <1>2 DEF IInv, ReportedStands, NoDanglingBinding
<1> QED BY <1>1, <1>2, <1>3, <1>4, <1>5, Within

LEMMA BeginIInv == ASSUME IInv, NEW c \in Calls, Begin(c) PROVE IInv'
<1>1. /\ UNCHANGED switch /\ UNCHANGED local /\ outside' = outside /\ call' = c
      /\ pc' = (IF c.op = "bind" THEN "view" ELSE "read") /\ result' = "none" /\ pc = "idle"
  BY DEF Begin
<1>2. /\ own' = IF c.op = "bind" THEN own ELSE [own EXCEPT ![c.name] = None]
      /\ UNCHANGED <<standard, native, bound, db, keys>> /\ UNCHANGED <<todo, before>> /\ writeFailed' = writeFailed
  BY DEF Begin, switch, local
<1>3. /\ faultless' = TRUE
      /\ quiet' = (IF c.op = "bind" THEN bound \in keys \union {None} ELSE standard => Synced(c.name))
  BY Zenon DEF Begin
<1>4. BoundInv'
  <2>1. quiet' \in BOOLEAN
    <3>1. CASE c.op = "bind"
      <4>1. quiet' = (bound \in keys \union {None}) BY <1>3, <3>1, SMT
      <4> QED BY <4>1, SMT
    <3>2. CASE c.op # "bind" BY <1>3, <3>2, Zenon
    <3> QED BY <3>1, <3>2
  <2>2. faultless' \in BOOLEAN /\ writeFailed' \in BOOLEAN /\ standard' \in BOOLEAN
    BY <1>2, <1>3, Zenon DEF IInv, BoundInv
  <2>3. outside' \in Nat BY <1>1 DEF IInv, BoundInv
  <2> QED BY <2>1, <2>2, <2>3, Zenon DEF BoundInv
<1>5. SwitchInv' /\ ReportedStands' /\ NoDanglingBinding'
  BY <1>1, <1>2 DEF IInv, SwitchInv, ReportedStands, NoDanglingBinding
<1>6. QuietCallSucceeds'
  BY <1>1 DEF QuietCallSucceeds
<1>7. CASE c \in ApplyCall \union DeleteCall
  <2>1. /\ c.op \in {"apply", "delete"} /\ c.op # "bind" /\ c.name \in Names /\ pc' = "read"
        /\ c \in ApplyCall \/ (c \in DeleteCall /\ c.op # "apply")
    BY <1>1, <1>7 DEF ApplyCall, DeleteCall
  <2>2. ApplyInv' \/ DeleteInv'
    BY <1>1, <2>1 DEF ApplyInv, DeleteInv, ApplyPcs, DeletePcs
  <2>3. Reconciles' /\ ~Binds'
    BY <1>1, <2>1 DEF Reconciles, Binds
  <2>4. ReconcileInv'
    <3>1. quiet' /\ standard => Synced(c.name)
      BY <1>3, <2>1, Zenon
    <3>2. Id' = c.name /\ Synced(Id)' = Synced(c.name) /\ standard' = standard
      BY <1>1, <1>2 DEF Id, Synced
    <3>3. quiet' /\ standard' => Synced(Id)'
      BY <3>1, <3>2
    <3> QED BY <2>1, <3>3 DEF ReconcileInv
  <2>5. CallInv' /\ NotedInv' /\ ParentInv' /\ ActiveInv' /\ BindingInv' /\ UntouchedRulesStay'
    BY <2>1, <2>2, <2>3 DEF CallInv, NotedInv, ParentInv, ActiveInv, BindingInv, UntouchedRulesStay
  <2> QED BY <1>4, <1>5, <1>6, <2>4, <2>5 DEF IInv
<1>8. CASE c \in BindCall
  <2>1. c.op = "bind" /\ pc' = "view"
    BY <1>1, <1>8 DEF BindCall
  <2>2. BindInv' /\ ~Reconciles' /\ call'.op # "apply" /\ At' = "view"
    BY <1>1, <1>8, <2>1 DEF BindInv, BindPcs, Reconciles, At
  <2>3. BindingInv'
    <3>1. quiet' => bound \in keys \union {None}
      BY <1>3, <2>1, Zenon
    <3> QED BY <1>2, <2>1, <2>2, <3>1 DEF BindingInv
  <2>4. CallInv' /\ NotedInv' /\ ParentInv' /\ ActiveInv' /\ ReconcileInv' /\ UntouchedRulesStay'
    BY <2>1, <2>2 DEF CallInv, NotedInv, ParentInv, ActiveInv, ReconcileInv, UntouchedRulesStay
  <2> QED BY <1>4, <1>5, <1>6, <2>3, <2>4 DEF IInv
<1> QED BY <1>7, <1>8 DEF Calls, ApplyCall, DeleteCall, BindCall, Bindings

\* What a call of each kind notes or knows is of no matter to the others.
LEMMA RulesOnly ==
    ASSUME Reconciles'
    PROVE  ActiveInv' /\ BindingInv'
BY DEF ActiveInv, BindingInv, Reconciles, Binds

LEMMA BindingOnly ==
    ASSUME Binds'
    PROVE  NotedInv' /\ ReconcileInv' /\ UntouchedRulesStay'
BY DEF NotedInv, ReconcileInv, UntouchedRulesStay, Reconciles, Binds

LEMMA ReadIInv == ASSUME IInv, Read PROVE IInv'
<1>1. /\ pc = "read" /\ current' = native[Id] /\ unowned' = Neighbors /\ before' = native[Id]
      /\ pc' = (IF call.op = "delete" THEN "find" ELSE "compare") /\ own' = Noting(native[Id])
      /\ UNCHANGED switch /\ UNCHANGED <<call, expected, after, todo, result>> /\ writeFailed' = writeFailed
      /\ UNCHANGED bounds
  BY DEF Read
<1>2. /\ UNCHANGED <<standard, native, bound, db, keys>> /\ UNCHANGED <<calls, outside, quiet>>
      /\ faultless' = faultless
  BY <1>1 DEF switch, bounds
<1>3. Reconciles /\ Id \in Names /\ (ApplyInv \/ DeleteInv) /\ native[Id] \in MaybeRules
      /\ (ApplyInv <=> call.op = "apply") /\ (call.op # "apply" <=> call.op = "delete") /\ call.op # "bind"
  BY <1>1, Kinds, RulesAre DEF IInv, BindInv, BindPcs, DeleteInv, DeleteCall, ApplyInv, ApplyCall
<1>4. Id' = Id /\ own' = [own EXCEPT ![Id] = native[Id]] /\ Reconciles'
  BY <1>1, <1>3 DEF Id, Noting, Reconciles
<1>5. SwitchInv' /\ ReportedStands' /\ NoDanglingBinding'
  BY <1>1, <1>2, <1>3, <1>4 DEF IInv, SwitchInv, ReportedStands, NoDanglingBinding
<1>6. CallInv'
  BY <1>1, <1>3 DEF ApplyInv, DeleteInv, CallInv, ApplyPcs, DeletePcs
<1>7. NotedInv'
  BY <1>1, <1>3, <1>4 DEF IInv, SwitchInv, NotedInv
<1>8. Undisturbed'
  BY <1>1, <1>2, <1>3, <1>4 DEF Undisturbed, Neighbors
<1>9. ParentInv'
  <2>1. unowned'[2] = bound'
    BY <1>1, <1>2, <1>3 DEF Neighbors
  <2> QED BY <1>4, <2>1 DEF ParentInv, Reconciles, Binds
<1>10. ReconcileInv'
  <2>1. quiet' = quiet /\ Synced(Id)' = Synced(Id) /\ native[Id]' = native[Id] /\ current' = native[Id]
    BY <1>1, <1>2, <1>4 DEF Synced
  <2>2. pc' \in {"find", "compare"} BY <1>1
  <2> QED BY <1>1, <1>2, <1>3, <1>4, <1>8, <2>1, <2>2 DEF IInv, ReconcileInv
<1>11. UntouchedRulesStay'
  BY <1>1, <1>2, <1>3, <1>4 DEF UntouchedRulesStay, RulesOf
<1>12. ActiveInv' /\ BindingInv' BY <1>4, RulesOnly
<1>13. /\ writeFailed' \in BOOLEAN /\ faultless' \in BOOLEAN /\ (faultless' => faultless)
  BY <1>1, <1>2, Zenon DEF IInv, BoundInv
<1> QED BY <1>1, <1>2, <1>5, <1>6, <1>7, <1>9, <1>10, <1>11, <1>12, <1>13, Within

\* A reconciling call goes on without writing.
LEMMA GoesOn ==
    ASSUME IInv, pc # "idle", pc \notin {"read", "verify"}, Reconciles, NEW next \in {"sequences", "create", "remove", "add", "drop", "save"},
           Goto(next), CallInv',
           quiet /\ faultless /\ next \in {"create", "remove", "add", "drop"} => Synced(Id)
    PROVE  IInv'
<1>1. /\ pc' = next /\ UNCHANGED switch /\ UNCHANGED <<call, own, result, bounds>>
      /\ UNCHANGED <<current, unowned, expected, after, todo, before>> /\ writeFailed' = writeFailed
  BY DEF Goto, local
<1>2. /\ UNCHANGED <<standard, native, bound, db, keys>> /\ UNCHANGED <<calls, outside, quiet>>
      /\ faultless' = faultless
  BY <1>1 DEF switch, bounds
<1>3. /\ Reconciles' /\ ~Binds' /\ Id' = Id /\ Undisturbed' = Undisturbed /\ Synced(Id)' = Synced(Id)
      /\ Desired' = Desired /\ RulesOf(Id)' = RulesOf(Id)
  BY <1>1, <1>2 DEF Reconciles, Binds, Id, Undisturbed, Neighbors, Synced, Desired, RulesOf
<1>4. NotedInv'
  BY <1>1, <1>2, <1>3 DEF IInv, NotedInv
<1>5. ParentInv'
  BY <1>1, <1>2, <1>3 DEF IInv, ParentInv, Reconciles
<1>6. ReconcileInv'
  BY <1>1, <1>2, <1>3 DEF IInv, ReconcileInv
<1>7. UntouchedRulesStay'
  <2>1. call' = call /\ pc # "read" BY <1>1
  <2>2. native[Id]' = native[Id] /\ before' = before /\ standard' = standard /\ quiet' = quiet
    BY <1>1, <1>2, <1>3
  <2> QED BY <1>2, <1>3, <2>1, <2>2 DEF IInv, UntouchedRulesStay
<1>8. todo' \subseteq Names
  BY <1>1 DEF IInv, SwitchInv
<1> QED BY <1>1, <1>3, <1>4, <1>5, <1>6, <1>7, <1>8, RulesOnly, Moves

LEMMA CompareIInv == ASSUME IInv, Compare PROVE IInv'
<1>1. pc = "compare" /\ ApplyInv /\ Reconciles
  BY Kinds DEF IInv, Compare, DeleteInv, BindInv, DeletePcs, BindPcs
<1>2. ASSUME NEW next \in {"sequences", "save"}, Goto(next), next = "save" => current = Desired
      PROVE  IInv'
  <2>1. ApplyInv'
    BY <1>1, <1>2 DEF Goto, local, ApplyInv, ApplyPcs, Desired
  <2> QED BY <1>1, <1>2, <2>1, GoesOn DEF CallInv
<1> QED BY <1>2 DEF Compare

LEMMA SequencesIInv == ASSUME IInv, CheckSequences PROVE IInv'
<1>1. pc = "sequences" /\ Reconciles /\ (ApplyInv \/ DeleteInv)
      /\ (ApplyInv => call.op = "apply") /\ (DeleteInv => call.op = "delete")
  BY Kinds DEF IInv, CheckSequences, BindInv, BindPcs, ApplyInv, ApplyCall, DeleteInv, DeleteCall
<1>2. CASE Refuse BY <1>2, Refuses
<1>3. CASE ~Refuse
  <2>1. SequencesAgree /\ Goto(IF call.op = "delete" THEN "drop" ELSE IF current = Absent THEN "create" ELSE "remove")
    BY <1>3 DEF CheckSequences
  <2>2. quiet /\ faultless => Synced(Id)
    BY <1>1, <2>1 DEF IInv, ReconcileInv, SequencesAgree, Synced
  <2>3. CASE ApplyInv
    <3>1. Goto(IF current = Absent THEN "create" ELSE "remove")
      BY <1>1, <2>1, <2>3
    <3>2. pc' = (IF current = Absent THEN "create" ELSE "remove")
          /\ UNCHANGED <<call, current, before>>
      BY <3>1 DEF Goto, local
    <3>3. ApplyInv'
      BY <1>1, <2>3, <3>2 DEF ApplyInv, ApplyPcs, MaybeRules
    <3> QED BY <1>1, <2>2, <3>1, <3>3, GoesOn DEF CallInv
  <2>4. CASE DeleteInv
    <3>1. Goto("drop")
      BY <1>1, <2>1, <2>4
    <3>2. pc' = "drop" /\ UNCHANGED <<call, current, before, unowned>>
      BY <3>1 DEF Goto, local
    <3>3. DeleteInv'
      BY <1>1, <2>4, <3>2 DEF DeleteInv, DeletePcs, Referenced, Id
    <3> QED BY <1>1, <2>2, <3>1, <3>3, GoesOn DEF CallInv
  <2> QED BY <1>1, <2>3, <2>4
<1> QED BY <1>2, <1>3

LEMMA FindIInv == ASSUME IInv, Find PROVE IInv'
<1>1. pc = "find" /\ Reconciles /\ DeleteInv
  BY Kinds DEF IInv, Find, BindInv, BindPcs, ApplyInv, ApplyPcs
<1>2. CASE Refuse BY <1>2, Refuses
<1>3. ASSUME NEW next \in {"sequences", "save"}, Goto(next), next = "save" => current = Absent,
             next = "sequences" => current # Absent /\ ~Referenced
      PROVE  IInv'
  <2>1. pc' = next /\ UNCHANGED <<call, current, before, unowned>>
    BY <1>3 DEF Goto, local
  <2>2. DeleteInv'
    BY <1>1, <1>3, <2>1 DEF DeleteInv, DeletePcs, MaybeRules, Referenced, Id
  <2> QED BY <1>1, <1>3, <2>2, GoesOn DEF CallInv
<1> QED BY <1>2, <1>3 DEF Find

\* A write that is verified left what the call wanted.
LEMMA VerifyIInv == ASSUME IInv, Verify PROVE IInv'
<1>0. pc = "verify" /\ pc # "idle"
  BY DEF Verify
<1>1. CASE Failed
  <2>1. CASE Undisturbed /\ Converged /\ ~writeFailed
    <3>1. pc' = after /\ after # "idle"
      BY <1>0, <2>1, Kinds DEF IInv, Verify, ApplyInv, DeleteInv, BindInv, ApplyPcs, DeletePcs, BindPcs
    <3> QED BY <1>1, <3>1 DEF Failed, End
  <2>2. CASE ~(Undisturbed /\ Converged /\ ~writeFailed)
    <3>1. ~quiet \/ ~faultless
      <4> SUFFICES ASSUME quiet, faultless PROVE FALSE
        BY Zenon
      <4>1. CASE Reconciles
        <5>1. Undisturbed /\ native[Id] = expected /\ ~writeFailed
          BY <1>0, <4>1 DEF IInv, ReconcileInv
        <5> QED BY <2>2, <4>1, <5>1 DEF Converged, Reconciles
      <4>2. CASE Binds
        <5>1. native = unowned /\ bound = expected.acl /\ expected.gone \notin keys /\ ~writeFailed
          BY <1>0, <4>2 DEF IInv, BindingInv
        <5> QED BY <2>2, <4>2, <5>1 DEF Converged, Undisturbed, Neighbors, Binds
      <4> QED BY <1>0, <4>1, <4>2, Kinds DEF IInv
    <3> QED BY <1>1, <3>1, Fails
  <2> QED BY <2>1, <2>2
<1>2. CASE ~Failed
  <2>1. Undisturbed /\ Converged /\ ~writeFailed
    BY <1>2, Zenon DEF Verify
  <2>2. /\ pc' = after /\ current' = Readback /\ own' = Noting(native[Id]) /\ UNCHANGED switch
        /\ UNCHANGED <<call, unowned, expected, after, todo, before, result, bounds>> /\ writeFailed' = writeFailed
    BY <1>2 DEF Verify
  <2>3. /\ UNCHANGED <<standard, native, bound, db, keys>> /\ UNCHANGED <<calls, outside, quiet>>
        /\ faultless' = faultless
    BY <2>2 DEF switch, bounds
  <2>4. writeFailed' \in BOOLEAN /\ faultless' \in BOOLEAN /\ (faultless' => faultless)
    BY <2>2, <2>3, Zenon DEF IInv, BoundInv
  <2>5. NoDanglingBinding'
    BY <2>3 DEF IInv, NoDanglingBinding
  <2>6. CASE Reconciles
    <3>1. /\ Id \in Names /\ call.op # "bind" /\ native[Id] \in MaybeRules /\ native[Id] = expected
          /\ current' = native[Id] /\ own' = [own EXCEPT ![Id] = native[Id]]
      BY <1>0, <2>1, <2>2, <2>6, Kinds, RulesAre
         DEF IInv, Reconciles, Binds, Converged, Readback, Noting
    <3>2. /\ Reconciles' /\ Id' = Id /\ Undisturbed' = Undisturbed /\ Synced(Id)' = Synced(Id)
          /\ Desired' = Desired /\ RulesOf(Id)' = RulesOf(Id)
      BY <2>2, <2>3, <2>6 DEF Reconciles, Id, Undisturbed, Neighbors, Synced, Desired, RulesOf
    <3>3. SwitchInv' /\ ReportedStands'
      BY <2>2, <2>3, <3>1 DEF IInv, SwitchInv, ReportedStands
    <3>4. CallInv'
      <4>1. CASE ApplyInv
        <5>1. ApplyInv'
          BY <1>0, <2>2, <3>1, <3>2, <4>1 DEF ApplyInv, ApplyPcs
        <5> QED BY <5>1 DEF CallInv
      <4>2. CASE DeleteInv
        <5>1. DeleteInv'
          BY <1>0, <2>2, <3>1, <3>2, <4>2 DEF DeleteInv, DeletePcs
        <5> QED BY <5>1 DEF CallInv
      <4> QED BY <1>0, <2>6, <4>1, <4>2, Kinds DEF IInv
    <3>5. pc' \in {"remove", "save"} /\ pc' \notin {"read", "verify"}
      BY <1>0, <2>2, <2>6, Kinds DEF IInv, ApplyInv, DeleteInv, ApplyPcs, DeletePcs
    <3>6. NotedInv'
      BY <2>2, <3>1, <3>2, <3>5 DEF NotedInv, IInv, SwitchInv
    <3>7. ParentInv'
      BY <1>0, <2>2, <2>3, <2>6 DEF IInv, ParentInv, Reconciles, Binds
    <3>8. ReconcileInv'
      BY <1>0, <2>1, <2>2, <2>3, <2>6, <3>1, <3>2, <3>5 DEF IInv, ReconcileInv
    <3>9. UntouchedRulesStay'
      BY <1>0, <2>2, <2>3, <3>2 DEF IInv, UntouchedRulesStay
    <3> QED BY <1>0, <2>2, <2>3, <2>4, <2>5, <3>2, <3>3, <3>4, <3>6, <3>7, <3>8, <3>9, RulesOnly, Within
  <2>7. CASE Binds
    <3>1. /\ BindInv /\ call.op = "bind" /\ bound = expected.acl /\ expected.gone \notin keys
          /\ current' = [acl |-> bound, keys |-> keys] /\ own' = own
      BY <1>0, <2>1, <2>2, <2>7, Kinds
         DEF IInv, Reconciles, Binds, Converged, Readback, Noting
    <3>2. Binds' /\ Id' = Id /\ At' = At /\ Unseen' = Unseen
      <4>1. after # "verify"
        BY <1>0, <3>1 DEF BindInv, BindPcs
      <4>2. At' = At
        BY <1>0, <2>2, <4>1 DEF At
      <4> QED BY <2>2, <2>7, <4>2 DEF Binds, Id, Unseen
    <3>3. SwitchInv' /\ ReportedStands'
      BY <2>2, <2>3, <3>1 DEF IInv, SwitchInv, ReportedStands
    <3>4. BindInv' /\ pc' \notin {"view", "verify"}
      <4>1. current' \in [acl : Bindings, keys : SUBSET Names]
        BY <3>1 DEF IInv, SwitchInv
      <4>2. pc' \in {"prune", "bind", "again", "prune again"} /\ call' = call
        BY <1>0, <2>2, <3>1 DEF BindInv, BindPcs
      <4> QED BY <3>1, <4>1, <4>2 DEF BindInv, BindPcs
    <3>5. ParentInv'
      BY <1>0, <2>2, <2>3, <2>7, <3>2 DEF IInv, ParentInv, Reconciles, Binds
    <3>6. ActiveInv'
      BY <2>3, <3>1 DEF ActiveInv
    <3>7. BindingInv'
      <4>1. quiet' = quiet /\ current' = [acl |-> bound', keys |-> keys'] /\ unowned' = unowned
        BY <2>2, <2>3, <3>1
      <4>2. quiet /\ faultless =>
                /\ bound \in keys \union {None} /\ native = unowned
                /\ At \in {"prune", "unbind", "bind", "prune again", "settle"} => keys \subseteq Unseen \union {bound}
                /\ At = "bind" /\ Id = None => bound = None
                /\ At \in {"again", "prune again", "settle"} => bound = Id
        BY <1>0, <2>7 DEF IInv, BindingInv
      <4>3. quiet' /\ faultless' => quiet /\ faultless
        BY <2>3
      <4>4. /\ pc' \notin {"view", "verify"} /\ bound' = bound /\ keys' = keys /\ native' = native
            /\ At' = At /\ Unseen' = Unseen /\ Id' = Id
        BY <2>3, <3>2, <3>4
      <4> QED BY <4>1, <4>2, <4>3, <4>4 DEF BindingInv
    <3> QED BY <1>0, <2>2, <2>3, <2>4, <2>5, <3>2, <3>3, <3>4, <3>5, <3>6, <3>7, BindingOnly, Within DEF CallInv
  <2> QED BY <1>0, <2>6, <2>7, Kinds DEF IInv
<1> QED BY <1>1, <1>2

\* What is saved is what the call was asked for.
LEMMA SaveIInv == ASSUME IInv, Save PROVE IInv'
<1>1. CASE Fault /\ End("failed") /\ own' = Noting(None)
  BY <1>1, Faults
<1>2. CASE ~(Fault /\ End("failed") /\ own' = Noting(None))
  <2>1. pc = "save" /\ End("done") /\ UNCHANGED bounds
        /\ own' = IF call.op = "bind" \/ own[Id] = None THEN own ELSE Noting(Goal)
    BY <1>2 DEF Save
  <2>2. UNCHANGED <<calls, outside, quiet>> /\ faultless' = faultless /\ native' = native
    BY <2>1 DEF bounds, End, switch
  <2>3. faultless' \in BOOLEAN BY <2>2, Zenon DEF IInv, BoundInv
  <2>4. own' = own
    <3>1. CASE call.op = "bind" \/ own[Id] = None
      BY <2>1, <3>1
    <3>2. CASE ~(call.op = "bind" \/ own[Id] = None)
      <4>1. Reconciles /\ Id \in Names /\ current = Goal
        BY <2>1, <3>2, Kinds DEF IInv, ApplyInv, DeleteInv
      <4>2. own[Id] = Goal
        BY <2>1, <3>2, <4>1 DEF IInv, NotedInv
      <4> QED BY <2>1, <3>2, <4>1, <4>2 DEF Noting, IInv, SwitchInv
    <3> QED BY <3>1, <3>2
  <2>5. ReportedStands' /\ own' \in [Names -> MaybeRules \union {None}]
    BY <2>2, <2>4 DEF IInv, ReportedStands, SwitchInv
  <2> QED BY <2>1, <2>2, <2>3, <2>5, Ends
<1> QED BY <1>1, <1>2

-----------------------------------------------------------------------------
(* Writes to an access list.                                               *)

\* What a request about the call's access list may have stored.
Stored ==
    \/ \E any \in MaybeRules : Put(Id, any) /\ (any = Absent /\ outside = 0 => bound # Id)
    \/ UNCHANGED switch

\* Rules that stand and are wanted are among the rules a write is to leave.
UntouchedBy(wanted) ==
    quiet /\ faultless /\ call.op = "apply" /\ ~standard /\ before # Absent =>
        /\ wanted # Absent
        /\ \A s \in DOMAIN before \intersect DOMAIN Desired :
              before[s] = Desired[s] => s \in DOMAIN wanted /\ wanted[s] = before[s]

LEMMA SeqsType == \A rules \in MaybeRules : Seqs(rules) \in {Absent} \union SUBSET Sequences
BY RuleSetIs DEF Seqs, MaybeRules

\* Storing rules, whichever they are, breaks no report and no binding.
LEMMA PutStands ==
    ASSUME IInv, Id \in Names, call.op # "bind", NEW any \in MaybeRules, Put(Id, any),
           any = Absent /\ outside = 0 => bound # Id, own' = Noting(None), outside' = outside, todo' = todo
    PROVE  /\ SwitchInv' /\ ReportedStands' /\ NoDanglingBinding' /\ bound' = bound /\ standard' = standard
<1>1. /\ native' = [native EXCEPT ![Id] = any] /\ db' = [db EXCEPT ![Id] = Seqs(any)]
      /\ UNCHANGED <<standard, bound, keys>> /\ own' = [own EXCEPT ![Id] = None]
  BY DEF Put, Noting
<1>2. SwitchInv'
  BY <1>1, SeqsType DEF IInv, SwitchInv
<1>3. ReportedStands'
  BY <1>1 DEF IInv, SwitchInv, ReportedStands
<1>4. NoDanglingBinding'
  BY <1>1 DEF IInv, SwitchInv, NoDanglingBinding, Bindings
<1> QED BY <1>1, <1>2, <1>3, <1>4

\* Nor does a garbled write, which is what withdraws the reports it spoils.
LEMMA GarbleStands ==
    ASSUME IInv, Id \in Names, NEW wanted \in MaybeRules, Garble(wanted),
           wanted = Absent /\ outside = 0 => bound # Id, outside' = outside, todo' = todo
    PROVE  SwitchInv' /\ ReportedStands' /\ NoDanglingBinding' /\ bound' = bound /\ standard' = standard
<1>1. PICK a \in Names, rules \in RuleSets :
          LET stored == [native EXCEPT ![Id] = wanted, ![a] = rules]
          IN  /\ native' = stored /\ db' = [b \in Names |-> IF b \in {Id, a} THEN Seqs(stored[b]) ELSE db[b]]
              /\ own' = [own EXCEPT ![Id] = None, ![a] = None]
  BY DEF Garble
<1>2. UNCHANGED <<standard, bound, keys>>
  BY DEF Garble
<1>3. /\ native' \in [Names -> MaybeRules]
      /\ \A b \in Names : native'[b] = IF b = a THEN rules ELSE IF b = Id THEN wanted ELSE native[b]
  BY <1>1 DEF IInv, SwitchInv, MaybeRules
<1>4. /\ own' \in [Names -> MaybeRules \union {None}]
      /\ \A b \in Names : own'[b] = IF b \in {a, Id} THEN None ELSE own[b]
  BY <1>1 DEF IInv, SwitchInv
<1>5. db' \in [Names -> {Absent} \union SUBSET Sequences]
  <2>1. db' = [b \in Names |-> IF b \in {Id, a} THEN Seqs(native'[b]) ELSE db[b]]
    BY <1>1
  <2> QED BY <1>3, <2>1, SeqsType DEF IInv, SwitchInv
<1>6. SwitchInv'
  BY <1>2, <1>3, <1>4, <1>5 DEF IInv, SwitchInv
<1>7. ReportedStands'
  BY <1>3, <1>4 DEF IInv, ReportedStands
<1>8. NoDanglingBinding'
  BY <1>2, <1>3, Presence DEF IInv, SwitchInv, NoDanglingBinding, Bindings
<1> QED BY <1>2, <1>6, <1>7, <1>8

\* A write to an access list keeps the invariant, once undisturbed it does
\* exactly what it should.
LEMMA RuleWrites ==
    ASSUME IInv, Reconciles, pc \notin {"idle", "read", "verify"},
           NEW refused, refused \in BOOLEAN, NEW wanted \in MaybeRules, NEW next,
           Write(Stored, refused, wanted, next), todo' = todo, CallInv',
           wanted = Absent /\ outside = 0 => bound # Id,
           quiet /\ faultless /\ faultless' => Put(Id, wanted) /\ ~refused,
           UntouchedBy(wanted)
    PROVE  IInv'
<1>0. Id \in Names /\ call.op # "bind"
  BY Kinds DEF IInv, Reconciles, Binds
<1>1. /\ expected' = wanted /\ after' = next /\ pc' = "verify"
      /\ UNCHANGED <<call, current, unowned, before, result>>
  BY DEF Write
<1>2. UNCHANGED <<calls, outside, quiet>>
  <2>1. UNCHANGED bounds => UNCHANGED <<calls, outside, quiet>> BY DEF bounds
  <2> QED BY <2>1, Zenon DEF Write, Fault
<1>3. /\ faultless' \in BOOLEAN /\ (faultless' => faultless)
      /\ faultless' => writeFailed' = refused
  <2>1. UNCHANGED bounds => faultless' = faultless BY DEF bounds
  <2>2. (UNCHANGED bounds /\ writeFailed' = refused) \/ faultless' = FALSE BY Zenon DEF Write, Fault
  <2>3. faultless \in BOOLEAN BY Zenon DEF IInv, BoundInv
  <2>4. CASE faultless' = FALSE BY <2>4, Zenon
  <2>5. CASE UNCHANGED bounds /\ writeFailed' = refused
    <3>1. faultless' = faultless BY <2>1, <2>5
    <3>2. faultless' \in BOOLEAN BY <2>3, <3>1, Zenon
    <3>3. faultless' => faultless BY <3>1, Zenon
    <3>4. faultless' => writeFailed' = refused BY <2>5, Zenon
    <3> QED BY <3>2, <3>3, <3>4
  <2> QED BY <2>2, <2>4, <2>5
<1>4. writeFailed' \in BOOLEAN
  BY Zenon DEF Write, Garble
<1>5. \/ Stored /\ own' = Noting(None)
      \/ UNCHANGED <<switch, own>>
      \/ Garble(wanted)
  BY Zenon DEF Write
<1>6. SwitchInv' /\ ReportedStands' /\ NoDanglingBinding' /\ bound' = bound /\ standard' = standard
  <2>1. CASE Garble(wanted)
    BY <1>0, <1>2, <2>1, GarbleStands
  <2>2. CASE UNCHANGED switch /\ (own' = own \/ own' = Noting(None))
    <3>1. UNCHANGED <<standard, native, bound, db, keys>> BY <2>2 DEF switch
    <3>2. ReportedStands' /\ own' \in [Names -> MaybeRules \union {None}]
      BY <2>2, <3>1, Withdraws DEF IInv, ReportedStands, SwitchInv
    <3>3. SwitchInv' BY <3>1, <3>2 DEF IInv, SwitchInv
    <3>4. NoDanglingBinding' BY <1>2, <3>1 DEF IInv, NoDanglingBinding
    <3> QED BY <3>1, <3>2, <3>3, <3>4
  <2>3. CASE own' = Noting(None) /\ ~UNCHANGED switch /\ Stored
    <3>1. PICK any \in MaybeRules : Put(Id, any) /\ (any = Absent /\ outside = 0 => bound # Id)
      BY <2>3 DEF Stored
    <3> QED BY <1>0, <1>2, <2>3, <3>1, PutStands
  <2> QED BY <1>5, <2>1, <2>2, <2>3
<1>7. Reconciles' /\ Id' = Id /\ Desired' = Desired
  BY <1>1 DEF Reconciles, Id, Desired
<1>8. NotedInv'
  BY <1>1 DEF NotedInv
<1>9. ParentInv'
  BY <1>1, <1>2, <1>6, <1>7 DEF IInv, ParentInv, Reconciles, Binds
<1>10. ASSUME quiet', faultless'
       PROVE  /\ native'[Id] = wanted /\ Synced(Id)' /\ ~writeFailed' /\ Undisturbed'
  <2>1. quiet /\ faultless BY <1>2, <1>3, <1>10
  <2>2. Put(Id, wanted) /\ writeFailed' = refused /\ ~refused BY <1>3, <1>10, <2>1
  <2>3. native' = [native EXCEPT ![Id] = wanted] /\ db' = [db EXCEPT ![Id] = Seqs(wanted)]
    BY <2>2 DEF Put
  <2>4. native'[Id] = wanted /\ db'[Id] = Seqs(wanted)
    BY <1>0, <2>3 DEF IInv, SwitchInv
  <2>5. Undisturbed
    BY <2>1 DEF IInv, ReconcileInv
  <2>6. [a \in Names \ {Id} |-> native'[a]] = [a \in Names \ {Id} |-> native[a]]
    BY <2>3 DEF IInv, SwitchInv
  <2>7. Neighbors' = Neighbors
    BY <1>0, <1>1, <1>6, <1>7, <2>6 DEF Neighbors
  <2> QED BY <1>1, <1>7, <2>2, <2>4, <2>5, <2>7 DEF Undisturbed, Synced
<1>11. ReconcileInv'
  BY <1>1, <1>7, <1>10 DEF ReconcileInv
<1>12. UntouchedRulesStay'
  <2> SUFFICES ASSUME ~standard', call'.op = "apply", quiet', faultless', before' # Absent,
                      NEW s \in DOMAIN before' \intersect DOMAIN Desired', before'[s] = Desired'[s]
               PROVE  s \in DOMAIN RulesOf(Id)' /\ native'[Id'][s] = before'[s]
    BY DEF UntouchedRulesStay
  <2>1. quiet /\ faultless /\ ~standard BY <1>2, <1>3, <1>6
  <2>2. wanted # Absent /\ s \in DOMAIN wanted /\ wanted[s] = before[s]
    BY <1>1, <1>7, <2>1 DEF UntouchedBy
  <2> QED BY <1>1, <1>7, <1>10, <2>2 DEF RulesOf
<1> QED BY <1>1, <1>2, <1>3, <1>4, <1>6, <1>7, <1>8, <1>9, <1>11, <1>12, RulesOnly, Within

-----------------------------------------------------------------------------
(* The requests that reconcile rules.                                      *)

\* Any merge of disjoint rules is as it reads.
LEMMA MergedIs ==
    ASSUME NEW a, NEW rules \in RuleSets, NEW target \in RuleSets,
           DOMAIN target = DOMAIN rules \union DOMAIN RulesOf(a),
           \A s \in DOMAIN rules : target[s] = rules[s],
           \A s \in DOMAIN RulesOf(a) \ DOMAIN rules : target[s] = native[a][s]
    PROVE  Merged(a, rules) = target
<1>1. target = [s \in DOMAIN target |-> target[s]]
  BY RuleSetIs
<1> QED BY <1>1 DEF Merged

LEMMA ExactlyStores ==
    ASSUME NEW rules \in RuleSets, Exactly(Id, rules)
    PROVE  Stored
<1>1. PICK any \in RuleSets : Put(Id, any)
  BY DEF Exactly
<1> QED BY <1>1, Presence DEF Stored, MaybeRules

LEMMA PatchStores ==
    ASSUME NEW rules \in RuleSets, Patch(Id, rules)
    PROVE  Stored
<1>1. CASE UNCHANGED switch BY <1>1 DEF Stored
<1>2. CASE Synced(Id) /\ ~Collides(Id, rules) /\ Exactly(Id, Merged(Id, rules))
  BY <1>2, ExactlyStores DEF Collides
<1>3. CASE ~Synced(Id) /\ Exactly(Id, Merged(Id, rules))
  <2>1. PICK any \in RuleSets : Put(Id, any)
    BY <1>3 DEF Exactly
  <2> QED BY <2>1, Presence DEF Stored, MaybeRules
<1> QED BY <1>1, <1>2, <1>3, Zenon DEF Patch

LEMMA DeleteEntryStores ==
    ASSUME SwitchInv, Id \in Names, NEW s, DeleteEntry(Id, s)
    PROVE  Stored
<1>1. CASE UNCHANGED switch BY <1>1 DEF Stored
<1>2. CASE Exactly(Id, Restrict(RulesOf(Id), DOMAIN RulesOf(Id) \ {s}))
  <2>1. RulesOf(Id) \in RuleSets BY RulesAre
  <2>2. Restrict(RulesOf(Id), DOMAIN RulesOf(Id) \ {s}) \in RuleSets BY <2>1, SomeRules
  <2> QED BY <1>2, <2>2, ExactlyStores
<1> QED BY <1>1, <1>2 DEF DeleteEntry

\* A write of an update goes on to its readback.
LEMMA ApplyWrites ==
    ASSUME ApplyInv, pc \notin {"read", "verify"}, NEW effect, NEW refused, NEW wanted, NEW next,
           call' = call, current' = current, before' = before, pc' = "verify", expected' = wanted, after' = next,
           (next = "remove" /\ wanted \in RuleSets) \/ (next = "save" /\ wanted = Desired)
    PROVE  CallInv'
<1>1. ApplyInv'
  BY DEF ApplyInv, ApplyPcs, Desired
<1> QED BY <1>1 DEF CallInv

LEMMA CreateIInv == ASSUME IInv, Create PROVE IInv'
<1>1. pc = "create" /\ ApplyInv /\ Reconciles /\ call.op = "apply" /\ Id \in Names /\ Desired \in RuleSets
  BY Kinds DEF IInv, Create, DeleteInv, BindInv, DeletePcs, BindPcs
<1>2. Initial \in RuleSets /\ Initial # Absent
  BY <1>1, EmptyRules, Presence DEF Initial
<1>3. Write(Patch(Id, Initial), Collides(Id, Initial), Initial, "remove") /\ todo' = todo
  BY DEF Create
<1>4. Patch(Id, Initial) => Stored
  BY <1>2, PatchStores
<1>5. Write(Stored, Collides(Id, Initial), Initial, "remove")
  BY <1>3, <1>4, Zenon DEF Write
<1>6. Collides(Id, Initial) \in BOOLEAN
  BY Zenon DEF Collides
<1>7. CallInv'
  <2>1. /\ pc' = "verify" /\ expected' = Initial /\ after' = "remove"
        /\ call' = call /\ current' = current /\ before' = before
    BY <1>3 DEF Write
  <2> QED BY <1>1, <1>2, <2>1, ApplyWrites
<1>8. current = Absent /\ before = Absent
  BY <1>1 DEF ApplyInv
<1>9. quiet /\ faultless /\ faultless' => Put(Id, Initial) /\ ~Collides(Id, Initial)
  <2> SUFFICES ASSUME quiet, faultless, faultless' PROVE Put(Id, Initial) /\ ~Collides(Id, Initial)
    OBVIOUS
  <2>1. Synced(Id) /\ native[Id] = Absent
    BY <1>1, <1>8 DEF IInv, ReconcileInv
  <2>2. DOMAIN RulesOf(Id) = {}
    BY <1>1, <2>1, RulesAre DEF IInv
  <2>3. Merged(Id, Initial) = Initial
    BY <1>2, <2>2, MergedIs
  <2>4. ~Collides(Id, Initial)
    BY <1>2, <2>2, <2>3 DEF Collides
  <2>5. Patch(Id, Initial)
    BY <1>3, Zenon DEF Write, Fault
  <2> QED BY <2>1, <2>3, <2>4, <2>5 DEF Patch, Exactly
<1>10. UntouchedBy(Initial)
  BY <1>8 DEF UntouchedBy
<1> QED BY <1>1, <1>2, <1>3, <1>5, <1>6, <1>7, <1>9, <1>10, RuleWrites DEF MaybeRules

LEMMA RemoveIInv == ASSUME IInv, Remove PROVE IInv'
<1>1. pc = "remove" /\ ApplyInv /\ Reconciles /\ call.op = "apply" /\ Id \in Names /\ Desired \in RuleSets
  BY Kinds DEF IInv, Remove, DeleteInv, BindInv, DeletePcs, BindPcs
<1>2. current \in RuleSets
  BY <1>1 DEF ApplyInv
<1>3. quiet /\ faultless => Synced(Id) /\ native[Id] = current
  BY <1>1 DEF IInv, ReconcileInv
<1>4. CASE Changed = {} /\ Goto("add")
  <2>1. ApplyInv'
    BY <1>1, <1>4 DEF Goto, local, ApplyInv, ApplyPcs, Desired, Changed
  <2> QED BY <1>1, <1>3, <1>4, <2>1, GoesOn DEF CallInv
<1>5. ASSUME NEW s \in Changed,
             Write(DeleteEntry(Id, s), FALSE, Restrict(current, DOMAIN current \ {s}), "remove"), todo' = todo
      PROVE  IInv'
  <2> DEFINE left == Restrict(current, DOMAIN current \ {s})
  <2>1. left \in RuleSets /\ DOMAIN left = DOMAIN current \ {s} /\ \A t \in DOMAIN left : left[t] = current[t]
    BY <1>2, SomeRules
  <2>2. left # Absent BY <2>1, Presence
  <2>3. DeleteEntry(Id, s) => Stored
    BY <1>1, DeleteEntryStores DEF IInv
  <2>4. Write(Stored, FALSE, left, "remove")
    BY <1>5, <2>3, Zenon DEF Write
  <2>5. CallInv'
    <3>1. /\ pc' = "verify" /\ expected' = left /\ after' = "remove"
          /\ call' = call /\ current' = current /\ before' = before
      BY <1>5 DEF Write
    <3> QED BY <1>1, <2>1, <3>1, ApplyWrites
  <2>6. quiet /\ faultless /\ faultless' => Put(Id, left)
    <3> SUFFICES ASSUME quiet, faultless, faultless' PROVE Put(Id, left)
      OBVIOUS
    <3>1. native[Id] = current /\ RulesOf(Id) = current /\ s \in DOMAIN current
      BY <1>1, <1>2, <1>3, Presence DEF RulesOf, Changed
    <3>2. DeleteEntry(Id, s)
      BY <1>5, Zenon DEF Write, Fault
    <3> QED BY <1>3, <3>1, <3>2 DEF DeleteEntry, Exactly
  <2>7. UntouchedBy(left)
    <3> SUFFICES ASSUME quiet, faultless, ~standard, before # Absent,
                        NEW t \in DOMAIN before \intersect DOMAIN Desired, before[t] = Desired[t]
                 PROVE  t \in DOMAIN left /\ left[t] = before[t]
      BY <2>2 DEF UntouchedBy
    <3>1. t \in DOMAIN RulesOf(Id) /\ native[Id][t] = before[t]
      BY <1>1 DEF IInv, UntouchedRulesStay
    <3>2. native[Id] = current /\ RulesOf(Id) = current
      BY <1>1, <1>2, <1>3, Presence DEF RulesOf
    <3>3. t # s
      BY <3>1, <3>2 DEF Changed
    <3> QED BY <2>1, <3>1, <3>2, <3>3
  <2> QED BY <1>1, <1>5, <2>1, <2>2, <2>4, <2>5, <2>6, <2>7, RuleWrites DEF MaybeRules
<1> QED BY <1>4, <1>5 DEF Remove

LEMMA AddIInv == ASSUME IInv, Add PROVE IInv'
<1>1. pc = "add" /\ ApplyInv /\ Reconciles /\ call.op = "apply" /\ Id \in Names /\ Desired \in RuleSets
  BY Kinds DEF IInv, Add, DeleteInv, BindInv, DeletePcs, BindPcs
<1>2. current \in RuleSets /\ Changed = {}
  BY <1>1 DEF ApplyInv
<1>3. quiet /\ faultless => Synced(Id) /\ native[Id] = current
  BY <1>1 DEF IInv, ReconcileInv
<1>4. \A s \in DOMAIN current : s \in DOMAIN Desired /\ Desired[s] = current[s]
  BY <1>2 DEF Changed
<1>5. /\ Additional \in RuleSets /\ DOMAIN Additional = DOMAIN Desired \ DOMAIN current
      /\ \A s \in DOMAIN Additional : Additional[s] = Desired[s]
  <2> DEFINE D == {s \in DOMAIN Desired : s \notin DOMAIN current \/ Desired[s] # current[s]}
  <2>1. D = DOMAIN Desired \ DOMAIN current BY <1>4
  <2>2. Additional = Restrict(Desired, D) BY DEF Additional
  <2> HIDE DEF D
  <2> QED BY <1>1, <2>1, <2>2, SomeRules
<1>6. CASE Additional = Empty
  <2>1. Goto("save") BY <1>6 DEF Add
  <2>2. DOMAIN Desired = DOMAIN current
    BY <1>4, <1>5, <1>6, EmptyRules
  <2>3. current = Desired
    BY <1>1, <1>2, <1>4, <2>2, SameRules
  <2>4. ApplyInv'
    BY <1>1, <2>1, <2>3 DEF Goto, local, ApplyInv, ApplyPcs, Desired
  <2> QED BY <1>1, <2>1, <2>4, GoesOn DEF CallInv
<1>7. CASE Additional # Empty
  <2>1. Write(Patch(Id, Additional), Collides(Id, Additional), Desired, "save") /\ todo' = todo
    BY <1>7 DEF Add
  <2>2. Patch(Id, Additional) => Stored
    BY <1>5, PatchStores
  <2>3. Write(Stored, Collides(Id, Additional), Desired, "save")
    BY <2>1, <2>2, Zenon DEF Write
  <2>4. Collides(Id, Additional) \in BOOLEAN
    BY Zenon DEF Collides
  <2>5. CallInv'
    <3>1. /\ pc' = "verify" /\ expected' = Desired /\ after' = "save"
          /\ call' = call /\ current' = current /\ before' = before
      BY <2>1 DEF Write
    <3> QED BY <1>1, <3>1, ApplyWrites
  <2>6. quiet /\ faultless /\ faultless' => Put(Id, Desired) /\ ~Collides(Id, Additional)
    <3> SUFFICES ASSUME quiet, faultless, faultless' PROVE Put(Id, Desired) /\ ~Collides(Id, Additional)
      OBVIOUS
    <3>1. Synced(Id) /\ native[Id] = current /\ RulesOf(Id) = current
      BY <1>2, <1>3, Presence DEF RulesOf
    <3>2. DOMAIN Additional \intersect DOMAIN RulesOf(Id) = {}
      BY <1>5, <3>1
    <3>3. DOMAIN Desired = DOMAIN Additional \union DOMAIN RulesOf(Id)
      BY <1>4, <1>5, <3>1
    <3>4. Merged(Id, Additional) = Desired
      <4>1. \A s \in DOMAIN Additional : Desired[s] = Additional[s]
        BY <1>5
      <4>2. \A s \in DOMAIN RulesOf(Id) \ DOMAIN Additional : Desired[s] = native[Id][s]
        BY <1>4, <3>1
      <4>3. Additional \in RuleSets /\ Desired \in RuleSets
        BY <1>1, <1>5
      <4>4. Desired = [s \in DOMAIN Desired |-> Desired[s]]
        BY <4>3, RuleSetIs
      <4>5. \A s \in DOMAIN Desired :
                Desired[s] = IF s \in DOMAIN Additional THEN Additional[s] ELSE native[Id][s]
        BY <3>3, <4>1, <4>2
      <4> QED BY <3>3, <4>4, <4>5 DEF Merged
    <3>5. ~Collides(Id, Additional)
      BY <1>1, <3>2, <3>4 DEF Collides
    <3>6. Patch(Id, Additional)
      BY <2>1, Zenon DEF Write, Fault
    <3> QED BY <3>1, <3>4, <3>5, <3>6 DEF Patch, Exactly
  <2>7. Desired # Absent
    BY <1>1, Presence
  <2>8. UntouchedBy(Desired)
    BY <2>7 DEF UntouchedBy
  <2> QED BY <1>1, <2>1, <2>3, <2>4, <2>5, <2>6, <2>7, <2>8, RuleWrites DEF MaybeRules
<1> QED BY <1>6, <1>7

LEMMA DropIInv == ASSUME IInv, Drop PROVE IInv'
<1>1. pc = "drop" /\ DeleteInv /\ Reconciles /\ call.op = "delete" /\ Id \in Names
  BY Kinds DEF IInv, Drop, ApplyInv, BindInv, ApplyPcs, BindPcs
<1>2. Write(DeleteSet(Id), FALSE, Absent, "save") /\ todo' = todo
  BY DEF Drop
<1>3. outside = 0 => bound # Id
  BY <1>1 DEF IInv, ParentInv, DeleteInv, Referenced
<1>4. DeleteSet(Id) => Stored
  BY <1>3 DEF DeleteSet, Stored, MaybeRules
<1>5. Write(Stored, FALSE, Absent, "save")
  BY <1>2, <1>4, Zenon DEF Write
<1>6. CallInv'
  <2>1. /\ pc' = "verify" /\ expected' = Absent /\ after' = "save" /\ unowned' = unowned
        /\ call' = call /\ current' = current /\ before' = before
    BY <1>2 DEF Write
  <2>2. DeleteInv'
    BY <1>1, <2>1 DEF DeleteInv, DeletePcs, Referenced, Id
  <2> QED BY <2>2 DEF CallInv
<1>7. quiet /\ faultless /\ faultless' => Put(Id, Absent)
  <2> SUFFICES ASSUME quiet, faultless, faultless' PROVE Put(Id, Absent)
    OBVIOUS
  <2>1. Synced(Id) /\ native[Id] = current /\ current \in RuleSets /\ Undisturbed
    BY <1>1 DEF IInv, ReconcileInv, DeleteInv
  <2>2. db[Id] # Absent
    BY <2>1, Presence, RuleSetIs DEF Synced
  <2>3. bound # Id
    BY <1>1, <2>1 DEF Undisturbed, Neighbors, DeleteInv, Referenced
  <2>4. DeleteSet(Id)
    BY <1>2, Zenon DEF Write, Fault
  <2> QED BY <2>2, <2>3, <2>4 DEF DeleteSet
<1>8. UntouchedBy(Absent)
  BY <1>1 DEF UntouchedBy
<1> QED BY <1>1, <1>2, <1>3, <1>5, <1>6, <1>7, <1>8, RuleWrites DEF MaybeRules

-----------------------------------------------------------------------------
(* The requests that replace a binding.                                    *)

\* What is known of the binding b and the keys ks where a call is at next, with
\* the keys of left to look at.
Leaves(b, ks, left, next) ==
    /\ next \in {"prune", "unbind", "bind", "prune again", "settle"} =>
           ks \subseteq (IF next \in {"prune", "prune again"} THEN left ELSE {}) \union {b}
    /\ next = "bind" /\ Id = None => b = None
    /\ next \in {"again", "prune again", "settle"} => b = Id

LEMMA BindKnown ==
    ASSUME IInv, Binds, quiet, faultless, pc \notin {"view", "verify"}
    PROVE  /\ bound \in keys \union {None} /\ native = unowned /\ current = [acl |-> bound, keys |-> keys]
           /\ Leaves(bound, keys, todo, pc) /\ None \notin keys
<1>1. At = pc
  BY DEF At
<1> QED BY <1>1, AclAssumption DEF IInv, BindingInv, SwitchInv, Leaves, Unseen

LEMMA BindCalls ==
    ASSUME IInv, pc \in BindPcs \ {"save"}
    PROVE  /\ BindInv /\ Binds /\ ~Reconciles /\ call.op = "bind" /\ Id \in Bindings /\ pc # "idle"
           /\ pc # "view" => current.acl \in Bindings /\ current.keys \subseteq Names
<1>1. pc # "idle" /\ pc \notin ApplyPcs \union DeletePcs \union {"verify"}
  BY DEF BindPcs, ApplyPcs, DeletePcs
<1>2. BindInv /\ Binds /\ ~Reconciles /\ call.op = "bind" /\ Id \in Bindings
  BY <1>1, Kinds DEF IInv, ApplyInv, DeleteInv
<1>3. pc # "view" => current.acl \in Bindings /\ current.keys \subseteq Names
  BY <1>2 DEF BindInv
<1> QED BY <1>1, <1>2, <1>3

\* A binding call goes on without writing.
LEMMA BindMoves ==
    ASSUME IInv, pc \in BindPcs \ {"save", "view"}, UNCHANGED <<switch, call, current, unowned, own, writeFailed, result, bounds>>,
           todo' \subseteq Names, pc' \in BindPcs \ {"view"},
           quiet /\ faultless => Leaves(bound, keys, todo', pc')
    PROVE  IInv'
<1>0. Binds /\ BindInv /\ pc # "idle" /\ pc \notin {"view", "verify"} /\ pc' \notin {"view", "verify"}
  BY BindCalls DEF BindPcs
<1>1. UNCHANGED <<standard, native, bound, db, keys>> /\ UNCHANGED <<calls, outside, quiet>> /\ faultless' = faultless
  BY DEF switch, bounds
<1>2. Binds' /\ Id' = Id /\ call' = call
  BY <1>0 DEF Binds, Id
<1>3. CallInv'
  <2>1. BindInv' BY <1>0, <1>2 DEF BindInv
  <2> QED BY <2>1 DEF CallInv
<1>4. ParentInv'
  BY <1>0, <1>1, <1>2 DEF IInv, ParentInv, Binds, Reconciles
<1>5. ActiveInv'
  BY <1>0, <1>1, <1>2 DEF IInv, ActiveInv
<1>6. BindingInv'
  <2> SUFFICES ASSUME quiet', faultless'
               PROVE  /\ bound' \in keys' \union {None} /\ native' = unowned' /\ current' = [acl |-> bound', keys |-> keys']
                      /\ At' \in {"prune", "unbind", "bind", "prune again", "settle"} => keys' \subseteq Unseen' \union {bound'}
                      /\ At' = "bind" /\ Id' = None => bound' = None
                      /\ At' \in {"again", "prune again", "settle"} => bound' = Id'
    BY <1>0 DEF BindingInv
  <2>1. quiet /\ faultless BY <1>1
  <2>2. bound \in keys \union {None} /\ native = unowned /\ current = [acl |-> bound, keys |-> keys]
    BY <1>0, <2>1, BindKnown
  <2>3. At' = pc' BY <1>0 DEF At
  <2>4. Unseen' = IF pc' \in {"prune", "prune again"} THEN todo' ELSE {}
    BY <2>3 DEF Unseen
  <2> QED BY <1>1, <1>2, <2>1, <2>2, <2>3, <2>4 DEF Leaves
<1> QED BY <1>0, <1>2, <1>3, <1>4, <1>5, <1>6, BindingOnly, Moves

\* What a request about the binding may have stored.
BindStored ==
    bound' \in {bound, None, Id} /\ keys' \subseteq Names /\ UNCHANGED <<standard, native, db>>

\* A write of a binding call keeps the invariant, once undisturbed it does what
\* its readback looks for.
LEMMA BindWrites ==
    ASSUME IInv, pc \in BindPcs \ {"save", "view"},
           NEW wanted \in [acl : Bindings, gone : Bindings],
           NEW next \in {"prune", "bind", "again", "prune again"},
           Write(BindStored, FALSE, wanted, next), todo' \subseteq Names,
           quiet /\ faultless /\ faultless' =>
               /\ bound' = wanted.acl /\ wanted.gone \notin keys' /\ bound' \in keys' \union {None}
               /\ native' = native /\ Leaves(bound', keys', todo', next)
    PROVE  IInv'
<1>0. Binds /\ BindInv /\ call.op = "bind" /\ Id \in Bindings /\ pc # "idle" /\ pc \notin {"view", "verify"}
  BY BindCalls DEF BindPcs
<1>1. /\ expected' = wanted /\ after' = next /\ pc' = "verify"
      /\ UNCHANGED <<call, current, unowned, before, result>>
  BY DEF Write
<1>2. UNCHANGED <<calls, outside, quiet>>
  <2>1. UNCHANGED bounds => UNCHANGED <<calls, outside, quiet>> BY DEF bounds
  <2> QED BY <2>1, Zenon DEF Write, Fault
<1>3. /\ faultless' \in BOOLEAN /\ (faultless' => faultless)
      /\ faultless' => writeFailed' = FALSE
  <2>1. UNCHANGED bounds => faultless' = faultless BY DEF bounds
  <2>2. (UNCHANGED bounds /\ writeFailed' = FALSE) \/ faultless' = FALSE BY Zenon DEF Write, Fault
  <2>3. faultless \in BOOLEAN BY Zenon DEF IInv, BoundInv
  <2>4. CASE faultless' = FALSE BY <2>4, Zenon
  <2>5. CASE UNCHANGED bounds /\ writeFailed' = FALSE
    <3>1. faultless' = faultless BY <2>1, <2>5
    <3>2. faultless' \in BOOLEAN BY <2>3, <3>1, Zenon
    <3>3. faultless' => faultless BY <3>1, Zenon
    <3> QED BY <2>5, <3>2, <3>3, Zenon
  <2> QED BY <2>2, <2>4, <2>5
<1>4. writeFailed' \in BOOLEAN
  BY Zenon DEF Write, Garble
<1>5. (BindStored \/ UNCHANGED switch) /\ own' = own
  <2>1. own' = own \/ own' = Noting(None)
    BY <1>0, Zenon DEF Write, Garble
  <2>2. Noting(None) = own BY <1>0 DEF Noting
  <2>3. BindStored \/ UNCHANGED switch
    <3>1. UNCHANGED <<switch, own>> => UNCHANGED switch OBVIOUS
    <3> QED BY <1>0, <3>1, Zenon DEF Write, Garble
  <2> QED BY <2>1, <2>2, <2>3
<1>6. bound' \in {bound, None, Id} /\ keys' \subseteq Names /\ UNCHANGED <<standard, native, db>>
  BY <1>5 DEF BindStored, switch, IInv, SwitchInv
<1>7. Binds' /\ Id' = Id /\ call' = call
  BY <1>0, <1>1 DEF Binds, Id
<1>8. SwitchInv' /\ ReportedStands'
  BY <1>0, <1>5, <1>6 DEF IInv, SwitchInv, ReportedStands, Bindings
<1>9. NoDanglingBinding'
  <2> SUFFICES ASSUME outside = 0, bound' # None PROVE native[bound'] # Absent
    BY <1>2, <1>6 DEF NoDanglingBinding
  <2>1. CASE bound' = bound BY <2>1 DEF IInv, NoDanglingBinding
  <2>2. CASE bound' = Id BY <1>0, <2>2 DEF IInv, ParentInv
  <2> QED BY <1>6, <2>1, <2>2
<1>10. CallInv'
  <2>1. BindInv' BY <1>0, <1>1 DEF BindInv
  <2> QED BY <2>1 DEF CallInv
<1>11. ParentInv'
  BY <1>0, <1>2, <1>6, <1>7 DEF IInv, ParentInv, Binds, Reconciles
<1>12. ActiveInv'
  BY <1>1 DEF ActiveInv
<1>13. BindingInv'
  <2> SUFFICES ASSUME quiet', faultless'
               PROVE  /\ bound' \in keys' \union {None} /\ native' = unowned'
                      /\ bound' = expected'.acl /\ expected'.gone \notin keys' /\ ~writeFailed'
                      /\ At' \in {"prune", "unbind", "bind", "prune again", "settle"} => keys' \subseteq Unseen' \union {bound'}
                      /\ At' = "bind" /\ Id' = None => bound' = None
                      /\ At' \in {"again", "prune again", "settle"} => bound' = Id'
    BY <1>1 DEF BindingInv
  <2>1. quiet /\ faultless BY <1>2, <1>3
  <2>2. native = unowned
    BY <1>0, <2>1, BindKnown
  <2>3. At' = next BY <1>1 DEF At
  <2>4. Unseen' = IF next \in {"prune", "prune again"} THEN todo' ELSE {}
    BY <2>3 DEF Unseen
  <2>5. /\ bound' = wanted.acl /\ wanted.gone \notin keys' /\ bound' \in keys' \union {None}
        /\ Leaves(bound', keys', todo', next)
    BY <2>1
  <2>6. ~writeFailed' BY <1>3
  <2> QED BY <1>1, <1>6, <1>7, <2>2, <2>3, <2>4, <2>5, <2>6 DEF Leaves
<1> QED BY <1>0, <1>1, <1>2, <1>3, <1>4, <1>6, <1>7, <1>8, <1>9, <1>10, <1>11, <1>12, <1>13, BindingOnly, Within

LEMMA ViewIInv == ASSUME IInv, View PROVE IInv'
<1>0. pc = "view" /\ Binds /\ BindInv /\ ~Reconciles /\ Id \in Bindings /\ pc # "idle"
  BY BindCalls DEF View, BindPcs
<1>1. CASE Refuse BY <1>1, Refuses
<1>2. CASE ~Refuse
  <2>1. /\ HasParent /\ current' = [acl |-> bound, keys |-> keys] /\ unowned' = native /\ pc' = "prune"
        /\ todo' = keys /\ UNCHANGED switch /\ UNCHANGED <<call, own, result>> /\ writeFailed' = writeFailed
        /\ UNCHANGED bounds
    BY <1>2 DEF View
  <2>2. UNCHANGED <<standard, native, bound, db, keys>> /\ UNCHANGED <<calls, outside, quiet>> /\ faultless' = faultless
    BY <2>1 DEF switch, bounds
  <2>3. Binds' /\ Id' = Id /\ call' = call
    BY <1>0, <2>1 DEF Binds, Id
  <2>4. CallInv'
    <3>1. current' \in [acl : Bindings, keys : SUBSET Names]
      BY <2>1 DEF IInv, SwitchInv
    <3>2. BindInv' BY <1>0, <2>1, <3>1 DEF BindInv, BindPcs
    <3> QED BY <3>2 DEF CallInv
  <2>5. ParentInv'
    BY <1>0, <2>1, <2>2, <2>3 DEF IInv, ParentInv, HasParent, Binds, Reconciles
  <2>6. ActiveInv'
    BY <2>1, <2>2 DEF ActiveInv
  <2>7. BindingInv'
    <3>1. At' = "prune" /\ Unseen' = todo' BY <2>1 DEF At, Unseen
    <3>2. quiet /\ faultless => bound \in keys \union {None}
      BY <1>0 DEF IInv, BindingInv
    <3> QED BY <2>1, <2>2, <2>3, <3>1, <3>2 DEF BindingInv
  <2>8. todo' \subseteq Names
    BY <2>1 DEF IInv, SwitchInv
  <2> QED BY <1>0, <2>1, <2>3, <2>4, <2>5, <2>6, <2>7, <2>8, BindingOnly, Moves
<1> QED BY <1>1, <1>2

\* Both passes over the keys.
LEMMA PruneIInv ==
    ASSUME IInv, NEW phase, NEW next,
           (phase = "prune" /\ next = "unbind") \/ (phase = "prune again" /\ next = "settle"),
           Prune(phase, next)
    PROVE  IInv'
<1>0. /\ pc = phase /\ phase \in BindPcs \ {"save", "view"} /\ next \in BindPcs \ {"view"} /\ Binds
      /\ current.acl \in Bindings
  BY BindCalls DEF Prune, BindPcs
<1>1. quiet /\ faultless =>
          /\ bound \in keys \union {None} /\ current.acl = bound
          /\ Leaves(bound, keys, todo, phase)
  <2> SUFFICES ASSUME quiet, faultless
               PROVE  bound \in keys \union {None} /\ current.acl = bound /\ Leaves(bound, keys, todo, phase)
    OBVIOUS
  <2>1. /\ bound \in keys \union {None} /\ current = [acl |-> bound, keys |-> keys]
        /\ Leaves(bound, keys, todo, pc)
    BY <1>0, BindKnown DEF BindPcs
  <2>2. current.acl = bound BY <2>1
  <2> QED BY <1>0, <2>1, <2>2
<1>2. CASE todo = {} /\ Goto(next)
  <2>1. /\ pc' = next /\ todo' = todo /\ todo' \subseteq Names
        /\ UNCHANGED <<switch, call, current, unowned, own, writeFailed, result, bounds>>
    BY <1>2 DEF Goto, local
  <2>2. quiet /\ faultless => Leaves(bound, keys, todo', pc')
    BY <1>1, <1>2, <2>1 DEF Leaves
  <2> QED BY <1>0, <2>1, <2>2, BindMoves
<1>3. ASSUME NEW a \in todo, todo' = todo \ {a}, a = current.acl, pc' = phase,
             UNCHANGED <<switch, call, current, unowned, expected, after, writeFailed, before, own, result, bounds>>
      PROVE  IInv'
  <2>1. todo' \subseteq Names /\ pc' \in BindPcs \ {"view"}
    BY <1>0, <1>3 DEF IInv, SwitchInv
  <2>2. quiet /\ faultless => Leaves(bound, keys, todo', pc')
    <3> SUFFICES ASSUME quiet, faultless PROVE Leaves(bound, keys, todo', phase)
      BY <1>3
    <3>1. a = bound /\ keys \subseteq todo \union {bound}
      BY <1>1, <1>3 DEF Leaves
    <3>2. keys \subseteq todo' \union {bound}
      BY <1>3, <3>1
    <3> QED BY <1>1, <3>2 DEF Leaves
  <2> QED BY <1>0, <1>3, <2>1, <2>2, BindMoves
<1>4. ASSUME NEW a \in todo, todo' = todo \ {a}, a # current.acl,
             Write(DeleteBinding(a), FALSE, [acl |-> current.acl, gone |-> a], phase)
      PROVE  IInv'
  <2>1. a \in Names /\ todo' \subseteq Names
    BY <1>4 DEF IInv, SwitchInv
  <2>2. DeleteBinding(a) => BindStored
    BY DEF DeleteBinding, BindStored, IInv, SwitchInv
  <2>3. Write(BindStored, FALSE, [acl |-> current.acl, gone |-> a], phase)
    BY <1>4, <2>2, Zenon DEF Write
  <2>4. [acl |-> current.acl, gone |-> a] \in [acl : Bindings, gone : Bindings]
    BY <1>0, <2>1 DEF Bindings
  <2>5. quiet /\ faultless /\ faultless' =>
            /\ bound' = current.acl /\ a \notin keys' /\ bound' \in keys' \union {None} /\ native' = native
            /\ Leaves(bound', keys', todo', phase)
    <3> SUFFICES ASSUME quiet, faultless, faultless'
                 PROVE  /\ bound' = current.acl /\ a \notin keys' /\ bound' \in keys' \union {None} /\ native' = native
                        /\ Leaves(bound', keys', todo', phase)
      OBVIOUS
    <3>1. DeleteBinding(a)
      BY <1>4, Zenon DEF Write, Fault
    <3>2. current.acl = bound /\ bound \in keys \union {None} /\ bound # a
      BY <1>1, <1>4
    <3>3. bound' = bound /\ keys' = keys \ {a} /\ native' = native
      BY <3>1, <3>2 DEF DeleteBinding
    <3> QED BY <1>0, <1>1, <1>4, <3>2, <3>3 DEF Leaves
  <2>6. phase \in {"prune", "bind", "again", "prune again"} OBVIOUS
  <2> QED BY <1>0, <2>1, <2>3, <2>4, <2>5, <2>6, BindWrites
<1> QED BY <1>2, <1>3, <1>4 DEF Prune

LEMMA UnbindIInv == ASSUME IInv, Unbind PROVE IInv'
<1>0. pc = "unbind" /\ pc \in BindPcs \ {"save", "view"} /\ Binds /\ current.acl \in Bindings
  BY BindCalls DEF Unbind, BindPcs
<1>1. quiet /\ faultless =>
          /\ bound \in keys \union {None} /\ current = [acl |-> bound, keys |-> keys]
          /\ keys \subseteq {bound} /\ None \notin keys
  BY <1>0, BindKnown DEF BindPcs, Leaves
<1>2. CASE ~Unbinds
  <2>1. /\ pc' = "bind" /\ todo' = todo /\ todo' \subseteq Names
        /\ UNCHANGED <<switch, call, current, unowned, own, writeFailed, result, bounds>>
    BY <1>2 DEF Unbind, Goto, local, IInv, SwitchInv
  <2>2. quiet /\ faultless => Leaves(bound, keys, todo', pc')
    BY <1>1, <1>2, <2>1 DEF Leaves, Unbinds
  <2> QED BY <1>0, <2>1, <2>2, BindMoves DEF BindPcs
<1>3. CASE Unbinds
  <2>1. /\ Write(DeleteBinding(current.acl), FALSE, [acl |-> None, gone |-> current.acl], "bind")
        /\ todo' = todo /\ todo' \subseteq Names
    BY <1>3 DEF Unbind, IInv, SwitchInv
  <2>2. DeleteBinding(current.acl) => BindStored
    BY DEF DeleteBinding, BindStored, IInv, SwitchInv
  <2>3. Write(BindStored, FALSE, [acl |-> None, gone |-> current.acl], "bind")
    BY <2>1, <2>2, Zenon DEF Write
  <2>4. [acl |-> None, gone |-> current.acl] \in [acl : Bindings, gone : Bindings]
    BY <1>0 DEF Bindings
  <2>5. quiet /\ faultless /\ faultless' =>
            /\ bound' = None /\ current.acl \notin keys' /\ bound' \in keys' \union {None} /\ native' = native
            /\ Leaves(bound', keys', todo', "bind")
    <3> SUFFICES ASSUME quiet, faultless, faultless'
                 PROVE  /\ bound' = None /\ current.acl \notin keys' /\ bound' \in keys' \union {None} /\ native' = native
                        /\ Leaves(bound', keys', todo', "bind")
      OBVIOUS
    <3>1. DeleteBinding(current.acl)
      BY <2>1, Zenon DEF Write, Fault
    <3>2. current.acl = bound /\ bound # None /\ bound \in keys
      BY <1>1, <1>3 DEF Unbinds
    <3>3. bound' = None /\ keys' = keys \ {bound} /\ native' = native
      BY <3>1, <3>2 DEF DeleteBinding
    <3>4. keys' = {} BY <1>1, <3>3
    <3> QED BY <3>2, <3>3, <3>4 DEF Leaves
  <2> QED BY <1>0, <2>1, <2>3, <2>4, <2>5, BindWrites
<1> QED BY <1>2, <1>3

LEMMA BindIInv == ASSUME IInv, Bind PROVE IInv'
<1>0. pc = "bind" /\ pc \in BindPcs \ {"save", "view"} /\ Binds /\ current.acl \in Bindings /\ Id \in Bindings
  BY BindCalls DEF Bind, BindPcs
<1>1. quiet /\ faultless =>
          /\ bound \in keys \union {None} /\ current = [acl |-> bound, keys |-> keys]
          /\ Id = None => bound = None
  BY <1>0, BindKnown DEF BindPcs, Leaves
<1>2. CASE ~(Id # None /\ current # [acl |-> Id, keys |-> {Id}])
  <2>1. /\ pc' = "again" /\ todo' = todo /\ todo' \subseteq Names
        /\ UNCHANGED <<switch, call, current, unowned, own, writeFailed, result, bounds>>
    BY <1>2 DEF Bind, Goto, local, IInv, SwitchInv
  <2>2. quiet /\ faultless => Leaves(bound, keys, todo', pc')
    <3>1. quiet /\ faultless => bound = Id
      BY <1>1, <1>2
    <3> QED BY <2>1, <3>1 DEF Leaves
  <2> QED BY <1>0, <2>1, <2>2, BindMoves DEF BindPcs
<1>3. CASE Id # None /\ current # [acl |-> Id, keys |-> {Id}]
  <2>1. /\ Write(PatchBinding(Id), FALSE, [acl |-> Id, gone |-> None], "again")
        /\ todo' = todo /\ todo' \subseteq Names
    BY <1>3 DEF Bind, IInv, SwitchInv
  <2>2. PatchBinding(Id) => BindStored
    BY <1>0, <1>3 DEF PatchBinding, BindStored, IInv, SwitchInv, Bindings
  <2>3. Write(BindStored, FALSE, [acl |-> Id, gone |-> None], "again")
    BY <2>1, <2>2, Zenon DEF Write
  <2>4. [acl |-> Id, gone |-> None] \in [acl : Bindings, gone : Bindings]
    BY <1>0 DEF Bindings
  <2>5. quiet /\ faultless /\ faultless' =>
            /\ bound' = Id /\ None \notin keys' /\ bound' \in keys' \union {None} /\ native' = native
            /\ Leaves(bound', keys', todo', "again")
    <3> SUFFICES ASSUME quiet, faultless, faultless'
                 PROVE  /\ bound' = Id /\ None \notin keys' /\ bound' \in keys' \union {None} /\ native' = native
                        /\ Leaves(bound', keys', todo', "again")
      OBVIOUS
    <3>1. PatchBinding(Id)
      BY <2>1, Zenon DEF Write, Fault
    <3>2. bound' = Id /\ keys' = keys \union {Id} /\ None \notin keys /\ native' = native
      BY <1>0, <3>1, AclAssumption DEF PatchBinding, IInv, SwitchInv
    <3> QED BY <1>3, <3>2 DEF Leaves
  <2> QED BY <1>0, <2>1, <2>3, <2>4, <2>5, BindWrites
<1> QED BY <1>2, <1>3

LEMMA AgainIInv == ASSUME IInv, Again PROVE IInv'
<1>0. pc = "again" /\ pc \in BindPcs \ {"save", "view"} /\ Binds /\ current.keys \subseteq Names
  BY BindCalls DEF Again, BindPcs
<1>1. quiet /\ faultless => current.keys = keys /\ bound = Id
  BY <1>0, BindKnown DEF BindPcs, Leaves
<1>2. /\ todo' = current.keys /\ pc' = "prune again"
      /\ UNCHANGED <<switch, call, current, unowned, own, writeFailed, result, bounds>>
  BY DEF Again
<1>3. quiet /\ faultless => Leaves(bound, keys, todo', pc')
  BY <1>1, <1>2 DEF Leaves
<1> QED BY <1>0, <1>2, <1>3, BindMoves DEF BindPcs

LEMMA SettleIInv == ASSUME IInv, Settle PROVE IInv'
<1>0. pc = "settle" /\ pc \in BindPcs \ {"save", "view"} /\ Binds
  BY BindCalls DEF Settle, BindPcs
<1>1. quiet /\ faultless => Settled
  <2> SUFFICES ASSUME quiet, faultless PROVE Settled
    OBVIOUS
  <2>1. /\ bound \in keys \union {None} /\ current = [acl |-> bound, keys |-> keys] /\ None \notin keys
        /\ bound = Id /\ keys \subseteq {bound}
    BY <1>0, BindKnown DEF BindPcs, Leaves
  <2>2. keys = {bound} \ {None} BY <2>1
  <2> QED BY <2>1, <2>2 DEF Settled
<1>2. CASE Settled
  <2>1. /\ pc' = "save" /\ todo' = todo /\ todo' \subseteq Names
        /\ UNCHANGED <<switch, call, current, unowned, own, writeFailed, result, bounds>>
    BY <1>2 DEF Settle, Goto, local, IInv, SwitchInv
  <2>2. quiet /\ faultless => Leaves(bound, keys, todo', pc')
    BY <2>1 DEF Leaves
  <2> QED BY <1>0, <2>1, <2>2, BindMoves DEF BindPcs
<1>3. CASE ~Settled
  <2>1. Failed BY <1>3 DEF Settle
  <2>2. ~quiet \/ ~faultless BY <1>1, <1>3, Zenon
  <2> QED BY <2>1, <2>2, Fails
<1> QED BY <1>2, <1>3

-----------------------------------------------------------------------------
(* The surroundings, and the theorems.                                     *)

LEMMA SyncsIInv == ASSUME IInv, DatabaseSyncs PROVE IInv'
<1>1. PICK a \in Names : ~Synced(a) /\ db' = [db EXCEPT ![a] = Seqs(native[a])]
  BY DEF DatabaseSyncs
<1>2. /\ UNCHANGED <<standard, native, bound, keys, call, pc, own, result>>
      /\ UNCHANGED <<current, unowned, expected, after, todo, writeFailed, before>>
      /\ UNCHANGED <<calls, faults, outside, quiet, faultless>>
  BY DEF DatabaseSyncs, local, bounds
<1>3. SwitchInv'
  BY <1>1, <1>2, RulesAre, SeqsType DEF IInv, SwitchInv
<1>4. BoundInv'
  <2>1. standard' = standard /\ quiet' = quiet /\ faultless' = faultless /\ writeFailed' = writeFailed
    BY <1>2
  <2>2. standard' \in BOOLEAN /\ quiet' \in BOOLEAN /\ faultless' \in BOOLEAN /\ writeFailed' \in BOOLEAN
    BY <2>1, Zenon DEF IInv, BoundInv
  <2>3. outside' \in Nat BY <1>2 DEF IInv, BoundInv
  <2> QED BY <2>2, <2>3, Zenon DEF BoundInv
<1>5. CallInv'
  <2>1. ApplyInv' <=> ApplyInv BY <1>2 DEF ApplyInv, Desired, Changed
  <2>2. DeleteInv' <=> DeleteInv BY <1>2 DEF DeleteInv, Referenced, Id
  <2>3. BindInv' <=> BindInv BY <1>2 DEF BindInv
  <2> QED BY <1>2, <2>1, <2>2, <2>3 DEF IInv, CallInv
<1>6. Id' = Id /\ Reconciles' = Reconciles /\ Binds' = Binds /\ Desired' = Desired
  BY <1>2 DEF Id, Reconciles, Binds, Desired
<1>7. NotedInv' /\ ParentInv' /\ ActiveInv'
  BY <1>2, <1>6 DEF IInv, NotedInv, ParentInv, ActiveInv
<1>8. ReconcileInv'
  <2>1. Synced(Id) => Synced(Id)'
    BY <1>1, <1>2, <1>6 DEF IInv, SwitchInv, Synced
  <2>2. Undisturbed' = Undisturbed
    BY <1>2, <1>6 DEF Undisturbed, Neighbors
  <2> QED BY <1>2, <1>6, <2>1, <2>2 DEF IInv, ReconcileInv
<1>9. BindingInv'
  <2>1. At' = At /\ Unseen' = Unseen BY <1>2 DEF At, Unseen
  <2> QED BY <1>2, <1>6, <2>1 DEF IInv, BindingInv
<1>10. ReportedStands' /\ NoDanglingBinding' /\ QuietCallSucceeds'
  BY <1>2 DEF IInv, ReportedStands, NoDanglingBinding, QuietCallSucceeds
<1>11. UntouchedRulesStay'
  <2>1. RulesOf(Id)' = RulesOf(Id) BY <1>2, <1>6 DEF RulesOf
  <2> QED BY <1>2, <1>6, <2>1 DEF IInv, UntouchedRulesStay
<1> QED BY <1>3, <1>4, <1>5, <1>7, <1>8, <1>9, <1>10, <1>11 DEF IInv

LEMMA OutsideIInv == ASSUME IInv, Outside PROVE IInv'
<1>1. /\ UNCHANGED <<standard, db, keys, call, pc, result, calls, faults>>
      /\ UNCHANGED <<current, unowned, expected, after, todo, before>>
      /\ writeFailed' = writeFailed /\ faultless' = faultless /\ outside' = outside + 1
  BY DEF Outside, local
<1>2. quiet' = FALSE /\ outside' # 0 /\ outside' \in Nat
  BY <1>1 DEF Outside, IInv, BoundInv
<1>3. \/ \E a \in Names, rules \in Wanted \union {Absent} :
            /\ native' = [native EXCEPT ![a] = rules] /\ own' = [own EXCEPT ![a] = None]
            /\ bound' = bound
      \/ bound' \in Bindings /\ native' = native /\ own' = own
  BY DEF Outside, Bindings
<1>4. SwitchInv' /\ ReportedStands'
  <2>1. CASE bound' \in Bindings /\ native' = native /\ own' = own
    BY <1>1, <2>1 DEF IInv, SwitchInv, ReportedStands
  <2>2. ASSUME NEW a \in Names, NEW rules \in Wanted \union {Absent},
               native' = [native EXCEPT ![a] = rules], own' = [own EXCEPT ![a] = None], bound' = bound
        PROVE  SwitchInv' /\ ReportedStands'
    <3>1. rules \in MaybeRules BY WantedRules DEF MaybeRules
    <3> QED BY <1>1, <2>2, <3>1 DEF IInv, SwitchInv, ReportedStands
  <2> QED BY <1>3, <2>1, <2>2
<1>5. BoundInv'
  <2>1. standard' = standard BY <1>1
  <2>2. standard' \in BOOLEAN /\ quiet' \in BOOLEAN /\ faultless' \in BOOLEAN /\ writeFailed' \in BOOLEAN
    BY <1>1, <1>2, <2>1, Zenon DEF IInv, BoundInv
  <2> QED BY <1>2, <2>2, Zenon DEF BoundInv
<1>6. CallInv'
  <2>1. ApplyInv' <=> ApplyInv BY <1>1 DEF ApplyInv, Desired, Changed
  <2>2. DeleteInv' <=> DeleteInv BY <1>1 DEF DeleteInv, Referenced, Id
  <2>3. BindInv' <=> BindInv BY <1>1 DEF BindInv
  <2> QED BY <1>1, <2>1, <2>2, <2>3 DEF IInv, CallInv
<1>7. Id' = Id /\ Reconciles' = Reconciles
  BY <1>1 DEF Id, Reconciles
<1>8. NotedInv'
  <2> SUFFICES ASSUME Reconciles, pc \notin {"read", "verify"} PROVE own'[Id] \in {None, current}
    BY <1>1, <1>7 DEF NotedInv
  <2>1. own[Id] \in {None, current} BY DEF IInv, NotedInv
  <2>2. Id \in Names
    <3>1. pc # "idle"
      BY NoneCalls DEF IInv, Reconciles
    <3> QED BY <3>1, Kinds DEF IInv
  <2> QED BY <1>3, <2>1, <2>2 DEF IInv, SwitchInv
<1>9. ParentInv' /\ ActiveInv' /\ ReconcileInv' /\ BindingInv' /\ UntouchedRulesStay' /\ NoDanglingBinding'
  BY <1>2 DEF ParentInv, ActiveInv, ReconcileInv, BindingInv, UntouchedRulesStay, NoDanglingBinding
<1>10. QuietCallSucceeds'
  BY <1>2, Zenon DEF QuietCallSucceeds
<1> QED BY <1>4, <1>5, <1>6, <1>8, <1>9, <1>10 DEF IInv

LEMMA StutterIInv == ASSUME IInv, UNCHANGED vars PROVE IInv'
<1>1. /\ UNCHANGED <<standard, native, bound, db, keys, call, pc, own, result>>
      /\ UNCHANGED <<current, unowned, expected, after, todo, writeFailed, before>>
      /\ UNCHANGED <<calls, faults, outside, quiet, faultless>>
  BY DEF vars, switch, local, bounds
<1>2. SwitchInv' /\ NotedInv' /\ ParentInv' /\ ActiveInv' /\ ReportedStands' /\ NoDanglingBinding'
      /\ QuietCallSucceeds'
  BY <1>1 DEF IInv, SwitchInv, NotedInv, ParentInv, ActiveInv, ReportedStands, NoDanglingBinding,
              QuietCallSucceeds, Id, Reconciles, Binds
<1>3. BoundInv'
  <2>1. standard' = standard /\ quiet' = quiet /\ faultless' = faultless /\ writeFailed' = writeFailed
    BY <1>1
  <2>2. standard' \in BOOLEAN /\ quiet' \in BOOLEAN /\ faultless' \in BOOLEAN /\ writeFailed' \in BOOLEAN
    BY <2>1, Zenon DEF IInv, BoundInv
  <2>3. outside' \in Nat BY <1>1 DEF IInv, BoundInv
  <2> QED BY <2>2, <2>3, Zenon DEF BoundInv
<1>4. CallInv'
  <2>1. ApplyInv' <=> ApplyInv BY <1>1 DEF ApplyInv, Desired, Changed
  <2>2. DeleteInv' <=> DeleteInv BY <1>1 DEF DeleteInv, Referenced, Id
  <2>3. BindInv' <=> BindInv BY <1>1 DEF BindInv
  <2> QED BY <1>1, <2>1, <2>2, <2>3 DEF IInv, CallInv
<1>5. /\ Id' = Id /\ Reconciles' = Reconciles /\ Binds' = Binds /\ Desired' = Desired /\ At' = At
      /\ Unseen' = Unseen /\ Synced(Id)' = Synced(Id) /\ Undisturbed' = Undisturbed /\ RulesOf(Id)' = RulesOf(Id)
  BY <1>1 DEF Id, Reconciles, Binds, Desired, At, Unseen, Synced, Undisturbed, Neighbors, RulesOf
<1>6. ReconcileInv' BY <1>1, <1>5 DEF IInv, ReconcileInv
<1>7. BindingInv' BY <1>1, <1>5 DEF IInv, BindingInv
<1>8. UntouchedRulesStay' BY <1>1, <1>5 DEF IInv, UntouchedRulesStay
<1> QED BY <1>2, <1>3, <1>4, <1>6, <1>7, <1>8 DEF IInv

LEMMA NextIInv == ASSUME IInv, [Next]_vars PROVE IInv'
<1>1. ASSUME NEW c \in Calls, Begin(c) PROVE IInv' BY <1>1, BeginIInv
<1>2. CASE Read BY <1>2, ReadIInv
<1>3. CASE Apply BY <1>3, CompareIInv, CreateIInv, RemoveIInv, AddIInv DEF Apply
<1>4. CASE CheckSequences BY <1>4, SequencesIInv
<1>5. CASE Find BY <1>5, FindIInv
<1>6. CASE Drop BY <1>6, DropIInv
<1>7. CASE AccessGroup
  <2>1. CASE Prune("prune", "unbind") BY <2>1, PruneIInv
  <2>2. CASE Prune("prune again", "settle") BY <2>2, PruneIInv
  <2> QED BY <1>7, <2>1, <2>2, ViewIInv, UnbindIInv, BindIInv, AgainIInv, SettleIInv DEF AccessGroup
<1>8. CASE Verify BY <1>8, VerifyIInv
<1>9. CASE Save BY <1>9, SaveIInv
<1>10. CASE ReadFails BY <1>10, Faults DEF ReadFails
<1>11. CASE DatabaseSyncs BY <1>11, SyncsIInv
<1>12. CASE Outside BY <1>12, OutsideIInv
<1>13. CASE Done \/ UNCHANGED vars BY <1>13, StutterIInv DEF Done
<1> QED BY <1>1, <1>2, <1>3, <1>4, <1>5, <1>6, <1>7, <1>8, <1>9, <1>10, <1>11, <1>12, <1>13 DEF Next, Step

THEOREM Inductive == Spec => []IInv
<1>1. Init => IInv BY InitIInv
<1>2. IInv /\ [Next]_vars => IInv' BY NextIInv
<1> QED BY <1>1, <1>2, PTL DEF Spec

\* Whatever databases, faults, callers and administrators did, an access list is
\* what the last successful call said of it.
THEOREM ReportsStand == Spec => []ReportedStands
<1>1. IInv => ReportedStands BY DEF IInv
<1> QED BY <1>1, Inductive, PTL

\* No interleaving of calls, faults and database states leaves a binding to an
\* access list that a call deleted.
THEOREM NothingDangles == Spec => []NoDanglingBinding
<1>1. IInv => NoDanglingBinding BY DEF IInv
<1> QED BY <1>1, Inductive, PTL

\* No guard, readback or final view fails a call that faults and administrators
\* leave alone.
THEOREM UndisturbedCallsSucceed == Spec => []QuietCallSucceeds
<1>1. IInv => QuietCallSucceeds BY DEF IInv
<1> QED BY <1>1, Inductive, PTL

\* An update that nothing disturbs drops no rule it keeps.
THEOREM KeptRulesStay == Spec => []UntouchedRulesStay
<1>1. IInv => UntouchedRulesStay BY DEF IInv
<1> QED BY <1>1, Inductive, PTL

-----------------------------------------------------------------------------
(* A binding that is replaced is never missing.                            *)

LEMMA BindPlaces ==
    ASSUME IInv, call.op = "bind"
    PROVE  /\ pc \in (BindPcs \union {"verify"})
           /\ pc \notin {"idle", "read", "compare", "sequences", "create", "remove", "add", "find", "drop"}
<1>1. pc # "idle" BY NoneCalls DEF IInv
<1>2. BindInv BY <1>1, Kinds DEF IInv
<1> QED BY <1>2 DEF BindInv, BindPcs

\* A write that leaves the interface bound, whether it is lost or not.
LEMMA BindsStill ==
    ASSUME call.op = "bind", bound # None, NEW refused, NEW wanted, NEW next,
           Write(bound' # None, refused, wanted, next)
    PROVE  bound' # None
<1>1. UNCHANGED <<switch, own>> => bound' # None BY DEF switch
<1> QED BY <1>1, Zenon DEF Write, Garble

LEMMA PruneBinds ==
    ASSUME IInv, quiet, NEW phase \in {"prune", "prune again"}, NEW next, Prune(phase, next), call.op = "bind", bound # None
    PROVE  bound' # None
<1>0. pc = phase /\ Binds BY DEF Prune, Binds
<1>1. current.acl = bound BY <1>0 DEF IInv, ActiveInv
<1>2. CASE Goto(next) BY <1>2 DEF Goto, switch
<1>3. CASE UNCHANGED switch BY <1>3 DEF switch
<1>4. ASSUME NEW a \in todo, a # current.acl, Write(DeleteBinding(a), FALSE, [acl |-> current.acl, gone |-> a], phase)
      PROVE  bound' # None
  <2>1. DeleteBinding(a) => bound' # None
    BY <1>1, <1>4 DEF DeleteBinding
  <2>2. Write(bound' # None, FALSE, [acl |-> current.acl, gone |-> a], phase)
    BY <1>4, <2>1, Zenon DEF Write
  <2> QED BY <2>2, BindsStill
<1> QED BY <1>2, <1>3, <1>4 DEF Prune

LEMMA UnbindBinds == ASSUME Unbind, Id # None PROVE bound' = bound
BY DEF Unbind, Unbinds, Goto, switch

LEMMA BindBinds == ASSUME Bind, Id # None, call.op = "bind", bound # None PROVE bound' # None
<1>1. CASE Goto("again") BY <1>1 DEF Goto, switch
<1>2. CASE Write(PatchBinding(Id), FALSE, [acl |-> Id, gone |-> None], "again")
  <2>1. PatchBinding(Id) => bound' # None BY DEF PatchBinding
  <2>2. Write(bound' # None, FALSE, [acl |-> Id, gone |-> None], "again")
    BY <1>2, <2>1, Zenon DEF Write
  <2> QED BY <2>2, BindsStill
<1> QED BY <1>1, <1>2 DEF Bind

LEMMA BindingRequests ==
    ASSUME IInv, Next, call.op = "bind", Id # None, bound # None, quiet'
    PROVE  bound' # None
<1>1. ASSUME NEW c \in Calls, Begin(c) PROVE bound' # None
  BY <1>1, BindPlaces DEF Begin
<1>2. CASE Read \/ Apply \/ CheckSequences \/ Find \/ Drop
  BY <1>2, BindPlaces DEF Read, Apply, Compare, Create, Remove, Add, CheckSequences, Find, Drop
<1>3. CASE AccessGroup
  <2>1. CASE View BY <2>1 DEF View, Refuse, End, switch
  <2>2. CASE Prune("prune", "unbind") \/ Prune("prune again", "settle")
    <3>1. quiet' = quiet
      BY <2>2, Zenon DEF Prune, Goto, Write, Fault, bounds
    <3> QED BY <2>2, <3>1, PruneBinds
  <2>3. CASE Unbind BY <2>3, UnbindBinds
  <2>4. CASE Bind BY <2>4, BindBinds
  <2>5. CASE Again BY <2>5 DEF Again, switch
  <2>6. CASE Settle BY <2>6 DEF Settle, Goto, Failed, End, switch
  <2> QED BY <1>3, <2>1, <2>2, <2>3, <2>4, <2>5, <2>6 DEF AccessGroup
<1>4. CASE Verify BY <1>4 DEF Verify, Failed, End, switch
<1>5. CASE Save \/ ReadFails BY <1>5 DEF Save, ReadFails, End, switch
<1>6. CASE DatabaseSyncs BY <1>6 DEF DatabaseSyncs
<1>7. CASE Outside
  <2>1. quiet' = FALSE BY <1>7 DEF Outside
  <2> QED BY <2>1
<1>8. CASE Done BY <1>8 DEF Done, vars, switch
<1> QED BY <1>1, <1>2, <1>3, <1>4, <1>5, <1>6, <1>7, <1>8 DEF Next, Step

\* Replacing the access list of an interface never leaves it unfiltered, unless
\* someone else removes the binding.
THEOREM ReplacesBound == Spec => NeverUnbound
<1>1. IInv /\ [Next]_vars => [StaysBound]_vars
  <2> SUFFICES ASSUME IInv, Next PROVE StaysBound
    OBVIOUS
  <2> QED BY BindingRequests DEF StaysBound
<1> QED BY <1>1, Inductive, PTL DEF Spec, NeverUnbound

-----------------------------------------------------------------------------
(* Types.                                                                  *)

\* What IInv leaves out: the outcome, and the rules first read.
RestInv == before \in MaybeRules /\ result \in {"none", "done", "refused", "failed"}

LEMMA NextRestInv == ASSUME IInv, RestInv, [Next]_vars PROVE RestInv'
<1>1. ASSUME NEW how \in {"done", "refused", "failed"}, End(how) PROVE RestInv'
  BY <1>1 DEF End, RestInv, MaybeRules
<1>2. ASSUME UNCHANGED <<before, result>> PROVE RestInv'
  BY <1>2 DEF RestInv
<1>4. ASSUME NEW next, Goto(next) PROVE RestInv'
  BY <1>2, <1>4 DEF Goto, local
<1>5. ASSUME Refuse \/ Failed PROVE RestInv'
  BY <1>1, <1>5 DEF Refuse, Failed
<1>6. ASSUME NEW c \in Calls, Begin(c) PROVE RestInv'
  BY <1>6 DEF Begin, local, RestInv
<1>7. CASE Read
  <2>1. pc = "read" /\ before' = native[Id] /\ result' = result BY <1>7 DEF Read
  <2>2. Id \in Names BY <2>1, Kinds DEF IInv, BindInv, BindPcs
  <2> QED BY <2>1, <2>2, RulesAre DEF IInv, RestInv
<1>8. CASE Compare \/ CheckSequences \/ Find BY <1>4, <1>5, <1>8 DEF Compare, CheckSequences, Find
<1>9. CASE Create \/ Drop
  <2>1. CASE Create BY <2>1, <1>2 DEF Create, Write
  <2>2. CASE Drop BY <2>2, <1>2 DEF Drop, Write
  <2> QED BY <1>9, <2>1, <2>2
<1>10. CASE Remove BY <1>2, <1>4, <1>10 DEF Remove, Write
<1>11. CASE Add BY <1>2, <1>4, <1>11 DEF Add, Write
<1>12. CASE AccessGroup
  <2>1. ASSUME NEW phase, NEW next, Prune(phase, next) PROVE RestInv'
    BY <1>2, <1>4, <2>1 DEF Prune, Write
  <2>2. CASE View BY <1>2, <1>5, <2>2 DEF View
  <2>3. CASE Unbind BY <1>2, <1>4, <2>3 DEF Unbind, Write
  <2>4. CASE Bind BY <1>2, <1>4, <2>4 DEF Bind, Write
  <2>5. CASE Again BY <1>2, <2>5 DEF Again
  <2>6. CASE Settle BY <1>4, <1>5, <2>6 DEF Settle
  <2> QED BY <1>12, <2>1, <2>2, <2>3, <2>4, <2>5, <2>6 DEF AccessGroup
<1>13. CASE Verify BY <1>2, <1>5, <1>13 DEF Verify
<1>14. CASE Save BY <1>1, <1>14 DEF Save
<1>15. CASE ReadFails BY <1>1, <1>15 DEF ReadFails
<1>16. CASE DatabaseSyncs \/ Outside BY <1>2, <1>16 DEF DatabaseSyncs, Outside, local
<1>17. CASE Done \/ UNCHANGED vars BY <1>2, <1>17 DEF Done, vars, local
<1> QED BY <1>6, <1>7, <1>8, <1>9, <1>10, <1>11, <1>12, <1>13, <1>14, <1>15, <1>16, <1>17 DEF Next, Step, Apply

\* Every variable keeps its type: no update ever stores a rule twice or leaves
\* a call's record of an access list half made.
THEOREM TypeCorrect == Spec => []TypeOK
<1>1. Init => RestInv BY DEF Init, RestInv, MaybeRules
<1>2. IInv /\ RestInv /\ [Next]_vars => RestInv' BY NextRestInv
<1>3. IInv /\ RestInv => TypeOK
  <2> SUFFICES ASSUME IInv, RestInv PROVE TypeOK
    OBVIOUS
  <2>1. standard \in BOOLEAN /\ writeFailed \in BOOLEAN BY Zenon DEF IInv, BoundInv
  <2>2. call \in Calls \union {NoCall} /\ (call = NoCall <=> pc = "idle")
    <3>1. CASE pc = "idle"
      <4>1. ~ApplyInv BY <3>1 DEF ApplyInv, ApplyPcs
      <4>2. ~DeleteInv BY <3>1 DEF DeleteInv, DeletePcs
      <4>3. ~BindInv BY <3>1 DEF BindInv, BindPcs
      <4> QED BY <3>1, <4>1, <4>2, <4>3 DEF IInv, CallInv
    <3>2. CASE pc # "idle"
      <4>1. call \in ApplyCall \union DeleteCall \union BindCall
        BY <3>2, Kinds DEF IInv, ApplyInv, DeleteInv, BindInv
      <4>2. call.op # "none" BY <4>1 DEF ApplyCall, DeleteCall, BindCall
      <4> QED BY <3>2, <4>1, <4>2 DEF Calls, ApplyCall, DeleteCall, BindCall, Bindings, NoCall
    <3> QED BY <3>1, <3>2
  <2>3. /\ native \in [Names -> RuleSets \union {Absent}] /\ bound \in Names \union {None}
        /\ db \in [Names -> {Absent} \union SUBSET Sequences] /\ keys \subseteq Names /\ todo \subseteq Names
        /\ before \in RuleSets \union {Absent} /\ own \in [Names -> RuleSets \union {Absent, None}]
        /\ result \in {"none", "done", "refused", "failed"}
    <3>1. MaybeRules \union {None} = RuleSets \union {Absent, None} BY DEF MaybeRules
    <3> QED BY <3>1 DEF IInv, SwitchInv, RestInv, MaybeRules, Bindings
  <2> QED BY <2>1, <2>2, <2>3, Zenon DEF TypeOK
<1> QED BY <1>1, <1>2, <1>3, Inductive, PTL DEF Spec
=============================================================================
