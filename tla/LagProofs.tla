------------------------------- MODULE LagProofs -------------------------------
(* What a call reports of an aggregate stands until somebody changes it, for *)
(* any aggregates, ports and names, however RESTCONF's cache behaves.         *)
EXTENDS Lag, TLAPS

-----------------------------------------------------------------------------
(* The inductive invariant.                                                *)

MaybeLags == Lags \union {Absent}

\* A call is where its kind may be, and knows an aggregate where it uses one.
TypeInv ==
    /\ native \in [Ids -> MaybeLags] /\ own \in [Ids -> MaybeLags]
    /\ current \in MaybeLags /\ todo \subseteq Ports
    /\ \/ call = NoCall /\ pc = "idle"
       \/ call \in [op : {"apply"}, id : Ids, lag : Lags] /\ pc \in ApplyLabels \union Ports
       \/ call \in [op : {"delete"}, id : Ids] /\ pc \in DeleteLabels
    /\ pc \in {"prime", "leave"} => current # Absent

\* What stands is not what the call under way is about.
OwnInv ==
    \A i \in Ids : own[i] # Absent => native[i] = own[i] /\ (pc # "idle" => i # call.id)

IInv == TypeInv /\ OwnInv

-----------------------------------------------------------------------------
LEMMA InitIInv == Init => IInv
BY DEF Init, IInv, TypeInv, OwnInv, MaybeLags

\* A call that changes no aggregate but its own breaks no report.
LEMMA OthersStand ==
    ASSUME IInv, call' = call, own' = own, pc # "idle",
           \A i \in Ids : i # Id => native'[i] = native[i]
    PROVE  OwnInv'
BY DEF IInv, OwnInv, Id

\* A call that ends with what it wanted may report it.
LEMMA Reports ==
    ASSUME IInv, pc # "idle", Succeed, call.op = "delete" \/ native[Id] = Wanted
    PROVE  IInv'
<1>1. Id \in Ids /\ (call.op = "apply" => Wanted \in Lags)
  BY LagAssumption DEF IInv, TypeInv, Id, Wanted, ApplyLabels, DeleteLabels
<1>2. native' = native /\ pc' = "idle" /\ call' = NoCall /\ current' = current /\ todo' = todo
  BY DEF Succeed, Failed, Return, switch
<1>3. \/ own' = own
      \/ call.op = "apply" /\ own' = [own EXCEPT ![Id] = Wanted]
  BY DEF Succeed, Failed, Return
<1>4. TypeInv'
  BY <1>1, <1>2, <1>3 DEF IInv, TypeInv, MaybeLags
<1>5. OwnInv'
  BY <1>1, <1>2, <1>3 DEF IInv, TypeInv, OwnInv
<1> QED BY <1>4, <1>5 DEF IInv

LEMMA Fails == ASSUME IInv, Failed PROVE IInv'
BY DEF IInv, TypeInv, OwnInv, Failed, Return, switch

-----------------------------------------------------------------------------
(* Requests change the aggregate of the call, if any.                      *)

Harmless ==
    /\ native' \in [Ids -> MaybeLags]
    /\ \A i \in Ids : i # Id => native'[i] = native[i]

LEMMA Effects ==
    ASSUME IInv, Id \in Ids
    PROVE  /\ UNCHANGED switch => Harmless
           /\ \A lag \in Lags : Create(Id, lag) => Harmless
           /\ \A name \in Names : Rename(Id, name) => Harmless
           /\ \A p \in Ports : Attach(p, Id) => Harmless
           /\ \A p \in Ports : Detach(p, Id) => Harmless
           /\ Destroy(Id) => Harmless
<1> USE DEF IInv, TypeInv, Harmless, switch
<1>1. UNCHANGED switch => Harmless
  OBVIOUS
<1>2. ASSUME NEW lag \in Lags, Create(Id, lag) PROVE Harmless
  <2> USE <1>2
  <2>1. [lag EXCEPT !.members = {}] \in MaybeLags BY DEF Lags, MaybeLags
  <2> QED BY <2>1 DEF Create, Refused
<1>3. ASSUME NEW name \in Names, Rename(Id, name) PROVE Harmless
  <2> USE <1>3
  <2>1. Exists(Id) => [native[Id] EXCEPT !.name = name] \in MaybeLags
    BY DEF Lags, MaybeLags, Exists
  <2>2. CASE Refused BY <2>2 DEF Refused
  <2>3. CASE Exists(Id) /\ native' = [native EXCEPT ![Id] = [native[Id] EXCEPT !.name = name]]
    BY <2>1, <2>3
  <2> QED BY <2>2, <2>3 DEF Rename
<1>4. ASSUME NEW p \in Ports, Attach(p, Id) PROVE Harmless
  <2> USE <1>4
  <2>1. Exists(Id) => [native[Id] EXCEPT !.members = native[Id].members \union {p}] \in MaybeLags
    BY DEF Lags, MaybeLags, Exists
  <2>2. CASE Refused BY <2>2 DEF Refused
  <2>3. CASE /\ Exists(Id)
             /\ native' = [native EXCEPT ![Id] = [native[Id] EXCEPT !.members = native[Id].members \union {p}]]
    BY <2>1, <2>3
  <2> QED BY <2>2, <2>3 DEF Attach
<1>5. ASSUME NEW p \in Ports, Detach(p, Id) PROVE Harmless
  <2> USE <1>5
  <2>1. Exists(Id) => [native[Id] EXCEPT !.members = native[Id].members \ {p}] \in MaybeLags
    BY DEF Lags, MaybeLags, Exists
  <2>2. CASE Refused BY <2>2 DEF Refused
  <2>3. CASE /\ Exists(Id)
             /\ native' = [native EXCEPT ![Id] = [native[Id] EXCEPT !.members = native[Id].members \ {p}]]
    BY <2>1, <2>3
  <2> QED BY <2>2, <2>3 DEF Detach
<1>6. Destroy(Id) => Harmless
  BY DEF Destroy, Refused, MaybeLags
<1> QED BY <1>1, <1>2, <1>3, <1>4, <1>5, <1>6

\* Where the call has the aggregate asked for, it is asked for by name.
LEMMA Asked ==
    ASSUME IInv, pc # "idle"
    PROVE  /\ Id \in Ids /\ call # NoCall
           /\ pc \in ApplyLabels \union Ports => Wanted \in Lags /\ Wanted.name \in Names /\ call.op = "apply"
           /\ pc \in DeleteLabels => call.op = "delete"
BY LagAssumption DEF IInv, TypeInv, Id, Wanted, NoCall, Lags, ApplyLabels, DeleteLabels

\* The members of a known aggregate are ports.
LEMMA Known == IInv /\ current # Absent => current \in Lags /\ current.name \in Names /\ current.members \subseteq Ports
BY DEF IInv, TypeInv, MaybeLags, Lags

\* A step within a call keeps the invariant if it changes no other aggregate
\* and stays where its kind of call may be.
LEMMA Within ==
    ASSUME IInv, pc # "idle", call' = call, own' = own, Harmless,
           pc' # "idle",
           \/ pc \in ApplyLabels \union Ports /\ pc' \in ApplyLabels \union Ports
           \/ pc \in DeleteLabels /\ pc' \in DeleteLabels,
           current' \in MaybeLags, todo' \subseteq Ports,
           pc' \in {"prime", "leave"} => current' # Absent
    PROVE  IInv'
<1>1. TypeInv'
  BY LagAssumption DEF IInv, TypeInv, Harmless, ApplyLabels, DeleteLabels
<1>2. OwnInv'
  BY OthersStand DEF Harmless
<1> QED BY <1>1, <1>2 DEF IInv

-----------------------------------------------------------------------------
(* Every step of applyLAG.                                                 *)

LEMMA ApplyStep == IInv /\ ApplyLag => IInv'
<1> SUFFICES ASSUME IInv, ApplyLag PROVE IInv'
  OBVIOUS
<1> USE DEF Goto, Frame
<1>0. /\ current \in MaybeLags /\ todo \subseteq Ports
      /\ \A i \in Ids : native[i] \in MaybeLags
      /\ UNCHANGED switch => Harmless
  BY DEF IInv, TypeInv, Harmless, switch
<1>1. CASE ReadLags
  <2>1. CASE Failed BY <2>1, Fails
  <2>2. CASE ~Failed
    <3>1. pc' \in {"retained", "ports"} /\ current' = native[Id] /\ todo' = todo /\ pc = "read"
      BY <1>1, <2>2 DEF ReadLags
    <3>2. call' = call /\ own' = own /\ UNCHANGED switch
      BY <1>1, <2>2 DEF ReadLags
    <3> QED BY <1>0, <3>1, <3>2, Asked, Within DEF ApplyLabels
  <2> QED BY <2>1, <2>2
<1>2. CASE Retained
  BY <1>0, <1>2, Fails, Within DEF Retained, ApplyLabels
<1>3. CASE CheckPorts
  <2>1. CASE Failed BY <2>1, Fails
  <2>2. CASE ~Failed
    <3>1. pc' \in {"create", "prime", "leave"} /\ (pc' # "create" => current # Absent) /\ pc = "ports"
      BY <1>3, <2>2 DEF CheckPorts
    <3>2. UNCHANGED <<switch, call, own, current, todo>>
      BY <1>3, <2>2 DEF CheckPorts
    <3> QED BY <1>0, <3>1, <3>2, Within DEF ApplyLabels
  <2> QED BY <2>1, <2>2
<1>4. CASE CreateLag
  <2>1. pc = "create" /\ Wanted \in Lags /\ Id \in Ids BY <1>4, Asked DEF CreateLag, ApplyLabels
  <2>2. Create(Id, Wanted) => Harmless BY <2>1, Effects
  <2>3. Harmless /\ pc' = "named" /\ UNCHANGED <<call, own, current, todo>>
    BY <1>0, <1>4, <2>2 DEF CreateLag, Request
  <2> QED BY <1>0, <2>1, <2>3, Within DEF ApplyLabels
<1>5. CASE Prime
  <2>1. pc = "prime" /\ Id \in Ids /\ current.name \in Names
    BY <1>5, Asked, Known DEF Prime, ApplyLabels, IInv, TypeInv
  <2>2. PrimeName => Harmless BY <2>1, Effects DEF PrimeName
  <2>3. Harmless /\ pc' = "rename" /\ UNCHANGED <<call, own, current, todo>>
    BY <1>0, <1>5, <2>2 DEF Prime, Request
  <2> QED BY <1>0, <2>1, <2>3, Within DEF ApplyLabels
<1>6. CASE RenameLag
  <2>1. pc = "rename" /\ Id \in Ids /\ Wanted.name \in Names
    BY <1>6, Asked DEF RenameLag, ApplyLabels
  <2>2. Rename(Id, Wanted.name) => Harmless BY <2>1, Effects
  <2>3. Harmless /\ pc' = "named" /\ UNCHANGED <<call, own, current, todo>>
    BY <1>0, <1>6, <2>2 DEF RenameLag, Request
  <2> QED BY <1>0, <2>1, <2>3, Within DEF ApplyLabels
<1>7. CASE Named
  <2>1. /\ pc = "named" /\ pc' = "leave" /\ current' = native[Id] /\ current' # Absent
        /\ UNCHANGED <<switch, call, own, todo>>
    BY <1>7 DEF Named, Exists
  <2> QED BY <1>0, <2>1, Asked, Within DEF ApplyLabels
<1>8. CASE Leave
  <2>1. pc = "leave" /\ Foreign \subseteq Ports
    BY <1>8, Known DEF Leave, Foreign, IInv, TypeInv
  <2>2. pc' = "detach" /\ todo' = Foreign /\ UNCHANGED <<switch, call, own, current>>
    BY <1>8 DEF Leave
  <2> QED BY <1>0, <2>1, <2>2, Within DEF ApplyLabels
<1>9. CASE DetachPort
  <2>1. pc = "detach" /\ Id \in Ids /\ Wanted.members \subseteq Ports
    BY <1>9, Asked DEF DetachPort, ApplyLabels, Lags
  <2>2. CASE todo = {} /\ todo' = Wanted.members /\ pc' = "attach" /\ Frame
    BY <1>0, <1>9, <2>1, <2>2, Within DEF DetachPort, ApplyLabels
  <2>3. ASSUME NEW p \in todo, UNCHANGED todo, Request(Detach(p, Id), p) PROVE IInv'
    <3>1. Detach(p, Id) => Harmless BY <1>0, <2>1, <2>3, Effects
    <3>2. Harmless /\ pc' = p /\ UNCHANGED <<call, own, current>>
      BY <1>0, <1>9, <2>3, <3>1 DEF DetachPort, Request
    <3> QED BY <1>0, <2>1, <2>3, <3>2, LagAssumption, Within DEF ApplyLabels
  <2> QED BY <1>9, <2>2, <2>3 DEF DetachPort
<1>10. CASE Detached
  <2>1. pc \in Ports /\ pc' = "detach" /\ todo' \subseteq Ports /\ UNCHANGED <<switch, call, own, current>>
    BY <1>0, <1>10 DEF Detached
  <2> QED BY <1>0, <2>1, LagAssumption, Within DEF ApplyLabels
<1>11. CASE AttachPort
  <2>1. pc = "attach" /\ Id \in Ids
    BY <1>11, Asked DEF AttachPort
  <2>2. CASE todo = {} /\ Goto("final")
    BY <1>0, <2>1, <2>2, Within DEF ApplyLabels
  <2>3. CASE Failed BY <2>3, Fails
  <2>4. ASSUME NEW p \in todo, UNCHANGED current,
               \/ todo' = todo \ {p} /\ pc' = "attach" /\ Frame
               \/ Request(Attach(p, Id), p) /\ UNCHANGED todo
        PROVE  IInv'
    <3>1. CASE todo' = todo \ {p} /\ pc' = "attach" /\ Frame
      BY <1>0, <2>1, <2>4, <3>1, Within DEF ApplyLabels
    <3>2. CASE Request(Attach(p, Id), p) /\ UNCHANGED todo
      <4>1. Attach(p, Id) => Harmless BY <1>0, <2>1, <2>4, Effects
      <4>2. Harmless /\ pc' = p /\ UNCHANGED <<call, own>>
        BY <1>0, <3>2, <4>1 DEF Request
      <4> QED BY <1>0, <2>1, <2>4, <3>2, <4>2, LagAssumption, Within DEF ApplyLabels
    <3> QED BY <2>4, <3>1, <3>2
  <2> QED BY <1>11, <2>2, <2>3, <2>4 DEF AttachPort
<1>12. CASE Attached
  <2>1. pc \in Ports /\ pc' = "attach" /\ todo' \subseteq Ports /\ UNCHANGED <<switch, call, own, current>>
    BY <1>0, <1>12 DEF Attached
  <2> QED BY <1>0, <2>1, LagAssumption, Within DEF ApplyLabels
<1>13. CASE Final
  BY <1>13, Reports DEF Final, Settled
<1> QED
  BY <1>1, <1>2, <1>3, <1>4, <1>5, <1>6, <1>7, <1>8, <1>9, <1>10, <1>11, <1>12, <1>13 DEF ApplyLag

-----------------------------------------------------------------------------
(* Every step of deleteLAG, and everybody else's.                           *)

LEMMA DeleteStep == IInv /\ DeleteLAG => IInv'
<1> SUFFICES ASSUME IInv, DeleteLAG PROVE IInv'
  OBVIOUS
<1> USE DEF Goto, Frame
<1>0. /\ current \in MaybeLags /\ todo \subseteq Ports
      /\ \A i \in Ids : native[i] \in MaybeLags
      /\ UNCHANGED switch => Harmless
  BY DEF IInv, TypeInv, Harmless, switch
<1>1. CASE Find
  <2>1. pc = "find" /\ Id \in Ids /\ call.op = "delete"
    BY <1>1, Asked DEF Find, DeleteLabels
  <2>2. CASE Exists(Id)
    BY <1>0, <1>1, <2>1, <2>2, Within DEF Find, DeleteLabels
  <2>3. CASE ~Exists(Id)
    BY <1>1, <2>1, <2>3, Reports DEF Find
  <2> QED BY <2>2, <2>3
<1>2. CASE CheckChildren
  BY <1>0, <1>2, Fails, Within DEF CheckChildren, DeleteLabels
<1>3. CASE RemoveReference
  <2>1. /\ pc = "reference" /\ pc' = "delete" /\ UNCHANGED <<call, own, current, todo>>
        /\ native' = native
    BY <1>3 DEF RemoveReference, Request, switch
  <2> QED BY <1>0, <2>1, Within DEF DeleteLabels, Harmless, IInv, TypeInv
<1>4. CASE DeleteLag
  <2>1. pc = "delete" /\ Id \in Ids BY <1>4, Asked DEF DeleteLag
  <2>2. CASE Failed BY <2>2, Fails
  <2>3. CASE Request(Destroy(Id), "gone") /\ UNCHANGED <<current, todo>>
    <3>1. Destroy(Id) => Harmless BY <2>1, Effects
    <3>2. Harmless /\ pc' = "gone" /\ UNCHANGED <<call, own, current, todo>>
      BY <1>0, <2>3, <3>1 DEF Request
    <3> QED BY <1>0, <2>1, <3>2, Within DEF DeleteLabels
  <2>4. CASE pc' = "missing" /\ UNCHANGED <<switch, call, current, todo, own, bounds>>
    BY <1>0, <2>1, <2>4, Within DEF DeleteLabels
  <2> QED BY <1>4, <2>2, <2>3, <2>4 DEF DeleteLag
<1>5. CASE Missing
  BY <1>0, <1>5, Fails, Within DEF Missing, DeleteLabels
<1>6. CASE Gone
  BY <1>6, Asked, Reports DEF Gone, DeleteLabels
<1> QED
  BY <1>1, <1>2, <1>3, <1>4, <1>5, <1>6 DEF DeleteLAG

LEMMA BeginStep == ASSUME IInv, NEW c \in Calls, Begin(c) PROVE IInv'
<1> USE DEF Begin
<1>1. /\ native' = native /\ current' = Absent /\ todo' = {} /\ call' = c /\ c.id \in Ids
      /\ own' = [own EXCEPT ![c.id] = Absent]
      /\ \/ c \in [op : {"apply"}, id : Ids, lag : Lags] /\ pc' = "read"
         \/ c \in [op : {"delete"}, id : Ids] /\ pc' = "find"
  BY DEF Calls
<1>2. TypeInv'
  BY <1>1 DEF IInv, TypeInv, MaybeLags, ApplyLabels, DeleteLabels
<1>3. OwnInv'
  BY <1>1 DEF IInv, TypeInv, OwnInv
<1> QED BY <1>2, <1>3 DEF IInv

LEMMA ReadFailsStep == IInv /\ ReadFails => IInv'
BY DEF IInv, TypeInv, OwnInv, ReadFails, Fault, switch

LEMMA SyncStep == IInv /\ CacheSyncs => IInv'
BY DEF IInv, TypeInv, OwnInv, CacheSyncs

\* What others change is no longer the caller's.
LEMMA OutsideStep == IInv /\ Outside => IInv'
<1> SUFFICES ASSUME IInv, Outside PROVE IInv'
  OBVIOUS
<1>1. /\ UNCHANGED <<call, pc, current, todo>>
      /\ \/ UNCHANGED <<native, own>>
         \/ \E i \in Ids, lag \in MaybeLags :
               native' = [native EXCEPT ![i] = lag] /\ own' = [own EXCEPT ![i] = Absent]
  BY DEF Outside, MaybeLags
<1>2. TypeInv'
  BY <1>1 DEF IInv, TypeInv, MaybeLags
<1>3. OwnInv'
  BY <1>1 DEF IInv, TypeInv, OwnInv
<1> QED BY <1>2, <1>3 DEF IInv

LEMMA StutterStep == IInv /\ UNCHANGED vars => IInv'
BY DEF IInv, vars, switch, TypeInv, OwnInv

-----------------------------------------------------------------------------
\* The invariant is inductive, whatever others and the cache do.
THEOREM Inductive == Spec => []IInv
<1>1. IInv /\ [Next]_vars => IInv'
  BY ApplyStep, DeleteStep, BeginStep, ReadFailsStep, SyncStep, OutsideStep, StutterStep DEF Next, Done
<1> QED BY InitIInv, <1>1, PTL DEF Spec

\* An aggregate a call reported is exactly as reported, for any numbers of
\* calls, aggregates, ports, faults and changes by others, until somebody
\* changes it or the next call on it begins.
THEOREM Stands == Spec => []ReportedStands
<1>1. IInv => ReportedStands
  BY DEF IInv, OwnInv, ReportedStands
<1> QED BY Inductive, <1>1, PTL

-----------------------------------------------------------------------------
(* Guards and requests of an undisturbed call.                             *)

\* While nobody else acts, an aggregate found to have nothing of its own that
\* deleting it would erase keeps having nothing.  The test for VLANs takes the
\* default VLAN to be 1.
GuardInv ==
    /\ access \in [Ids \union Ports -> AccessVlans]
    /\ Default = 1 /\ quiet /\ pc \in {"reference", "delete"} => access[Id] = Default /\ Id \notin policies

\* Without faults either, RESTCONF's cache is what the next request needs.
MaskInv ==
    /\ cached \in [Ids -> Names \union {Absent}]
    /\ quiet /\ faultless =>
        /\ pc \notin {"idle", "missing", "gone"} => ~writeFailed
        /\ pc = "retained" => current = Absent /\ ~Exists(Id)
        /\ pc \in {"ports", "create"} /\ current = Absent => ~Exists(Id) /\ cached[Id] = Absent
        /\ pc = "create" => current = Absent
        /\ pc \in {"ports", "prime"} /\ current # Absent => Exists(Id)
        /\ pc = "prime" => current.name # Wanted.name
        /\ pc = "rename" => Exists(Id) /\ cached[Id] # Wanted.name
        /\ pc = "named" => NamedAsWanted
        /\ pc = "delete" => ~reference

\* The labels of a call that the two speak of.
Watched == {"retained", "ports", "create", "prime", "rename", "named", "reference", "delete"}

LEMMA InitGuards == Init => GuardInv /\ MaskInv
<1> SUFFICES ASSUME Init PROVE GuardInv /\ MaskInv
  OBVIOUS
<1>1. PICK p \in Ports, v \in AccessVlans :
          access = [[x \in Ids \union Ports |-> Default] EXCEPT ![p] = v]
  BY DEF Init
<1>2. access \in [Ids \union Ports -> AccessVlans]
  BY <1>1 DEF AccessVlans
<1> QED BY <1>2 DEF Init, GuardInv, MaskInv

\* Nothing is promised of a call that ends, or that none of the labels waits for.
LEMMA Elsewhere ==
    ASSUME GuardInv, MaskInv, pc' \notin Watched, access' = access,
           cached' \in [Ids -> Names \union {Absent}],
           quiet' /\ faultless' /\ pc' \notin {"idle", "missing", "gone"} => ~writeFailed'
    PROVE  GuardInv' /\ MaskInv'
BY DEF GuardInv, MaskInv, Watched

LEMMA Ends ==
    ASSUME GuardInv, MaskInv, pc' = "idle", access' = access, cached' = cached
    PROVE  GuardInv' /\ MaskInv'
BY Elsewhere DEF Watched, MaskInv

\* Labels are not ports.
LEMMA Labels == \A p \in Ports : p \notin Watched \union {"idle", "missing", "gone", "leave"}
BY LagAssumption DEF Watched, ApplyLabels, DeleteLabels

\* The cache of an aggregate after a request.
LEMMA CacheIs ==
    ASSUME IInv, MaskInv, Id \in Ids
    PROVE  /\ UNCHANGED switch => cached' \in [Ids -> Names \union {Absent}] /\ access' = access
           /\ \A lag \in Lags : Create(Id, lag) => cached' \in [Ids -> Names \union {Absent}] /\ access' = access
           /\ \A n \in Names : Rename(Id, n) => cached' \in [Ids -> Names \union {Absent}] /\ access' = access
           /\ \A p \in Ports : Attach(p, Id) => cached' = cached /\ access' = access
           /\ \A p \in Ports : Detach(p, Id) => cached' = cached /\ access' = access
           /\ Destroy(Id) => cached' \in [Ids -> Names \union {Absent}]
<1>1. UNCHANGED switch => cached' = cached /\ access' = access
  BY DEF switch
<1> USE DEF MaskInv, Refused
<1>2. ASSUME NEW lag \in Lags, Create(Id, lag)
      PROVE  cached' \in [Ids -> Names \union {Absent}] /\ access' = access
  BY <1>1, <1>2 DEF Create, Lags
<1>3. ASSUME NEW n \in Names, Rename(Id, n)
      PROVE  cached' \in [Ids -> Names \union {Absent}] /\ access' = access
  BY <1>1, <1>3 DEF Rename
<1>4. ASSUME NEW p \in Ports, Attach(p, Id) PROVE cached' = cached /\ access' = access
  BY <1>1, <1>4 DEF Attach
<1>5. ASSUME NEW p \in Ports, Detach(p, Id) PROVE cached' = cached /\ access' = access
  BY <1>1, <1>5 DEF Detach
<1>6. Destroy(Id) => cached' \in [Ids -> Names \union {Absent}]
  BY <1>1 DEF Destroy
<1> QED BY <1>1, <1>2, <1>3, <1>4, <1>5, <1>6

LEMMA CreateGuards ==
    ASSUME IInv, GuardInv, MaskInv, CreateLag
    PROVE  GuardInv' /\ MaskInv'
<1>1. pc = "create" /\ Id \in Ids /\ Wanted \in Lags /\ call' = call /\ pc' = "named"
  BY Asked DEF CreateLag, Request, ApplyLabels
<1>2. UNCHANGED switch \/ Create(Id, Wanted)
  BY DEF CreateLag, Request
<1>3. cached' \in [Ids -> Names \union {Absent}] /\ access' = access
  BY <1>1, <1>2, CacheIs
<1>4. ASSUME quiet', faultless' PROVE ~writeFailed' /\ NamedAsWanted'
  <2>1. quiet /\ faultless /\ UNCHANGED bounds
    BY <1>4 DEF CreateLag, Request, Fault, bounds
  <2>2. ~writeFailed /\ ~Exists(Id) /\ cached[Id] = Absent
    BY <1>1, <2>1 DEF MaskInv
  <2>3. Create(Id, Wanted) /\ ~writeFailed'
    BY <1>4, <2>2 DEF CreateLag, Request, Fault
  <2>4. native' = [native EXCEPT ![Id] = [Wanted EXCEPT !.members = {}]]
    BY <2>2, <2>3 DEF Create
  <2>5. native \in [Ids -> MaybeLags] /\ Id' = Id /\ Wanted' = Wanted
    BY <1>1 DEF IInv, TypeInv, Id, Wanted
  <2>6. native'[Id] = [Wanted EXCEPT !.members = {}]
    BY <1>1, <2>4, <2>5
  <2>7. native'[Id].name = Wanted.name /\ native'[Id] \in Lags
    BY <1>1, <2>6 DEF Lags
  <2>8. native'[Id] # Absent
    BY <2>7, LagAssumption DEF Lags
  <2> QED BY <2>3, <2>5, <2>7, <2>8 DEF NamedAsWanted, Exists
<1> QED BY <1>1, <1>3, <1>4 DEF GuardInv, MaskInv

LEMMA PrimeGuards ==
    ASSUME IInv, GuardInv, MaskInv, Prime
    PROVE  GuardInv' /\ MaskInv'
<1>1. pc = "prime" /\ Id \in Ids /\ current.name \in Names /\ call' = call /\ pc' = "rename"
      /\ current # Absent
  BY Asked, Known DEF Prime, Request, ApplyLabels, IInv, TypeInv
<1>2. UNCHANGED switch \/ Rename(Id, current.name)
  BY DEF Prime, Request, PrimeName
<1>3. cached' \in [Ids -> Names \union {Absent}] /\ access' = access
  BY <1>1, <1>2, CacheIs
<1>4. ASSUME quiet', faultless' PROVE ~writeFailed' /\ Exists(Id)' /\ cached'[Id'] # Wanted'.name
  <2>1. quiet /\ faultless /\ UNCHANGED bounds
    BY <1>4 DEF Prime, Request, Fault, bounds
  <2>2. ~writeFailed /\ Exists(Id) /\ current.name # Wanted.name
    BY <1>1, <2>1 DEF MaskInv
  <2>3. Rename(Id, current.name) /\ ~writeFailed'
    BY <1>4, <2>2 DEF Prime, Request, Fault, PrimeName
  <2>4. Id' = Id /\ Wanted' = Wanted /\ native \in [Ids -> MaybeLags] /\ DOMAIN cached = Ids
    BY <1>1 DEF IInv, TypeInv, Id, Wanted, MaskInv
  <2>5. CASE cached[Id] = current.name
    BY <2>2, <2>3, <2>4, <2>5 DEF Rename, Refused, switch, Exists
  <2>6. CASE cached[Id] # current.name
    <3>1. /\ native' = [native EXCEPT ![Id] = [native[Id] EXCEPT !.name = current.name]]
          /\ cached' = [cached EXCEPT ![Id] = current.name]
      BY <2>2, <2>3, <2>6 DEF Rename
    <3>2. cached'[Id] = current.name
      BY <1>1, <2>4, <3>1
    <3>3. native[Id] \in Lags
      BY <1>1, <2>2, <2>4 DEF Exists, MaybeLags
    <3>4. native'[Id] \in Lags
      BY <1>1, <2>4, <3>1, <3>3 DEF Lags
    <3> QED BY <2>2, <2>3, <2>4, <3>2, <3>4, LagAssumption DEF Exists, Lags
  <2> QED BY <2>5, <2>6
<1> QED BY <1>1, <1>3, <1>4 DEF GuardInv, MaskInv

LEMMA RenameGuards ==
    ASSUME IInv, GuardInv, MaskInv, RenameLag
    PROVE  GuardInv' /\ MaskInv'
<1>1. pc = "rename" /\ Id \in Ids /\ Wanted.name \in Names /\ call' = call /\ pc' = "named"
  BY Asked DEF RenameLag, Request, ApplyLabels
<1>2. UNCHANGED switch \/ Rename(Id, Wanted.name)
  BY DEF RenameLag, Request
<1>3. cached' \in [Ids -> Names \union {Absent}] /\ access' = access
  BY <1>1, <1>2, CacheIs
<1>4. ASSUME quiet', faultless' PROVE ~writeFailed' /\ NamedAsWanted'
  <2>1. quiet /\ faultless /\ UNCHANGED bounds
    BY <1>4 DEF RenameLag, Request, Fault, bounds
  <2>2. ~writeFailed /\ Exists(Id) /\ cached[Id] # Wanted.name
    BY <1>1, <2>1 DEF MaskInv
  <2>3. Rename(Id, Wanted.name) /\ ~writeFailed'
    BY <1>4, <2>2 DEF RenameLag, Request, Fault
  <2>4. native' = [native EXCEPT ![Id] = [native[Id] EXCEPT !.name = Wanted.name]]
    BY <2>2, <2>3 DEF Rename
  <2>5. Id' = Id /\ Wanted' = Wanted /\ native \in [Ids -> MaybeLags]
    BY <1>1 DEF IInv, TypeInv, Id, Wanted
  <2>6. native[Id] \in Lags
    BY <1>1, <2>2, <2>5 DEF Exists, MaybeLags
  <2>7. native'[Id] \in Lags /\ native'[Id].name = Wanted.name
    BY <1>1, <2>4, <2>5, <2>6 DEF Lags
  <2> QED BY <2>3, <2>5, <2>7, LagAssumption DEF NamedAsWanted, Exists, Lags
<1> QED BY <1>1, <1>3, <1>4 DEF GuardInv, MaskInv

LEMMA ApplyGuards == IInv /\ GuardInv /\ MaskInv /\ ApplyLag => GuardInv' /\ MaskInv'
<1> SUFFICES ASSUME IInv, GuardInv, MaskInv, ApplyLag PROVE GuardInv' /\ MaskInv'
  OBVIOUS
<1>0. UNCHANGED switch => access' = access /\ cached' = cached /\ native' = native
  BY DEF switch
<1>1. CASE ReadLags
  <2>1. CASE Failed BY <1>0, <2>1, Ends DEF Failed, Return
  <2>2. CASE ~Failed
    <3>1. /\ pc = "read" /\ current' = native[Id] /\ pc' = (IF Exists(Id) THEN "ports" ELSE "retained")
          /\ UNCHANGED <<switch, call, writeFailed, quiet, faultless>>
      BY <1>1, <2>2 DEF ReadLags, Frame, bounds
    <3> QED BY <1>0, <3>1 DEF GuardInv, MaskInv, Exists, Id
  <2> QED BY <2>1, <2>2
<1>2. CASE Retained
  <2>1. CASE Failed BY <1>0, <2>1, Ends DEF Failed, Return
  <2>2. CASE ~Failed
    <3>1. /\ pc = "retained" /\ cached[Id] = Absent /\ pc' = "ports"
          /\ UNCHANGED <<switch, call, writeFailed, quiet, faultless, current>>
      BY <1>2, <2>2 DEF Retained, Goto, Frame, bounds
    <3> QED BY <1>0, <3>1 DEF GuardInv, MaskInv, Exists, Id
  <2> QED BY <2>1, <2>2
<1>3. CASE CheckPorts
  <2>1. CASE Failed BY <1>0, <2>1, Ends DEF Failed, Return
  <2>2. CASE ~Failed
    <3>1. /\ pc = "ports"
          /\ pc' = (IF current = Absent THEN "create"
                    ELSE IF current.name # Wanted.name THEN "prime" ELSE "leave")
          /\ UNCHANGED <<switch, call, writeFailed, quiet, faultless, current>>
      BY <1>3, <2>2 DEF CheckPorts, Goto, Frame, bounds
    <3> QED BY <1>0, <3>1 DEF GuardInv, MaskInv, Exists, Id, Wanted
  <2> QED BY <2>1, <2>2
<1>4. CASE CreateLag \/ Prime \/ RenameLag
  BY <1>4, CreateGuards, PrimeGuards, RenameGuards
<1>5. CASE Named \/ Leave
  <2>1. pc \in {"named", "leave"} /\ pc' \in {"leave", "detach"}
        /\ UNCHANGED <<switch, writeFailed, quiet, faultless>>
    BY <1>5 DEF Named, Leave, Frame, bounds
  <2> QED BY <1>0, <2>1, Elsewhere DEF MaskInv, Watched
<1>6. CASE DetachPort \/ Detached \/ AttachPort \/ Attached \/ Final
  <2>0. todo \subseteq Ports /\ Id \in Ids /\ pc \notin {"idle", "missing", "gone"}
    <3>1. todo \subseteq Ports
      BY DEF IInv, TypeInv
    <3>2. pc \in ApplyLabels \union Ports
      BY <1>6, <3>1 DEF DetachPort, Detached, AttachPort, Attached, Final, ApplyLabels
    <3> QED BY <3>1, <3>2, LagAssumption, Asked DEF ApplyLabels, DeleteLabels
  <2>1. CASE Failed \/ Succeed
    BY <1>0, <2>1, Ends DEF Failed, Succeed, Return
  <2>2. CASE pc' \in {"detach", "attach", "final"} /\ Frame
    BY <1>0, <2>0, <2>2, Elsewhere DEF MaskInv, Watched, Frame, bounds
  <2>3. ASSUME NEW p \in todo, Request(Detach(p, Id), p) \/ Request(Attach(p, Id), p)
        PROVE  GuardInv' /\ MaskInv'
    <3>1. pc' = p /\ p \in Ports
      BY <2>0, <2>3 DEF Request
    <3>2. UNCHANGED switch \/ Detach(p, Id) \/ Attach(p, Id)
      BY <2>3 DEF Request
    <3>3. access' = access /\ cached' = cached
      BY <1>0, <2>0, <3>1, <3>2, CacheIs
    <3>4. quiet' /\ faultless' => ~writeFailed'
      <4>1. quiet /\ faultless => ~writeFailed
        BY <2>0 DEF MaskInv
      <4>2. quiet' /\ faultless' => quiet /\ faultless
        BY <2>3 DEF Request, Fault, bounds
      <4>3. writeFailed' = writeFailed \/ ~faultless'
        BY <2>3 DEF Request, Fault
      <4> QED BY <4>1, <4>2, <4>3
    <3> QED BY <3>1, <3>3, <3>4, Labels, Elsewhere DEF MaskInv
  <2>4. \/ Failed \/ Succeed
        \/ pc' \in {"detach", "attach", "final"} /\ Frame
        \/ \E p \in todo : Request(Detach(p, Id), p) \/ Request(Attach(p, Id), p)
    BY <1>6, Zenon DEF DetachPort, Detached, AttachPort, Attached, Final, Goto
  <2> QED BY <2>1, <2>2, <2>3, <2>4
<1> QED BY <1>1, <1>2, <1>3, <1>4, <1>5, <1>6 DEF ApplyLag

LEMMA DeleteGuards == IInv /\ GuardInv /\ MaskInv /\ DeleteLAG => GuardInv' /\ MaskInv'
<1> SUFFICES ASSUME IInv, GuardInv, MaskInv, DeleteLAG PROVE GuardInv' /\ MaskInv'
  OBVIOUS
<1>0. UNCHANGED switch =>
          /\ access' = access /\ cached' = cached /\ policies' = policies /\ reference' = reference
  BY DEF switch
<1>1. CASE Failed \/ Succeed
  BY <1>0, <1>1, Ends DEF Failed, Succeed, Return
<1>2. CASE Find /\ ~(Failed \/ Succeed)
  <2>1. pc = "find" /\ pc' = "children" /\ UNCHANGED <<switch, writeFailed, quiet, faultless>>
    BY <1>2 DEF Find, Frame, bounds
  <2> QED BY <1>0, <2>1, Elsewhere DEF MaskInv, Watched
<1>3. CASE CheckChildren /\ ~(Failed \/ Succeed)
  <2>1. /\ pc = "children" /\ pc' = "reference" /\ ~Children
        /\ UNCHANGED <<switch, call, writeFailed, quiet, faultless>>
    BY <1>3 DEF CheckChildren, Goto, Frame, bounds
  <2>2. Id \in Ids /\ Id' = Id
    BY <2>1, Asked DEF Id
  <2>3. access[Id] \in {Default, 1, 2} /\ ~(access[Id] > 1) /\ Id \notin policies
    BY <2>1, <2>2 DEF Children, HasChildren, HasVlans, GuardInv, AccessVlans
  <2>4. Default = 1 => access[Id] = Default
    BY <2>3
  <2> QED BY <1>0, <2>1, <2>2, <2>3, <2>4 DEF GuardInv, MaskInv
<1>4. CASE RemoveReference
  <2>1. /\ pc = "reference" /\ pc' = "delete" /\ call' = call
        /\ access' = access /\ cached' = cached /\ policies' = policies
    BY <1>0, <1>4 DEF RemoveReference, Request
  <2>2. (quiet' => quiet) /\ (faultless' => faultless)
    BY <1>4 DEF RemoveReference, Request, Fault, bounds
  <2>3. ASSUME quiet', faultless' PROVE ~writeFailed' /\ ~reference'
    <3>1. quiet /\ faultless /\ ~writeFailed
      BY <2>1, <2>2, <2>3 DEF MaskInv
    <3>2. \/ reference' = FALSE /\ writeFailed' = writeFailed
          \/ faultless' = FALSE
      BY <1>4, <3>1, Zenon DEF RemoveReference, Request, Fault
    <3> QED BY <2>3, <3>1, <3>2
  <2> QED BY <2>1, <2>2, <2>3 DEF GuardInv, MaskInv, Id
<1>5. CASE DeleteLag /\ ~(Failed \/ Succeed)
  <2>1. pc = "delete" /\ pc' \in {"gone", "missing"}
    BY <1>5 DEF DeleteLag, Request
  <2>2. Id \in Ids
    BY <2>1, Asked
  <2>3. UNCHANGED switch \/ Destroy(Id)
    BY <1>5 DEF DeleteLag, Request
  <2>4. cached' \in [Ids -> Names \union {Absent}]
    BY <1>0, <2>2, <2>3, CacheIs
  <2>5. access' \in [Ids \union Ports -> AccessVlans]
    BY <1>0, <2>2, <2>3 DEF Destroy, Refused, GuardInv, AccessVlans
  <2> QED BY <2>1, <2>4, <2>5 DEF GuardInv, MaskInv
<1>6. CASE Missing /\ ~(Failed \/ Succeed)
  <2>1. pc = "missing" /\ pc' = "gone" /\ UNCHANGED switch
    BY <1>6 DEF Missing, Goto, Frame
  <2> QED BY <1>0, <2>1, Elsewhere DEF MaskInv, Watched
<1> QED BY <1>1, <1>2, <1>3, <1>4, <1>5, <1>6 DEF DeleteLAG, Gone

LEMMA OtherGuards ==
    ASSUME IInv, GuardInv, MaskInv,
           \/ \E c \in Calls : Begin(c)
           \/ ReadFails \/ CacheSyncs \/ Outside \/ UNCHANGED vars
    PROVE  GuardInv' /\ MaskInv'
<1>1. CASE \E c \in Calls : Begin(c)
  BY <1>1 DEF Begin, GuardInv, MaskInv
<1>2. CASE ReadFails
  BY <1>2, Ends DEF ReadFails, switch
<1>3. CASE CacheSyncs
  <2>1. /\ pc' = pc /\ pc \notin {"rename", "delete"}
        /\ UNCHANGED <<native, access, policies, call, current, writeFailed, quiet, faultless>>
    BY <1>3 DEF CacheSyncs, bounds
  <2>2. \/ cached' = cached
        \/ \E i \in Ids : cached' = [cached EXCEPT ![i] = IF Exists(i) THEN native[i].name ELSE Absent]
    BY <1>3 DEF CacheSyncs
  <2>3. \A i \in Ids : Exists(i) => native[i].name \in Names
    BY DEF IInv, TypeInv, MaybeLags, Lags, Exists
  <2>4. cached' \in [Ids -> Names \union {Absent}]
    BY <2>2, <2>3 DEF MaskInv
  <2>5. Id \in Ids /\ ~Exists(Id) /\ cached[Id] = Absent => cached'[Id] = Absent
    BY <2>2 DEF MaskInv
  <2>6. pc # "idle" => Id \in Ids
    BY Asked
  <2> QED BY <2>1, <2>4, <2>5, <2>6 DEF GuardInv, MaskInv, Exists, Id, Wanted, NamedAsWanted
<1>4. CASE Outside
  <2>1. quiet' = FALSE /\ cached' = cached
    BY <1>4 DEF Outside
  <2>2. access' \in [Ids \union Ports -> AccessVlans]
    <3>1. \/ access' = access
          \/ \E i \in Ids, v \in AccessVlans : access' = [access EXCEPT ![i] = v]
      BY <1>4 DEF Outside, AccessVlans
    <3> QED BY <3>1 DEF GuardInv
  <2> QED BY <2>1, <2>2 DEF GuardInv, MaskInv
<1>5. CASE UNCHANGED vars
  <2>1. /\ pc' = pc /\ UNCHANGED <<native, access, policies, cached, reference, call, current,
                                   writeFailed, quiet, faultless>>
    BY <1>5 DEF vars, switch, bounds
  <2> QED BY <2>1 DEF GuardInv, MaskInv, Exists, Id, Wanted, NamedAsWanted
<1> QED BY <1>1, <1>2, <1>3, <1>4, <1>5

LEMMA GuardsKept == IInv /\ GuardInv /\ MaskInv /\ [Next]_vars => GuardInv' /\ MaskInv'
BY ApplyGuards, DeleteGuards, OtherGuards DEF Next, Done

\* Only the aggregate goes, and it had nothing of its own to erase.
LEMMA NextErasesNothing == IInv /\ GuardInv /\ [Next]_vars /\ Default = 1 => ErasesNothing
<1> SUFFICES ASSUME IInv, GuardInv, [Next]_vars, Default = 1, pc = "delete", quiet'
             PROVE  access' = access /\ policies' = policies
  BY DEF ErasesNothing
<1>1. CASE ReadFails \/ CacheSyncs \/ UNCHANGED vars
  BY <1>1 DEF ReadFails, CacheSyncs, vars, switch
<1>2. CASE DeleteLag
  <2>1. quiet
    BY <1>2 DEF DeleteLag, Request, Failed, Return, Fault, bounds
  <2>2. Id \in Ids /\ access[Id] = Default /\ Id \notin policies
    BY <2>1, Asked DEF GuardInv
  <2>3. UNCHANGED switch \/ Destroy(Id)
    BY <1>2 DEF DeleteLag, Request, Failed, Return
  <2> QED BY <2>2, <2>3 DEF Destroy, Refused, switch, GuardInv
<1>3. ~(\E c \in Calls : Begin(c)) /\ ~Outside /\ ~Done
  BY DEF Begin, Outside, Done
<1>4. ~ApplyLag
  <2>1. todo \subseteq Ports
    BY DEF IInv, TypeInv
  <2>2. pc \notin todo
    BY <2>1, Labels DEF Watched
  <2> QED BY <2>2 DEF ApplyLag, ReadLags, Retained, CheckPorts, CreateLag, Prime, RenameLag, Named,
             Leave, DetachPort, Detached, AttachPort, Attached, Final
<1>5. DeleteLAG => DeleteLag
  BY DEF DeleteLAG, Find, CheckChildren, RemoveReference, Missing, Gone
<1> QED BY <1>1, <1>2, <1>3, <1>4, <1>5 DEF Next

LEMMA NextUnmasked ==
    IInv /\ GuardInv /\ MaskInv /\ [Next]_vars /\ MaskInv' => Unmasked
<1> SUFFICES ASSUME IInv, MaskInv, [Next]_vars, MaskInv', quiet', faultless'
             PROVE  /\ pc' = "named" => NamedAsWanted'
                    /\ pc = "delete" /\ pc' = "missing" => cached[Id] = Absent
  BY DEF Unmasked
<1>1. pc' = "named" => NamedAsWanted'
  BY DEF MaskInv
<1>2. ASSUME pc = "delete", pc' = "missing" PROVE cached[Id] = Absent
  <2>1. ~ApplyLag
    <3>1. todo \subseteq Ports
      BY DEF IInv, TypeInv
    <3>2. pc \notin todo
      BY <1>2, <3>1, Labels DEF Watched
    <3> QED BY <1>2, <3>2 DEF ApplyLag, ReadLags, Retained, CheckPorts, CreateLag, Prime, RenameLag,
               Named, Leave, DetachPort, Detached, AttachPort, Attached, Final
  <2>2. DeleteLag
    BY <1>2, <2>1 DEF Next, Begin, ReadFails, CacheSyncs, Outside, Done, vars,
       DeleteLAG, Find, CheckChildren, RemoveReference, Missing, Gone
  <2>3. ~Deletable /\ UNCHANGED bounds
    BY <1>2, <2>2 DEF DeleteLag, Failed, Return, Request
  <2>4. quiet /\ faultless
    BY <2>3 DEF bounds
  <2> QED BY <1>2, <2>3, <2>4 DEF MaskInv, Deletable
<1> QED BY <1>1, <1>2

\* What undisturbed calls rely on holds throughout.
THEOREM GuardsHold == Spec => [](GuardInv /\ MaskInv)
<1> QED BY Inductive, InitGuards, GuardsKept, PTL DEF Spec

\* With the default VLAN at 1, where switches have it unless told otherwise,
\* deleting an aggregate erases no VLAN membership and no policy, whatever
\* faults there are and however stale the cache is, unless somebody adds one
\* after the check (deleteLAG, CheckLAGRemoval).
THEOREM NothingIsErased ==
    ASSUME Default = 1
    PROVE  Spec => DeletionIsGuarded
<1>1. IInv /\ GuardInv /\ MaskInv /\ [Next]_vars => ErasesNothing
  BY NextErasesNothing
<1> QED BY <1>1, Inductive, GuardsHold, PTL DEF Spec, DeletionIsGuarded

\* Undisturbed, an aggregate that was created or renamed has the wanted name
\* whatever RESTCONF's cache held, and a deletion is answered with 404 only
\* for an aggregate the cache does not hold (applyLAG, deleteLAG).
THEOREM RequestsReach == Spec => NothingMasksRequests
<1>1. IInv /\ GuardInv /\ MaskInv /\ [Next]_vars /\ MaskInv' => Unmasked
  BY NextUnmasked
<1> QED BY <1>1, Inductive, GuardsHold, PTL DEF Spec, NothingMasksRequests
=============================================================================
