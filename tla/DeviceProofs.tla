---------------------------- MODULE DeviceProofs ----------------------------
(* Proofs about Device, for any number of calls, devices, hosts, endpoints *)
(* and settings: its gates, what success and failure mean, and that it     *)
(* implements SerialWorkflows.                                             *)
EXTENDS DeviceInductive, TLAPS

-----------------------------------------------------------------------------
(* Types.                                                                  *)

CallTypeOK ==
    /\ pc \in [Ops -> Pcs]
    /\ cancelled \subseteq Ops /\ session \subseteq Ops /\ writeFailed \subseteq Ops
    /\ hostGate \subseteq Hosts
    /\ discoveryGate \subseteq Devices
    /\ sshGate \subseteq Endpoints
    /\ written \in [Ops -> SUBSET Settings]
    /\ snapshot \in [Ops -> [Settings -> Values]]

\* The empty configuration is a configuration.
LEMMA BlankType == Blank \in [Settings -> Values]
  BY DEF Blank, Values

\* Leaving a call keeps the types of everything a call owns.
LEMMA FinishType ==
  ASSUME TypeOK, NEW o \in Ops, NEW r \in Final, Finish(o, r)
  PROVE  CallTypeOK'
<1> USE DEF TypeOK, Finish
<1>1. pc' \in [Ops -> Pcs]
  BY DEF Goto, Pcs
<1>2. session' \subseteq Ops /\ sshGate' \subseteq Endpoints
  BY DEF CloseSession
<1>3. hostGate' \subseteq Hosts /\ discoveryGate' \subseteq Devices
  BY DEF Unlock, LeaveDiscovery
<1>4. snapshot' \in [Ops -> [Settings -> Values]]
  BY BlankType
<1>5. cancelled' \subseteq Ops /\ writeFailed' \subseteq Ops /\ written' \in [Ops -> SUBSET Settings]
  OBVIOUS
<1> QED
  BY <1>1, <1>2, <1>3, <1>4, <1>5 DEF CallTypeOK

\* So does the end of a discovery.
LEMMA DiscoveredType ==
  ASSUME TypeOK, NEW o \in Ops, Discovered(o)
  PROVE  CallTypeOK'
<1>1. CASE KindOf[o] = "discover"
  BY <1>1, FinishType DEF Discovered, Final
<1>2. CASE KindOf[o] # "discover"
  BY <1>2 DEF Discovered, TypeOK, CallTypeOK, Goto, CloseSession, LeaveDiscovery, frame,
              Pcs, LockedPcs, SessionPcs
<1> QED
  BY <1>1, <1>2

\* So does a failed session.
LEMMA SessionErrorType ==
  ASSUME TypeOK, NEW o \in Ops, SessionError(o)
  PROVE  CallTypeOK'
<1>1. CASE KindOf[o] = "update" /\ pc[o] = "observe"
  BY <1>1, BlankType DEF SessionError, TypeOK, CallTypeOK, Goto, CloseSession,
                         Pcs, LockedPcs, SessionPcs
<1>2. CASE ~(KindOf[o] = "update" /\ pc[o] = "observe")
  BY <1>2, FinishType DEF SessionError, Final
<1> QED
  BY <1>1, <1>2

\* A configuration that takes one more value is a configuration.
LEMMA SetType ==
  ASSUME NEW c \in [Hosts -> [Settings -> Values]],
         NEW h \in Hosts, NEW s \in Settings, NEW v \in Values
  PROVE  [c EXCEPT ![h][s] = v] \in [Hosts -> [Settings -> Values]]
  OBVIOUS

\* The effect of a request on the switch keeps its types.
LEMMA EffectType ==
  ASSUME TypeOK, NEW o \in Ops, NEW s \in Settings, Effect(o, s)
  PROVE  running' \in [Hosts -> [Settings -> Values]] /\ late' \subseteq Ops \X Settings
<1>1. [running EXCEPT ![Host(o)][s] = o] \in [Hosts -> [Settings -> Values]]
  BY ConfigAssumption, SetType DEF TypeOK, Values, Host
<1> QED
  BY <1>1 DEF Effect, TypeOK

\* Every variable has its type: TypeOK is an invariant of Device.
THEOREM TypeCorrect == Spec => []TypeOK
<1> USE ConfigAssumption
<1>1. Init => TypeOK
  BY BlankType DEF Init, TypeOK, Pcs
<1>2. TypeOK /\ [Next]_vars => TypeOK'
  <2> SUFFICES ASSUME TypeOK, [Next]_vars PROVE TypeOK'
    OBVIOUS
  <2>1. ASSUME NEW o \in Ops, Begin(o) PROVE TypeOK'
    <3>1. PICK next \in Pcs : Goto(o, next)
      BY <2>1 DEF Begin, Pcs, LockedPcs, SessionPcs, Final
    <3> QED
      BY <2>1, <3>1 DEF Begin, TypeOK, CallTypeOK, gates, frame, local, switch, Goto, Pcs, LockedPcs, SessionPcs
  <2>2. ASSUME NEW o \in Ops, Lock(o) PROVE TypeOK'
    BY <2>2 DEF Lock, TypeOK, CallTypeOK, gates, frame, local, switch, Goto, Pcs, LockedPcs, SessionPcs, Host, Endpoint
  <2>3. ASSUME NEW o \in Ops, EnterDiscovery(o) PROVE TypeOK'
    <3>1. CASE DeviceOf[o] \in capabilities
      <4>1. CallTypeOK'
        BY <2>3, <3>1, DiscoveredType DEF EnterDiscovery
      <4> QED
        BY <2>3, <4>1 DEF EnterDiscovery, TypeOK, CallTypeOK, switch
    <3>2. CASE DeviceOf[o] \notin capabilities
      <4>1. /\ Goto(o, "version")
            /\ discoveryGate' = discoveryGate \union {DeviceOf[o]}
            /\ UNCHANGED <<hostGate, sshGate, session, frame, capabilities, switch, crashes>>
        BY <2>3, <3>2 DEF EnterDiscovery
      <4> QED
        BY <4>1 DEF TypeOK, frame, switch, Goto, Pcs, LockedPcs, SessionPcs
    <3> QED
      BY <3>1, <3>2
  <2>4. ASSUME NEW o \in Ops, OpenSession(o) PROVE TypeOK'
    BY <2>4 DEF OpenSession, TypeOK, CallTypeOK, gates, frame, local, switch, Goto, Pcs, LockedPcs, SessionPcs, Host, Endpoint
  <2>5. ASSUME NEW o \in Ops, ReadVersion(o) PROVE TypeOK'
    BY <2>5, DiscoveredType DEF ReadVersion, TypeOK, CallTypeOK, gates, frame, local, switch, Goto, Pcs, LockedPcs, SessionPcs
  <2>6. ASSUME NEW o \in Ops, NoSession(o) PROVE TypeOK'
    BY <2>6, SessionErrorType DEF NoSession, TypeOK, CallTypeOK, gates, frame, local, switch, Goto, Pcs, LockedPcs, SessionPcs
  <2>7. ASSUME NEW o \in Ops, GiveUp(o) PROVE TypeOK'
    BY <2>7, FinishType DEF GiveUp, TypeOK, CallTypeOK, gates, frame, local, switch, Goto, Pcs, LockedPcs, SessionPcs, Final
  <2>8. ASSUME NEW o \in Ops, BreakSession(o) PROVE TypeOK'
    BY <2>8, SessionErrorType DEF BreakSession, TypeOK, CallTypeOK, gates, frame, local, switch, Goto, Pcs, LockedPcs, SessionPcs
  <2>9. ASSUME NEW o \in Ops, Observed(o) PROVE TypeOK'
    BY <2>9, FinishType DEF Observed, TypeOK, CallTypeOK, gates, frame, local, switch, Goto, Pcs, LockedPcs, SessionPcs, Final, CloseSession, Host
  <2>10. ASSUME NEW o \in Ops, WriteMemory(o) PROVE TypeOK'
    BY <2>10, FinishType DEF WriteMemory, TypeOK, CallTypeOK, gates, frame, local, switch, Goto, Pcs, LockedPcs, SessionPcs, Final, CloseSession, Host
  <2>11. ASSUME NEW o \in Ops, ReadRunning(o) PROVE TypeOK'
    BY <2>11 DEF ReadRunning, TypeOK, CallTypeOK, gates, frame, local, switch, Goto, Pcs, LockedPcs, SessionPcs, Host, Endpoint
  <2>12. ASSUME NEW o \in Ops, ReadStartup(o) PROVE TypeOK'
    BY <2>12, FinishType DEF ReadStartup, TypeOK, CallTypeOK, gates, frame, local, switch, Goto, Pcs, LockedPcs, SessionPcs, Final
  <2>13. ASSUME NEW o \in Ops, NEW s \in Settings, Accepted(o, s) PROVE TypeOK'
    BY <2>13, EffectType, BlankType DEF Accepted, TypeOK, CallTypeOK, gates, frame, local, switch, Goto, Pcs, LockedPcs, SessionPcs
  <2>14. ASSUME NEW o \in Ops, NEW s \in Settings, Refused(o, s) PROVE TypeOK'
    BY <2>14, EffectType, BlankType DEF Refused, TypeOK, CallTypeOK, gates, frame, local, switch, Goto, Pcs, LockedPcs, SessionPcs
  <2>15. ASSUME NEW o \in Ops, Observe(o) PROVE TypeOK'
    BY <2>15 DEF Observe, TypeOK, CallTypeOK, gates, frame, local, switch, Goto, Pcs, LockedPcs, SessionPcs
  <2>16. ASSUME NEW o \in Ops, ReturnOk(o) PROVE TypeOK'
    BY <2>16, FinishType DEF ReturnOk, TypeOK, CallTypeOK, gates, frame, local, switch, Goto, Pcs, LockedPcs, SessionPcs, Final
  <2>17. ASSUME NEW o \in Ops, ReturnError(o) PROVE TypeOK'
    BY <2>17, FinishType DEF ReturnError, TypeOK, CallTypeOK, gates, frame, local, switch, Goto, Pcs, LockedPcs, SessionPcs, Final
  <2>18. ASSUME NEW o \in Ops, Cancel(o) PROVE TypeOK'
    BY <2>18 DEF Cancel, TypeOK, CallTypeOK, gates, frame, local, switch, Goto, Pcs, LockedPcs, SessionPcs
  <2>19. ASSUME NEW o \in Ops, NEW s \in Settings, ApplyLate(o, s) PROVE TypeOK'
    BY <2>19, SetType DEF ApplyLate, TypeOK, CallTypeOK, gates, frame, local, switch, Goto, Pcs, LockedPcs, SessionPcs, Disturb, Host, Values
  <2>20. ASSUME NEW o \in Ops, NEW s \in Settings, DropLate(o, s) PROVE TypeOK'
    BY <2>20 DEF DropLate, TypeOK, CallTypeOK, gates, frame, local, switch, Goto, Pcs, LockedPcs, SessionPcs
  <2>21. ASSUME NEW h \in Hosts, NEW s \in Settings, Reconfigure(h, s) PROVE TypeOK'
    BY <2>21, SetType DEF Reconfigure, TypeOK, CallTypeOK, gates, frame, local, switch, Goto, Pcs, LockedPcs, SessionPcs, Disturb, Host, Values
  <2>22. ASSUME NEW h \in Hosts, SaveElsewhere(h) PROVE TypeOK'
    BY <2>22 DEF SaveElsewhere, TypeOK, CallTypeOK, gates, frame, local, switch, Goto, Pcs, LockedPcs, SessionPcs
  <2>23. ASSUME NEW h \in Hosts, Reload(h) PROVE TypeOK'
    BY <2>23, SetType DEF Reload, TypeOK, CallTypeOK, gates, frame, local, switch, Goto, Pcs, LockedPcs, SessionPcs, Disturb, Host, Values
  <2>24. ASSUME Crash PROVE TypeOK'
    BY <2>24, BlankType DEF Crash, TypeOK, CallTypeOK, gates, frame, local, switch, Goto, Pcs, LockedPcs, SessionPcs, Final
  <2>25. CASE UNCHANGED vars
    BY <2>25 DEF vars, TypeOK, CallTypeOK, gates, frame, local, switch, Goto, Pcs, LockedPcs, SessionPcs
  <2> QED
    BY <2>1, <2>2, <2>3, <2>4, <2>5, <2>6, <2>7, <2>8, <2>9, <2>10, <2>11, <2>12, <2>13, <2>14, <2>15, <2>16, <2>17, <2>18, <2>19, <2>20, <2>21, <2>22, <2>23, <2>24, <2>25 DEF Next, Step, Wait, Respond, Write, Return, Environment, Done
<1>3. QED
  BY <1>1, <1>2, PTL DEF Spec

-----------------------------------------------------------------------------
(* Gates.                                                                  *)

\* What one step may do to a gate and to the set of calls that hold it.
GateStep(gate, holders, gate2, holders2, key) ==
    \/ gate2 = gate /\ holders2 = holders
    \/ \E o \in holders : gate2 = gate \ {key[o]} /\ holders2 = holders \ {o}
    \/ \E o \in Ops : key[o] \notin gate /\ gate2 = gate \union {key[o]}
                                         /\ holders2 = holders \union {o}
    \/ gate2 = {} /\ holders2 = {}

\* Such a step keeps the gate exact.
LEMMA GateKept ==
  ASSUME NEW gate, NEW holders, NEW gate2, NEW holders2, NEW key,
         Exact(gate, holders, key), GateStep(gate, holders, gate2, holders2, key)
  PROVE  Exact(gate2, holders2, key)
  BY DEF Exact, GateStep

HostStep == GateStep(hostGate, HostHolders, hostGate', HostHolders', HostKey)
DiscoveryStep == GateStep(discoveryGate, DiscoveryHolders, discoveryGate', DiscoveryHolders', DeviceOf)
SessionStep == GateStep(sshGate, session, sshGate', session', EndpointKey)

GatesStep == HostStep /\ DiscoveryStep /\ SessionStep



\* Leaving a call releases what it holds.
LEMMA FinishGates ==
  ASSUME TypeOK, NEW o \in Ops, NEW r \in Final, Finish(o, r)
  PROVE  GatesStep
<1>1. pc' = [pc EXCEPT ![o] = r] /\ r \notin LockedPcs
  BY DEF Finish, Goto, Final, LockedPcs, SessionPcs
<1>2. HostHolders' = HostHolders \ {o} /\ DiscoveryHolders' = DiscoveryHolders \ {o}
  BY <1>1 DEF HostHolders, DiscoveryHolders, HoldsHost, HoldsDiscovery, LockedPcs, SessionPcs, TypeOK
<1>3. HostStep
  BY <1>2 DEF HostStep, GateStep, Finish, Unlock, HostHolders, HostKey
<1>4. DiscoveryStep
  BY <1>2 DEF DiscoveryStep, GateStep, Finish, LeaveDiscovery, DiscoveryHolders
<1>5. SessionStep
  BY DEF SessionStep, GateStep, Finish, CloseSession, EndpointKey, TypeOK
<1> QED
  BY <1>3, <1>4, <1>5 DEF GatesStep

\* Returning from a session to the caller releases only the endpoint.
LEMMA CloseGates ==
  ASSUME TypeOK, NEW o \in Ops, NEW next \in Pcs, Goto(o, next), CloseSession(o),
         LeaveDiscovery(o), UNCHANGED hostGate,
         HoldsHost(o) <=> Workflow(o) /\ next \in LockedPcs, next # "version"
  PROVE  GatesStep
<1>1. HostHolders' = HostHolders /\ DiscoveryHolders' = DiscoveryHolders \ {o}
  BY DEF HostHolders, DiscoveryHolders, HoldsHost, HoldsDiscovery, TypeOK, Goto
<1>2. HostStep
  BY <1>1 DEF HostStep, GateStep
<1>3. DiscoveryStep
  BY <1>1 DEF DiscoveryStep, GateStep, LeaveDiscovery, DiscoveryHolders
<1>4. SessionStep
  BY DEF SessionStep, GateStep, CloseSession, EndpointKey, TypeOK
<1> QED
  BY <1>2, <1>3, <1>4 DEF GatesStep

\* A step of a call between the gates leaves them alone.
LEMMA MoveGates ==
  ASSUME TypeOK, NEW o \in Ops, NEW next \in Pcs, Goto(o, next), UNCHANGED gates,
         HoldsHost(o) <=> Workflow(o) /\ next \in LockedPcs,
         pc[o] # "version", next # "version"
  PROVE  GatesStep
<1>1. HostHolders' = HostHolders /\ DiscoveryHolders' = DiscoveryHolders
  BY DEF HostHolders, DiscoveryHolders, HoldsHost, HoldsDiscovery, TypeOK, Goto
<1> QED
  BY <1>1 DEF GatesStep, HostStep, DiscoveryStep, SessionStep, GateStep, gates

\* A step that moves no call leaves them alone too.
LEMMA IdleGates ==
  ASSUME UNCHANGED <<pc, gates>>
  PROVE  GatesStep
  BY DEF GatesStep, HostStep, DiscoveryStep, SessionStep, GateStep, gates,
         HostHolders, DiscoveryHolders, HoldsHost, HoldsDiscovery

\* The end of a discovery leaves the discovery gate, and the host gate if it
\* was the whole call.
LEMMA DiscoveredGates ==
  ASSUME TypeOK, NEW o \in Ops, Discovered(o), pc[o] \in {"discovery", "version"}, ConfigAssumption
  PROVE  GatesStep
<1>1. CASE KindOf[o] = "discover"
  BY <1>1, FinishGates DEF Discovered, Final
<1>2. CASE KindOf[o] # "discover"
  <2>1. PICK next \in {"work", "write"} : Goto(o, next)
  BY <1>2 DEF Discovered
  <2> QED
  BY <1>2, <2>1, CloseGates DEF Discovered, HoldsHost, LockedPcs, SessionPcs, Pcs
<1> QED
  BY <1>1, <1>2

\* A failed session releases the endpoint, or all gates with the call.
LEMMA SessionErrorGates ==
  ASSUME TypeOK, NEW o \in Ops, SessionError(o)
  PROVE  GatesStep
<1>1. CASE KindOf[o] = "update" /\ pc[o] = "observe"
  BY <1>1, CloseGates DEF SessionError, HoldsHost, LockedPcs, SessionPcs, Pcs, LeaveDiscovery, HoldsDiscovery
<1>2. CASE ~(KindOf[o] = "update" /\ pc[o] = "observe")
  BY <1>2, FinishGates DEF SessionError, Final
<1> QED
  BY <1>1, <1>2

\* Every step of Device is a step of each gate.
LEMMA NextGates == TypeOK /\ KindInv /\ [Next]_vars => GatesStep
<1> SUFFICES ASSUME TypeOK, KindInv, [Next]_vars PROVE GatesStep
  OBVIOUS
<1> USE ConfigAssumption
<1>1. ASSUME NEW o \in Ops, Begin(o) PROVE GatesStep
  <2>1. PICK next \in {"failed", "discovery", "observe", "lock"} :
           Goto(o, next) /\ (Workflow(o) => next \in {"failed", "lock"})
    BY <1>1 DEF Begin, Workflow
  <2> QED
    BY <1>1, <2>1, MoveGates DEF Begin, HoldsHost, LockedPcs, SessionPcs, Pcs, Final
<1>2. ASSUME NEW o \in Ops, Lock(o) PROVE GatesStep
  <2>1. HostStep
    <3>1. HostHolders' = HostHolders \union {o}
      BY <1>2 DEF Lock, KindInv, Goto, HostHolders, HoldsHost, LockedPcs, SessionPcs, TypeOK
    <3> QED
      BY <1>2, <3>1 DEF Lock, HostFree, HostStep, GateStep, HostKey
  <2>2. DiscoveryHolders' = DiscoveryHolders
    BY <1>2 DEF Lock, Goto, DiscoveryHolders, HoldsDiscovery, TypeOK
  <2> QED
    BY <1>2, <2>1, <2>2 DEF Lock, GatesStep, DiscoveryStep, SessionStep, GateStep
<1>3. ASSUME NEW o \in Ops, EnterDiscovery(o) PROVE GatesStep
  <2>1. CASE DeviceOf[o] \in capabilities
    BY <1>3, <2>1, DiscoveredGates DEF EnterDiscovery
  <2>2. CASE DeviceOf[o] \notin capabilities
    <3>1. /\ pc[o] = "discovery" /\ Goto(o, "version") /\ DiscoveryFree(o)
          /\ discoveryGate' = discoveryGate \union {DeviceOf[o]}
          /\ UNCHANGED <<hostGate, sshGate, session>>
      BY <1>3, <2>2 DEF EnterDiscovery
    <3>2. HostHolders' = HostHolders /\ DiscoveryHolders' = DiscoveryHolders \union {o}
      BY <3>1 DEF Goto, HostHolders, HoldsHost, DiscoveryHolders, HoldsDiscovery, LockedPcs, SessionPcs, Pcs, TypeOK
    <3> QED
      BY <3>1, <3>2 DEF GatesStep, HostStep, DiscoveryStep, SessionStep, GateStep, DiscoveryFree
  <2> QED
    BY <2>1, <2>2
<1>4. ASSUME NEW o \in Ops, OpenSession(o) PROVE GatesStep
  <2>1. HostHolders' = HostHolders /\ DiscoveryHolders' = DiscoveryHolders
    BY <1>4 DEF OpenSession, HostHolders, HoldsHost, DiscoveryHolders, HoldsDiscovery
  <2> QED
    BY <1>4, <2>1 DEF OpenSession, EndpointFree, GatesStep, HostStep, DiscoveryStep,
                      SessionStep, GateStep, EndpointKey
<1>5. ASSUME NEW o \in Ops, ReadVersion(o) PROVE GatesStep
  BY <1>5, DiscoveredGates DEF ReadVersion
<1>6. ASSUME NEW o \in Ops, NoSession(o) PROVE GatesStep
  BY <1>6, SessionErrorGates DEF NoSession
<1>7. ASSUME NEW o \in Ops, GiveUp(o) PROVE GatesStep
  BY <1>7, FinishGates DEF GiveUp, Final
<1>8. ASSUME NEW o \in Ops, BreakSession(o) PROVE GatesStep
  BY <1>8, SessionErrorGates DEF BreakSession
<1>9. ASSUME NEW o \in Ops, Observed(o) PROVE GatesStep
  <2>1. CASE KindOf[o] = "update"
    BY <1>9, <2>1, CloseGates DEF Observed, HoldsHost, HoldsDiscovery, LeaveDiscovery, LockedPcs, SessionPcs, Pcs
  <2>2. CASE KindOf[o] # "update"
    BY <1>9, <2>2, FinishGates DEF Observed, Final
  <2> QED
    BY <2>1, <2>2
<1>10. ASSUME NEW o \in Ops, WriteMemory(o) PROVE GatesStep
  <2>1. CASE Finish(o, "failed")
    BY <2>1, FinishGates DEF Final
  <2>2. CASE Goto(o, "compare") /\ CloseSession(o) /\ UNCHANGED <<hostGate, discoveryGate>>
    BY <1>10, <2>2, CloseGates DEF WriteMemory, HoldsHost, HoldsDiscovery, LeaveDiscovery, LockedPcs, SessionPcs, Pcs
  <2> QED
    BY <1>10, <2>1, <2>2 DEF WriteMemory
<1>11. ASSUME NEW o \in Ops, ReadRunning(o) PROVE GatesStep
  BY <1>11, MoveGates DEF ReadRunning, HoldsHost, LockedPcs, SessionPcs, Pcs
<1>12. ASSUME NEW o \in Ops, ReadStartup(o) PROVE GatesStep
  BY <1>12, FinishGates DEF ReadStartup, Final
<1>13. ASSUME NEW o \in Ops, NEW s \in Settings, Accepted(o, s) PROVE GatesStep
  BY <1>13, IdleGates DEF Accepted
<1>14. ASSUME NEW o \in Ops, NEW s \in Settings, Refused(o, s) PROVE GatesStep
  BY <1>14, IdleGates DEF Refused
<1>15. ASSUME NEW o \in Ops, Observe(o) PROVE GatesStep
  BY <1>15, MoveGates DEF Observe, HoldsHost, LockedPcs, SessionPcs, Pcs
<1>16. ASSUME NEW o \in Ops, ReturnOk(o) PROVE GatesStep
  <2>1. CASE Persistence = "after_each_write"
    BY <1>16, <2>1, MoveGates DEF ReturnOk, HoldsHost, LockedPcs, SessionPcs, Pcs
  <2>2. CASE Persistence # "after_each_write"
    BY <1>16, <2>2, FinishGates DEF ReturnOk, Final
  <2> QED
    BY <2>1, <2>2
<1>17. ASSUME NEW o \in Ops, ReturnError(o) PROVE GatesStep
  BY <1>17, FinishGates DEF ReturnError, Final
<1>18. ASSUME NEW o \in Ops, Cancel(o) PROVE GatesStep
  BY <1>18, IdleGates DEF Cancel
<1>19. ASSUME NEW o \in Ops, NEW s \in Settings, ApplyLate(o, s) PROVE GatesStep
  BY <1>19, IdleGates DEF ApplyLate
<1>20. ASSUME NEW o \in Ops, NEW s \in Settings, DropLate(o, s) PROVE GatesStep
  BY <1>20, IdleGates DEF DropLate
<1>21. ASSUME NEW h \in Hosts, NEW s \in Settings, Reconfigure(h, s) PROVE GatesStep
  BY <1>21, IdleGates DEF Reconfigure
<1>22. ASSUME NEW h \in Hosts, SaveElsewhere(h) PROVE GatesStep
  BY <1>22, IdleGates DEF SaveElsewhere
<1>23. ASSUME NEW h \in Hosts, Reload(h) PROVE GatesStep
  BY <1>23, IdleGates DEF Reload
<1>24. ASSUME Crash PROVE GatesStep
  BY <1>24 DEF Crash, GatesStep, HostStep, DiscoveryStep, SessionStep, GateStep, HostHolders, DiscoveryHolders, HoldsHost, HoldsDiscovery, Live, LockedPcs, SessionPcs, Pcs, Final
<1>25. CASE UNCHANGED vars
  BY <1>25, IdleGates DEF vars
<1> QED
  BY <1>1, <1>2, <1>3, <1>4, <1>5, <1>6, <1>7, <1>8, <1>9, <1>10, <1>11, <1>12, <1>13, <1>14, <1>15, <1>16, <1>17, <1>18, <1>19, <1>20, <1>21, <1>22, <1>23, <1>24, <1>25 DEF Next, Step, Wait, Respond, Write, Return, Environment, Done

\* Each gate is full exactly while one call holds it: GateInv is an invariant.
LEMMA GateInvInit == Init => GateInv
  BY DEF Init, GateInv, Exact, HostHolders, DiscoveryHolders, HoldsHost, HoldsDiscovery,
         LockedPcs, SessionPcs

\* A call is only where its kind of call goes.
LEMMA KindStep == TypeOK /\ KindInv /\ [Next]_vars => KindInv'
<1> SUFFICES ASSUME TypeOK, KindInv, [Next]_vars PROVE KindInv'
  OBVIOUS
<1> USE DEF TypeOK, KindInv
<1>1. ASSUME NEW o \in Ops, Begin(o) PROVE KindInv'
  BY <1>1, ConfigAssumption DEF Begin, Goto, Workflow, Kinds
<1>2. ASSUME NEW o \in Ops, Lock(o) PROVE KindInv'
  BY <1>2 DEF Lock, Goto, Workflow
<1>3. ASSUME NEW o \in Ops, EnterDiscovery(o) PROVE KindInv'
  <2>1. PICK next \in {"ok", "work", "write", "version"} :
           /\ Goto(o, next)
           /\ next = "work" => KindOf[o] = "update"
           /\ next = "write" => Workflow(o)
    BY <1>3, ConfigAssumption DEF EnterDiscovery, Discovered, Finish, Workflow, Kinds
  <2> QED
    BY <1>3, <2>1 DEF EnterDiscovery, Goto
<1>4. ASSUME NEW o \in Ops, OpenSession(o) PROVE KindInv'
  BY <1>4 DEF OpenSession
<1>5. ASSUME NEW o \in Ops, ReadVersion(o) PROVE KindInv'
  <2>1. PICK next \in {"ok", "work", "write", "version"} :
           /\ Goto(o, next)
           /\ next = "work" => KindOf[o] = "update"
           /\ next = "write" => Workflow(o)
    BY <1>5, ConfigAssumption DEF ReadVersion, Discovered, Finish, Workflow, Kinds
  <2> QED
    BY <1>5, <2>1 DEF ReadVersion, Goto
<1>6. ASSUME NEW o \in Ops, NoSession(o) PROVE KindInv'
  BY <1>6 DEF NoSession, Finish, Goto, SessionError, NeedsSession
<1>7. ASSUME NEW o \in Ops, GiveUp(o) PROVE KindInv'
  BY <1>7 DEF GiveUp, Finish, Goto
<1>8. ASSUME NEW o \in Ops, BreakSession(o) PROVE KindInv'
  BY <1>8 DEF BreakSession, Finish, Goto, SessionError
<1>9. ASSUME NEW o \in Ops, Observed(o) PROVE KindInv'
  BY <1>9 DEF Observed, Finish, Goto
<1>10. ASSUME NEW o \in Ops, WriteMemory(o) PROVE KindInv'
  BY <1>10 DEF WriteMemory, Finish, Goto
<1>11. ASSUME NEW o \in Ops, ReadRunning(o) PROVE KindInv'
  BY <1>11 DEF ReadRunning, Goto, Workflow
<1>12. ASSUME NEW o \in Ops, ReadStartup(o) PROVE KindInv'
  BY <1>12 DEF ReadStartup, Finish, Goto
<1>13. ASSUME NEW o \in Ops, NEW s \in Settings, Accepted(o, s) PROVE KindInv'
  BY <1>13 DEF Accepted
<1>14. ASSUME NEW o \in Ops, NEW s \in Settings, Refused(o, s) PROVE KindInv'
  BY <1>14 DEF Refused
<1>15. ASSUME NEW o \in Ops, Observe(o) PROVE KindInv'
  BY <1>15 DEF Observe, Goto, Workflow
<1>16. ASSUME NEW o \in Ops, ReturnOk(o) PROVE KindInv'
  <2>1. PICK next \in {"ok", "write"} : Goto(o, next)
    BY <1>16 DEF ReturnOk, Finish
  <2> QED
    BY <1>16, <2>1 DEF ReturnOk, Goto, Workflow
<1>17. ASSUME NEW o \in Ops, ReturnError(o) PROVE KindInv'
  BY <1>17 DEF ReturnError, Finish, Goto
<1>18. ASSUME NEW o \in Ops, Cancel(o) PROVE KindInv'
  BY <1>18 DEF Cancel
<1>19. ASSUME NEW o \in Ops, NEW s \in Settings, ApplyLate(o, s) PROVE KindInv'
  BY <1>19 DEF ApplyLate
<1>20. ASSUME NEW o \in Ops, NEW s \in Settings, DropLate(o, s) PROVE KindInv'
  BY <1>20 DEF DropLate
<1>21. ASSUME NEW h \in Hosts, NEW s \in Settings, Reconfigure(h, s) PROVE KindInv'
  BY <1>21 DEF Reconfigure
<1>22. ASSUME NEW h \in Hosts, SaveElsewhere(h) PROVE KindInv'
  BY <1>22 DEF SaveElsewhere
<1>23. ASSUME NEW h \in Hosts, Reload(h) PROVE KindInv'
  BY <1>23 DEF Reload
<1>24. ASSUME Crash PROVE KindInv'
  BY <1>24 DEF Crash, Live, Final
<1>25. CASE UNCHANGED vars
  BY <1>25 DEF vars
<1> QED
  BY <1>1, <1>2, <1>3, <1>4, <1>5, <1>6, <1>7, <1>8, <1>9, <1>10, <1>11, <1>12, <1>13, <1>14, <1>15, <1>16, <1>17, <1>18, <1>19, <1>20, <1>21, <1>22, <1>23, <1>24, <1>25 DEF Next, Step, Wait, Respond, Write, Return, Environment, Done

\* Only a call at a session's step has a session open.
SessionPcInv == \A o \in session : pc[o] \in SessionPcs

LEMMA SessionPcStep == TypeOK /\ SessionPcInv /\ [Next]_vars => SessionPcInv'
<1> SUFFICES ASSUME TypeOK, SessionPcInv, [Next]_vars PROVE SessionPcInv'
  OBVIOUS
<1> USE DEF TypeOK, SessionPcInv
<1>1. ASSUME NEW o \in Ops, Begin(o) PROVE SessionPcInv'
  BY <1>1 DEF Begin, Goto, gates, SessionPcs
<1>2. ASSUME NEW o \in Ops, Lock(o) PROVE SessionPcInv'
  BY <1>2 DEF Lock, Goto, gates, SessionPcs
<1>3. ASSUME NEW o \in Ops, EnterDiscovery(o) PROVE SessionPcInv'
  BY <1>3 DEF EnterDiscovery, Goto, gates, SessionPcs, Finish, CloseSession, Discovered
<1>4. ASSUME NEW o \in Ops, OpenSession(o) PROVE SessionPcInv'
  BY <1>4 DEF OpenSession, Goto, gates, SessionPcs, NeedsSession
<1>5. ASSUME NEW o \in Ops, ReadVersion(o) PROVE SessionPcInv'
  BY <1>5 DEF ReadVersion, Goto, gates, SessionPcs, Finish, CloseSession, Discovered
<1>6. ASSUME NEW o \in Ops, NoSession(o) PROVE SessionPcInv'
  BY <1>6 DEF NoSession, Goto, gates, SessionPcs, Finish, CloseSession, SessionError
<1>7. ASSUME NEW o \in Ops, GiveUp(o) PROVE SessionPcInv'
  BY <1>7 DEF GiveUp, Goto, gates, SessionPcs, Finish, CloseSession
<1>8. ASSUME NEW o \in Ops, BreakSession(o) PROVE SessionPcInv'
  BY <1>8 DEF BreakSession, Goto, gates, SessionPcs, Finish, CloseSession, SessionError
<1>9. ASSUME NEW o \in Ops, Observed(o) PROVE SessionPcInv'
  BY <1>9 DEF Observed, Goto, gates, SessionPcs, Finish, CloseSession
<1>10. ASSUME NEW o \in Ops, WriteMemory(o) PROVE SessionPcInv'
  BY <1>10 DEF WriteMemory, Goto, gates, SessionPcs, Finish, CloseSession
<1>11. ASSUME NEW o \in Ops, ReadRunning(o) PROVE SessionPcInv'
  BY <1>11 DEF ReadRunning, Goto, gates, SessionPcs
<1>12. ASSUME NEW o \in Ops, ReadStartup(o) PROVE SessionPcInv'
  BY <1>12 DEF ReadStartup, Goto, gates, SessionPcs, Finish, CloseSession
<1>13. ASSUME NEW o \in Ops, NEW s \in Settings, Accepted(o, s) PROVE SessionPcInv'
  BY <1>13 DEF Accepted, gates
<1>14. ASSUME NEW o \in Ops, NEW s \in Settings, Refused(o, s) PROVE SessionPcInv'
  BY <1>14 DEF Refused, gates
<1>15. ASSUME NEW o \in Ops, Observe(o) PROVE SessionPcInv'
  BY <1>15 DEF Observe, Goto, gates, SessionPcs
<1>16. ASSUME NEW o \in Ops, ReturnOk(o) PROVE SessionPcInv'
  BY <1>16 DEF ReturnOk, Goto, gates, SessionPcs, Finish, CloseSession
<1>17. ASSUME NEW o \in Ops, ReturnError(o) PROVE SessionPcInv'
  BY <1>17 DEF ReturnError, Goto, gates, SessionPcs, Finish, CloseSession
<1>18. ASSUME NEW o \in Ops, Cancel(o) PROVE SessionPcInv'
  BY <1>18 DEF Cancel, gates
<1>19. ASSUME NEW o \in Ops, NEW s \in Settings, ApplyLate(o, s) PROVE SessionPcInv'
  BY <1>19 DEF ApplyLate, gates
<1>20. ASSUME NEW o \in Ops, NEW s \in Settings, DropLate(o, s) PROVE SessionPcInv'
  BY <1>20 DEF DropLate, gates
<1>21. ASSUME NEW h \in Hosts, NEW s \in Settings, Reconfigure(h, s) PROVE SessionPcInv'
  BY <1>21 DEF Reconfigure, gates
<1>22. ASSUME NEW h \in Hosts, SaveElsewhere(h) PROVE SessionPcInv'
  BY <1>22 DEF SaveElsewhere, gates
<1>23. ASSUME NEW h \in Hosts, Reload(h) PROVE SessionPcInv'
  BY <1>23 DEF Reload, gates
<1>24. ASSUME Crash PROVE SessionPcInv'
  BY <1>24 DEF Crash, Goto, gates, SessionPcs
<1>25. CASE UNCHANGED vars
  BY <1>25 DEF vars, gates
<1> QED
  BY <1>1, <1>2, <1>3, <1>4, <1>5, <1>6, <1>7, <1>8, <1>9, <1>10, <1>11, <1>12, <1>13, <1>14, <1>15, <1>16, <1>17, <1>18, <1>19, <1>20, <1>21, <1>22, <1>23, <1>24, <1>25 DEF Next, Step, Wait, Respond, Write, Return, Environment, Done

\* Whoever is sampling the version of a device does so because it is unknown.
UnknownInv == \A o \in Ops : HoldsDiscovery(o) => DeviceOf[o] \notin capabilities

LEMMA UnknownStep ==
  ASSUME TypeOK, UnknownInv, Exact(discoveryGate, DiscoveryHolders, DeviceOf), [Next]_vars
  PROVE  UnknownInv'
<1> USE DEF TypeOK, UnknownInv, HoldsDiscovery
<1>1. ASSUME NEW o \in Ops, Begin(o) PROVE UnknownInv'
  BY <1>1 DEF Begin, Goto, local
<1>2. ASSUME NEW o \in Ops, Lock(o) PROVE UnknownInv'
  BY <1>2 DEF Lock, Goto, local
<1>3. ASSUME NEW o \in Ops, EnterDiscovery(o) PROVE UnknownInv'
  <2>1. capabilities' = capabilities
    BY <1>3 DEF EnterDiscovery
  <2>2. CASE DeviceOf[o] \in capabilities
    BY <1>3, <2>1, <2>2 DEF EnterDiscovery, Discovered, Finish, Goto
  <2>3. CASE DeviceOf[o] \notin capabilities
    BY <1>3, <2>1, <2>3 DEF EnterDiscovery, Goto
  <2> QED
    BY <2>2, <2>3
<1>4. ASSUME NEW o \in Ops, OpenSession(o) PROVE UnknownInv'
  BY <1>4 DEF OpenSession, local
<1>5. ASSUME NEW o \in Ops, ReadVersion(o) PROVE UnknownInv'
  <2>1. capabilities' = capabilities \union {DeviceOf[o]} /\ pc[o] = "version"
    BY <1>5 DEF ReadVersion
  <2>2. PICK next \in Pcs : next # "version" /\ Goto(o, next)
    BY <1>5 DEF ReadVersion, Discovered, Finish, Pcs, LockedPcs, SessionPcs, Final
  <2>3. \A p \in Ops : pc[p] = "version" /\ DeviceOf[p] = DeviceOf[o] => p = o
    BY <2>1 DEF Exact, DiscoveryHolders, HoldsDiscovery
  <2> QED
    BY <2>1, <2>2, <2>3 DEF Goto
<1>6. ASSUME NEW o \in Ops, NoSession(o) PROVE UnknownInv'
  BY <1>6 DEF NoSession, Goto, local, Finish, SessionError
<1>7. ASSUME NEW o \in Ops, GiveUp(o) PROVE UnknownInv'
  BY <1>7 DEF GiveUp, Goto, local, Finish
<1>8. ASSUME NEW o \in Ops, BreakSession(o) PROVE UnknownInv'
  BY <1>8 DEF BreakSession, Goto, local, Finish, SessionError
<1>9. ASSUME NEW o \in Ops, Observed(o) PROVE UnknownInv'
  BY <1>9 DEF Observed, Goto, local, Finish
<1>10. ASSUME NEW o \in Ops, WriteMemory(o) PROVE UnknownInv'
  BY <1>10 DEF WriteMemory, Goto, local, Finish
<1>11. ASSUME NEW o \in Ops, ReadRunning(o) PROVE UnknownInv'
  BY <1>11 DEF ReadRunning, Goto, local
<1>12. ASSUME NEW o \in Ops, ReadStartup(o) PROVE UnknownInv'
  BY <1>12 DEF ReadStartup, Goto, local, Finish
<1>13. ASSUME NEW o \in Ops, NEW s \in Settings, Accepted(o, s) PROVE UnknownInv'
  BY <1>13 DEF Accepted, local
<1>14. ASSUME NEW o \in Ops, NEW s \in Settings, Refused(o, s) PROVE UnknownInv'
  BY <1>14 DEF Refused, local
<1>15. ASSUME NEW o \in Ops, Observe(o) PROVE UnknownInv'
  BY <1>15 DEF Observe, Goto, local
<1>16. ASSUME NEW o \in Ops, ReturnOk(o) PROVE UnknownInv'
  BY <1>16 DEF ReturnOk, Goto, local, Finish
<1>17. ASSUME NEW o \in Ops, ReturnError(o) PROVE UnknownInv'
  BY <1>17 DEF ReturnError, Goto, local, Finish
<1>18. ASSUME NEW o \in Ops, Cancel(o) PROVE UnknownInv'
  BY <1>18 DEF Cancel, local
<1>19. ASSUME NEW o \in Ops, NEW s \in Settings, ApplyLate(o, s) PROVE UnknownInv'
  BY <1>19 DEF ApplyLate, local
<1>20. ASSUME NEW o \in Ops, NEW s \in Settings, DropLate(o, s) PROVE UnknownInv'
  BY <1>20 DEF DropLate, local
<1>21. ASSUME NEW h \in Hosts, NEW s \in Settings, Reconfigure(h, s) PROVE UnknownInv'
  BY <1>21 DEF Reconfigure, local
<1>22. ASSUME NEW h \in Hosts, SaveElsewhere(h) PROVE UnknownInv'
  BY <1>22 DEF SaveElsewhere, local
<1>23. ASSUME NEW h \in Hosts, Reload(h) PROVE UnknownInv'
  BY <1>23 DEF Reload, local
<1>24. ASSUME Crash PROVE UnknownInv'
  BY <1>24 DEF Crash, Goto, local
<1>25. CASE UNCHANGED vars
  BY <1>25 DEF vars, gates, local
<1> QED
  BY <1>1, <1>2, <1>3, <1>4, <1>5, <1>6, <1>7, <1>8, <1>9, <1>10, <1>11, <1>12, <1>13, <1>14, <1>15, <1>16, <1>17, <1>18, <1>19, <1>20, <1>21, <1>22, <1>23, <1>24, <1>25 DEF Next, Step, Wait, Respond, Write, Return, Environment, Done

\* Every gate is full exactly while one call holds it, and calls are only where
\* their kind of call goes (Device.lock, Device.Discover, Client.Run).
THEOREM GatesCorrect == Spec => [](KindInv /\ GateInv)
<1>1. Init => KindInv /\ GateInv
  BY DEF Init, KindInv, GateInv, Exact, HostHolders, DiscoveryHolders, HoldsHost,
         HoldsDiscovery, LockedPcs, SessionPcs
<1>2. TypeOK /\ KindInv /\ GateInv /\ [Next]_vars => KindInv' /\ GateInv'
  <2> SUFFICES ASSUME TypeOK, KindInv, GateInv, [Next]_vars PROVE KindInv' /\ GateInv'
    OBVIOUS
  <2>1. KindInv' /\ GatesStep
    BY KindStep, NextGates
  <2>2. Exact(hostGate, HostHolders, HostKey)'
    BY <2>1, GateKept DEF GateInv, GatesStep, HostStep, HostKey, Host
  <2>3. Exact(discoveryGate, DiscoveryHolders, DeviceOf)'
    BY <2>1, GateKept DEF GateInv, GatesStep, DiscoveryStep
  <2>4. Exact(sshGate, session, EndpointKey)'
    BY <2>1, GateKept DEF GateInv, GatesStep, SessionStep, EndpointKey, Endpoint
  <2>5. (\A o \in session : pc[o] \in SessionPcs)'
    BY SessionPcStep DEF GateInv, SessionPcInv
  <2>6. (\A o \in DiscoveryHolders : DeviceOf[o] \notin capabilities)'
    BY UnknownStep DEF GateInv, UnknownInv, DiscoveryHolders
  <2> QED
    BY <2>1, <2>2, <2>3, <2>4, <2>5, <2>6 DEF GateInv
<1>3. QED
  BY <1>1, <1>2, TypeCorrect, PTL DEF Spec

\* One workflow per host: Device.lock.
THEOREM HostMutex == Spec => []OneWorkflowPerHost
<1>1. GateInv => OneWorkflowPerHost
  BY DEF GateInv, Exact, OneWorkflowPerHost, HostHolders, HostKey
<1> QED
  BY <1>1, GatesCorrect, PTL

\* One session per endpoint: the gate in Client.Run.
THEOREM SessionMutex == Spec => []OneSessionPerEndpoint
<1>1. TypeOK /\ GateInv => OneSessionPerEndpoint
  BY DEF TypeOK, GateInv, Exact, OneSessionPerEndpoint, EndpointKey
<1> QED
  BY <1>1, TypeCorrect, GatesCorrect, PTL

\* Nobody samples a known version: Device.Discover.
THEOREM SampledOnce == Spec => []VersionSampledOnce
<1>1. TypeOK /\ GateInv => VersionSampledOnce
  BY DEF TypeOK, GateInv, VersionSampledOnce, DiscoveryHolders, HoldsDiscovery
<1> QED
  BY <1>1, TypeCorrect, GatesCorrect, PTL

\* No full gate without a call that will empty it.
THEOREM GatesReleased == Spec => []NoLeakedGate
<1>1. TypeOK /\ GateInv => NoLeakedGate
  BY DEF TypeOK, GateInv, Exact, NoLeakedGate, HostHolders, HostKey, DiscoveryHolders, EndpointKey
<1> QED
  BY <1>1, TypeCorrect, GatesCorrect, PTL

-----------------------------------------------------------------------------
(* What a successful call means: no write failed, and what it wrote is in  *)
(* the startup configuration.                                              *)

\* What a call keeps in its frames, and what the switch may still apply for
\* it, agree with where the call is.
LEMMA FrameStep ==
  ASSUME TypeOK, KindInv, SessionPcInv, FrameInv, [Next]_vars
  PROVE  FrameInv'
<1> USE DEF TypeOK, FrameInv, KindInv
<1>1. ASSUME NEW o \in Ops, Begin(o) PROVE FrameInv'
  BY <1>1 DEF Begin, Goto, frame, local, switch, HoldsHost, LockedPcs, SessionPcs, Early
<1>2. ASSUME NEW o \in Ops, Lock(o) PROVE FrameInv'
  BY <1>2 DEF Lock, Goto, frame, local, switch, HoldsHost, LockedPcs, SessionPcs, Early
<1>3. ASSUME NEW o \in Ops, EnterDiscovery(o) PROVE FrameInv'
  BY <1>3 DEF EnterDiscovery, Goto, frame, local, switch, HoldsHost, LockedPcs, SessionPcs, Early, Finish, Final, Discovered
<1>4. ASSUME NEW o \in Ops, OpenSession(o) PROVE FrameInv'
  BY <1>4 DEF OpenSession, Goto, frame, local, switch, HoldsHost, LockedPcs, SessionPcs, Early
<1>5. ASSUME NEW o \in Ops, ReadVersion(o) PROVE FrameInv'
  BY <1>5 DEF ReadVersion, Goto, frame, local, switch, HoldsHost, LockedPcs, SessionPcs, Early, Finish, Final, Discovered
<1>6. ASSUME NEW o \in Ops, NoSession(o) PROVE FrameInv'
  BY <1>6 DEF NoSession, Goto, frame, local, switch, HoldsHost, LockedPcs, SessionPcs, Early, Finish, Final, SessionError
<1>7. ASSUME NEW o \in Ops, GiveUp(o) PROVE FrameInv'
  BY <1>7 DEF GiveUp, Goto, frame, local, switch, HoldsHost, LockedPcs, SessionPcs, Early, Finish, Final
<1>8. ASSUME NEW o \in Ops, BreakSession(o) PROVE FrameInv'
  BY <1>8 DEF BreakSession, Goto, frame, local, switch, HoldsHost, LockedPcs, SessionPcs, Early, Finish, Final, SessionError
<1>9. ASSUME NEW o \in Ops, Observed(o) PROVE FrameInv'
  BY <1>9 DEF Observed, Goto, frame, local, switch, HoldsHost, LockedPcs, SessionPcs, Early, Finish, Final
<1>10. ASSUME NEW o \in Ops, WriteMemory(o) PROVE FrameInv'
  BY <1>10 DEF WriteMemory, Goto, frame, local, switch, HoldsHost, LockedPcs, SessionPcs, Early, Finish, Final
<1>11. ASSUME NEW o \in Ops, ReadRunning(o) PROVE FrameInv'
  BY <1>11 DEF ReadRunning, Goto, frame, local, switch, HoldsHost, LockedPcs, SessionPcs, Early
<1>12. ASSUME NEW o \in Ops, ReadStartup(o) PROVE FrameInv'
  BY <1>12 DEF ReadStartup, Goto, frame, local, switch, HoldsHost, LockedPcs, SessionPcs, Early, Finish, Final
<1>13. ASSUME NEW o \in Ops, NEW s \in Settings, Accepted(o, s) PROVE FrameInv'
  BY <1>13 DEF Accepted, Goto, frame, local, switch, HoldsHost, LockedPcs, SessionPcs, Early, MayWrite, Effect
<1>14. ASSUME NEW o \in Ops, NEW s \in Settings, Refused(o, s) PROVE FrameInv'
  BY <1>14 DEF Refused, Goto, frame, local, switch, HoldsHost, LockedPcs, SessionPcs, Early, MayWrite, Effect
<1>15. ASSUME NEW o \in Ops, Observe(o) PROVE FrameInv'
  BY <1>15 DEF Observe, Goto, frame, local, switch, HoldsHost, LockedPcs, SessionPcs, Early
<1>16. ASSUME NEW o \in Ops, ReturnOk(o) PROVE FrameInv'
  BY <1>16 DEF ReturnOk, Goto, frame, local, switch, HoldsHost, LockedPcs, SessionPcs, Early, Finish, Final, CallbackSucceeded
<1>17. ASSUME NEW o \in Ops, ReturnError(o) PROVE FrameInv'
  BY <1>17 DEF ReturnError, Goto, frame, local, switch, HoldsHost, LockedPcs, SessionPcs, Early, Finish, Final
<1>18. ASSUME NEW o \in Ops, Cancel(o) PROVE FrameInv'
  BY <1>18 DEF Cancel, Goto, frame, local, switch, HoldsHost, LockedPcs, SessionPcs, Early
<1>19. ASSUME NEW o \in Ops, NEW s \in Settings, ApplyLate(o, s) PROVE FrameInv'
  BY <1>19 DEF ApplyLate, Goto, frame, local, switch, HoldsHost, LockedPcs, SessionPcs, Early
<1>20. ASSUME NEW o \in Ops, NEW s \in Settings, DropLate(o, s) PROVE FrameInv'
  BY <1>20 DEF DropLate, Goto, frame, local, switch, HoldsHost, LockedPcs, SessionPcs, Early
<1>21. ASSUME NEW h \in Hosts, NEW s \in Settings, Reconfigure(h, s) PROVE FrameInv'
  BY <1>21 DEF Reconfigure, Goto, frame, local, switch, HoldsHost, LockedPcs, SessionPcs, Early
<1>22. ASSUME NEW h \in Hosts, SaveElsewhere(h) PROVE FrameInv'
  BY <1>22 DEF SaveElsewhere, Goto, frame, local, switch, HoldsHost, LockedPcs, SessionPcs, Early
<1>23. ASSUME NEW h \in Hosts, Reload(h) PROVE FrameInv'
  BY <1>23 DEF Reload, Goto, frame, local, switch, HoldsHost, LockedPcs, SessionPcs, Early
<1>24. ASSUME Crash PROVE FrameInv'
  BY <1>24 DEF Crash, Goto, frame, local, switch, HoldsHost, LockedPcs, SessionPcs, Early, Live, Final
<1>25. CASE UNCHANGED vars
  BY <1>25 DEF vars, gates, local, switch, frame, HoldsHost, LockedPcs, SessionPcs, Early
<1> QED
  BY <1>1, <1>2, <1>3, <1>4, <1>5, <1>6, <1>7, <1>8, <1>9, <1>10, <1>11, <1>12, <1>13, <1>14, <1>15, <1>16, <1>17, <1>18, <1>19, <1>20, <1>21, <1>22, <1>23, <1>24, <1>25 DEF Next, Step, Wait, Respond, Write, Return, Environment, Done

\* Calls that rely on the running configuration: the workflows past discovery.
BusyPcs == {"work", "write", "compare", "startup"}

LEMMA ForeignIsNoCall == \A o \in Ops : o # Foreign
  BY ConfigAssumption

LEMMA HostType == \A o \in Ops : Host(o) \in Hosts
  BY ConfigAssumption DEF Host

\* While a call holds the host gate, no other call relies on that switch.
LEMMA BusyAlone ==
  ASSUME TypeOK, KindInv, OneWorkflowPerHost, NEW o \in Ops, HoldsHost(o)
  PROVE  \A p \in Ops : p # o /\ pc[p] \in BusyPcs => Host(p) # Host(o)
<1>1. \A p \in Ops : pc[p] \in BusyPcs => HoldsHost(p)
  BY DEF KindInv, BusyPcs, HoldsHost, Workflow, LockedPcs, SessionPcs
<1> QED
  BY <1>1 DEF OneWorkflowPerHost

\* What a workflow verified stays true.
LEMMA VerifiedStep ==
  ASSUME TypeOK, KindInv, OneWorkflowPerHost, FrameInv, VerifiedInv, [Next]_vars
  PROVE  VerifiedInv'
<1> USE DEF TypeOK, VerifiedInv, OwnSettings
<1>1. ASSUME NEW o \in Ops, Begin(o) PROVE VerifiedInv'
  BY <1>1 DEF Begin, Goto, frame, local, switch, HoldsHost, LockedPcs, SessionPcs, Early
<1>2. ASSUME NEW o \in Ops, Lock(o) PROVE VerifiedInv'
  BY <1>2 DEF Lock, Goto, frame, local, switch, HoldsHost, LockedPcs, SessionPcs, Early
<1>3. ASSUME NEW o \in Ops, EnterDiscovery(o) PROVE VerifiedInv'
  BY <1>3, ForeignIsNoCall DEF EnterDiscovery, Goto, frame, local, switch, HoldsHost, LockedPcs, SessionPcs, Early, Finish, Final, Discovered, FrameInv, Blank
<1>4. ASSUME NEW o \in Ops, OpenSession(o) PROVE VerifiedInv'
  BY <1>4 DEF OpenSession, Goto, frame, local, switch, HoldsHost, LockedPcs, SessionPcs, Early
<1>5. ASSUME NEW o \in Ops, ReadVersion(o) PROVE VerifiedInv'
  BY <1>5, ForeignIsNoCall DEF ReadVersion, Goto, frame, local, switch, HoldsHost, LockedPcs, SessionPcs, Early, Finish, Final, Discovered, FrameInv, Blank
<1>6. ASSUME NEW o \in Ops, NoSession(o) PROVE VerifiedInv'
  BY <1>6, ForeignIsNoCall DEF NoSession, Goto, frame, local, switch, HoldsHost, LockedPcs, SessionPcs, Early, Finish, Final, SessionError, Blank
<1>7. ASSUME NEW o \in Ops, GiveUp(o) PROVE VerifiedInv'
  BY <1>7 DEF GiveUp, Goto, frame, local, switch, HoldsHost, LockedPcs, SessionPcs, Early, Finish, Final
<1>8. ASSUME NEW o \in Ops, BreakSession(o) PROVE VerifiedInv'
  BY <1>8, ForeignIsNoCall DEF BreakSession, Goto, frame, local, switch, HoldsHost, LockedPcs, SessionPcs, Early, Finish, Final, SessionError, Blank
<1>9. ASSUME NEW o \in Ops, Observed(o) PROVE VerifiedInv'
  BY <1>9 DEF Observed, Goto, frame, local, switch, HoldsHost, LockedPcs, SessionPcs, Early, Finish, Final
<1>10. ASSUME NEW o \in Ops, WriteMemory(o) PROVE VerifiedInv'
  BY <1>10 DEF WriteMemory, Goto, frame, local, switch, HoldsHost, LockedPcs, SessionPcs, Early, Finish, Final
<1>11. ASSUME NEW o \in Ops, ReadRunning(o) PROVE VerifiedInv'
  BY <1>11 DEF ReadRunning, Goto, frame, local, switch, HoldsHost, LockedPcs, SessionPcs, Early
<1>12. ASSUME NEW o \in Ops, ReadStartup(o) PROVE VerifiedInv'
  BY <1>12 DEF ReadStartup, Goto, frame, local, switch, HoldsHost, LockedPcs, SessionPcs, Early, Finish, Final
<1>13. ASSUME NEW o \in Ops, NEW s \in Settings, Accepted(o, s) PROVE VerifiedInv'
  <2>1. HoldsHost(o) /\ pc' = pc /\ snapshot' = [snapshot EXCEPT ![o] = Blank] /\ pc[o] = "work"
    BY <1>13 DEF Accepted, MayWrite, HoldsHost, Workflow, LockedPcs, KindInv
  <2>2. running' = running \/ running' = [running EXCEPT ![Host(o)][s] = o]
    BY <1>13 DEF Accepted, Effect
  <2>3. \A p \in Ops : p # o /\ pc[p] \in BusyPcs =>
           running'[Host(p)] = running[Host(p)]
    BY <2>1, <2>2, BusyAlone, HostType
  <2>4. \A p \in Ops : p # o => written'[p] = written[p] /\ snapshot'[p] = snapshot[p]
    BY <1>13, <2>1 DEF Accepted
  <2> QED
    BY <1>13, <2>1, <2>3, <2>4, ForeignIsNoCall DEF Accepted, BusyPcs, Blank
<1>14. ASSUME NEW o \in Ops, NEW s \in Settings, Refused(o, s) PROVE VerifiedInv'
  <2>1. HoldsHost(o) /\ pc' = pc /\ snapshot' = [snapshot EXCEPT ![o] = Blank] /\ pc[o] = "work"
    BY <1>14 DEF Refused, MayWrite, HoldsHost, Workflow, LockedPcs, KindInv
  <2>2. running' = running \/ running' = [running EXCEPT ![Host(o)][s] = o]
    BY <1>14 DEF Refused, Effect
  <2>3. \A p \in Ops : p # o /\ pc[p] \in BusyPcs =>
           running'[Host(p)] = running[Host(p)]
    BY <2>1, <2>2, BusyAlone, HostType
  <2>4. \A p \in Ops : p # o => written'[p] = written[p] /\ snapshot'[p] = snapshot[p]
    BY <1>14, <2>1 DEF Refused
  <2> QED
    BY <1>14, <2>1, <2>3, <2>4, ForeignIsNoCall DEF Refused, BusyPcs, Blank
<1>15. ASSUME NEW o \in Ops, Observe(o) PROVE VerifiedInv'
  BY <1>15 DEF Observe, Goto, frame, local, switch, HoldsHost, LockedPcs, SessionPcs, Early
<1>16. ASSUME NEW o \in Ops, ReturnOk(o) PROVE VerifiedInv'
  BY <1>16 DEF ReturnOk, Goto, frame, local, switch, HoldsHost, LockedPcs, SessionPcs, Early, Finish, Final, CallbackSucceeded, Verified
<1>17. ASSUME NEW o \in Ops, ReturnError(o) PROVE VerifiedInv'
  BY <1>17 DEF ReturnError, Goto, frame, local, switch, HoldsHost, LockedPcs, SessionPcs, Early, Finish, Final
<1>18. ASSUME NEW o \in Ops, Cancel(o) PROVE VerifiedInv'
  BY <1>18 DEF Cancel, Goto, frame, local, switch, HoldsHost, LockedPcs, SessionPcs, Early
<1>19. ASSUME NEW o \in Ops, NEW s \in Settings, ApplyLate(o, s) PROVE VerifiedInv'
  <2>1. CASE ~HoldsHost(o)
    BY <1>19, <2>1 DEF ApplyLate, Disturb
  <2>2. CASE HoldsHost(o)
    <3>1. running' = [running EXCEPT ![Host(o)][s] = o] /\ UNCHANGED <<pc, local, disturbances>>
      BY <1>19, <2>2 DEF ApplyLate
    <3>2. \A p \in Ops : p # o /\ pc[p] \in BusyPcs => running'[Host(p)] = running[Host(p)]
      BY <2>2, <3>1, BusyAlone, HostType
    <3>3. pc[o] \in {"write", "compare", "startup"} => s \in written[o]
      BY <1>19, <2>2 DEF ApplyLate, FrameInv
    <3>4. pc[o] \in {"write", "compare", "startup"} /\ disturbances = 0 => running' = running
      BY <3>1, <3>3
    <3>5. pc[o] = "work" => \A t \in Settings : running[Host(o)][t] = o => running'[Host(o)][t] = o
      BY <3>1, HostType
    <3> QED
      BY <3>1, <3>2, <3>4, <3>5 DEF local, frame, BusyPcs
  <2> QED
    BY <2>1, <2>2
<1>20. ASSUME NEW o \in Ops, NEW s \in Settings, DropLate(o, s) PROVE VerifiedInv'
  BY <1>20 DEF DropLate, Goto, frame, local, switch, HoldsHost, LockedPcs, SessionPcs, Early
<1>21. ASSUME NEW h \in Hosts, NEW s \in Settings, Reconfigure(h, s) PROVE VerifiedInv'
  BY <1>21 DEF Reconfigure, Disturb
<1>22. ASSUME NEW h \in Hosts, SaveElsewhere(h) PROVE VerifiedInv'
  BY <1>22 DEF SaveElsewhere, Goto, frame, local, switch, HoldsHost, LockedPcs, SessionPcs, Early
<1>23. ASSUME NEW h \in Hosts, Reload(h) PROVE VerifiedInv'
  BY <1>23 DEF Reload, Disturb
<1>24. ASSUME Crash PROVE VerifiedInv'
  BY <1>24 DEF Crash, Goto, frame, local, switch, HoldsHost, LockedPcs, SessionPcs, Early, Live, Final
<1>25. CASE UNCHANGED vars
  BY <1>25 DEF vars, gates, local, switch, frame
<1> QED
  BY <1>1, <1>2, <1>3, <1>4, <1>5, <1>6, <1>7, <1>8, <1>9, <1>10, <1>11, <1>12, <1>13, <1>14, <1>15, <1>16, <1>17, <1>18, <1>19, <1>20, <1>21, <1>22, <1>23, <1>24, <1>25 DEF Next, Step, Wait, Respond, Write, Return, Environment, Done

\* The invariant of Device: every part of it is preserved by every step.
THEOREM Inductive == Spec => []IInv
<1>1. Init => FrameInv /\ VerifiedInv /\ SessionPcInv
  BY DEF Init, FrameInv, VerifiedInv, SessionPcInv, Early, Blank
<1>2. GateInv => OneWorkflowPerHost /\ SessionPcInv
  BY DEF GateInv, Exact, OneWorkflowPerHost, HostHolders, HostKey, SessionPcInv
<1>3. TypeOK /\ KindInv /\ GateInv /\ FrameInv /\ VerifiedInv /\ [Next]_vars
        => FrameInv' /\ VerifiedInv'
  BY <1>2, FrameStep, VerifiedStep
<1>4. QED
  BY <1>1, <1>3, TypeCorrect, GatesCorrect, PTL DEF Spec, IInv

\* Workflows that save before they succeed.
Saving(o) ==
    KindOf[o] = "save" \/ (KindOf[o] = "update" /\ Persistence = "after_each_write")

\* The only way for such a workflow to succeed is the comparison in save.
LEMMA SuccessStep ==
  ASSUME TypeOK, KindInv, [Next]_vars
  PROVE  \A p \in Ops : Saving(p) /\ pc[p] # "ok" /\ pc'[p] = "ok" =>
            pc[p] = "startup" /\ StartupMatches(p)
<1> DEFINE Compared == \A p \in Ops : Saving(p) /\ pc[p] # "ok" /\ pc'[p] = "ok" =>
                          pc[p] = "startup" /\ StartupMatches(p)
<1> SUFFICES Compared
  OBVIOUS
<1> USE DEF TypeOK, Saving
<1>1. ASSUME NEW o \in Ops, Begin(o) PROVE Compared
  BY <1>1 DEF Begin, Goto
<1>2. ASSUME NEW o \in Ops, Lock(o) PROVE Compared
  BY <1>2 DEF Lock, Goto
<1>3. ASSUME NEW o \in Ops, EnterDiscovery(o) PROVE Compared
  BY <1>3 DEF EnterDiscovery, Goto, Finish, switch, Discovered
<1>4. ASSUME NEW o \in Ops, OpenSession(o) PROVE Compared
  BY <1>4 DEF OpenSession, local
<1>5. ASSUME NEW o \in Ops, ReadVersion(o) PROVE Compared
  BY <1>5 DEF ReadVersion, Goto, Finish, switch, Discovered
<1>6. ASSUME NEW o \in Ops, NoSession(o) PROVE Compared
  BY <1>6 DEF NoSession, Goto, Finish, switch, SessionError
<1>7. ASSUME NEW o \in Ops, GiveUp(o) PROVE Compared
  BY <1>7 DEF GiveUp, Goto, Finish, switch
<1>8. ASSUME NEW o \in Ops, BreakSession(o) PROVE Compared
  BY <1>8 DEF BreakSession, Goto, Finish, switch, SessionError
<1>9. ASSUME NEW o \in Ops, Observed(o) PROVE Compared
  BY <1>9 DEF Observed, Goto, Finish, switch, KindInv
<1>10. ASSUME NEW o \in Ops, WriteMemory(o) PROVE Compared
  BY <1>10 DEF WriteMemory, Goto, Finish, switch
<1>11. ASSUME NEW o \in Ops, ReadRunning(o) PROVE Compared
  BY <1>11 DEF ReadRunning, Goto
<1>12. ASSUME NEW o \in Ops, ReadStartup(o) PROVE Compared
  BY <1>12 DEF ReadStartup, Goto, Finish, switch
<1>13. ASSUME NEW o \in Ops, NEW s \in Settings, Accepted(o, s) PROVE Compared
  BY <1>13 DEF Accepted, local
<1>14. ASSUME NEW o \in Ops, NEW s \in Settings, Refused(o, s) PROVE Compared
  BY <1>14 DEF Refused, local
<1>15. ASSUME NEW o \in Ops, Observe(o) PROVE Compared
  BY <1>15 DEF Observe, Goto
<1>16. ASSUME NEW o \in Ops, ReturnOk(o) PROVE Compared
  BY <1>16 DEF ReturnOk, Goto, Finish, switch, KindInv
<1>17. ASSUME NEW o \in Ops, ReturnError(o) PROVE Compared
  BY <1>17 DEF ReturnError, Goto, Finish, switch
<1>18. ASSUME NEW o \in Ops, Cancel(o) PROVE Compared
  BY <1>18 DEF Cancel, local
<1>19. ASSUME NEW o \in Ops, NEW s \in Settings, ApplyLate(o, s) PROVE Compared
  BY <1>19 DEF ApplyLate, local
<1>20. ASSUME NEW o \in Ops, NEW s \in Settings, DropLate(o, s) PROVE Compared
  BY <1>20 DEF DropLate, local
<1>21. ASSUME NEW h \in Hosts, NEW s \in Settings, Reconfigure(h, s) PROVE Compared
  BY <1>21 DEF Reconfigure, local
<1>22. ASSUME NEW h \in Hosts, SaveElsewhere(h) PROVE Compared
  BY <1>22 DEF SaveElsewhere, local
<1>23. ASSUME NEW h \in Hosts, Reload(h) PROVE Compared
  BY <1>23 DEF Reload, local
<1>24. ASSUME Crash PROVE Compared
  BY <1>24 DEF Crash, Goto
<1>25. CASE UNCHANGED vars
  BY <1>25 DEF vars, gates
<1> QED
  BY <1>1, <1>2, <1>3, <1>4, <1>5, <1>6, <1>7, <1>8, <1>9, <1>10, <1>11, <1>12, <1>13, <1>14, <1>15, <1>16, <1>17, <1>18, <1>19, <1>20, <1>21, <1>22, <1>23, <1>24, <1>25 DEF Next, Step, Wait, Respond, Write, Return, Environment, Done

\* After a failed write an update neither writes nor saves nor succeeds.
LEMMA FailedStep ==
  ASSUME TypeOK, FrameInv, [Next]_vars
  PROVE  \A p \in writeFailed : written'[p] \subseteq written[p] /\ pc'[p] \notin {"write", "ok"}
<1> DEFINE Stopped == \A p \in writeFailed :
                         written'[p] \subseteq written[p] /\ pc'[p] \notin {"write", "ok"}
<1> SUFFICES Stopped
  OBVIOUS
<1> USE DEF TypeOK, FrameInv
<1>1. ASSUME NEW o \in Ops, Begin(o) PROVE Stopped
  BY <1>1 DEF Begin, Goto, local, frame
<1>2. ASSUME NEW o \in Ops, Lock(o) PROVE Stopped
  BY <1>2 DEF Lock, Goto, local, frame
<1>3. ASSUME NEW o \in Ops, EnterDiscovery(o) PROVE Stopped
  BY <1>3 DEF EnterDiscovery, Goto, local, frame, Finish, Discovered
<1>4. ASSUME NEW o \in Ops, OpenSession(o) PROVE Stopped
  BY <1>4 DEF OpenSession, local, frame
<1>5. ASSUME NEW o \in Ops, ReadVersion(o) PROVE Stopped
  BY <1>5 DEF ReadVersion, Goto, local, frame, Finish, Discovered
<1>6. ASSUME NEW o \in Ops, NoSession(o) PROVE Stopped
  BY <1>6 DEF NoSession, Goto, local, frame, Finish, SessionError
<1>7. ASSUME NEW o \in Ops, GiveUp(o) PROVE Stopped
  BY <1>7 DEF GiveUp, Goto, local, frame, Finish
<1>8. ASSUME NEW o \in Ops, BreakSession(o) PROVE Stopped
  BY <1>8 DEF BreakSession, Goto, local, frame, Finish, SessionError
<1>9. ASSUME NEW o \in Ops, Observed(o) PROVE Stopped
  BY <1>9 DEF Observed, Goto, local, frame, Finish
<1>10. ASSUME NEW o \in Ops, WriteMemory(o) PROVE Stopped
  BY <1>10 DEF WriteMemory, Goto, local, frame, Finish
<1>11. ASSUME NEW o \in Ops, ReadRunning(o) PROVE Stopped
  BY <1>11 DEF ReadRunning, Goto, local, frame
<1>12. ASSUME NEW o \in Ops, ReadStartup(o) PROVE Stopped
  BY <1>12 DEF ReadStartup, Goto, local, frame, Finish
<1>13. ASSUME NEW o \in Ops, NEW s \in Settings, Accepted(o, s) PROVE Stopped
  BY <1>13 DEF Accepted, Goto, local, frame, MayWrite
<1>14. ASSUME NEW o \in Ops, NEW s \in Settings, Refused(o, s) PROVE Stopped
  BY <1>14 DEF Refused, Goto, local, frame, MayWrite
<1>15. ASSUME NEW o \in Ops, Observe(o) PROVE Stopped
  BY <1>15 DEF Observe, Goto, local, frame
<1>16. ASSUME NEW o \in Ops, ReturnOk(o) PROVE Stopped
  BY <1>16 DEF ReturnOk, Goto, local, frame, Finish, CallbackSucceeded
<1>17. ASSUME NEW o \in Ops, ReturnError(o) PROVE Stopped
  BY <1>17 DEF ReturnError, Goto, local, frame, Finish
<1>18. ASSUME NEW o \in Ops, Cancel(o) PROVE Stopped
  BY <1>18 DEF Cancel, local, frame
<1>19. ASSUME NEW o \in Ops, NEW s \in Settings, ApplyLate(o, s) PROVE Stopped
  BY <1>19 DEF ApplyLate, local, frame
<1>20. ASSUME NEW o \in Ops, NEW s \in Settings, DropLate(o, s) PROVE Stopped
  BY <1>20 DEF DropLate, local, frame
<1>21. ASSUME NEW h \in Hosts, NEW s \in Settings, Reconfigure(h, s) PROVE Stopped
  BY <1>21 DEF Reconfigure, local, frame
<1>22. ASSUME NEW h \in Hosts, SaveElsewhere(h) PROVE Stopped
  BY <1>22 DEF SaveElsewhere, local, frame
<1>23. ASSUME NEW h \in Hosts, Reload(h) PROVE Stopped
  BY <1>23 DEF Reload, local, frame
<1>24. ASSUME Crash PROVE Stopped
  BY <1>24 DEF Crash, Goto, local, frame
<1>25. CASE UNCHANGED vars
  BY <1>25 DEF vars, gates, local, frame
<1> QED
  BY <1>1, <1>2, <1>3, <1>4, <1>5, <1>6, <1>7, <1>8, <1>9, <1>10, <1>11, <1>12, <1>13, <1>14, <1>15, <1>16, <1>17, <1>18, <1>19, <1>20, <1>21, <1>22, <1>23, <1>24, <1>25 DEF Next, Step, Wait, Respond, Write, Return, Environment, Done

\* FailedWriteStopsUpdate for every instance: Update.err is sticky and joined
\* into the result of Device.Update.
THEOREM FailureSticks == Spec => FailedWriteStopsUpdate
<1>1. IInv /\ [Next]_vars => FailureKept
  BY FailedStep DEF IInv, FailureKept
<1> QED
  BY <1>1, Inductive, PTL DEF Spec, FailedWriteStopsUpdate

\* DurableCommit for every instance: a successful update left what it wrote in
\* the startup configuration (Device.Update, Device.save).
THEOREM CommitIsDurable == Spec => DurableCommit
<1>1. IInv /\ [Next]_vars => CommitSaved
  BY SuccessStep DEF IInv, CommitSaved, Succeeds, Saving, VerifiedInv, OwnSettings, StartupMatches
<1> QED
  BY <1>1, Inductive, PTL DEF Spec, DurableCommit

\* DurableSave for every instance: a successful save leaves startup equal to
\* running (Device.Save).
THEOREM SaveIsDurable == Spec => DurableSave
<1>1. ASSUME IInv, [Next]_vars, NEW o \in Ops, KindOf[o] = "save", Succeeds(o)
      PROVE  startup[Host(o)] = running[Host(o)]
  <2>1. pc[o] = "startup" /\ snapshot[o] = startup[Host(o)]
    <3>1. Saving(o) /\ pc[o] # "ok" /\ pc'[o] = "ok"
      BY <1>1 DEF Saving, Succeeds
    <3>2. pc[o] = "startup" /\ StartupMatches(o)
      BY <1>1, <3>1, SuccessStep DEF IInv
    <3> QED
      BY <3>2 DEF StartupMatches
  <2>2. snapshot[o] = running[Host(o)]
    BY <1>1, <2>1 DEF IInv, VerifiedInv, Succeeds
  <2> QED
    BY <2>1, <2>2
<1>2. IInv /\ [Next]_vars => RunningSaved
  BY <1>1 DEF RunningSaved
<1> QED
  BY <1>2, Inductive, PTL DEF Spec, DurableSave

-----------------------------------------------------------------------------
(* Device implements SerialWorkflows.                                      *)

SerialVars == <<WorkflowStatus, running, startup, disturbances # 0>>
SerialStep == [Serial!Next]_SerialVars

\* Where one call's move takes the abstract status.
LEMMA StatusMove ==
  ASSUME TypeOK, NEW o \in Ops, NEW next, Goto(o, next)
  PROVE  WorkflowStatus' = IF o \in Workflows
                           THEN [WorkflowStatus EXCEPT ![o] = Status(next)]
                           ELSE WorkflowStatus
  BY DEF TypeOK, Goto, WorkflowStatus, Workflows

\* The status of each stage of a workflow.
LEMMA StatusOf ==
  /\ Status("idle") = "waiting" /\ Status("lock") = "waiting"
  /\ \A at \in LockedPcs : Status(at) = "active"
  /\ Status("ok") = "succeeded" /\ Status("failed") = "failed" /\ Status("crashed") = "failed"
  BY DEF Status, LockedPcs, SessionPcs

\* A move that keeps the status is invisible.
LEMMA QuietStep ==
  ASSUME TypeOK, NEW o \in Ops, NEW next, Goto(o, next),
         o \in Workflows => Status(next) = Status(pc[o]),
         UNCHANGED <<running, startup, disturbances>>
  PROVE  SerialStep
<1>1. WorkflowStatus' = WorkflowStatus
  BY StatusMove DEF WorkflowStatus
<1> QED
  BY <1>1 DEF SerialStep, SerialVars

\* So is a step that moves no call and leaves the switch alone.
LEMMA StillStep ==
  ASSUME UNCHANGED <<pc, running, startup, disturbances>>
  PROVE  SerialStep
  BY DEF SerialStep, SerialVars, WorkflowStatus

\* A call that has not returned may fail.
LEMMA FailStep ==
  ASSUME TypeOK, NEW o \in Ops, Goto(o, "failed"), pc[o] \notin Final,
         UNCHANGED <<running, startup, disturbances>>
  PROVE  SerialStep
<1>1. CASE o \in Workflows
  <2>1. WorkflowStatus[o] \in {"waiting", "active"}
    BY <1>1, StatusOf DEF WorkflowStatus, TypeOK, Pcs
  <2>2. WorkflowStatus' = [p \in Workflows |-> IF p \in {o} THEN "failed" ELSE WorkflowStatus[p]]
    <3>1. WorkflowStatus' = [WorkflowStatus EXCEPT ![o] = "failed"]
      BY <1>1, StatusMove, StatusOf
    <3> QED
      BY <3>1 DEF WorkflowStatus
  <2>3. Serial!Fail({o})
    BY <2>1, <2>2 DEF Serial!Fail
  <2> QED
    BY <1>1, <2>3 DEF SerialStep, Serial!Next
<1>2. CASE o \notin Workflows
  BY <1>2, QuietStep
<1> QED
  BY <1>1, <1>2

\* A workflow in its callback or later may change a setting of its switch.
LEMMA ConfigureStep ==
  ASSUME TypeOK, NEW o \in Ops, NEW s \in Settings, HoldsHost(o),
         running' = [running EXCEPT ![Host(o)][s] = o],
         UNCHANGED <<pc, startup, disturbances>>
  PROVE  SerialStep
<1>1. o \in Workflows /\ WorkflowStatus[o] = "active" /\ WorkflowStatus' = WorkflowStatus
  BY StatusOf DEF HoldsHost, Workflows, WorkflowStatus
<1>2. Serial!Configure(o)
  BY <1>1 DEF Serial!Configure, HostOfWorkflow
<1> QED
  BY <1>1, <1>2 DEF SerialStep, Serial!Next

\* Anybody else may change the switch, as a disturbance.
LEMMA DisturbStep ==
  ASSUME TypeOK, NEW h \in Hosts, NEW c \in [Settings -> Values], Disturb,
         running' = [running EXCEPT ![h] = c], UNCHANGED <<pc, startup>>
  PROVE  SerialStep
<1>1. (disturbances # 0)' = TRUE
  BY DEF Disturb, TypeOK
<1>2. Serial!Disturb(h)
  BY <1>1 DEF Serial!Disturb, WorkflowStatus
<1> QED
  BY <1>2 DEF SerialStep, Serial!Next

\* A workflow that saves succeeds only with its switch saved.
LEMMA SucceedStep ==
  ASSUME TypeOK, NEW o \in Workflows, Goto(o, "ok"), pc[o] \in LockedPcs,
         o \in Savers /\ disturbances = 0 => startup[Host(o)] = running[Host(o)],
         UNCHANGED <<running, startup, disturbances>>
  PROVE  SerialStep
<1>1. WorkflowStatus[o] = "active" /\ WorkflowStatus' = [WorkflowStatus EXCEPT ![o] = "succeeded"]
  <2>1. o \in Ops
    BY DEF Workflows
  <2>2. WorkflowStatus[o] = "active"
    BY StatusOf DEF WorkflowStatus
  <2> QED
    BY <2>1, <2>2, StatusMove, StatusOf
<1>2. Serial!Succeed(o)
  BY <1>1 DEF Serial!Succeed, HostOfWorkflow
<1> QED
  BY <1>2 DEF SerialStep, Serial!Next

\* The end of a discovery is invisible: a workflow goes on, and a Discover call
\* is not one.
LEMMA DiscoveredSerial ==
  ASSUME TypeOK, KindInv, NEW o \in Ops, Discovered(o), pc[o] \in {"discovery", "version"},
         UNCHANGED <<running, startup, disturbances>>
  PROVE  SerialStep
<1>1. PICK next \in {"ok", "work", "write"} : Goto(o, next) /\ (next = "ok" => o \notin Workflows)
  BY DEF Discovered, Finish, Workflows, Workflow
<1> QED
  BY <1>1, QuietStep, StatusOf DEF LockedPcs, SessionPcs

\* A failed session is invisible in a callback and a failure elsewhere.
LEMMA SessionErrorSerial ==
  ASSUME TypeOK, NEW o \in Ops, SessionError(o), pc[o] \in SessionPcs,
         UNCHANGED <<running, startup, disturbances>>
  PROVE  SerialStep
<1>1. PICK next \in {"work", "failed"} :
         Goto(o, next) /\ (next = "work" => pc[o] = "observe")
  BY DEF SessionError, Finish
<1> QED
  BY <1>1, QuietStep, FailStep, StatusOf DEF LockedPcs, SessionPcs, Final

\* Every step of Device is a step of SerialWorkflows.
LEMMA SerialNext ==
  ASSUME IInv, IInv', [Next]_vars
  PROVE  SerialStep
<1> USE DEF IInv
<1>1. ASSUME NEW o \in Ops, Begin(o) PROVE SerialStep
  <2>1. PICK next \in {"failed", "discovery", "observe", "lock"} :
           Goto(o, next) /\ (o \in Workflows => next \in {"failed", "lock"})
    BY <1>1 DEF Begin, Workflows, Workflow
  <2> QED
    BY <1>1, <2>1, QuietStep, FailStep, StatusOf DEF Begin, switch, Final
<1>2. ASSUME NEW o \in Ops, Lock(o) PROVE SerialStep
  <2>1. o \in Workflows /\ WorkflowStatus[o] = "waiting"
    BY <1>2, StatusOf DEF Lock, KindInv, Workflows, WorkflowStatus
  <2>2. WorkflowStatus' = [WorkflowStatus EXCEPT ![o] = "active"]
    BY <1>2, <2>1, StatusMove, StatusOf DEF Lock, LockedPcs
  <2>3. \A p \in Workflows : WorkflowStatus[p] = "active" => HoldsHost(p)
    BY DEF WorkflowStatus, Status, Workflows, HoldsHost
  <2>4. \A p \in Workflows : WorkflowStatus[p] = "active" => Host(p) # Host(o)
    BY <1>2, <2>3 DEF Lock, HostFree, GateInv, Exact, HostHolders, HostKey, Workflows
  <2>5. Serial!Start(o)
    BY <1>2, <2>1, <2>2, <2>4 DEF Lock, switch, Serial!Start, HostOfWorkflow
  <2> QED
    BY <2>1, <2>5 DEF SerialStep, Serial!Next
<1>3. ASSUME NEW o \in Ops, EnterDiscovery(o) PROVE SerialStep
  <2>1. CASE DeviceOf[o] \in capabilities
    BY <1>3, <2>1, DiscoveredSerial DEF EnterDiscovery, switch
  <2>2. CASE DeviceOf[o] \notin capabilities
    <3>1. pc[o] = "discovery" /\ Goto(o, "version") /\ UNCHANGED <<running, startup, disturbances>>
      BY <1>3, <2>2 DEF EnterDiscovery, switch
    <3> QED
      BY <3>1, QuietStep, StatusOf DEF LockedPcs, SessionPcs
  <2> QED
    BY <2>1, <2>2
<1>4. ASSUME NEW o \in Ops, OpenSession(o) PROVE SerialStep
  BY <1>4, StillStep DEF OpenSession, switch
<1>5. ASSUME NEW o \in Ops, ReadVersion(o) PROVE SerialStep
  BY <1>5, DiscoveredSerial DEF ReadVersion, switch
<1>6. ASSUME NEW o \in Ops, NoSession(o) PROVE SerialStep
  BY <1>6, SessionErrorSerial DEF NoSession, NeedsSession, switch
<1>7. ASSUME NEW o \in Ops, GiveUp(o) PROVE SerialStep
  BY <1>7, FailStep DEF GiveUp, Finish, Final, switch
<1>8. ASSUME NEW o \in Ops, BreakSession(o) PROVE SerialStep
  BY <1>8, SessionErrorSerial DEF BreakSession, GateInv, switch
<1>9. ASSUME NEW o \in Ops, Observed(o) PROVE SerialStep
  <2>1. CASE KindOf[o] = "update"
    BY <1>9, <2>1, QuietStep, StatusOf DEF Observed, LockedPcs, SessionPcs, switch
  <2>2. CASE KindOf[o] # "update"
    <3>1. o \notin Workflows
      BY <1>9, <2>2 DEF Observed, KindInv, Workflows, Workflow
    <3> QED
      BY <1>9, <2>2, <3>1, QuietStep DEF Observed, Finish, switch
  <2> QED
    BY <2>1, <2>2
<1>10. ASSUME NEW o \in Ops, WriteMemory(o) PROVE SerialStep
  <2>1. o \in Workflows /\ WorkflowStatus[o] = "active" /\ Host(o) \in Hosts
    BY <1>10, StatusOf, HostType DEF WriteMemory, KindInv, Workflows, WorkflowStatus, LockedPcs, SessionPcs
  <2>2. PICK next \in {"compare", "failed"} : Goto(o, next)
    BY <1>10 DEF WriteMemory, Finish
  <2>3. CASE UNCHANGED startup
    BY <1>10, <2>2, <2>3, QuietStep, FailStep, StatusOf DEF WriteMemory, LockedPcs, SessionPcs, Final
  <2>4. CASE startup' = [startup EXCEPT ![Host(o)] = running[Host(o)]]
    <3>1. WorkflowStatus' = WorkflowStatus \/ WorkflowStatus' = [WorkflowStatus EXCEPT ![o] = "failed"]
      <4>1. CASE next = "compare"
        <5>1. WorkflowStatus' = [WorkflowStatus EXCEPT ![o] = "active"]
          BY <2>1, <2>2, <4>1, StatusMove, StatusOf DEF LockedPcs, SessionPcs
        <5> QED
          BY <2>1, <5>1 DEF WorkflowStatus
      <4>2. CASE next = "failed"
        BY <2>1, <2>2, <4>2, StatusMove, StatusOf
      <4> QED
        BY <4>1, <4>2
    <3>2. Serial!Persist(Host(o))
      BY <1>10, <2>1, <2>4, <3>1 DEF WriteMemory, Serial!Persist, Serial!Saved, HostOfWorkflow
    <3> QED
      BY <2>1, <3>2 DEF SerialStep, Serial!Next
  <2> QED
    BY <1>10, <2>3, <2>4 DEF WriteMemory
<1>11. ASSUME NEW o \in Ops, ReadRunning(o) PROVE SerialStep
  BY <1>11, QuietStep, StatusOf DEF ReadRunning, LockedPcs, SessionPcs, switch
<1>12. ASSUME NEW o \in Ops, ReadStartup(o) PROVE SerialStep
  <2>1. o \in Workflows /\ pc[o] \in LockedPcs /\ pc[o] \notin Final
    BY <1>12 DEF ReadStartup, KindInv, Workflows, LockedPcs, SessionPcs, Final
  <2>2. CASE StartupMatches(o)
    <3>1. disturbances = 0 => startup[Host(o)] = running[Host(o)]
      BY <1>12, <2>2 DEF ReadStartup, StartupMatches, VerifiedInv
    <3> QED
      BY <1>12, <2>1, <2>2, <3>1, SucceedStep DEF ReadStartup, Finish, switch
  <2>3. CASE ~StartupMatches(o)
    BY <1>12, <2>1, <2>3, FailStep DEF ReadStartup, Finish, switch
  <2> QED
    BY <2>2, <2>3
<1>13. ASSUME NEW o \in Ops, NEW s \in Settings, Accepted(o, s) PROVE SerialStep
  <2>1. HoldsHost(o) /\ UNCHANGED <<pc, startup, disturbances>>
    BY <1>13 DEF Accepted, MayWrite, KindInv, HoldsHost, Workflow, LockedPcs
  <2>2. CASE UNCHANGED running
    BY <2>1, <2>2, StillStep
  <2>3. CASE running' = [running EXCEPT ![Host(o)][s] = o]
    BY <2>1, <2>3, ConfigureStep
  <2> QED
    BY <1>13, <2>2, <2>3 DEF Accepted, Effect
<1>14. ASSUME NEW o \in Ops, NEW s \in Settings, Refused(o, s) PROVE SerialStep
  <2>1. HoldsHost(o) /\ UNCHANGED <<pc, startup, disturbances>>
    BY <1>14 DEF Refused, MayWrite, KindInv, HoldsHost, Workflow, LockedPcs
  <2>2. CASE UNCHANGED running
    BY <2>1, <2>2, StillStep
  <2>3. CASE running' = [running EXCEPT ![Host(o)][s] = o]
    BY <2>1, <2>3, ConfigureStep
  <2> QED
    BY <1>14, <2>2, <2>3 DEF Refused, Effect
<1>15. ASSUME NEW o \in Ops, Observe(o) PROVE SerialStep
  BY <1>15, QuietStep, StatusOf DEF Observe, LockedPcs, SessionPcs, switch
<1>16. ASSUME NEW o \in Ops, ReturnOk(o) PROVE SerialStep
  <2>1. CASE Persistence = "after_each_write"
    BY <1>16, <2>1, QuietStep, StatusOf DEF ReturnOk, LockedPcs, SessionPcs, switch
  <2>2. CASE Persistence # "after_each_write"
    <3>1. o \in Workflows /\ o \notin Savers /\ pc[o] \in LockedPcs
      BY <1>16, <2>2 DEF ReturnOk, KindInv, Workflows, Workflow, Savers, LockedPcs
    <3> QED
      BY <1>16, <2>2, <3>1, SucceedStep DEF ReturnOk, Finish, switch
  <2> QED
    BY <2>1, <2>2
<1>17. ASSUME NEW o \in Ops, ReturnError(o) PROVE SerialStep
  BY <1>17, FailStep DEF ReturnError, Finish, Final, switch
<1>18. ASSUME NEW o \in Ops, Cancel(o) PROVE SerialStep
  BY <1>18, StillStep DEF Cancel, switch
<1>19. ASSUME NEW o \in Ops, NEW s \in Settings, ApplyLate(o, s) PROVE SerialStep
  <2>1. CASE HoldsHost(o)
    BY <1>19, <2>1, ConfigureStep DEF ApplyLate
  <2>2. CASE ~HoldsHost(o)
    <3>1. Host(o) \in Hosts /\ [running[Host(o)] EXCEPT ![s] = o] \in [Settings -> Values]
      BY HostType DEF TypeOK, Values
    <3>2. running' = [running EXCEPT ![Host(o)] = [running[Host(o)] EXCEPT ![s] = o]]
      BY <1>19, <3>1 DEF ApplyLate, TypeOK
    <3> QED
      BY <1>19, <2>2, <3>1, <3>2, DisturbStep DEF ApplyLate
  <2> QED
    BY <2>1, <2>2
<1>20. ASSUME NEW o \in Ops, NEW s \in Settings, DropLate(o, s) PROVE SerialStep
  BY <1>20, StillStep DEF DropLate, switch
<1>21. ASSUME NEW h \in Hosts, NEW s \in Settings, Reconfigure(h, s) PROVE SerialStep
  <2>1. [running[h] EXCEPT ![s] = Foreign] \in [Settings -> Values]
    BY DEF TypeOK, Values
  <2>2. running' = [running EXCEPT ![h] = [running[h] EXCEPT ![s] = Foreign]]
    BY <1>21 DEF Reconfigure, TypeOK
  <2> QED
    BY <1>21, <2>1, <2>2, DisturbStep DEF Reconfigure
<1>22. ASSUME NEW h \in Hosts, SaveElsewhere(h) PROVE SerialStep
  <2>1. Serial!Persist(h)
    BY <1>22 DEF SaveElsewhere, Serial!Persist, Serial!Saved, WorkflowStatus
  <2> QED
    BY <2>1 DEF SerialStep, Serial!Next
<1>23. ASSUME NEW h \in Hosts, Reload(h) PROVE SerialStep
  BY <1>23, DisturbStep DEF Reload, TypeOK
<1>24. ASSUME Crash PROVE SerialStep
  <2> DEFINE group == {o \in Workflows : Live(o)}
  <2>1. \A o \in group : WorkflowStatus[o] \in {"waiting", "active"}
    BY StatusOf DEF WorkflowStatus, Live, Workflows, TypeOK, Pcs
  <2>2. WorkflowStatus' = [o \in Workflows |-> IF o \in group THEN "failed" ELSE WorkflowStatus[o]]
    BY <1>24, StatusOf DEF Crash, WorkflowStatus, Workflows
  <2>3. Serial!Fail(group)
    BY <1>24, <2>1, <2>2 DEF Crash, switch, Serial!Fail
  <2> QED
    BY <2>3 DEF SerialStep, Serial!Next
<1>25. CASE UNCHANGED vars
  BY <1>25, StillStep DEF vars, switch
<1> QED
  BY <1>1, <1>2, <1>3, <1>4, <1>5, <1>6, <1>7, <1>8, <1>9, <1>10, <1>11, <1>12, <1>13, <1>14, <1>15, <1>16, <1>17, <1>18, <1>19, <1>20, <1>21, <1>22, <1>23, <1>24, <1>25 DEF Next, Step, Wait, Respond, Write, Return, Environment, Done

\* Device implements SerialWorkflows: for every caller of Update and Save the
\* gates, the callback bookkeeping and the save sequence amount to workflows
\* that run one after another and succeed only with their switch saved.
THEOREM DeviceIsSerial == Spec => SerialSpec
<1>1. Init => Serial!Init
  BY StatusOf, ConfigAssumption DEF Init, Serial!Init, WorkflowStatus, Workflows, Blank
<1>2. IInv /\ IInv' /\ [Next]_vars => [Serial!Next]_(Serial!vars)
  BY SerialNext DEF SerialStep, SerialVars, Serial!vars
<1> QED
  BY <1>1, <1>2, Inductive, PTL DEF Spec, SerialSpec, Serial!Spec
=============================================================================
