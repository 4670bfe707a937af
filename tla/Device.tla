------------------------------- MODULE Device -------------------------------
(* Workflows of one provider process against FastIron switches:            *)
(* internal/fastiron/device.go and update.go over the SSH client's         *)
(* endpoint gate (internal/transport/ssh/client.go).                       *)
(*                                                                         *)
(* A call of the Go API is an element of Ops, taken by its goroutine from  *)
(* "idle" to a final pc.  A switch is its running and startup             *)
(* configuration: for each setting, the call whose write it holds, or      *)
(* Foreign.  The three gates are Go channels of capacity one: a gate is in *)
(* the set while its channel is full, and the channel does not know who    *)
(* filled it.                                                              *)
EXTENDS Naturals

CONSTANTS
    Ops,            \* calls made by the provider's resources and data sources
    Devices,        \* fastiron.Device values: one per configured provider
    Hosts,          \* canonical host names, the keys of the hosts map
    Endpoints,      \* canonical SSH addresses, the keys of the endpoints map
    DeviceOf, HostOf, EndpointOf,
    KindOf,         \* which API function a call is
    CLIDevices,     \* devices configured with SSH
    RESTDevices,    \* devices whose transport policy allows RESTCONF
    Persistence,    \* persistence_mode
    Settings,       \* units of configuration a write changes
    Foreign,        \* a value no call of this process wrote
    MaxDisturbances,\* bound on changes made from outside any live workflow
    MaxCrashes      \* bound on provider process crashes

Kinds == {"update", "save", "discover", "read"}

ASSUME ConfigAssumption ==
    /\ DeviceOf \in [Ops -> Devices]
    /\ HostOf \in [Devices -> Hosts]
    /\ EndpointOf \in [Devices -> Endpoints]
    /\ KindOf \in [Ops -> Kinds]
    /\ CLIDevices \subseteq Devices
    /\ RESTDevices \subseteq Devices
    /\ Persistence \in {"after_each_write", "manual", "never"}
    /\ Foreign \notin Ops
    /\ MaxDisturbances \in Nat
    /\ MaxCrashes \in Nat

VARIABLES
    pc,             \* where each call is
    cancelled,      \* calls whose context is done
    hostGate,       \* full Device.gate channels, by host
    discoveryGate,  \* full Device.discoveryGate channels, by device
    sshGate,        \* full Client.gate channels, by endpoint
    session,        \* calls with an open SSH session
    capabilities,   \* devices whose firmware is known
    writeFailed,    \* updates with Update.err set
    written,        \* settings whose write was answered without an error
    snapshot,       \* the native configuration a call last read
    running, startup,
    late,           \* <<call, setting>>: writes the switch may still apply
    disturbances, crashes

gates == <<hostGate, discoveryGate, sshGate, session>>
switch == <<running, startup, late, disturbances>>
frame == <<cancelled, writeFailed, written, snapshot>>
local == <<capabilities, frame>>
vars == <<pc, gates, local, switch, crashes>>

Values == Ops \union {Foreign}
Blank == [s \in Settings |-> Foreign]

Host(o) == HostOf[DeviceOf[o]]
Endpoint(o) == EndpointOf[DeviceOf[o]]

Final == {"ok", "failed", "crashed"}
SessionPcs == {"version", "observe", "write", "compare", "startup"}
LockedPcs == {"discovery", "work"} \union SessionPcs
Pcs == {"idle", "lock"} \union LockedPcs \union Final

Live(o) == pc[o] \notin {"idle"} \union Final

\* Update and Save serialize a complete workflow; Discover and RunningConfig
\* called on their own do not take the host gate.
Workflow(o) == KindOf[o] \in {"update", "save"}
HoldsHost(o) == Workflow(o) /\ pc[o] \in LockedPcs
HoldsDiscovery(o) == pc[o] = "version"

Init ==
    /\ pc = [o \in Ops |-> "idle"]
    /\ cancelled = {} /\ session = {}
    /\ hostGate = {} /\ discoveryGate = {} /\ sshGate = {}
    /\ capabilities = {} /\ writeFailed = {}
    /\ written = [o \in Ops |-> {}]
    /\ snapshot = [o \in Ops |-> Blank]
    /\ running = [h \in Hosts |-> Blank]
    /\ startup = [h \in Hosts |-> Blank]
    /\ late = {} /\ disturbances = 0 /\ crashes = 0

-----------------------------------------------------------------------------
(* Gates.                                                                  *)

\* Faults the properties must detect.
HostAlwaysFree(o) == TRUE
EndpointAlwaysFree(o) == TRUE

HostFree(o) == Host(o) \notin hostGate
DiscoveryFree(o) == DeviceOf[o] \notin discoveryGate
EndpointFree(o) == Endpoint(o) \notin sshGate

\* Client.Run returns: the deferred functions close the session and empty the
\* endpoint gate.
CloseSession(o) ==
    /\ session' = session \ {o}
    /\ sshGate' = IF o \in session THEN sshGate \ {Endpoint(o)} ELSE sshGate

\* A fault the properties must detect.
KeepDiscovery(o) == UNCHANGED discoveryGate

LeaveDiscovery(o) ==
    discoveryGate' = IF HoldsDiscovery(o)
                     THEN discoveryGate \ {DeviceOf[o]} ELSE discoveryGate

Unlock(o) ==
    hostGate' = IF HoldsHost(o) THEN hostGate \ {Host(o)} ELSE hostGate

Goto(o, next) == pc' = [pc EXCEPT ![o] = next]

\* A call returns: every deferred function of the frames it leaves runs, and
\* what the call kept in them is gone.
Finish(o, result) ==
    /\ Goto(o, result)
    /\ CloseSession(o) /\ LeaveDiscovery(o) /\ Unlock(o)
    /\ cancelled' = cancelled \ {o}
    /\ writeFailed' = writeFailed \ {o}
    /\ written' = [written EXCEPT ![o] = {}]
    /\ snapshot' = [snapshot EXCEPT ![o] = Blank]

-----------------------------------------------------------------------------
(* Starting a call, waiting for a gate, discovery.                         *)

Begin(o) ==
    /\ pc[o] = "idle"
    /\ Goto(o, CASE KindOf[o] = "save" /\ Persistence = "never" -> "failed"
                 [] KindOf[o] = "discover" -> "discovery"
                 [] KindOf[o] = "read" -> "observe"
                 [] OTHER -> "lock")
    /\ UNCHANGED <<gates, local, switch, crashes>>

\* select picks either ready case, so a cancelled call can still get the gate.
Lock(o) ==
    /\ pc[o] = "lock" /\ HostFree(o)
    /\ hostGate' = hostGate \union {Host(o)}
    /\ Goto(o, "discovery")
    /\ UNCHANGED <<discoveryGate, sshGate, session, local, switch, crashes>>

\* Discover returned without an error.
Discovered(o) ==
    IF KindOf[o] = "discover" THEN Finish(o, "ok")
    ELSE /\ Goto(o, IF KindOf[o] = "update" THEN "work" ELSE "write")
         /\ CloseSession(o) /\ LeaveDiscovery(o)
         /\ UNCHANGED <<hostGate, frame>>

\* A known version is returned, and the gate given back, in the same step.
EnterDiscovery(o) ==
    /\ pc[o] = "discovery" /\ DiscoveryFree(o)
    /\ IF DeviceOf[o] \in capabilities
       THEN Discovered(o)
       ELSE /\ Goto(o, "version")
            /\ discoveryGate' = discoveryGate \union {DeviceOf[o]}
            /\ UNCHANGED <<hostGate, sshGate, session, frame>>
    /\ UNCHANGED <<capabilities, switch, crashes>>

\* A failed Run: a reconciliation callback receives the error and may go on,
\* every other caller returns it.
SessionError(o) ==
    IF KindOf[o] = "update" /\ pc[o] = "observe"
    THEN /\ Goto(o, "work") /\ CloseSession(o)
         /\ snapshot' = [snapshot EXCEPT ![o] = Blank]
         /\ UNCHANGED <<hostGate, discoveryGate, cancelled, writeFailed, written>>
    ELSE Finish(o, "failed")

NeedsSession(o) == pc[o] \in SessionPcs /\ o \notin session

OpenSession(o) ==
    /\ NeedsSession(o) /\ DeviceOf[o] \in CLIDevices
    /\ o \notin cancelled           \* DialContext refuses a done context
    /\ EndpointFree(o)
    /\ session' = session \union {o}
    /\ sshGate' = sshGate \union {Endpoint(o)}
    /\ UNCHANGED <<pc, hostGate, discoveryGate, local, switch, crashes>>

\* No session was opened: SSH is not configured, or the context is done.
NoSession(o) ==
    /\ NeedsSession(o)
    /\ DeviceOf[o] \notin CLIDevices \/ o \in cancelled
    /\ SessionError(o)
    /\ UNCHANGED <<capabilities, switch, crashes>>

GiveUp(o) ==
    /\ pc[o] \in {"lock", "discovery"} /\ o \in cancelled
    /\ Finish(o, "failed")
    /\ UNCHANGED <<capabilities, switch, crashes>>

\* Timeout, lost connection, rejected command or unusable output.
BreakSession(o) ==
    /\ o \in session
    /\ SessionError(o)
    /\ UNCHANGED <<capabilities, switch, crashes>>

ReadVersion(o) ==
    /\ pc[o] = "version" /\ o \in session
    /\ capabilities' = capabilities \union {DeviceOf[o]}
    /\ Discovered(o)
    /\ UNCHANGED <<switch, crashes>>

-----------------------------------------------------------------------------
(* The reconciliation callback of Update.                                  *)

MayWrite(o) == pc[o] = "work" /\ o \notin writeFailed

\* What the switch does with a request it received: apply it at once, apply it
\* after it answered, or not at all.
Effect(o, s) ==
    \/ /\ running' = [running EXCEPT ![Host(o)][s] = o]
       /\ UNCHANGED late
    \/ /\ late' = late \union {<<o, s>>}
       /\ UNCHANGED running
    \/ UNCHANGED <<running, late>>

\* REST returns nil.  DeleteIfPresent answers a missing object the same way.
Accepted(o, s) ==
    /\ MayWrite(o)
    /\ DeviceOf[o] \in RESTDevices /\ o \notin cancelled
    /\ written' = [written EXCEPT ![o] = @ \union {s}]
    /\ snapshot' = [snapshot EXCEPT ![o] = Blank]
    /\ Effect(o, s)
    /\ UNCHANGED <<pc, gates, cancelled, capabilities, writeFailed, startup,
                   disturbances, crashes>>

\* REST returns an error, which says nothing about the effect unless the
\* request was never sent.
Refused(o, s) ==
    /\ MayWrite(o)
    /\ writeFailed' = writeFailed \union {o}
    /\ snapshot' = [snapshot EXCEPT ![o] = Blank]
    /\ IF DeviceOf[o] \in RESTDevices /\ o \notin cancelled
       THEN Effect(o, s) ELSE UNCHANGED <<running, late>>
    /\ UNCHANGED <<pc, gates, cancelled, capabilities, written, startup,
                   disturbances, crashes>>

Observe(o) ==
    /\ pc[o] = "work"
    /\ Goto(o, "observe")
    /\ UNCHANGED <<gates, local, switch, crashes>>

\* RunningConfig returned a complete document.
Observed(o) ==
    /\ pc[o] = "observe" /\ o \in session
    /\ IF KindOf[o] = "update"
       THEN /\ Goto(o, "work") /\ CloseSession(o)
            /\ snapshot' = [snapshot EXCEPT ![o] = running[Host(o)]]
            /\ UNCHANGED <<hostGate, discoveryGate, cancelled, writeFailed, written>>
       ELSE Finish(o, "ok")
    /\ UNCHANGED <<capabilities, switch, crashes>>

\* Feature code owns readback: its callback returns nil only after the
\* configuration it read last holds everything it wrote.
Verified(o) == \A s \in written[o] : snapshot[o][s] = o

IgnoreWriteError(o) == Verified(o)
CallbackSucceeded(o) == Verified(o) /\ o \notin writeFailed

ReturnOk(o) ==
    /\ pc[o] = "work" /\ CallbackSucceeded(o)
    /\ IF Persistence = "after_each_write"
       THEN Goto(o, "write") /\ UNCHANGED <<gates, frame>>
       ELSE Finish(o, "ok")
    /\ UNCHANGED <<capabilities, switch, crashes>>

ReturnError(o) ==
    /\ pc[o] = "work"
    /\ Finish(o, "failed")
    /\ UNCHANGED <<capabilities, switch, crashes>>

-----------------------------------------------------------------------------
(* Device.save.                                                            *)

\* The switch may print the confirmation without having written, and may have
\* written without printing it.
WriteMemory(o) ==
    /\ pc[o] = "write" /\ o \in session
    /\ \/ startup' = [startup EXCEPT ![Host(o)] = running[Host(o)]]
       \/ UNCHANGED startup
    /\ \/ /\ Goto(o, "compare") /\ CloseSession(o)
          /\ UNCHANGED <<hostGate, discoveryGate, frame>>
       \/ Finish(o, "failed")
    /\ UNCHANGED <<capabilities, running, late, disturbances, crashes>>

ReadRunning(o) ==
    /\ pc[o] = "compare" /\ o \in session
    /\ snapshot' = [snapshot EXCEPT ![o] = running[Host(o)]]
    /\ Goto(o, "startup")
    /\ UNCHANGED <<gates, cancelled, capabilities, writeFailed, written, switch, crashes>>

TrustConfirmation(o) == TRUE
StartupMatches(o) == snapshot[o] = startup[Host(o)]

ReadStartup(o) ==
    /\ pc[o] = "startup" /\ o \in session
    /\ Finish(o, IF StartupMatches(o) THEN "ok" ELSE "failed")
    /\ UNCHANGED <<capabilities, switch, crashes>>

-----------------------------------------------------------------------------
(* The switch and the world around the process.                            *)

\* A change that no live workflow of the setting's host makes.
Disturb == disturbances < MaxDisturbances /\ disturbances' = disturbances + 1

\* A late write takes effect; it is a disturbance once its workflow has ended.
ApplyLate(o, s) ==
    /\ <<o, s>> \in late
    /\ late' = late \ {<<o, s>>}
    /\ running' = [running EXCEPT ![Host(o)][s] = o]
    /\ IF HoldsHost(o) THEN UNCHANGED disturbances ELSE Disturb
    /\ UNCHANGED <<pc, gates, local, startup, crashes>>

DropLate(o, s) ==
    /\ <<o, s>> \in late
    /\ late' = late \ {<<o, s>>}
    /\ UNCHANGED <<pc, gates, local, running, startup, disturbances, crashes>>

\* Somebody else configures the switch.
Reconfigure(h, s) ==
    /\ running[h][s] # Foreign
    /\ Disturb
    /\ running' = [running EXCEPT ![h][s] = Foreign]
    /\ UNCHANGED <<pc, gates, local, startup, late, crashes>>

\* Somebody else saves the running configuration.
SaveElsewhere(h) ==
    /\ startup' = [startup EXCEPT ![h] = running[h]]
    /\ UNCHANGED <<pc, gates, local, running, late, disturbances, crashes>>

Reload(h) ==
    /\ Disturb
    /\ running' = [running EXCEPT ![h] = startup[h]]
    /\ late' = {w \in late : Host(w[1]) # h}
    /\ UNCHANGED <<pc, gates, local, startup, crashes>>

Cancel(o) ==
    /\ Live(o) /\ o \notin cancelled
    /\ cancelled' = cancelled \union {o}
    /\ UNCHANGED <<pc, gates, capabilities, writeFailed, written, snapshot, switch, crashes>>

\* The provider process dies: gates, sessions and caches die with it.  Calls
\* that have not begun belong to the next process.
Crash ==
    /\ crashes < MaxCrashes /\ \E o \in Ops : Live(o)
    /\ crashes' = crashes + 1
    /\ pc' = [o \in Ops |-> IF Live(o) THEN "crashed" ELSE pc[o]]
    /\ hostGate' = {} /\ discoveryGate' = {} /\ sshGate' = {} /\ session' = {}
    /\ capabilities' = {} /\ cancelled' = {} /\ writeFailed' = {}
    /\ written' = [o \in Ops |-> {}]
    /\ snapshot' = [o \in Ops |-> Blank]
    /\ UNCHANGED switch

-----------------------------------------------------------------------------
Wait(o) == Lock(o) \/ EnterDiscovery(o) \/ OpenSession(o)

Respond(o) ==
    \/ ReadVersion(o) \/ NoSession(o) \/ GiveUp(o) \/ BreakSession(o)
    \/ Observed(o) \/ WriteMemory(o) \/ ReadRunning(o) \/ ReadStartup(o)

Return(o) == ReturnOk(o) \/ ReturnError(o)

Write(o) == \E s \in Settings : Accepted(o, s) \/ Refused(o, s)

Environment ==
    \/ \E o \in Ops, s \in Settings : ApplyLate(o, s) \/ DropLate(o, s)
    \/ \E h \in Hosts, s \in Settings : Reconfigure(h, s)
    \/ \E h \in Hosts : SaveElsewhere(h) \/ Reload(h)
    \/ Crash

Done == (\A o \in Ops : ~Live(o)) /\ UNCHANGED vars

Step(o) ==
    Begin(o) \/ Wait(o) \/ Respond(o) \/ Write(o) \/ Observe(o) \/ Return(o) \/ Cancel(o)

Next == (\E o \in Ops : Step(o)) \/ Environment \/ Done

Spec == Init /\ [][Next]_vars

\* Blocked channel senders queue in order, so a gate that keeps becoming free
\* is eventually got.  The SSH timeout ends every session.  A callback's waits
\* have deadlines, so it cannot poll or write for ever.
Fairness ==
    \A o \in Ops :
        SF_vars(Wait(o)) /\ WF_vars(Respond(o)) /\ SF_vars(Return(o))

FairSpec == Spec /\ Fairness

-----------------------------------------------------------------------------
(* Properties.                                                             *)

\* Every variable has its type.
TypeOK ==
    /\ pc \in [Ops -> Pcs]
    /\ cancelled \subseteq Ops /\ session \subseteq Ops /\ writeFailed \subseteq Ops
    /\ hostGate \subseteq Hosts
    /\ discoveryGate \subseteq Devices
    /\ sshGate \subseteq Endpoints
    /\ capabilities \subseteq Devices
    /\ written \in [Ops -> SUBSET Settings]
    /\ snapshot \in [Ops -> [Settings -> Values]]
    /\ running \in [Hosts -> [Settings -> Values]]
    /\ startup \in [Hosts -> [Settings -> Values]]
    /\ late \subseteq Ops \X Settings
    /\ disturbances \in Nat /\ crashes \in Nat

\* Two calls never run workflows against the same switch at once, whichever
\* provider alias they came through: Device.lock on the shared gate.
OneWorkflowPerHost ==
    \A o, p \in Ops : HoldsHost(o) /\ HoldsHost(p) /\ Host(o) = Host(p) => o = p

\* Concurrent CLI sessions can duplicate or omit running-config sections, so
\* two sessions never share an endpoint: Client.Run's gate.
OneSessionPerEndpoint ==
    \A o, p \in session : Endpoint(o) = Endpoint(p) => o = p

\* Firmware is sampled once per configured provider: nobody is asking for the
\* version of a device that already has it (Discover).
VersionSampledOnce ==
    \A o \in session : pc[o] = "version" => DeviceOf[o] \notin capabilities

\* Every gate that is full belongs to a call that will empty it: an error,
\* cancellation or success on any path releases what it took.
NoLeakedGate ==
    /\ \A h \in hostGate : \E o \in Ops : HoldsHost(o) /\ Host(o) = h
    /\ \A d \in discoveryGate : \E o \in Ops : HoldsDiscovery(o) /\ DeviceOf[o] = d
    /\ \A e \in sshGate : \E o \in session : Endpoint(o) = e

\* After one write of an update failed, whatever its callback makes of the
\* error, the update sends no other write and neither saves nor succeeds
\* (Update.err in Device.Update and Update.rest).
FailureKept ==
    \A o \in writeFailed :
        written'[o] \subseteq written[o] /\ pc'[o] \notin {"write", "ok"}

FailedWriteStopsUpdate == [][FailureKept]_vars

Succeeds(o) == pc[o] # "ok" /\ pc'[o] = "ok" /\ disturbances = 0

\* An update that reports success has left every setting it wrote in the
\* startup configuration, with its own value, even if the switch confirmed
\* "write memory" without saving, answered a write it dropped, or applied it
\* late; unless somebody else changed the switch (Device.save, Device.Update).
CommitSaved ==
    \A o \in Ops :
        KindOf[o] = "update" /\ Persistence = "after_each_write" /\ Succeeds(o) =>
            \A s \in written[o] : startup[Host(o)][s] = o

DurableCommit == [][CommitSaved]_vars

\* A Save that reports success returns with startup equal to running, although
\* it compared two reads made one after the other, unless somebody else changed
\* the switch meanwhile: the host gate keeps updates out (Device.Save).
RunningSaved ==
    \A o \in Ops : KindOf[o] = "save" /\ Succeeds(o) => startup[Host(o)] = running[Host(o)]

DurableSave == [][RunningSaved]_vars

\* Every call returns, however its context, the switch and the other calls
\* behave: no gate is lost and no two calls wait for each other.
EveryCallReturns == \A o \in Ops : Live(o) ~> ~Live(o)
=============================================================================
