--------------------------- MODULE DeviceInductive ---------------------------
(* The inductive invariant behind the safety properties of Device.         *)
EXTENDS DeviceSerial

\* A call is only where its kind of call goes.
KindInv ==
    \A o \in Ops :
        /\ pc[o] \in {"lock", "write", "compare", "startup"} => Workflow(o)
        /\ pc[o] \in {"discovery", "version"} => KindOf[o] # "read"
        /\ pc[o] = "work" => KindOf[o] = "update"
        /\ pc[o] = "observe" => KindOf[o] \in {"update", "read"}

\* A gate is full exactly while one call is between filling and emptying it.
Exact(gate, holders, key) ==
    /\ \A o \in holders : key[o] \in gate
    /\ \A k \in gate : \E o \in holders : key[o] = k
    /\ \A o, p \in holders : key[o] = key[p] => o = p

HostHolders == {o \in Ops : HoldsHost(o)}
HostKey == [o \in Ops |-> Host(o)]
DiscoveryHolders == {o \in Ops : HoldsDiscovery(o)}
EndpointKey == [o \in Ops |-> Endpoint(o)]

GateInv ==
    /\ Exact(hostGate, HostHolders, HostKey)
    /\ Exact(discoveryGate, DiscoveryHolders, DeviceOf)
    /\ Exact(sshGate, session, EndpointKey)
    /\ \A o \in session : pc[o] \in SessionPcs
    /\ \A o \in DiscoveryHolders : DeviceOf[o] \notin capabilities

\* A write error is kept while its callback runs and never leaves it.  A call
\* has written and read nothing before its callback starts.  What the switch
\* may still apply for a running workflow, the workflow knows it wrote.
Early == {"idle", "lock", "discovery", "version"}

FrameInv ==
    \A o \in Ops :
        /\ o \in writeFailed => pc[o] \in {"work", "observe"} /\ KindOf[o] = "update"
        /\ pc[o] \in Early => written[o] = {} /\ snapshot[o] = Blank
        /\ \A s \in Settings : <<o, s>> \in late =>
              /\ pc[o] \notin Early
              /\ HoldsHost(o) => s \in written[o] \/ o \in writeFailed

\* What a workflow verified stays true: only its own writes can change the
\* running configuration of its switch, and they repeat what they wrote.
OwnSettings(o) == \A s \in written[o] : running[Host(o)][s] = o

VerifiedInv ==
    disturbances = 0 =>
        \A o \in Ops :
            /\ pc[o] = "work" =>
                  \A s \in Settings : snapshot[o][s] = o => running[Host(o)][s] = o
            /\ pc[o] \in {"write", "compare", "startup"} => OwnSettings(o)
            /\ pc[o] = "startup" => snapshot[o] = running[Host(o)]

IInv == TypeOK /\ KindInv /\ GateInv /\ FrameInv /\ VerifiedInv
=============================================================================
