---------------------------- MODULE ResourceKinds ----------------------------
(* How the resources differ in what they make of a call that did not go    *)
(* well.  All of them share the lifecycle of Lifecycle: Read refreshes, a   *)
(* plan with persistence_pending calls for another apply, and Create,       *)
(* Update and Delete store what the feature's apply returned.  What is      *)
(* theirs is what counts as an observation, and what they store without     *)
(* one (internal/features/*/*resource.go and the apply each calls).         *)

\* What a refresh finds when the switch holds nothing of the resource:
\*   "object"   no object: it is forgotten unless an operation is pending,
\*              and apply observes nothing
\*   "value"    an empty value: the same, but apply does observe it
\*   "binding"  the same, but what is stored is the value asked for
\*   "setting"  the default, which is a value like any other
Shapes == {"object", "value", "binding", "setting"}

Kind(shape, mutable, blind, unread, undeleted) ==
    [shape |-> shape,
     mutable |-> mutable,       \* an update may change the value; else it is replaced
     blind |-> blind,           \* a readback that fails hides what was read before
     unread |-> unread,         \* an Update without an observation keeps the
                                \*   state, marks it pending, or stores the plan
     undeleted |-> undeleted,   \* a failed Delete keeps the value or the observed one
     unmade |-> "nothing"]      \* a Create without an observation stores nothing

\* What can only be replaced is an object.
KindSet ==
    {k \in [shape : Shapes, mutable : BOOLEAN, blind : BOOLEAN,
            unread : {"kept", "marked", "planned"},
            undeleted : {"kept", "observed"}, unmade : {"nothing", "planned"}] :
        k.mutable \/ k.shape = "object"}

-----------------------------------------------------------------------------
(* VLANs, interfaces and aggregates.                                       *)

Vlan == Kind("object", TRUE, TRUE, "kept", "kept")
VlanMembership == Kind("object", FALSE, FALSE, "kept", "kept")
DefaultVlan == Kind("setting", TRUE, FALSE, "kept", "observed")
VirtualInterface == Kind("object", TRUE, FALSE, "kept", "kept")
Address == Kind("object", FALSE, TRUE, "kept", "kept")
Port == Kind("setting", TRUE, TRUE, "kept", "kept")

\* "else if err != nil" of Lag's Update records what could not be read.
Lag == Kind("object", TRUE, TRUE, "marked", "kept")
LagInterface == Kind("setting", TRUE, FALSE, "kept", "kept")

(* Port features.                                                          *)

PowerOverEthernet == Kind("setting", TRUE, TRUE, "kept", "kept")
DscpTrust == Kind("setting", TRUE, FALSE, "kept", "observed")
ProtectedPort == Kind("setting", TRUE, FALSE, "kept", "observed")
StormControl == Kind("value", TRUE, FALSE, "kept", "observed")
VoiceVlan == Kind("value", TRUE, FALSE, "kept", "observed")
Jumbo == Kind("setting", TRUE, FALSE, "kept", "observed")

(* Routing and names.                                                      *)

OspfArea == Kind("object", FALSE, TRUE, "kept", "kept")
OspfInterface == Kind("object", FALSE, FALSE, "kept", "kept")
StaticRoute == Kind("object", FALSE, FALSE, "kept", "kept")
DnsServer == Kind("object", FALSE, FALSE, "kept", "kept")

(* Spanning tree, IGMP snooping, LLDP.                                     *)

SpanningTreeVlan == Kind("object", TRUE, FALSE, "kept", "kept")
SpanningTreeInterface == Kind("setting", TRUE, FALSE, "kept", "kept")
IgmpGlobal == Kind("setting", TRUE, FALSE, "kept", "observed")
IgmpVlan == Kind("setting", TRUE, FALSE, "kept", "observed")
LldpGlobal == Kind("setting", TRUE, FALSE, "kept", "kept")
LldpPort == Kind("setting", TRUE, TRUE, "kept", "kept")

\* A request that was attempted is recorded, verified or not.
MedPolicy == [Kind("value", TRUE, TRUE, "marked", "observed") EXCEPT !.unmade = "planned"]

(* Access lists: an update may remove the list before it fails.            *)

IpAccessList == Kind("object", TRUE, FALSE, "marked", "kept")
StandardAccessList == Kind("object", TRUE, FALSE, "marked", "kept")
MacAccessList == Kind("object", TRUE, FALSE, "marked", "kept")
AccessGroup == Kind("binding", TRUE, FALSE, "kept", "kept")

(* Authentication.                                                         *)

AaaPolicy == Kind("setting", TRUE, FALSE, "kept", "kept")
AaaServer == Kind("object", TRUE, FALSE, "planned", "kept")
LocalUser == Kind("object", TRUE, FALSE, "planned", "kept")
AuthenticationGlobal == Kind("setting", TRUE, FALSE, "kept", "kept")
AuthenticationInterface == Kind("setting", TRUE, FALSE, "kept", "kept")

KindOf ==
    [vlan |-> Vlan, membership |-> VlanMembership, default_vlan |-> DefaultVlan,
     ve |-> VirtualInterface, address |-> Address, port |-> Port,
     lag |-> Lag, lag_interface |-> LagInterface,
     poe |-> PowerOverEthernet, dscp_trust |-> DscpTrust, protected_port |-> ProtectedPort,
     storm_control |-> StormControl, voice_vlan |-> VoiceVlan, jumbo |-> Jumbo,
     ospf_area |-> OspfArea, ospf_interface |-> OspfInterface, static_route |-> StaticRoute,
     dns_server |-> DnsServer,
     stp_vlan |-> SpanningTreeVlan, stp_interface |-> SpanningTreeInterface,
     igmp_global |-> IgmpGlobal, igmp_vlan |-> IgmpVlan,
     lldp |-> LldpGlobal, lldp_port |-> LldpPort, med_policy |-> MedPolicy,
     ip_acl |-> IpAccessList, standard_acl |-> StandardAccessList, mac_acl |-> MacAccessList,
     access_group |-> AccessGroup,
     aaa_policy |-> AaaPolicy, aaa_server |-> AaaServer, local_user |-> LocalUser,
     authentication |-> AuthenticationGlobal, authentication_interface |-> AuthenticationInterface]
=============================================================================
