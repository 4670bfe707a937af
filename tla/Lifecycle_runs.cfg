SPECIFICATION LifecycleFairSpec
CONSTANTS
    Names = {n1, n2}
    Absent = absent
    Unread = unread
    Unverified = unverified
    Kinds = {"vlan", "membership", "default_vlan", "ve", "address", "port", "lag",
             "lag_interface", "poe", "dscp_trust", "protected_port", "storm_control",
             "voice_vlan", "jumbo", "ospf_area", "ospf_interface", "static_route",
             "dns_server", "stp_vlan", "stp_interface", "igmp_global", "igmp_vlan", "lldp",
             "lldp_port", "med_policy", "ip_acl", "standard_acl", "mac_acl", "access_group",
             "aaa_policy", "aaa_server", "local_user", "authentication",
             "authentication_interface"}
    MaxFaults = 3
    MaxEdits = 2
    MaxOutside = 1
INVARIANTS CarefulMeansSaved ForgottenMeansSaved
PROPERTIES Converges
