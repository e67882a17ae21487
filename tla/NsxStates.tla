------------------------------ MODULE NsxStates -------------------------------
(***************************************************************************)
(* The state functions for NSX Manager (states/vcf_nsx_*.py), each in the  *)
(* words of StateFunctions, with the requests of clients/nsx_*.py they are *)
(* made of. Objects of the policy API have ids the caller chooses; objects *)
(* of the manager API get theirs from NSX and are found by name in the     *)
(* first page of a list.                                                   *)
(***************************************************************************)
EXTENDS StateFunctions

(***************************************************************************)
(* Objects of the policy API: read and written at the path of their id. An *)
(* object that is there is left as it is, so what the caller declares of it*)
(* is written once and never compared.                                     *)
(***************************************************************************)

nsx_segment_get_or_none == ByKey
nsx_segment_create == Upsert(unseen)
nsx_segment_delete == Remove
vcf_nsx_segment_present == Present(nsx_segment_get_or_none, <<nsx_segment_create>>)
vcf_nsx_segment_absent == Absent(nsx_segment_get_or_none, <<nsx_segment_delete>>)

nsx_group_get_or_none == ByKey
nsx_group_create == Upsert(unseen)
nsx_group_delete == Remove
vcf_nsx_group_present == Present(nsx_group_get_or_none, <<nsx_group_create>>)
vcf_nsx_group_absent == Absent(nsx_group_get_or_none, <<nsx_group_delete>>)

nsx_service_get_or_none == ByKey
nsx_service_create == Upsert(unseen)
nsx_service_delete == Remove
vcf_nsx_service_present == Present(nsx_service_get_or_none, <<nsx_service_create>>)
vcf_nsx_service_absent == Absent(nsx_service_get_or_none, <<nsx_service_delete>>)

nsx_security_policy_get_or_none == ByKey
nsx_security_policy_create == Upsert(unseen)
nsx_security_policy_delete == Remove
vcf_nsx_security_policy_present ==
    Present(nsx_security_policy_get_or_none, <<nsx_security_policy_create>>)
vcf_nsx_security_policy_absent ==
    Absent(nsx_security_policy_get_or_none, <<nsx_security_policy_delete>>)

nsx_firewall_rule_get_or_none == ByKey
nsx_firewall_rule_create == Upsert(unseen)
nsx_firewall_rule_delete == Remove
vcf_nsx_firewall_rule_present ==
    Present(nsx_firewall_rule_get_or_none, <<nsx_firewall_rule_create>>)
vcf_nsx_firewall_rule_absent ==
    Absent(nsx_firewall_rule_get_or_none, <<nsx_firewall_rule_delete>>)

nsx_uplink_profile_get_or_none == ByKey
nsx_uplink_profile_create == Upsert(unseen)
nsx_uplink_profile_delete == Remove
vcf_nsx_uplink_profile_present ==
    Present(nsx_uplink_profile_get_or_none, <<nsx_uplink_profile_create>>)
vcf_nsx_uplink_profile_absent ==
    Absent(nsx_uplink_profile_get_or_none, <<nsx_uplink_profile_delete>>)

nsx_dhcp_server_get_or_none == ByKey
nsx_dhcp_server_create == Upsert(unseen)
nsx_dhcp_server_delete == Remove
nsx_dhcp_relay_get_or_none == ByKey
nsx_dhcp_relay_create == Upsert(unseen)
nsx_dhcp_relay_delete == Remove
vcf_nsx_dhcp_server_present ==
    Present(nsx_dhcp_server_get_or_none, <<nsx_dhcp_server_create>>)
vcf_nsx_dhcp_server_absent ==
    Absent(nsx_dhcp_server_get_or_none, <<nsx_dhcp_server_delete>>)
vcf_nsx_dhcp_relay_present ==
    Present(nsx_dhcp_relay_get_or_none, <<nsx_dhcp_relay_create>>)
vcf_nsx_dhcp_relay_absent ==
    Absent(nsx_dhcp_relay_get_or_none, <<nsx_dhcp_relay_delete>>)

nsx_tier0_bgp_get == ByKey
nsx_tier0_bgp_set == Set(spec)
nsx_tier0_ospf_get == ByKey
nsx_tier0_ospf_set == Set(spec)
nsx_tier0_multicast_get == ByKey
nsx_tier0_multicast_set == Set(spec)
(* What the routing features of a tier-0 have in common; to disable one is to declare *)
(* it disabled.                                                                       *)
vcf_nsx_tier0_feature_enabled(get, set) == Setting(get, spec, <<set>>)
vcf_nsx_tier0_bgp_enabled ==
    vcf_nsx_tier0_feature_enabled(nsx_tier0_bgp_get, nsx_tier0_bgp_set)
vcf_nsx_tier0_bgp_disabled == vcf_nsx_tier0_bgp_enabled
vcf_nsx_tier0_ospf_enabled ==
    vcf_nsx_tier0_feature_enabled(nsx_tier0_ospf_get, nsx_tier0_ospf_set)
vcf_nsx_tier0_ospf_disabled == vcf_nsx_tier0_ospf_enabled
vcf_nsx_tier0_multicast_enabled ==
    vcf_nsx_tier0_feature_enabled(nsx_tier0_multicast_get, nsx_tier0_multicast_set)
vcf_nsx_tier0_multicast_disabled == vcf_nsx_tier0_multicast_enabled

nsx_tier1_multicast_get == ByKey
nsx_tier1_multicast_set == Set(spec)
vcf_nsx_tier1_multicast_enabled ==
    Setting(nsx_tier1_multicast_get, spec, <<nsx_tier1_multicast_set>>)
vcf_nsx_tier1_multicast_disabled == vcf_nsx_tier1_multicast_enabled

(***************************************************************************)
(* Objects of the manager API.                                             *)
(***************************************************************************)

nsx_syslog_exporter_get_or_none == ByKey
nsx_syslog_exporter_create == Add(unseen)
nsx_syslog_exporter_delete == Remove
vcf_nsx_syslog_exporter_present ==
    Present(nsx_syslog_exporter_get_or_none, <<nsx_syslog_exporter_create>>)
vcf_nsx_syslog_exporter_absent ==
    Absent(nsx_syslog_exporter_get_or_none, <<nsx_syslog_exporter_delete>>)

nsx_transport_zone_get_by_name == FirstPage
nsx_transport_zone_create == Add(spec \cup unseen)
nsx_transport_zone_delete == Remove
(* The type of a zone is compared and cannot be changed. *)
vcf_nsx_transport_zone_present ==
    Managed(nsx_transport_zone_get_by_name, <<nsx_transport_zone_create>>, spec, <<>>)
vcf_nsx_transport_zone_absent ==
    Absent(nsx_transport_zone_get_by_name, <<nsx_transport_zone_delete>>)

nsx_ldap_list_ == FirstPage
nsx_ldap_create == Add(unseen)
nsx_ldap_delete == Remove
vcf_nsx_ldap_find_by_name == nsx_ldap_list_
vcf_nsx_ldap_present == Present(vcf_nsx_ldap_find_by_name, <<nsx_ldap_create>>)
vcf_nsx_ldap_absent == Absent(vcf_nsx_ldap_find_by_name, <<nsx_ldap_delete>>)

nsx_role_binding_list_ == FirstPage
nsx_role_binding_create == Add(spec \cup unseen)
nsx_role_binding_update == Whole(spec)
nsx_role_binding_delete == Remove
vcf_nsx_role_binding_find_by_name == nsx_role_binding_list_
(* The whole binding is posted back with other roles. *)
vcf_nsx_role_binding_present ==
    Managed(vcf_nsx_role_binding_find_by_name, <<nsx_role_binding_create>>, spec,
      <<nsx_role_binding_update>>)
vcf_nsx_role_binding_absent ==
    Absent(vcf_nsx_role_binding_find_by_name, <<nsx_role_binding_delete>>)

nsx_localos_user_get_or_none == Scan
nsx_localos_user_create == Add(spec \cup unseen)
nsx_localos_user_update == Set(spec)
nsx_localos_user_delete == Remove
(* The role is compared; the password is only ever set with a new user. *)
vcf_nsx_localos_user_present ==
    Managed(nsx_localos_user_get_or_none, <<nsx_localos_user_create>>, spec,
      <<nsx_localos_user_update>>)
vcf_nsx_localos_user_absent ==
    Absent(nsx_localos_user_get_or_none, <<nsx_localos_user_delete>>)

(***************************************************************************)
(* Settings of the manager.                                                *)
(***************************************************************************)

nsx_dns_servers_dns_get == ByKey
nsx_dns_servers_dns_set == Set(spec)
vcf_nsx_dns_servers_dns_servers ==
    Setting(nsx_dns_servers_dns_get, spec, <<nsx_dns_servers_dns_set>>)

nsx_ntp_servers_ntp_get == ByKey
nsx_ntp_servers_ntp_set == Set(spec)
vcf_nsx_ntp_servers_ntp_servers ==
    Setting(nsx_ntp_servers_ntp_get, spec, <<nsx_ntp_servers_ntp_set>>)

nsx_cluster_api_virtual_ip_get == ByKey
nsx_cluster_api_virtual_ip_set == Upsert(spec)
nsx_cluster_api_virtual_ip_clear == Remove
vcf_nsx_cluster_vip_current_ip == nsx_cluster_api_virtual_ip_get
vcf_nsx_cluster_vip_api_vip_set ==
    Managed(vcf_nsx_cluster_vip_current_ip, <<nsx_cluster_api_virtual_ip_set>>, spec,
      <<nsx_cluster_api_virtual_ip_set>>)
vcf_nsx_cluster_vip_api_vip_absent ==
    Absent(vcf_nsx_cluster_vip_current_ip, <<nsx_cluster_api_virtual_ip_clear>>)

nsx_telemetry_get == ByKey
nsx_telemetry_set_optin == Rewrite(spec)
vcf_nsx_telemetry_optin_set == Setting(nsx_telemetry_get, spec, nsx_telemetry_set_optin)
vcf_nsx_telemetry_ceip_disabled == vcf_nsx_telemetry_optin_set

nsx_vidm_get == ByKey
nsx_vidm_update(declared) == Whole(declared)
(* A client_secret among what is declared ("unread") is shown masked, if at all. *)
vcf_nsx_vidm_enabled(declared) == Setting(nsx_vidm_get, declared, <<nsx_vidm_update(declared)>>)
(* The endpoint replaces the whole document: what is put is the one that was read. *)
nsx_node_services_http_get == ByKey
nsx_node_services_http_put == Whole(spec)
vcf_nsx_node_services_http_configured ==
    Setting(nsx_node_services_http_get, spec, <<nsx_node_services_http_put>>)

(***************************************************************************)
(* What only the execution modules send.                                   *)
(***************************************************************************)

nsx_ldap_update == Whole(unseen)

nsx_telemetry_update == Whole(spec)

nsx_tier1_create == Upsert(unseen)
nsx_tier1_delete == Remove

nsx_transport_zone_update == Whole(unseen)

nsx_node_services_http_set == Rewrite(spec)

(***************************************************************************)
(* The execution modules modules/vcf_*.py, each as the requests an operator*)
(* can send with it. Its other functions only read.                        *)
(***************************************************************************)

vcf_nsx_cluster == {nsx_cluster_api_virtual_ip_set, nsx_cluster_api_virtual_ip_clear}
vcf_nsx_dhcp ==
    {nsx_dhcp_server_create, nsx_dhcp_server_delete, nsx_dhcp_relay_create,
      nsx_dhcp_relay_delete}
vcf_nsx_dns_servers == {nsx_dns_servers_dns_set}
vcf_nsx_firewall_rule == {nsx_firewall_rule_create, nsx_firewall_rule_delete}
vcf_nsx_group == {nsx_group_create, nsx_group_delete}
vcf_nsx_ldap == {nsx_ldap_create, nsx_ldap_update, nsx_ldap_delete}
vcf_nsx_localos_user ==
    {nsx_localos_user_create, nsx_localos_user_update, nsx_localos_user_delete}
vcf_nsx_node_services == Range(nsx_node_services_http_set)
vcf_nsx_ntp_servers == {nsx_ntp_servers_ntp_set}
vcf_nsx_role_binding ==
    {nsx_role_binding_create, nsx_role_binding_update, nsx_role_binding_delete}
vcf_nsx_security_policy == {nsx_security_policy_create, nsx_security_policy_delete}
vcf_nsx_segment == {nsx_segment_create, nsx_segment_delete}
vcf_nsx_service == {nsx_service_create, nsx_service_delete}
vcf_nsx_syslog_exporter == {nsx_syslog_exporter_create, nsx_syslog_exporter_delete}
vcf_nsx_telemetry == Range(nsx_telemetry_set_optin)
vcf_nsx_tier0 == {nsx_tier0_bgp_set, nsx_tier0_ospf_set, nsx_tier0_multicast_set}
vcf_nsx_tier1 == {nsx_tier1_create, nsx_tier1_delete, nsx_tier1_multicast_set}
vcf_nsx_transport_zone ==
    {nsx_transport_zone_create, nsx_transport_zone_update, nsx_transport_zone_delete}
vcf_nsx_uplink_profile == {nsx_uplink_profile_create, nsx_uplink_profile_delete}
vcf_nsx_vidm == {nsx_vidm_update(spec), nsx_vidm_update(spec \cup unread)}

(***************************************************************************)
(* The state functions, each beside the execution modules for the same     *)
(* objects.                                                                *)
(***************************************************************************)

NsxStatesFunctions ==
         Offered(vcf_nsx_segment, {vcf_nsx_segment_present, vcf_nsx_segment_absent})
    \cup Offered(vcf_nsx_group, {vcf_nsx_group_present, vcf_nsx_group_absent})
    \cup Offered(vcf_nsx_service, {vcf_nsx_service_present, vcf_nsx_service_absent})
    \cup Offered(vcf_nsx_security_policy, {vcf_nsx_security_policy_present,
            vcf_nsx_security_policy_absent})
    \cup Offered(vcf_nsx_firewall_rule, {vcf_nsx_firewall_rule_present,
            vcf_nsx_firewall_rule_absent})
    \cup Offered(vcf_nsx_uplink_profile, {vcf_nsx_uplink_profile_present,
            vcf_nsx_uplink_profile_absent})
    \cup Offered(vcf_nsx_dhcp, {vcf_nsx_dhcp_server_present, vcf_nsx_dhcp_server_absent,
            vcf_nsx_dhcp_relay_present, vcf_nsx_dhcp_relay_absent})
    \cup Offered(vcf_nsx_tier0, {vcf_nsx_tier0_bgp_enabled, vcf_nsx_tier0_bgp_disabled,
            vcf_nsx_tier0_ospf_enabled, vcf_nsx_tier0_ospf_disabled,
            vcf_nsx_tier0_multicast_enabled, vcf_nsx_tier0_multicast_disabled})
    \cup Offered(vcf_nsx_tier1, {vcf_nsx_tier1_multicast_enabled,
            vcf_nsx_tier1_multicast_disabled})
    \cup Offered(vcf_nsx_syslog_exporter, {vcf_nsx_syslog_exporter_present,
            vcf_nsx_syslog_exporter_absent})
    \cup Offered(vcf_nsx_transport_zone, {vcf_nsx_transport_zone_present,
            vcf_nsx_transport_zone_absent})
    \cup Offered(vcf_nsx_ldap, {vcf_nsx_ldap_present, vcf_nsx_ldap_absent})
    \cup Offered(vcf_nsx_role_binding, {vcf_nsx_role_binding_present,
            vcf_nsx_role_binding_absent})
    \cup Offered(vcf_nsx_localos_user, {vcf_nsx_localos_user_present,
            vcf_nsx_localos_user_absent})
    \cup Offered(vcf_nsx_dns_servers, {vcf_nsx_dns_servers_dns_servers})
    \cup Offered(vcf_nsx_ntp_servers, {vcf_nsx_ntp_servers_ntp_servers})
    \cup Offered(vcf_nsx_cluster, {vcf_nsx_cluster_vip_api_vip_set,
            vcf_nsx_cluster_vip_api_vip_absent})
    \cup Offered(vcf_nsx_telemetry, {vcf_nsx_telemetry_optin_set,
            vcf_nsx_telemetry_ceip_disabled})
    \cup Offered(vcf_nsx_vidm, {vcf_nsx_vidm_enabled(spec),
            vcf_nsx_vidm_enabled(spec \cup unread)})
    \cup Offered(vcf_nsx_node_services, {vcf_nsx_node_services_http_configured})
===============================================================================
