------------------------------ MODULE HostStates ------------------------------
(***************************************************************************)
(* The state functions for ESXi hosts, with the requests of their clients: *)
(* esxi_*.py talk to the host itself, vim_host_*.py reach it through       *)
(* vCenter, where the host has to be in the inventory. "first", "second"   *)
(* and "third" are the settings that have a request of their own.          *)
(***************************************************************************)
EXTENDS StateFunctions

(***************************************************************************)
(* Active Directory. A host that is in another domain fails the run.       *)
(***************************************************************************)

esxi_ad_auth_get_ad_state == Scan
esxi_ad_auth_join_domain == Task(Add(spec))
esxi_ad_auth_leave_domain == Task(Remove)
vcf_esxi_ad_auth_joined ==
    Managed(esxi_ad_auth_get_ad_state, <<esxi_ad_auth_join_domain>>, spec, <<>>)
vcf_esxi_ad_auth_left ==
    Absent(esxi_ad_auth_get_ad_state, <<esxi_ad_auth_leave_domain>>)

esxi_auth_proxy_get_config == Scan
(* Two keys, of which only those that differ are written. *)
esxi_auth_proxy_set_config == <<On(first, Set(first)), On(second, Set(second))>>
esxi_auth_proxy_join_domain_via_cam == Task(Add(spec))
esxi_auth_proxy_leave_domain == Task(Remove)
vcf_esxi_auth_proxy_configured ==
    Setting(esxi_auth_proxy_get_config, first \cup second, esxi_auth_proxy_set_config)
vcf_esxi_auth_proxy_joined ==
    Managed(esxi_auth_proxy_get_config, <<esxi_auth_proxy_join_domain_via_cam>>, spec,
      <<>>)
vcf_esxi_auth_proxy_left ==
    Absent(esxi_auth_proxy_get_config, <<esxi_auth_proxy_leave_domain>>)

(***************************************************************************)
(* Settings of the host, written on the host itself.                       *)
(***************************************************************************)

esxi_advanced_get == ByKey
esxi_advanced_get_or_none == esxi_advanced_get
esxi_advanced_set_value == Set(spec)
vcf_esxi_advanced_setting ==
    SettingOf(esxi_advanced_get_or_none, spec, <<esxi_advanced_set_value>>)

esxi_firewall_get == Scan
esxi_firewall_get_or_none == esxi_firewall_get
esxi_firewall_set_enabled == Set(first)
esxi_firewall_set_allowed_ips == Set(second)
esxi_firewall_enabled == Scan
esxi_firewall_set_global_enabled == Set(spec)
vcf_esxi_firewall_rule_enabled ==
    SettingOf(esxi_firewall_get_or_none, first \cup second,
      <<On(first, esxi_firewall_set_enabled),
      On(second, esxi_firewall_set_allowed_ips)>>)
vcf_esxi_firewall_rule_disabled == vcf_esxi_firewall_rule_enabled
vcf_esxi_firewall_global_enabled ==
    Setting(esxi_firewall_enabled, spec, <<esxi_firewall_set_global_enabled>>)

esxi_host_info == Scan
esxi_host_enter_maintenance == Task(Set(spec))
esxi_host_exit_maintenance == Task(Set(spec))
(* The exception users are compared with an answer that never holds them. *)
esxi_host_lockdown_get == Scan
esxi_host_lockdown_set == <<Set(spec), Set(unread)>>
vcf_esxi_host_maintenance ==
    Setting(esxi_host_info, spec, <<esxi_host_enter_maintenance>>)
vcf_esxi_host_lockdown ==
    Setting(esxi_host_lockdown_get, spec \cup unread, esxi_host_lockdown_set)
(* The script is written, then run: that it ran is not looked at again. *)
esxi_localsh_get == Scan
esxi_localsh_write_file == Set(spec)
esxi_localsh_apply == <<esxi_localsh_write_file, Set(unseen)>>
vcf_esxi_localsh_managed == Setting(esxi_localsh_get, spec, esxi_localsh_apply)

esxi_netdump_get == Scan
esxi_netdump_set_network == Set(first)
esxi_netdump_set_enabled == Set(second)
vcf_esxi_netdump_configured ==
    Setting(esxi_netdump_get, first \cup second, <<On(first, esxi_netdump_set_network),
      On(second, esxi_netdump_set_enabled)>>)

esxi_ntp_get == Scan
esxi_ntp_set_servers == Set(first)
esxi_ntp_set_enabled == Set(second)
vcf_esxi_ntp_servers ==
    Setting(esxi_ntp_get, first \cup second, <<On(first, esxi_ntp_set_servers),
      On(second, esxi_ntp_set_enabled)>>)

esxi_syslog_get == Scan
esxi_syslog_set_servers == Set(first)
esxi_syslog_set_log_level == Set(second)
vcf_esxi_syslog_servers ==
    Setting(esxi_syslog_get, first \cup second, <<On(first, esxi_syslog_set_servers),
      On(second, esxi_syslog_set_log_level)>>)

esxi_service_get == Scan
esxi_service_get_or_none == esxi_service_get
esxi_service_start == Set(first)
esxi_service_stop == Set(first)
esxi_service_set_policy == Set(second)
vcf_esxi_service_running ==
    SettingOf(esxi_service_get_or_none, first \cup second,
      <<On(first, esxi_service_start), On(second, esxi_service_set_policy)>>)
vcf_esxi_service_stopped ==
    SettingOf(esxi_service_get_or_none, first \cup second,
      <<On(first, esxi_service_stop), On(second, esxi_service_set_policy)>>)
vcf_esxi_service_policy ==
    SettingOf(esxi_service_get_or_none, second, <<esxi_service_set_policy>>)

(***************************************************************************)
(* Settings of the host, written through vCenter.                          *)
(***************************************************************************)

vim_host_acceptance_get == Scan
vim_host_acceptance_set_ == Set(spec)
vcf_vim_host_acceptance_level ==
    SettingOf(vim_host_acceptance_get, spec, <<vim_host_acceptance_set_>>)

vim_host_certificate_info == Scan
vim_host_certificate_install_cert == Set(spec)
vcf_vim_host_certificate_present ==
    SettingOf(vim_host_certificate_info, spec, <<vim_host_certificate_install_cert>>)

vim_host_dns_get == Scan
vim_host_dns_set_ == Set(spec)
vcf_vim_host_dns_config == SettingOf(vim_host_dns_get, spec, <<vim_host_dns_set_>>)
(* A host without hyperthreading fails the run. *)
vim_host_hyperthreading_get == Scan
vim_host_hyperthreading_enable == Set(spec)
vim_host_hyperthreading_disable == Set(spec)
vcf_vim_host_hyperthreading_enabled ==
    SettingOf(vim_host_hyperthreading_get, spec, <<vim_host_hyperthreading_enable>>)

vim_host_kernel_module_get_options == ByKey
vim_host_kernel_module_set_options == Set(spec)
vcf_vim_host_kernel_module_options_set ==
    SettingOf(vim_host_kernel_module_get_options, spec,
      <<vim_host_kernel_module_set_options>>)

vim_host_powermgmt_get_policy == Scan
vim_host_powermgmt_set_policy == Set(spec)
vcf_vim_host_powermgmt_policy ==
    SettingOf(vim_host_powermgmt_get_policy, spec, <<vim_host_powermgmt_set_policy>>)

vim_host_snmp_get == Scan
vim_host_snmp_set_ == Set(spec)
vcf_vim_host_snmp_config == SettingOf(vim_host_snmp_get, spec, <<vim_host_snmp_set_>>)

vim_host_config_ntp_get == Scan
vim_host_config_ntp_set_servers == Set(first)
vim_host_config_ntp_set_running == Set(second)
vim_host_config_ntp_set_policy == Set(third)
vcf_vim_host_config_ntp ==
    SettingOf(vim_host_config_ntp_get, first \cup second \cup third,
      <<On(first, vim_host_config_ntp_set_servers),
      On(second, vim_host_config_ntp_set_running),
      On(third, vim_host_config_ntp_set_policy)>>)
vim_host_config_service_list == Scan
vim_host_config_service_start == Set(first)
vim_host_config_service_stop == Set(first)
vim_host_config_service_set_policy == Set(second)
vcf_vim_host_config_service ==
    SettingOf(vim_host_config_service_list, first \cup second,
      <<On(first, vim_host_config_service_start),
      On(second, vim_host_config_service_set_policy)>>)
vim_host_config_advanced_get == ByKey
vim_host_config_advanced_set == Set(spec)
vcf_vim_host_config_advanced_setting ==
    SettingOf(vim_host_config_advanced_get, spec, <<vim_host_config_advanced_set>>)
(* A host in another domain is told to join this one all the same. *)
vim_host_config_ad_status == Scan
vim_host_config_ad_join == Task(Set(spec))
vcf_vim_host_config_ad_joined ==
    SettingOf(vim_host_config_ad_status, spec, <<vim_host_config_ad_join>>)

(***************************************************************************)
(* Standard switches, port groups and VMkernel adapters.                   *)
(***************************************************************************)

vim_host_network_vswitch_get == Scan
vim_host_network_vswitch_get_or_none == vim_host_network_vswitch_get
vim_host_network_vswitch_add == Add(spec \cup first)
(* Without uplinks in the call the switch keeps the ones it has. *)
vim_host_network_vswitch_update(uplinks) == Set(spec \cup uplinks)
vim_host_network_vswitch_remove == Remove
vim_host_network_vswitch_set_teaming == Set(spec)
(* The uplinks are compared with none when the caller declares none. *)
vcf_vim_host_network_vswitch_present(uplinks) ==
    Managed(vim_host_network_vswitch_get_or_none, <<vim_host_network_vswitch_add>>,
      spec \cup first, <<vim_host_network_vswitch_update(uplinks)>>)
vcf_vim_host_network_vswitch_absent ==
    Absent(vim_host_network_vswitch_get_or_none, <<vim_host_network_vswitch_remove>>)
vcf_vim_host_network_vswitch_teaming_configured ==
    SettingOf(vim_host_network_vswitch_get_or_none, spec,
      <<vim_host_network_vswitch_set_teaming>>)
vim_host_network_portgroup_get == Scan
vim_host_network_portgroup_get_or_none == vim_host_network_portgroup_get
vim_host_network_portgroup_add == Add(spec)
vim_host_network_portgroup_update == Set(spec)
vim_host_network_portgroup_remove == Remove
vcf_vim_host_network_portgroup_present ==
    Managed(vim_host_network_portgroup_get_or_none, <<vim_host_network_portgroup_add>>,
      spec, <<vim_host_network_portgroup_update>>)
vcf_vim_host_network_portgroup_absent ==
    Absent(vim_host_network_portgroup_get_or_none,
      <<vim_host_network_portgroup_remove>>)
(* An adapter is looked up by the declared name and made under one that the host *)
(* chooses.                                                                      *)
vim_host_network_vmkernel_get == ByForeignKey
vim_host_network_vmkernel_get_or_none == vim_host_network_vmkernel_get
vim_host_network_vmkernel_add == Add(spec)
vim_host_network_vmkernel_update == Set(spec)
vim_host_network_vmkernel_remove == Remove
vcf_vim_host_network_vmkernel_present ==
    Managed(vim_host_network_vmkernel_get_or_none, <<vim_host_network_vmkernel_add>>,
      spec, <<vim_host_network_vmkernel_update>>)
vcf_vim_host_network_vmkernel_absent ==
    Absent(vim_host_network_vmkernel_get_or_none, <<vim_host_network_vmkernel_remove>>)

(***************************************************************************)
(* Datastores of a host.                                                   *)
(***************************************************************************)

vim_host_datastore_list_ == Scan
vim_host_datastore_create_vmfs == Add(unseen)
vim_host_datastore_mount_nfs == Add(unseen)
vim_host_datastore_remove == Remove
vcf_vim_host_datastore_find == vim_host_datastore_list_
vcf_vim_host_datastore_vmfs_present ==
    Present(vcf_vim_host_datastore_find, <<vim_host_datastore_create_vmfs>>)
vcf_vim_host_datastore_nfs_mounted ==
    Present(vcf_vim_host_datastore_find, <<vim_host_datastore_mount_nfs>>)
vcf_vim_host_datastore_absent ==
    Absent(vcf_vim_host_datastore_find, <<vim_host_datastore_remove>>)

(***************************************************************************)
(* What only the execution modules send.                                   *)
(***************************************************************************)

esxi_host_reboot == Task(Beside)
esxi_host_shutdown == Task(Beside)

esxi_service_restart == Set(first)

vim_host_certificate_refresh_cert == Set(spec)
vim_host_certificate_refresh_ca_bundle == Beside

vim_host_config_service_restart == Set(first)
vim_host_config_ad_leave == Task(Remove)

vim_host_network_ipv6_set == Beside
vim_host_network_select_traffic_types == Beside
vim_host_network_vmkernel_set_traffic_types == vim_host_network_select_traffic_types
(* An adapter that moves is removed and made again. *)
vim_host_network_vmkernel_migrate ==
    <<vim_host_network_vmkernel_remove, vim_host_network_vmkernel_add>>

vim_host_datastore_rescan_storage == Beside

(***************************************************************************)
(* The execution modules modules/vcf_*.py, each as the requests an operator*)
(* can send with it. Its other functions only read.                        *)
(***************************************************************************)

vcf_esxi_ad_auth == {esxi_ad_auth_join_domain, esxi_ad_auth_leave_domain}
vcf_esxi_advanced == {esxi_advanced_set_value}
vcf_esxi_auth_proxy ==
    {esxi_auth_proxy_join_domain_via_cam, esxi_auth_proxy_leave_domain}
      \cup Range(esxi_auth_proxy_set_config)
vcf_esxi_firewall ==
    {esxi_firewall_set_enabled, esxi_firewall_set_global_enabled,
      esxi_firewall_set_allowed_ips}
vcf_esxi_host ==
    {esxi_host_enter_maintenance, esxi_host_exit_maintenance, esxi_host_reboot,
      esxi_host_shutdown} \cup Range(esxi_host_lockdown_set)
vcf_esxi_localsh == Range(esxi_localsh_apply)
vcf_esxi_netdump == {esxi_netdump_set_network, esxi_netdump_set_enabled}
vcf_esxi_ntp == {esxi_ntp_set_servers, esxi_ntp_set_enabled}
vcf_esxi_service ==
    {esxi_service_start, esxi_service_stop, esxi_service_restart,
      esxi_service_set_policy}
vcf_esxi_syslog == {esxi_syslog_set_servers, esxi_syslog_set_log_level}
vcf_vim_host_acceptance == {vim_host_acceptance_set_}
vcf_vim_host_certificate ==
    {vim_host_certificate_install_cert, vim_host_certificate_refresh_cert,
      vim_host_certificate_refresh_ca_bundle}
vcf_vim_host_config ==
    {vim_host_config_ntp_set_servers, vim_host_config_ntp_set_running,
      vim_host_config_ntp_set_policy, vim_host_config_service_start,
      vim_host_config_service_stop, vim_host_config_service_restart,
      vim_host_config_service_set_policy, vim_host_config_ad_join,
      vim_host_config_ad_leave, vim_host_config_advanced_set}
vcf_vim_host_datastore ==
    {vim_host_datastore_create_vmfs, vim_host_datastore_mount_nfs,
      vim_host_datastore_remove, vim_host_datastore_rescan_storage}
vcf_vim_host_dns == {vim_host_dns_set_}
vcf_vim_host_hyperthreading ==
    {vim_host_hyperthreading_enable, vim_host_hyperthreading_disable}
vcf_vim_host_kernel_module == {vim_host_kernel_module_set_options}
vcf_vim_host_network ==
    {vim_host_network_vswitch_add, vim_host_network_vswitch_update({}),
      vim_host_network_vswitch_update(first), vim_host_network_vswitch_remove,
      vim_host_network_vswitch_set_teaming, vim_host_network_portgroup_add,
      vim_host_network_portgroup_update, vim_host_network_portgroup_remove,
      vim_host_network_vmkernel_add, vim_host_network_vmkernel_update,
      vim_host_network_vmkernel_remove, vim_host_network_vmkernel_set_traffic_types,
      vim_host_network_ipv6_set} \cup Range(vim_host_network_vmkernel_migrate)
vcf_vim_host_powermgmt == {vim_host_powermgmt_set_policy}
vcf_vim_host_snmp == {vim_host_snmp_set_}

(***************************************************************************)
(* The state functions, each beside the execution modules for the same     *)
(* objects.                                                                *)
(***************************************************************************)

HostStatesFunctions ==
         Offered(vcf_esxi_ad_auth, {vcf_esxi_ad_auth_joined, vcf_esxi_ad_auth_left})
    \cup Offered(vcf_esxi_auth_proxy, {vcf_esxi_auth_proxy_configured,
            vcf_esxi_auth_proxy_joined, vcf_esxi_auth_proxy_left})
    \cup Offered(vcf_esxi_advanced, {vcf_esxi_advanced_setting})
    \cup Offered(vcf_esxi_firewall, {vcf_esxi_firewall_rule_enabled,
            vcf_esxi_firewall_rule_disabled, vcf_esxi_firewall_global_enabled})
    \cup Offered(vcf_esxi_host, {vcf_esxi_host_maintenance, vcf_esxi_host_lockdown})
    \cup Offered(vcf_esxi_localsh, {vcf_esxi_localsh_managed})
    \cup Offered(vcf_esxi_netdump, {vcf_esxi_netdump_configured})
    \cup Offered(vcf_esxi_ntp, {vcf_esxi_ntp_servers})
    \cup Offered(vcf_esxi_syslog, {vcf_esxi_syslog_servers})
    \cup Offered(vcf_esxi_service, {vcf_esxi_service_running, vcf_esxi_service_stopped,
            vcf_esxi_service_policy})
    \cup Offered(vcf_vim_host_acceptance, {vcf_vim_host_acceptance_level})
    \cup Offered(vcf_vim_host_certificate, {vcf_vim_host_certificate_present})
    \cup Offered(vcf_vim_host_dns, {vcf_vim_host_dns_config})
    \cup Offered(vcf_vim_host_hyperthreading, {vcf_vim_host_hyperthreading_enabled})
    \cup Offered(vcf_vim_host_kernel_module, {vcf_vim_host_kernel_module_options_set})
    \cup Offered(vcf_vim_host_powermgmt, {vcf_vim_host_powermgmt_policy})
    \cup Offered(vcf_vim_host_snmp, {vcf_vim_host_snmp_config})
    \cup Offered(vcf_vim_host_config, {vcf_vim_host_config_ntp,
            vcf_vim_host_config_service, vcf_vim_host_config_advanced_setting,
            vcf_vim_host_config_ad_joined})
    \cup Offered(vcf_vim_host_network, {vcf_vim_host_network_vswitch_present(first),
            vcf_vim_host_network_vswitch_present({}), vcf_vim_host_network_vswitch_absent,
            vcf_vim_host_network_vswitch_teaming_configured,
            vcf_vim_host_network_portgroup_present, vcf_vim_host_network_portgroup_absent,
            vcf_vim_host_network_vmkernel_present, vcf_vim_host_network_vmkernel_absent})
    \cup Offered(vcf_vim_host_datastore, {vcf_vim_host_datastore_vmfs_present,
            vcf_vim_host_datastore_nfs_mounted, vcf_vim_host_datastore_absent})
===============================================================================
