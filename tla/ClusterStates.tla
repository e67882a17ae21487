---------------------------- MODULE ClusterStates -----------------------------
(***************************************************************************)
(* The state functions for clusters, their DRS rules, resource pools and   *)
(* switches, with the requests of their clients. Most of the changes are   *)
(* tasks of vCenter, and the clients return the key of the task instead of *)
(* waiting for it.                                                         *)
(***************************************************************************)
EXTENDS StateFunctions

(***************************************************************************)
(* Rules and groups of DRS. A rule or group of the name but of another kind*)
(* fails the run and is left out here.                                     *)
(***************************************************************************)

vim_drs_rule_get == Scan
vim_drs_rule_get_or_none == vim_drs_rule_get
vim_drs_rule_apply(q) == Task(q)
vim_drs_rule_create_vm_affinity == vim_drs_rule_apply(Add(spec))
vim_drs_rule_create_vm_anti_affinity == vim_drs_rule_apply(Add(spec))
vim_drs_rule_create_vm_host == vim_drs_rule_apply(Add(spec))
vim_drs_rule_update == vim_drs_rule_apply(Set(spec))
vim_drs_rule_delete == Task(Remove)
vim_drs_rule_get_group == Scan
vim_drs_rule_get_group_or_none == vim_drs_rule_get_group
vim_drs_rule_create_vm_group == Task(Add(spec))
vim_drs_rule_create_host_group == Task(Add(spec))
vim_drs_rule_update_group == Task(Set(spec))
vim_drs_rule_delete_group == Task(Remove)
vcf_vim_drs_rule_present_vm_rule(create) ==
    Managed(vim_drs_rule_get_or_none, <<create>>, spec, <<vim_drs_rule_update>>)
vcf_vim_drs_rule_vm_affinity ==
    vcf_vim_drs_rule_present_vm_rule(vim_drs_rule_create_vm_affinity)
vcf_vim_drs_rule_vm_anti_affinity ==
    vcf_vim_drs_rule_present_vm_rule(vim_drs_rule_create_vm_anti_affinity)
(* A rule between groups that differs is deleted and made anew. *)
vcf_vim_drs_rule_vm_host ==
    Managed(vim_drs_rule_get_or_none, <<vim_drs_rule_create_vm_host>>, spec,
      <<vim_drs_rule_delete, vim_drs_rule_create_vm_host>>)
vcf_vim_drs_rule_absent == Absent(vim_drs_rule_get_or_none, <<vim_drs_rule_delete>>)
vcf_vim_drs_rule_vm_group ==
    Managed(vim_drs_rule_get_group_or_none, <<vim_drs_rule_create_vm_group>>, spec,
      <<vim_drs_rule_update_group>>)
vcf_vim_drs_rule_host_group ==
    Managed(vim_drs_rule_get_group_or_none, <<vim_drs_rule_create_host_group>>, spec,
      <<vim_drs_rule_update_group>>)
vcf_vim_drs_rule_group_absent ==
    Absent(vim_drs_rule_get_group_or_none, <<vim_drs_rule_delete_group>>)

(***************************************************************************)
(* Settings of a cluster.                                                  *)
(***************************************************************************)

vim_cluster_evc_get == Scan
vim_cluster_evc_configure == Task(Set(spec))
vim_cluster_evc_disable == Task(Set(spec))
vcf_vim_cluster_evc_mode ==
    SettingOf(vim_cluster_evc_get, spec, <<vim_cluster_evc_configure>>)

vim_cluster_config_drs_get == Scan
vim_cluster_config_drs_set == Task(Set(spec))
vim_cluster_config_ha_get == Scan
vim_cluster_config_ha_set == Task(Set(spec))
vim_cluster_config_evc_get == Scan
vim_cluster_config_evc_set == Task(Set(spec))
vim_cluster_config_evc_disable == Task(Set(spec))
vcf_vim_cluster_config_drs ==
    SettingOf(vim_cluster_config_drs_get, spec, <<vim_cluster_config_drs_set>>)
vcf_vim_cluster_config_ha ==
    SettingOf(vim_cluster_config_ha_get, spec, <<vim_cluster_config_ha_set>>)
vcf_vim_cluster_config_evc ==
    SettingOf(vim_cluster_config_evc_get, spec, <<vim_cluster_config_evc_set>>)

vcenter_dvs_nioc_nioc_get == Scan
vcenter_dvs_nioc_nioc_set == Set(spec)
vcf_vcenter_dvs_nioc_nioc_enabled ==
    SettingOf(vcenter_dvs_nioc_nioc_get, spec, <<vcenter_dvs_nioc_nioc_set>>)
(* Every switch of the cluster is set, "first" and "second", also one that needs no *)
(* change.                                                                          *)
vcenter_dvs_nioc_vccluster_nioc_get == Scan
vcenter_dvs_nioc_vccluster_nioc_set == <<Set(first), Set(second)>>
vcf_vcenter_dvs_nioc_vccluster_nioc_enabled ==
    SettingOf(vcenter_dvs_nioc_vccluster_nioc_get, first \cup second,
      vcenter_dvs_nioc_vccluster_nioc_set)

(***************************************************************************)
(* Resource pools.                                                         *)
(***************************************************************************)

vim_resource_pool_get_shares == Scan
vim_resource_pool_set_shares == Set(spec)
vcf_vim_resource_pool_shares ==
    SettingOf(vim_resource_pool_get_shares, spec, <<vim_resource_pool_set_shares>>)

vccluster_resource_pool_get_or_none == Scan
vccluster_resource_pool_create == Add({})
vccluster_resource_pool_set_shares == vim_resource_pool_set_shares
vccluster_resource_pool_delete == Waited(Remove)
(* A new pool has normal shares until a second request sets those declared. *)
vcf_vccluster_resource_pool_present ==
    Managed(vccluster_resource_pool_get_or_none, <<vccluster_resource_pool_create,
      vccluster_resource_pool_set_shares>>, spec,
      <<vccluster_resource_pool_set_shares>>)
vcf_vccluster_resource_pool_absent ==
    Absent(vccluster_resource_pool_get_or_none, <<vccluster_resource_pool_delete>>)

(***************************************************************************)
(* Distributed switches and port groups, whose tasks are waited for. The   *)
(* description of a switch and the promiscuity of a port group are written *)
(* and never compared.                                                     *)
(***************************************************************************)

vim_dvs_get == Scan
vim_dvs_get_or_none == vim_dvs_get
vim_dvs_create == Waited(Add(spec \cup unseen))
vim_dvs_reconfigure == Waited(Set(spec \cup unseen))
vim_dvs_delete == Waited(Remove)
vcf_vim_dvs_present ==
    Managed(vim_dvs_get_or_none, <<vim_dvs_create>>, spec, <<vim_dvs_reconfigure>>)
vcf_vim_dvs_absent == Absent(vim_dvs_get_or_none, <<vim_dvs_delete>>)

vim_dvs_portgroup_get == Scan
vim_dvs_portgroup_get_or_none == vim_dvs_portgroup_get
vim_dvs_portgroup_add == Waited(Add(spec \cup unseen))
vim_dvs_portgroup_create_vlan == vim_dvs_portgroup_add
vim_dvs_portgroup_reconfigure == Waited(Set(spec \cup unseen))
vim_dvs_portgroup_delete == Waited(Remove)
vim_dvs_portgroup_set_teaming == Waited(Set(spec))
vcf_vim_dvs_portgroup_present ==
    Managed(vim_dvs_portgroup_get_or_none, <<vim_dvs_portgroup_create_vlan>>, spec,
      <<vim_dvs_portgroup_reconfigure>>)
vcf_vim_dvs_portgroup_absent ==
    Absent(vim_dvs_portgroup_get_or_none, <<vim_dvs_portgroup_delete>>)
vcf_vim_dvs_teaming_configured ==
    SettingOf(vim_dvs_portgroup_get_or_none, spec, <<vim_dvs_portgroup_set_teaming>>)

(***************************************************************************)
(* vSAN.                                                                   *)
(***************************************************************************)

vsan_cluster_get == Scan
vsan_cluster_reconfigure == Task(Set(spec))
vcf_vsan_cluster_configured ==
    SettingOf(vsan_cluster_get, spec, <<vsan_cluster_reconfigure>>)

vsan_fault_domain_list_ == Scan
vsan_fault_domain_assign == Task(Set(spec))
vcf_vsan_fault_domain_member ==
    SettingOf(vsan_fault_domain_list_, spec, <<vsan_fault_domain_assign>>)
(* "first" is the service, "second" its domain. The domain is asked for while the *)
(* service is still being enabled.                                                *)
vsan_file_service_enabled == Scan
vsan_file_service_set_enabled == Task(Set(first))
vsan_file_service_download_ovf == Task(Set(unseen))
vsan_file_service_domain_exists == Scan
vsan_file_service_create_domain == Task(Set(second))
vsan_file_service_remove_domain == Task(Set(second))
vcf_vsan_file_service_configured ==
    SettingOf(vsan_file_service_enabled, first \cup second,
      <<On(first, vsan_file_service_download_ovf),
      On(first, vsan_file_service_set_enabled),
      On(second, vsan_file_service_create_domain)>>)
vcf_vsan_file_service_absent ==
    SettingOf(vsan_file_service_domain_exists, first \cup second,
      <<On(second, vsan_file_service_remove_domain),
      On(first, vsan_file_service_set_enabled)>>)

(***************************************************************************)
(* What only the execution modules send.                                   *)
(***************************************************************************)

vim_cluster_config_dpm_set == Task(Beside)

vim_cluster_evc_check == Task(Beside)

vim_dvs_add_host == Waited(Beside)
vim_dvs_remove_host == Waited(Beside)

vim_resource_pool_move == Beside

vim_dvs_portgroup_create_trunk == vim_dvs_portgroup_add

(***************************************************************************)
(* The execution modules modules/vcf_*.py, each as the requests an operator*)
(* can send with it. Its other functions only read.                        *)
(***************************************************************************)

vcf_vim_cluster_config ==
    {vim_cluster_config_drs_set, vim_cluster_config_ha_set, vim_cluster_config_evc_set,
      vim_cluster_config_evc_disable, vim_cluster_config_dpm_set}
vcf_vim_cluster_evc ==
    {vim_cluster_evc_configure, vim_cluster_evc_disable, vim_cluster_evc_check}
vcf_vim_drs_rule ==
    {vim_drs_rule_create_vm_affinity, vim_drs_rule_create_vm_anti_affinity,
      vim_drs_rule_create_vm_host, vim_drs_rule_update, vim_drs_rule_delete,
      vim_drs_rule_create_vm_group, vim_drs_rule_create_host_group,
      vim_drs_rule_delete_group, vim_drs_rule_update_group}
vcf_vim_dvs ==
    {vim_dvs_create, vim_dvs_reconfigure, vim_dvs_delete, vim_dvs_add_host,
      vim_dvs_remove_host}
vcf_vim_dvs_portgroup ==
    {vim_dvs_portgroup_create_vlan, vim_dvs_portgroup_create_trunk,
      vim_dvs_portgroup_reconfigure, vim_dvs_portgroup_delete,
      vim_dvs_portgroup_set_teaming}
vcf_vim_resource_pool == {vim_resource_pool_move, vim_resource_pool_set_shares}
vcf_vsan_cluster == {vsan_cluster_reconfigure}
vcf_vsan_fault_domain == {vsan_fault_domain_assign}
vcf_vsan_file_service ==
    {vsan_file_service_set_enabled, vsan_file_service_download_ovf,
      vsan_file_service_create_domain, vsan_file_service_remove_domain}

(***************************************************************************)
(* The state functions, each beside the execution modules for the same     *)
(* objects.                                                                *)
(***************************************************************************)

ClusterStatesFunctions ==
         Offered(vcf_vim_drs_rule, {vcf_vim_drs_rule_vm_affinity,
            vcf_vim_drs_rule_vm_anti_affinity, vcf_vim_drs_rule_vm_host,
            vcf_vim_drs_rule_absent, vcf_vim_drs_rule_vm_group, vcf_vim_drs_rule_host_group,
            vcf_vim_drs_rule_group_absent})
    \cup Offered(vcf_vim_cluster_evc, {vcf_vim_cluster_evc_mode})
    \cup Offered(vcf_vim_cluster_config, {vcf_vim_cluster_config_drs,
            vcf_vim_cluster_config_ha, vcf_vim_cluster_config_evc})
    \cup Offered({}, {vcf_vcenter_dvs_nioc_nioc_enabled,
            vcf_vcenter_dvs_nioc_vccluster_nioc_enabled, vcf_vccluster_resource_pool_present,
            vcf_vccluster_resource_pool_absent})
    \cup Offered(vcf_vim_resource_pool, {vcf_vim_resource_pool_shares})
    \cup Offered(vcf_vim_dvs \cup vcf_vim_dvs_portgroup, {vcf_vim_dvs_present,
            vcf_vim_dvs_absent, vcf_vim_dvs_portgroup_present, vcf_vim_dvs_portgroup_absent,
            vcf_vim_dvs_teaming_configured})
    \cup Offered(vcf_vsan_cluster, {vcf_vsan_cluster_configured})
    \cup Offered(vcf_vsan_fault_domain, {vcf_vsan_fault_domain_member})
    \cup Offered(vcf_vsan_file_service, {vcf_vsan_file_service_configured,
            vcf_vsan_file_service_absent})
===============================================================================
