----------------------------- MODULE MC_Declared ------------------------------
(***************************************************************************)
(* Declared with the whole catalogue of state functions.                   *)
(***************************************************************************)
EXTENDS Declared, NsxStates, VcenterStates, ClusterStates, HostStates, VmStates, SuiteStates

Catalogue ==
    NsxStatesFunctions \cup VcenterStatesFunctions \cup ClusterStatesFunctions
      \cup HostStatesFunctions \cup VmStatesFunctions \cup SuiteStatesFunctions

Sends(f) == [f EXCEPT !.calls = {}]
Same(functions) == {Sends(f) : f \in functions}

(* The properties of Declared speak of functions that look surely, that    *)
(* send what repairs what they compare, and so on.  These, and only these, *)
(* do not.                                                                 *)
ASSUME UnsureLookups ==
    {Sends(f) : f \in {g \in Catalogue : ~Surely(g)}} = Same({
        vcf_nsx_transport_zone_present, vcf_nsx_transport_zone_absent, vcf_nsx_ldap_present,
        vcf_nsx_ldap_absent, vcf_nsx_role_binding_present, vcf_nsx_role_binding_absent,
        vcf_vcenter_cluster_present, vcf_vcenter_cluster_absent,
        vcf_vcenter_host_present, vcf_vcenter_host_absent, vcf_vcenter_host_maintenance(TRUE),
        vcf_vcenter_vm_reachable, vcf_vim_vm_devices_usb_controllers_absent(TRUE),
        vcf_vim_host_network_vmkernel_present, vcf_vim_host_network_vmkernel_absent,
        vcf_vcfops_credential_present, vcf_vcfops_credential_absent, vcf_vcfops_user_present,
        vcf_vcfops_user_absent, vcf_vcfops_supermetric_present, vcf_vcfops_supermetric_absent,
        vcf_installer_appliance_running})

ASSUME LeftUnrepaired ==
    {Sends(f) : f \in {g \in Catalogue : ~Repairs(g)}} = Same({
        vcf_nsx_transport_zone_present, vcf_vcenter_host_absent, vcf_vim_extension_registered,
        vcf_esxi_ad_auth_joined, vcf_esxi_auth_proxy_joined, vcf_vim_vm_devices_vgpu_absent(<<>>),
        vcf_vim_host_network_vswitch_present({}), vcf_vim_datastore_file_file_present(unread),
        vcf_sddc_domain_absent, vcf_vcf_services_healthy, vcf_sddc_manager_password_policy_present,
        vcf_sddc_manager_local_accounts_audited, vcf_sddc_manager_tls_min_version_compliant,
        vcf_sddc_manager_tls_profile_compliant, vcf_installer_topology_valid,
        vcf_cluster_config_enabled, vcf_vim_role_present(TRUE), vcf_vim_role_absent(TRUE),
        vcf_vcfops_role_absent(TRUE)})

ASSUME LetBe ==
    {f \in Catalogue : f.spared} =
      {vcf_vim_role_present(TRUE), vcf_vim_role_absent(TRUE), vcf_vcfops_role_absent(TRUE)}

ASSUME OutOfOrder ==
    {Sends(f) : f \in {g \in Catalogue : ~Ordered(g)}} = Same({
        vcf_vim_datastore_file_file_present({}), vcf_vim_datastore_file_file_present(spec),
        vcf_vim_datastore_file_file_present(unread)})

ASSUME NeverRead ==
    {Sends(f) : f \in {g \in Catalogue : ~Readable(g)}} = Same({
        vcf_esxi_host_lockdown, vcf_vim_datastore_file_file_present(unread),
        vcf_vcenter_storage_policy_present(spec \cup unread, TRUE),
        vcf_vcenter_storage_policy_present(spec \cup unread, FALSE),
        vcf_vcenter_storage_policy_default_policy, vcf_nsx_vidm_enabled(spec \cup unread),
        vcf_vrli_ad_ad_configured(TRUE)})

ASSUME NotResumed ==
    {Sends(f) : f \in {g \in Catalogue : ~Resumes(g)}} = Same({vcf_vim_vm_present})

ASSUME WrittenBackWhole ==
    {Sends(f) : f \in {g \in Catalogue : \E q \in Range(g.change) : q.op = "whole"}} = Same({
        vcf_nsx_role_binding_present, vcf_nsx_telemetry_optin_set,
        vcf_nsx_vidm_enabled(spec), vcf_nsx_vidm_enabled(spec \cup unread),
        vcf_nsx_node_services_http_configured, vcf_vim_extension_registered,
        vcf_vcenter_statistics_interval, vcf_sddc_manager_password_policy_within_max_age,
        vcf_vcenter_storage_policy_present(spec, FALSE),
        vcf_vcenter_storage_policy_present(spec \cup unread, FALSE)})

(* What is proved of Plain, Steady and Remakes functions says nothing of   *)
(* these: the one that deletes a rule and adds it anew, and those that     *)
(* delete a file before they write it.                                     *)
ASSUME NotPlain == Same({f \in Catalogue : ~Plain(f)}) = Same({vcf_vim_drs_rule_vm_host})

ASSUME NotSteady ==
    Same({f \in Catalogue : ~Steady(f)}) = Same({
        vcf_vim_drs_rule_vm_host, vcf_vim_datastore_file_file_present({}),
        vcf_vim_datastore_file_file_present(spec), vcf_vim_datastore_file_file_present(unread)})

(* Those are also the ones that may get in their own way. *)
ASSUME NotDirect == \A f \in Catalogue : Direct(f) <=> Steady(f)

ASSUME NotRemade == Same({f \in Catalogue : ~Remakes(f)}) = {}

ASSUME AllUnmixed == \A f \in Catalogue : Unmixed(f)

(* State functions that send the same requests are one to Declared, beside *)
(* whatever an operator may call for the object of any of them; only those *)
(* whose execution modules write bodies back whole are kept apart.         *)
Alike(f) == {g \in Catalogue : Sends(g) = Sends(f) /\ (Rewrites(g) <=> Rewrites(f))}
AllFunctions == {[f EXCEPT !.calls = UNION {g.calls : g \in Alike(f)}] : f \in Catalogue}
===============================================================================
