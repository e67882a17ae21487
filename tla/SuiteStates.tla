----------------------------- MODULE SuiteStates ------------------------------
(***************************************************************************)
(* The state functions for SDDC Manager, VCF Operations, VMSP, VCF         *)
(* Operations for Logs, the installer appliance and the cluster            *)
(* configuration profiles, with the requests of their clients.             *)
(***************************************************************************)
EXTENDS StateFunctions

(***************************************************************************)
(* SDDC Manager. Hosts and domains come and go by workflows that are       *)
(* accepted and run later.                                                 *)
(***************************************************************************)

sddc_host_get_or_none == ByKey
sddc_host_commission == Task(Add(unseen))
sddc_host_decommission == Task(Remove)
vcf_sddc_host_commissioned == Present(sddc_host_get_or_none, <<sddc_host_commission>>)
vcf_sddc_host_decommissioned ==
    Absent(sddc_host_get_or_none, <<sddc_host_decommission>>)

sddc_domain_get_by_name == Scan
sddc_domain_create == Task(Add(unseen))
sddc_domain_mark_for_deletion == Set(unseen)
vcf_sddc_domain_present == Present(sddc_domain_get_by_name, <<sddc_domain_create>>)
(* The domain is marked for deletion; nothing deletes it. *)
vcf_sddc_domain_absent ==
    Absent(sddc_domain_get_by_name, <<sddc_domain_mark_for_deletion>>)

sddc_manager_get_or_none == Scan
vcf_sddc_manager_ready == Audit(sddc_manager_get_or_none, {})
vcf_sddc_manager_deployed == vcf_sddc_manager_ready

sddc_vcf_services_get_by_name == Scan
vcf_vcf_services_healthy == Audit(sddc_vcf_services_get_by_name, spec)
(* The policy is read once, by the state function, and written back whole. *)
sddc_manager_password_policy_get == Scan
sddc_manager_password_policy_set_ == Whole(spec)
vcf_sddc_manager_password_policy_within_max_age ==
    SettingOf(sddc_manager_password_policy_get, spec,
      <<sddc_manager_password_policy_set_>>)
(* The audits answer a dry run without judging. *)
vcf_sddc_manager_password_policy_present ==
    Blind(Audit(sddc_manager_password_policy_get, spec))

sddc_manager_local_accounts_list_or_none == Scan
vcf_sddc_manager_local_accounts_audited ==
    Blind(Audit(sddc_manager_local_accounts_list_or_none, spec))

sddc_manager_tls_get_tls_min_version == Scan
sddc_manager_tls_get_tls_profile == Scan
vcf_sddc_manager_tls_min_version_compliant ==
    Blind(Audit(sddc_manager_tls_get_tls_min_version, spec))
vcf_sddc_manager_tls_profile_compliant ==
    Blind(Audit(sddc_manager_tls_get_tls_profile, spec))

(***************************************************************************)
(* VCF Operations. Objects are looked for on the first page of their list. *)
(***************************************************************************)

vcfops_credential_list_ == FirstPage
vcfops_credential_create == Add(unseen)
vcfops_credential_delete == Remove
vcf_vcfops_credential_find_existing == vcfops_credential_list_
vcf_vcfops_credential_present ==
    Present(vcf_vcfops_credential_find_existing, <<vcfops_credential_create>>)
vcf_vcfops_credential_absent ==
    Absent(vcf_vcfops_credential_find_existing, <<vcfops_credential_delete>>)

vcfops_auth_roles_get_or_none == ByKey
vcfops_auth_roles_create == Add(unseen)
vcfops_auth_roles_delete == Remove
vcf_vcfops_role_present ==
    Present(vcfops_auth_roles_get_or_none, <<vcfops_auth_roles_create>>)
vcf_vcfops_role_absent(system) ==
    Spared(system, Absent(vcfops_auth_roles_get_or_none, <<vcfops_auth_roles_delete>>))
vcfops_auth_users_list == FirstPage
vcfops_auth_users_create == Add(unseen)
vcfops_auth_users_delete == Remove
vcf_vcfops_user_find_by_username == vcfops_auth_users_list
vcf_vcfops_user_present ==
    Present(vcf_vcfops_user_find_by_username, <<vcfops_auth_users_create>>)
vcf_vcfops_user_absent ==
    Absent(vcf_vcfops_user_find_by_username, <<vcfops_auth_users_delete>>)

vcfops_supermetric_list_ == FirstPage
vcfops_supermetric_create == Add(spec)
vcfops_supermetric_update == Set(spec)
vcfops_supermetric_delete == Remove
vcf_vcfops_supermetric_find_by_name == vcfops_supermetric_list_
vcf_vcfops_supermetric_present ==
    Managed(vcf_vcfops_supermetric_find_by_name, <<vcfops_supermetric_create>>, spec,
      <<vcfops_supermetric_update>>)
vcf_vcfops_supermetric_absent ==
    Absent(vcf_vcfops_supermetric_find_by_name, <<vcfops_supermetric_delete>>)

(***************************************************************************)
(* VMSP: the component is patched by a task that is waited for.            *)
(***************************************************************************)

vmsp_dns_get == Scan
vmsp_dns_set_ == Waited(Set(spec))
vcf_vmsp_dns_compliant == SettingOf(vmsp_dns_get, spec, <<vmsp_dns_set_>>)

vmsp_ntp_get == Scan
vmsp_ntp_set_ == Waited(Set(spec))
vcf_vmsp_ntp_compliant == SettingOf(vmsp_ntp_get, spec, <<vmsp_ntp_set_>>)

vmsp_syslog_get == Scan
vmsp_syslog_set_ == Waited(Set(spec))
vcf_vmsp_syslog_compliant == SettingOf(vmsp_syslog_get, spec, <<vmsp_syslog_set_>>)

(***************************************************************************)
(* VCF Operations for Logs. The password and the servers of the directory  *)
(* are written and not compared.                                           *)
(***************************************************************************)

vrli_ad_get == Scan
vrli_ad_set_(password) == Set(spec \cup password)
vrli_ad_disable == Set(spec)
(* The password is not compared; with force it is written at every run. *)
vcf_vrli_ad_ad_configured(force) ==
    IF force THEN Setting(vrli_ad_get, spec \cup unread, <<vrli_ad_set_(unread)>>)
    ELSE Setting(vrli_ad_get, spec, <<vrli_ad_set_(unseen)>>)
vcf_vrli_ad_ad_disabled == Setting(vrli_ad_get, spec, <<vrli_ad_disable>>)

vrli_certificate_get == Scan
vrli_certificate_install == Set(spec)
vcf_vrli_certificate_certificate_present ==
    Setting(vrli_certificate_get, spec, <<vrli_certificate_install>>)

vrli_settings_get_session_timeout == Scan
vrli_settings_set_session_timeout == Set(spec)
vrli_settings_get_dns_servers_from_appliance == Scan
vrli_settings_set_dns_servers == Set(spec)
vcf_vrli_settings_session_timeout_configured ==
    Setting(vrli_settings_get_session_timeout, spec,
      <<vrli_settings_set_session_timeout>>)
vcf_vrli_settings_dns_servers_configured ==
    Setting(vrli_settings_get_dns_servers_from_appliance, spec,
      <<vrli_settings_set_dns_servers>>)

(***************************************************************************)
(* Configuration profiles of a cluster: a draft is made ("unseen"), changed*)
(* and applied. A draft that is not applied stays.                         *)
(***************************************************************************)

cluster_config_enablement_get == Scan
cluster_config_configuration_get == Scan
cluster_config_draft_create == Set(unseen)
cluster_config_draft_update_configuration == Set(unseen)
cluster_config_draft_apply == Task(Set(spec))
vcf_cluster_config_enabled == Audit(cluster_config_enablement_get, spec)
vcf_cluster_config_profile_value ==
    SettingOf(cluster_config_configuration_get, spec, <<cluster_config_draft_create,
      cluster_config_draft_update_configuration, cluster_config_draft_apply>>)

(***************************************************************************)
(* The installer appliance, found by its port: one that is down is deployed*)
(* again.                                                                  *)
(***************************************************************************)

installer_appliance_is_appliance_reachable == Unreached
installer_appliance_deploy_installer == Waited(Add(unseen))
vcf_installer_appliance_running ==
    Present(installer_appliance_is_appliance_reachable,
      <<installer_appliance_deploy_installer>>)

installer_topology_validate == Scan
vcf_installer_topology_valid == Audit(installer_topology_validate, spec)

(***************************************************************************)
(* What only the execution modules send.                                   *)
(***************************************************************************)

cluster_config_draft_delete == Beside

sddc_domain_update == Task(Set(unseen))
sddc_domain_delete == Task(Remove)

vcfops_credential_update == Whole(unseen)

vcfops_auth_users_update == Whole(unseen)
vcfops_auth_usergroups_create == Beside
vcfops_auth_usergroups_delete == Beside

sddc_cluster_ops_update == Task(Beside)
sddc_cluster_ops_expand == sddc_cluster_ops_update
sddc_cluster_ops_shrink == sddc_cluster_ops_update

sddc_edge_clusters_create == Task(Beside)

sddc_license_keys_add == Beside

sddc_tasks_retry == Task(Beside)
sddc_tasks_wait(q) == Waited(q)

(***************************************************************************)
(* The execution modules modules/vcf_*.py, each as the requests an operator*)
(* can send with it. Its other functions only read.                        *)
(***************************************************************************)

vcf_cluster_config ==
    {cluster_config_draft_create, cluster_config_draft_update_configuration,
      cluster_config_draft_delete, cluster_config_draft_apply}
vcf_installer_appliance == {installer_appliance_deploy_installer}
vcf_sddc_domain ==
    {sddc_domain_create, sddc_domain_update, sddc_domain_delete,
      sddc_domain_mark_for_deletion}
vcf_sddc_host == {sddc_host_commission, sddc_host_decommission}
(* With wait=True the module waits for the task that the client returned. *)
vcf_sddc_workload_domain ==
    LET sent == {sddc_domain_create, sddc_domain_update, sddc_domain_delete,
      sddc_cluster_ops_expand, sddc_cluster_ops_shrink, sddc_edge_clusters_create}
      IN sent \cup {sddc_tasks_wait(q) : q \in sent} \cup {sddc_license_keys_add,
      sddc_tasks_retry}
vcf_vcfops_auth ==
    {vcfops_auth_roles_create, vcfops_auth_roles_delete, vcfops_auth_users_create,
      vcfops_auth_users_update, vcfops_auth_users_delete,
      vcfops_auth_usergroups_create, vcfops_auth_usergroups_delete}
vcf_vcfops_credential ==
    {vcfops_credential_create, vcfops_credential_update, vcfops_credential_delete}
vcf_vcfops_supermetric ==
    {vcfops_supermetric_create, vcfops_supermetric_update, vcfops_supermetric_delete}
vcf_vrli_ad == {vrli_ad_set_(unseen), vrli_ad_set_(unread), vrli_ad_disable}
vcf_vrli_certificate == {vrli_certificate_install}
vcf_vrli_settings == {vrli_settings_set_dns_servers, vrli_settings_set_session_timeout}

(***************************************************************************)
(* The state functions, each beside the execution modules for the same     *)
(* objects.                                                                *)
(***************************************************************************)

SuiteStatesFunctions ==
         Offered(vcf_sddc_host, {vcf_sddc_host_commissioned, vcf_sddc_host_decommissioned})
    \cup Offered(vcf_sddc_domain \cup vcf_sddc_workload_domain, {vcf_sddc_domain_present,
            vcf_sddc_domain_absent})
    \cup Offered({}, {vcf_sddc_manager_ready, vcf_sddc_manager_deployed,
            vcf_vcf_services_healthy, vcf_sddc_manager_password_policy_within_max_age,
            vcf_sddc_manager_password_policy_present, vcf_sddc_manager_local_accounts_audited,
            vcf_sddc_manager_tls_min_version_compliant,
            vcf_sddc_manager_tls_profile_compliant, vcf_vmsp_dns_compliant,
            vcf_vmsp_ntp_compliant, vcf_vmsp_syslog_compliant, vcf_installer_topology_valid})
    \cup Offered(vcf_vcfops_credential, {vcf_vcfops_credential_present,
            vcf_vcfops_credential_absent})
    \cup Offered(vcf_vcfops_auth, {vcf_vcfops_role_present,
            vcf_vcfops_role_absent(FALSE), vcf_vcfops_user_present, vcf_vcfops_user_absent})
    \cup {vcf_vcfops_role_absent(TRUE)}
    \cup Offered(vcf_vcfops_supermetric, {vcf_vcfops_supermetric_present,
            vcf_vcfops_supermetric_absent})
    \cup Offered(vcf_vrli_ad, {vcf_vrli_ad_ad_configured(TRUE), vcf_vrli_ad_ad_configured(FALSE),
            vcf_vrli_ad_ad_disabled})
    \cup Offered(vcf_vrli_certificate, {vcf_vrli_certificate_certificate_present})
    \cup Offered(vcf_vrli_settings, {vcf_vrli_settings_session_timeout_configured,
            vcf_vrli_settings_dns_servers_configured})
    \cup Offered(vcf_cluster_config, {vcf_cluster_config_enabled,
            vcf_cluster_config_profile_value})
    \cup Offered(vcf_installer_appliance, {vcf_installer_appliance_running})
===============================================================================
