---------------------------- MODULE VcenterStates -----------------------------
(***************************************************************************)
(* The state functions for vCenter Server and its appliance                *)
(* (states/vcf_vcenter_*.py and those of vim.*Manager singletons), with the*)
(* requests of their clients. The REST calls and the SOAP calls of the     *)
(* managers answer when they are done; what returns a task is in           *)
(* ClusterStates.                                                          *)
(***************************************************************************)
EXTENDS StateFunctions

(***************************************************************************)
(* Inventory.                                                              *)
(***************************************************************************)

(* The path of a cluster takes the identifier that vCenter chose, the state passes the *)
(* name.                                                                               *)
vcenter_cluster_get_or_none == ByForeignKey
vcenter_cluster_create == Add(unseen)
vcenter_cluster_delete == Remove
vcf_vcenter_cluster_present ==
    Present(vcenter_cluster_get_or_none, <<vcenter_cluster_create>>)
vcf_vcenter_cluster_absent ==
    Absent(vcenter_cluster_get_or_none, <<vcenter_cluster_delete>>)

vcenter_datacenter_get_by_name == Scan
vcenter_datacenter_create == Add(unseen)
vcenter_datacenter_delete == Remove
vcf_vcenter_datacenter_present ==
    Present(vcenter_datacenter_get_by_name, <<vcenter_datacenter_create>>)
vcf_vcenter_datacenter_absent ==
    Absent(vcenter_datacenter_get_by_name, <<vcenter_datacenter_delete>>)

vcenter_folder_find_folder_object == Scan
vcenter_folder_find_by_name == vcenter_folder_find_folder_object
vcenter_folder_create == Add(unseen)
vcenter_folder_delete == Waited(Remove)
vcf_vcenter_folder_present ==
    Present(vcenter_folder_find_by_name, <<vcenter_folder_create>>)
vcf_vcenter_folder_absent ==
    Absent(vcenter_folder_find_by_name, <<vcenter_folder_delete>>)

vcenter_custom_attribute_get == Scan
vcenter_custom_attribute_get_or_none == vcenter_custom_attribute_get
vcenter_custom_attribute_add == Add(unseen)
vcenter_custom_attribute_remove == Remove
vcf_vcenter_custom_attribute_present ==
    Present(vcenter_custom_attribute_get_or_none, <<vcenter_custom_attribute_add>>)
vcf_vcenter_custom_attribute_absent ==
    Absent(vcenter_custom_attribute_get_or_none, <<vcenter_custom_attribute_remove>>)

vcenter_content_library_find_libraries == Scan
vcenter_content_library_create_local == Add(unseen)
vcenter_content_library_delete_local == Remove
vcf_vcenter_content_library_find_local == vcenter_content_library_find_libraries
vcf_vcenter_content_library_present ==
    Present(vcf_vcenter_content_library_find_local,
      <<vcenter_content_library_create_local>>)
vcf_vcenter_content_library_absent ==
    Absent(vcf_vcenter_content_library_find_local,
      <<vcenter_content_library_delete_local>>)

vcenter_vm_class_get_or_none == ByKey
vcenter_vm_class_create == Add(spec)
vcenter_vm_class_update == Set(spec)
vcenter_vm_class_delete == Remove
vcf_vcenter_vm_class_present ==
    Managed(vcenter_vm_class_get_or_none, <<vcenter_vm_class_create>>, spec,
      <<vcenter_vm_class_update>>)
vcf_vcenter_vm_class_absent ==
    Absent(vcenter_vm_class_get_or_none, <<vcenter_vm_class_delete>>)

vcenter_supervisor_service_get_or_none == ByKey
(* To "spec" as activated declares it, and as deactivated does. *)
vcenter_supervisor_service_activate == Set(spec)
vcenter_supervisor_service_deactivate == Set(spec)
vcenter_supervisor_service_delete == Remove
vcf_vcenter_supervisor_service_activated ==
    SettingOf(vcenter_supervisor_service_get_or_none, spec,
      <<vcenter_supervisor_service_activate>>)
vcf_vcenter_supervisor_service_deactivated ==
    SettingOf(vcenter_supervisor_service_get_or_none, spec,
      <<vcenter_supervisor_service_deactivate>>)
vcf_vcenter_supervisor_service_absent ==
    Absent(vcenter_supervisor_service_get_or_none,
      <<vcenter_supervisor_service_delete>>)

(* As of a cluster, the path takes the identifier that vCenter chose. *)
vcenter_host_get_or_none == ByForeignKey
vcenter_host_enter_maintenance == Set(spec)
vcenter_host_exit_maintenance == Set(spec)
(* Hosts are neither added nor removed here. *)
vcf_vcenter_host_present == Audit(vcenter_host_get_or_none, {})
vcf_vcenter_host_absent == Absent(vcenter_host_get_or_none, <<>>)
vcf_vcenter_host_maintenance(enabled) ==
    SettingOf(vcenter_host_get_or_none, spec,
      <<IF enabled THEN vcenter_host_enter_maintenance ELSE vcenter_host_exit_maintenance>>)

vcenter_storage_policy_find_profile == Scan
vcenter_storage_policy_get_by_name == vcenter_storage_policy_find_profile
vcenter_storage_policy_create(constraints) == Add(constraints)
(* The description is written back as it was read when none is given. *)
vcenter_storage_policy_update(constraints, described) ==
    IF described THEN <<Set(constraints)>> ELSE Rewrite(constraints)
vcenter_storage_policy_delete == Remove
vcenter_storage_policy_default_policy_get == Scan
vcenter_storage_policy_default_policy_set == Set(unread)
(* Tags are read back sorted: declared in another order ("unread") they always differ. *)
vcf_vcenter_storage_policy_present(constraints, described) ==
    Managed(vcenter_storage_policy_get_by_name,
      <<vcenter_storage_policy_create(constraints)>>, constraints,
      vcenter_storage_policy_update(constraints, described))
vcf_vcenter_storage_policy_absent ==
    Absent(vcenter_storage_policy_get_by_name, <<vcenter_storage_policy_delete>>)
(* The datastore and the policy both have to be there. The identifier of the one that is *)
(* set, a string, is compared with that of the policy, an object: they always differ.    *)
vcf_vcenter_storage_policy_default_policy ==
    SettingOf(vcenter_storage_policy_default_policy_get, unread,
      <<vcenter_storage_policy_default_policy_set>>)

vim_scheduled_task_find_task == Scan
vim_scheduled_task_get_or_none == vim_scheduled_task_find_task
vim_scheduled_task_create == Add(unseen)
vim_scheduled_task_delete == Remove
vcf_vim_scheduled_task_present ==
    Present(vim_scheduled_task_get_or_none, <<vim_scheduled_task_create>>)
vcf_vim_scheduled_task_absent ==
    Absent(vim_scheduled_task_get_or_none, <<vim_scheduled_task_delete>>)

(***************************************************************************)
(* Accounts, roles and permissions.                                        *)
(***************************************************************************)

vcenter_localos_user_get_or_none == ByKey
vcenter_localos_user_create == Add(spec \cup unseen)
vcenter_localos_user_update == Set(spec)
vcenter_localos_user_delete == Remove
(* The password is only ever set with a new account. *)
vcf_vcenter_localos_user_present ==
    Managed(vcenter_localos_user_get_or_none, <<vcenter_localos_user_create>>, spec,
      <<vcenter_localos_user_update>>)
vcf_vcenter_localos_user_absent ==
    Absent(vcenter_localos_user_get_or_none, <<vcenter_localos_user_delete>>)

vcenter_ad_domain_get == Scan
vcenter_ad_domain_join == Add(unseen)
vcenter_ad_domain_leave == Remove
vcf_vcenter_ad_domain_ad_joined ==
    Present(vcenter_ad_domain_get, <<vcenter_ad_domain_join>>)
vcf_vcenter_ad_domain_ad_absent ==
    Absent(vcenter_ad_domain_get, <<vcenter_ad_domain_leave>>)

vim_role_get_or_none == Scan
vim_role_create == Add(spec)
vim_role_update == Set(spec)
vim_role_delete == Remove
vcf_vim_role_present(system) ==
    Spared(system,
      Managed(vim_role_get_or_none, <<vim_role_create>>, spec, <<vim_role_update>>))
vcf_vim_role_absent(system) ==
    Spared(system, Absent(vim_role_get_or_none, <<vim_role_delete>>))

vim_permission_list_ == Scan
vim_permission_set_ == Upsert(spec)
vim_permission_remove == Remove
vcf_vim_permission_find == vim_permission_list_
vcf_vim_permission_present ==
    Managed(vcf_vim_permission_find, <<vim_permission_set_>>, spec,
      <<vim_permission_set_>>)
vcf_vim_permission_absent == Absent(vcf_vim_permission_find, <<vim_permission_remove>>)

vim_extension_get == ByKey
vim_extension_register == Add(spec \cup first \cup unseen)
(* The extension as it is found, with another version and description, and with the *)
(* other fields of the call.                                                        *)
vim_extension_update == Rewrite(spec \cup unseen)
vim_extension_unregister == Remove
(* The company ("first") is compared, but not among what is passed to update. *)
vcf_vim_extension_registered ==
    Managed(vim_extension_get, <<vim_extension_register>>, spec \cup first,
      vim_extension_update)
vcf_vim_extension_unregistered ==
    Absent(vim_extension_get, <<vim_extension_unregister>>)

(***************************************************************************)
(* Settings of the appliance.                                              *)
(***************************************************************************)

vcenter_appliances_ntp_get == ByKey
vcenter_appliances_ntp_set == Set(spec)
vcf_vcenter_appliances_ntp_servers ==
    Setting(vcenter_appliances_ntp_get, spec, <<vcenter_appliances_ntp_set>>)

vcenter_appliance_dns_get == ByKey
vcenter_appliance_dns_set == Set(spec)
vcenter_appliance_logging_forwarding_get == ByKey
vcenter_appliance_logging_forwarding_set == Set(spec)
vcenter_appliance_ceip_get == ByKey
vcenter_appliance_ceip_set == Set(spec)
vcf_vcenter_appliance_dns_servers ==
    Setting(vcenter_appliance_dns_get, spec, <<vcenter_appliance_dns_set>>)
vcf_vcenter_appliance_logging_forwarding ==
    Setting(vcenter_appliance_logging_forwarding_get, spec,
      <<vcenter_appliance_logging_forwarding_set>>)
vcf_vcenter_appliance_current_ceip_accepted == vcenter_appliance_ceip_get
vcf_vcenter_appliance_ceip_set ==
    Setting(vcf_vcenter_appliance_current_ceip_accepted, spec,
      <<vcenter_appliance_ceip_set>>)
vcf_vcenter_appliance_ceip_disabled == vcf_vcenter_appliance_ceip_set

vcenter_shell_shell_get == ByKey
vcenter_shell_shell_set == Set(spec)
vcf_vcenter_shell_shell_access ==
    Setting(vcenter_shell_shell_get, spec, <<vcenter_shell_shell_set>>)

vcenter_advanced_option_advanced_get == ByKey
vcenter_advanced_option_advanced_set == Upsert(spec)
vcf_vcenter_advanced_option_advanced_option ==
    Managed(vcenter_advanced_option_advanced_get,
      <<vcenter_advanced_option_advanced_set>>, spec,
      <<vcenter_advanced_option_advanced_set>>)

vcenter_statistics_interval_get == ByKey
vcenter_statistics_interval_set == Rewrite(spec)
vcf_vcenter_statistics_interval ==
    SettingOf(vcenter_statistics_interval_get, spec, vcenter_statistics_interval_set)

(***************************************************************************)
(* What only the execution modules send.                                   *)
(***************************************************************************)

vcenter_appliance_services_start == Beside
vcenter_appliance_services_stop == Beside
vcenter_appliance_services_restart == Beside

vcenter_content_library_create_subscribed == Beside
vcenter_content_library_update_local == Set(unseen)
vcenter_content_library_update_subscribed == Beside
vcenter_content_library_sync_subscribed == Beside
vcenter_content_library_publish_library == Beside
vcenter_content_library_create_item == Beside
vcenter_content_library_update_item == Beside
vcenter_content_library_delete_item == Beside
vcenter_content_library_update_session_create == Beside
vcenter_content_library_update_session_complete == Beside
vcenter_content_library_update_session_cancel == Beside
vcenter_content_library_update_session_fail == Beside
vcenter_content_library_update_session_keep_alive == Beside
vcenter_content_library_update_session_add_file == Beside
vcenter_content_library_ovf_deploy == Beside
vcenter_content_library_ovf_create_from_vm == Beside
vcenter_content_library_vm_template_create == Beside
vcenter_content_library_vm_template_deploy == Beside

vcenter_supervisor_service_create == Add(unseen)

vim_permission_reset == Remove

(* From the name, or to it. *)
vim_role_rename == {Remove, Add({})}

vim_scheduled_task_reconfigure == Set(unseen)
vim_scheduled_task_run_now == Beside

(***************************************************************************)
(* The execution modules modules/vcf_*.py, each as the requests an operator*)
(* can send with it. Its other functions only read.                        *)
(***************************************************************************)

vcf_vcenter_appliance ==
    {vcenter_appliance_services_start, vcenter_appliance_services_stop,
      vcenter_appliance_services_restart, vcenter_appliance_dns_set,
      vcenter_appliance_logging_forwarding_set, vcenter_appliance_ceip_set}
vcf_vcenter_cluster == {vcenter_cluster_create, vcenter_cluster_delete}
vcf_vcenter_content_library ==
    {vcenter_content_library_create_local, vcenter_content_library_delete_local,
      vcenter_content_library_create_subscribed, vcenter_content_library_delete_item,
      vcenter_content_library_update_local, vcenter_content_library_update_subscribed,
      vcenter_content_library_sync_subscribed, vcenter_content_library_publish_library,
      vcenter_content_library_create_item, vcenter_content_library_update_item,
      vcenter_content_library_update_session_create,
      vcenter_content_library_update_session_complete,
      vcenter_content_library_update_session_cancel,
      vcenter_content_library_update_session_fail,
      vcenter_content_library_update_session_keep_alive,
      vcenter_content_library_update_session_add_file,
      vcenter_content_library_ovf_deploy, vcenter_content_library_ovf_create_from_vm,
      vcenter_content_library_vm_template_create,
      vcenter_content_library_vm_template_deploy}
vcf_vcenter_datacenter == {vcenter_datacenter_create, vcenter_datacenter_delete}
vcf_vcenter_folder == {vcenter_folder_create, vcenter_folder_delete}
vcf_vcenter_host == {vcenter_host_enter_maintenance, vcenter_host_exit_maintenance}
vcf_vcenter_localos_user ==
    {vcenter_localos_user_create, vcenter_localos_user_update,
      vcenter_localos_user_delete}
vcf_vcenter_statistics == Range(vcenter_statistics_interval_set)
vcf_vcenter_storage_policy ==
    {vcenter_storage_policy_create(spec), vcenter_storage_policy_create(spec \cup unread),
      vcenter_storage_policy_delete}
      \cup UNION {Range(vcenter_storage_policy_update(constraints, described)) :
                     constraints \in {spec, spec \cup unread}, described \in BOOLEAN}
(* The one about the datastore. *)
vcf_vcenter_storage_policy_default ==
    {vcenter_storage_policy_delete, vcenter_storage_policy_default_policy_set}
vcf_vcenter_supervisor_service ==
    {vcenter_supervisor_service_create, vcenter_supervisor_service_activate,
      vcenter_supervisor_service_deactivate, vcenter_supervisor_service_delete}
vcf_vcenter_vm_class ==
    {vcenter_vm_class_create, vcenter_vm_class_update, vcenter_vm_class_delete}
vcf_vim_extension ==
    {vim_extension_register, vim_extension_unregister} \cup Range(vim_extension_update)
vcf_vim_permission == {vim_permission_set_, vim_permission_remove, vim_permission_reset}
vcf_vim_role == vim_role_rename \cup {vim_role_create, vim_role_update, vim_role_delete}
vcf_vim_scheduled_task ==
    {vim_scheduled_task_create, vim_scheduled_task_reconfigure,
      vim_scheduled_task_delete, vim_scheduled_task_run_now}

(***************************************************************************)
(* The state functions, each beside the execution modules for the same     *)
(* objects.                                                                *)
(***************************************************************************)

VcenterStatesFunctions ==
         Offered(vcf_vcenter_cluster, {vcf_vcenter_cluster_present,
            vcf_vcenter_cluster_absent})
    \cup Offered(vcf_vcenter_datacenter, {vcf_vcenter_datacenter_present,
            vcf_vcenter_datacenter_absent})
    \cup Offered(vcf_vcenter_folder, {vcf_vcenter_folder_present,
            vcf_vcenter_folder_absent})
    \cup Offered({}, {vcf_vcenter_custom_attribute_present,
            vcf_vcenter_custom_attribute_absent, vcf_vcenter_ad_domain_ad_joined,
            vcf_vcenter_ad_domain_ad_absent, vcf_vcenter_appliances_ntp_servers,
            vcf_vcenter_shell_shell_access, vcf_vcenter_advanced_option_advanced_option})
    \cup Offered(vcf_vcenter_content_library, {vcf_vcenter_content_library_present,
            vcf_vcenter_content_library_absent})
    \cup Offered(vcf_vcenter_vm_class, {vcf_vcenter_vm_class_present,
            vcf_vcenter_vm_class_absent})
    \cup Offered(vcf_vcenter_supervisor_service, {vcf_vcenter_supervisor_service_activated,
            vcf_vcenter_supervisor_service_deactivated,
            vcf_vcenter_supervisor_service_absent})
    \cup Offered(vcf_vcenter_host, {vcf_vcenter_host_present, vcf_vcenter_host_absent,
            vcf_vcenter_host_maintenance(TRUE), vcf_vcenter_host_maintenance(FALSE)})
    \cup Offered(vcf_vcenter_storage_policy,
            {vcf_vcenter_storage_policy_present(constraints, described) :
               constraints \in {spec, spec \cup unread}, described \in BOOLEAN}
            \cup {vcf_vcenter_storage_policy_absent})
    \cup Offered(vcf_vcenter_storage_policy_default,
            {vcf_vcenter_storage_policy_default_policy})
    \cup Offered(vcf_vim_scheduled_task, {vcf_vim_scheduled_task_present,
            vcf_vim_scheduled_task_absent})
    \cup Offered(vcf_vcenter_localos_user, {vcf_vcenter_localos_user_present,
            vcf_vcenter_localos_user_absent})
    \cup Offered(vcf_vim_role, {vcf_vim_role_present(FALSE), vcf_vim_role_absent(FALSE)})
    \cup {vcf_vim_role_present(TRUE), vcf_vim_role_absent(TRUE)}
    \cup Offered(vcf_vim_permission, {vcf_vim_permission_present,
            vcf_vim_permission_absent})
    \cup Offered(vcf_vim_extension, {vcf_vim_extension_registered,
            vcf_vim_extension_unregistered})
    \cup Offered(vcf_vcenter_appliance, {vcf_vcenter_appliance_dns_servers,
            vcf_vcenter_appliance_logging_forwarding, vcf_vcenter_appliance_ceip_set,
            vcf_vcenter_appliance_ceip_disabled})
    \cup Offered(vcf_vcenter_statistics, {vcf_vcenter_statistics_interval})
===============================================================================
