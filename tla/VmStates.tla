------------------------------- MODULE VmStates -------------------------------
(***************************************************************************)
(* The state functions for virtual machines, their devices, first-class    *)
(* disks and files on datastores, with the requests of their clients. A VM *)
(* is found by name. Of its fields its own hardware is "spec", its disks   *)
(* are "first", its adapters "second", its features "third", its CD drives *)
(* "unseen", its power state "fourth" and its pinning to CPUs and memory   *)
(* "fifth"; every client looks it up before it sends anything.             *)
(***************************************************************************)
EXTENDS StateFunctions

(***************************************************************************)
(* Virtual machines.                                                       *)
(***************************************************************************)

vim_vm_vm == Scan
vim_vm_create == Waited(Add(spec))
vim_vm_clone == Task(Add(spec))
vim_vm_get_advanced_settings == vim_vm_vm
vim_vm_get_resource_config == Scan
vim_vm_set_resource_config == Waited(Set(fifth))

(* To "fourth" as it is declared: on for powered_on, off for the others. *)
vim_vm_power_get_power_state == Scan
vim_vm_power_power_on == Task(Set(fourth))
vim_vm_power_power_off == Task(Set(fourth))
(* One that is running is switched off first; neither task is waited for. *)
vim_vm_destroy(running) ==
    (IF running THEN <<vim_vm_power_power_off>> ELSE <<>>) \o <<Task(Remove)>>

vim_vm_disk_add == Waited(Set(first))

vim_vm_nic_add == Waited(Set(second))

vim_vm_cdrom_add == Waited(Set(unseen))

vim_vm_features_set_features == Waited(Set(third))
vcf_vim_vm_wait_for_vm == Call("read", {})
(* An existing VM is taken as it is, with as many devices as it has. (The sessions its   *)
(* process has cached are dropped first; one request stands for those of a list of them.)*)
vcf_vim_vm_present ==
    Present(vim_vm_get_advanced_settings, <<vim_vm_create, vcf_vim_vm_wait_for_vm,
      vim_vm_disk_add, vim_vm_nic_add, vim_vm_cdrom_add, vim_vm_features_set_features>>)
(* Whether it can be switched off is ignored. *)
vcf_vim_vm_absent(running) ==
    Absent(vim_vm_get_advanced_settings,
      <<Tried(vim_vm_power_power_off)>> \o vim_vm_destroy(running))
vcf_vim_vm_powered_on ==
    SettingOf(vim_vm_power_get_power_state, fourth, <<vim_vm_power_power_on>>)
vcf_vim_vm_powered_off ==
    SettingOf(vim_vm_power_get_power_state, fourth, <<vim_vm_power_power_off>>)
vcf_vim_vm_resource_pinning_disabled ==
    SettingOf(vim_vm_get_resource_config, fifth, <<vim_vm_set_resource_config>>)

vcenter_vm_search == ByKey
vcenter_vm_get_by_name == vcenter_vm_search
(* Cloned, which is not waited for, if a source is named; else created bare. *)
vcenter_vm_deploy == {vim_vm_clone, vim_vm_create}
vcenter_vm_wait_reachable == Unreached
vcf_vcenter_vm_deployed(deploy) == Present(vcenter_vm_get_by_name, <<deploy>>)
vcf_vcenter_vm_reachable == Blind(Audit(vcenter_vm_wait_reachable, {}))

(***************************************************************************)
(* Devices of a VM.                                                        *)
(***************************************************************************)

vim_vm_devices_reconfig(q) == Task(q)
vim_vm_devices_tpm_list == Scan
vim_vm_devices_tpm_add == vim_vm_devices_reconfig(Add(unseen))
vim_vm_devices_tpm_remove == vim_vm_devices_reconfig(Remove)
vcf_vim_vm_devices_tpm_present ==
    Present(vim_vm_devices_tpm_list, <<vim_vm_devices_tpm_add>>)
vcf_vim_vm_devices_tpm_absent ==
    Absent(vim_vm_devices_tpm_list, <<vim_vm_devices_tpm_remove>>)
vim_vm_devices_vgpu_list == Scan
vim_vm_devices_vgpu_add == vim_vm_devices_reconfig(Add(unseen))
(* One that matches. *)
vim_vm_devices_vgpu_remove == vim_vm_devices_reconfig(Remove)
vcf_vim_vm_devices_vgpu_present ==
    Present(vim_vm_devices_vgpu_list, <<vim_vm_devices_vgpu_add>>)
(* When no profile is named, any passthrough device is found; one that is no vGPU cannot *)
(* be removed: requests is empty then.                                                   *)
vcf_vim_vm_devices_vgpu_absent(requests) == Absent(vim_vm_devices_vgpu_list, requests)
vim_vm_devices_serial_list == Scan
vim_vm_devices_serial_add == vim_vm_devices_reconfig(Add(unseen))
vcf_vim_vm_devices_serial_present ==
    Present(vim_vm_devices_serial_list, <<vim_vm_devices_serial_add>>)
(* For each VM that has one; a VM that fails does not keep the others from their turn.   *)
(* With connected_only those that are not connected are passed over.                     *)
vim_vm_devices_list_vms_with_usb_controllers(connected_only) ==
    IF connected_only THEN Unreached ELSE Scan
vim_vm_devices_usb_controllers_remove == Task(Remove)
vcf_vim_vm_devices_usb_controllers_absent(connected_only) ==
    Absent(vim_vm_devices_list_vms_with_usb_controllers(connected_only),
      <<vim_vm_devices_usb_controllers_remove>>)

(***************************************************************************)
(* First-class disks: the size ("first") is a task, the keep-after-delete  *)
(* flag ("second") a call. How it is provisioned is only set at first.     *)
(***************************************************************************)

vim_first_class_disk_list_ == Scan
vim_first_class_disk_create == Task(Add(first \cup second \cup unseen))
vim_first_class_disk_extend == Task(Set(first))
vim_first_class_disk_set_keep_after_delete_vm == Set(second)
vim_first_class_disk_delete == Task(Remove)
vcf_vim_first_class_disk_find_by_name == vim_first_class_disk_list_
vcf_vim_first_class_disk_present ==
    Managed(vcf_vim_first_class_disk_find_by_name, <<vim_first_class_disk_create>>,
      first \cup second, <<On(first, vim_first_class_disk_extend),
      On(second, vim_first_class_disk_set_keep_after_delete_vm)>>)
vcf_vim_first_class_disk_absent ==
    Absent(vcf_vim_first_class_disk_find_by_name, <<vim_first_class_disk_delete>>)

(***************************************************************************)
(* Files on a datastore. The size is "spec".                               *)
(***************************************************************************)

vim_datastore_file_list_ == Scan
vim_datastore_file_delete == Task(Remove)
vim_datastore_file_mkdir == Add({})
vim_datastore_file_upload == Upsert(spec)
(* The old file is deleted by a task that is not waited for, and the new one sent after *)
(* it: drift is none, what match_size compares, or, with force, always there.           *)
vcf_vim_datastore_file_file_present(drift) ==
    Managed(vim_datastore_file_list_, <<vim_datastore_file_upload>>, drift,
      <<vim_datastore_file_delete, vim_datastore_file_upload>>)
vcf_vim_datastore_file_file_absent ==
    Absent(vim_datastore_file_list_, <<vim_datastore_file_delete>>)
vcf_vim_datastore_file_directory_present ==
    Present(vim_datastore_file_list_, <<vim_datastore_file_mkdir>>)

(***************************************************************************)
(* What only the execution modules send.                                   *)
(***************************************************************************)

vim_vm_reconfigure == Task(Set(spec))
vim_vm_mark_as_template == Beside
vim_vm_mark_as_virtual_machine == Beside
(* As the source is, and as the file says. *)
vim_vm_instant_clone == Task(Add({}))
vim_vm_move_to_folder == Task(Beside)
vim_vm_register == Task(Add({}))
vim_vm_unregister == Remove

(* The guest does it once it has been told. *)
vim_vm_power_shutdown_guest == Task(Set(fourth))
vim_vm_power_reboot_guest == Task(Beside)
vim_vm_power_reset == Task(Beside)
(* To a third power state, which no state function declares. *)
vim_vm_power_standby_guest == Task(Beside)
vim_vm_power_suspend == Task(Beside)

(* Of a declared disk; what is removed here and below is a device beside them. *)
vim_vm_disk_resize == Waited(Set(first))
vim_vm_disk_remove == Waited(Beside)

vim_vm_nic_update_backing == Waited(Set(second))
vim_vm_nic_set_connected == Waited(Beside)
vim_vm_nic_remove == Waited(Beside)

vim_vm_cdrom_attach_iso == Waited(Set(unseen))
vim_vm_cdrom_eject == Waited(Beside)
vim_vm_cdrom_remove == Waited(Beside)

vim_vm_features_upgrade_hardware == Task(Beside)

vcenter_vm_power == Beside
vcenter_vm_power_on == vcenter_vm_power
vcenter_vm_power_off == vcenter_vm_power
vcenter_vm_reset == vcenter_vm_power

vim_vm_devices_video_update == vim_vm_devices_reconfig(Beside)
vim_vm_devices_serial_remove == vim_vm_devices_reconfig(Remove)

(* From the name, or to it. *)
vim_first_class_disk_rename == {Remove, Add({})}
vim_first_class_disk_register == Add({})
vim_first_class_disk_attach_to_vm == Task(Beside)
vim_first_class_disk_detach_from_vm == Task(Beside)

(* From the path, or to it. *)
vim_datastore_file_move == {Task(Remove), Task(Upsert(spec))}

vim_vm_tools_upgrade_tools == Task(Beside)
vim_vm_tools_mount_tools_installer == Beside
vim_vm_tools_unmount_tools_installer == Beside

(***************************************************************************)
(* The execution modules modules/vcf_*.py, each as the requests an operator*)
(* can send with it. Its other functions only read.                        *)
(***************************************************************************)

vcf_vcenter_vm ==
    vcenter_vm_deploy \cup {vcenter_vm_power_on, vcenter_vm_power_off, vcenter_vm_reset}
vcf_vim_datastore_file ==
    vim_datastore_file_move \cup
      {vim_datastore_file_mkdir, vim_datastore_file_delete, vim_datastore_file_upload}
vcf_vim_first_class_disk ==
    vim_first_class_disk_rename \cup
     {vim_first_class_disk_create, vim_first_class_disk_delete,
      vim_first_class_disk_extend, vim_first_class_disk_register,
      vim_first_class_disk_set_keep_after_delete_vm,
      vim_first_class_disk_attach_to_vm, vim_first_class_disk_detach_from_vm}
vcf_vim_vm ==
    {vim_vm_clone, vim_vm_create, vim_vm_reconfigure, vim_vm_set_resource_config,
      vim_vm_mark_as_template, vim_vm_mark_as_virtual_machine, vim_vm_instant_clone,
      vim_vm_move_to_folder, vim_vm_register, vim_vm_unregister}
      \cup Range(vim_vm_destroy(TRUE))
vcf_vim_vm_cdrom ==
    {vim_vm_cdrom_add, vim_vm_cdrom_attach_iso, vim_vm_cdrom_eject, vim_vm_cdrom_remove}
vcf_vim_vm_devices ==
    {vim_vm_devices_tpm_add, vim_vm_devices_tpm_remove, vim_vm_devices_vgpu_add,
      vim_vm_devices_vgpu_remove, vim_vm_devices_video_update,
      vim_vm_devices_serial_add, vim_vm_devices_serial_remove,
      vim_vm_devices_usb_controllers_remove}
vcf_vim_vm_disk == {vim_vm_disk_add, vim_vm_disk_resize, vim_vm_disk_remove}
vcf_vim_vm_features == {vim_vm_features_set_features, vim_vm_features_upgrade_hardware}
vcf_vim_vm_nic ==
    {vim_vm_nic_add, vim_vm_nic_update_backing, vim_vm_nic_set_connected,
      vim_vm_nic_remove}
(* declared: those of its calls that bring the declared power state about; the others of *)
(* them are changes away from it.                                                        *)
vcf_vim_vm_power(declared) ==
    declared \cup {vim_vm_power_reboot_guest, vim_vm_power_reset,
      vim_vm_tools_upgrade_tools, vim_vm_tools_mount_tools_installer,
      vim_vm_tools_unmount_tools_installer}
vcf_vim_vm_tools ==
    {vim_vm_tools_upgrade_tools, vim_vm_tools_mount_tools_installer,
      vim_vm_tools_unmount_tools_installer}

(***************************************************************************)
(* The state functions, each beside the execution modules for the same     *)
(* objects.                                                                *)
(***************************************************************************)

vcf_vim_vm_hardware ==
    vcf_vim_vm \cup vcf_vim_vm_cdrom \cup vcf_vim_vm_disk \cup vcf_vim_vm_features
      \cup vcf_vim_vm_nic \cup vcf_vim_vm_tools

VmStatesFunctions ==
         Offered(vcf_vim_vm_hardware \cup vcf_vim_vm_power({vim_vm_power_power_on,
            vim_vm_power_power_off, vim_vm_power_shutdown_guest, vim_vm_power_standby_guest,
            vim_vm_power_suspend}),
            {vcf_vim_vm_present, vcf_vim_vm_resource_pinning_disabled,
            vcf_vim_vm_absent(TRUE), vcf_vim_vm_absent(FALSE)})
    \cup Offered(vcf_vim_vm_hardware \cup vcf_vim_vm_power({vim_vm_power_power_on}),
            {vcf_vim_vm_powered_on})
    \cup Offered(vcf_vim_vm_hardware \cup vcf_vim_vm_power({vim_vm_power_power_off,
            vim_vm_power_shutdown_guest}), {vcf_vim_vm_powered_off})
    \cup Offered(vcf_vcenter_vm, {vcf_vcenter_vm_deployed(q) : q \in vcenter_vm_deploy}
            \cup {vcf_vcenter_vm_reachable})
    \cup Offered(vcf_vim_vm_devices, {vcf_vim_vm_devices_tpm_present,
            vcf_vim_vm_devices_tpm_absent, vcf_vim_vm_devices_vgpu_present,
            vcf_vim_vm_devices_vgpu_absent(<<vim_vm_devices_vgpu_remove>>),
            vcf_vim_vm_devices_vgpu_absent(<<>>), vcf_vim_vm_devices_serial_present,
            vcf_vim_vm_devices_usb_controllers_absent(TRUE),
            vcf_vim_vm_devices_usb_controllers_absent(FALSE)})
    \cup Offered(vcf_vim_first_class_disk, {vcf_vim_first_class_disk_present,
            vcf_vim_first_class_disk_absent})
    \cup Offered(vcf_vim_datastore_file, {vcf_vim_datastore_file_file_present({}),
            vcf_vim_datastore_file_file_present(spec),
            vcf_vim_datastore_file_file_present(unread), vcf_vim_datastore_file_file_absent,
            vcf_vim_datastore_file_directory_present})
===============================================================================
