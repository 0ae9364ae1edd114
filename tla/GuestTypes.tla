------------------------------ MODULE GuestTypes ------------------------------
(***************************************************************************)
(* The bit-field types of the hypercall interface, as the accessors of      *)
(* src/src/guest_accessors.c have them. A word is the set of the positions  *)
(* of its ones. A field is a function from the bits of its value to bits of *)
(* the word, taken from the shifts and masks of its set, get and copy       *)
(* functions, in which they are the same; a row has the constants of the    *)
(* type's other functions.                                                  *)
(***************************************************************************)
EXTENDS Integers, Functions, TLC

\* The pieces fields are made of: one bit; bits lo to hi; the same, as the bits
\* of the value from bit at on (for a field of two pieces or a shifted one).
Bit(n) == [i \in {0} |-> n]
Bits(hi, lo) == [i \in 0 .. (hi - lo) |-> lo + i]
Piece(hi, lo, at) == [i \in at .. (at + hi - lo) |-> lo + i - at]

\* A row: fields are the shifts and masks of the get functions and set those of
\* the set functions, cleared the bits a set function clears first, copied those
\* a copy function replaces; named is the mask of _is_equal, _is_empty and
\* _clean, unnamed that of _is_clean, expected the bits _is_clean and _clean want
\* in it, default the word _init stores, readonly the fields without a set
\* function, enums the fields whose value is an enumerator, flags whether there
\* are set functions.
Layout(width, fields, named, unnamed) ==
  LET masks == [f \in DOMAIN fields |-> Range(fields[f])]
  IN [width |-> width, fields |-> fields, set |-> fields, cleared |-> masks,
      copied |-> masks, named |-> named, unnamed |-> unnamed, expected |-> {},
      default |-> {}, readonly |-> {}, enums |-> <<>>, flags |-> FALSE]

Flags(width, fields, named, unnamed) ==
  [Layout(width, fields, named, unnamed) EXCEPT !.flags = TRUE]

-----------------------------------------------------------------------------
(* The enumerators of the fields: the values _raw_is_valid, _raw_cast_safe   *)
(* and, in a debug build, _raw_cast accept.                                  *)

addrspace_info_area_id_owner == (0 .. 3) \cup {16, 65535}
allocator_memtype == 0 .. 2
scheduler_variant == {0, 1}
hyp_variant == {0, 72, 81}
pgtable_access == (0 .. 2) \cup (4 .. 7)
memextent_memtype == 0 .. 3
memextent_type == {0, 1}
memextent_donate_type == 0 .. 4
pgtable_vm_memtype == (0 .. 3) \cup (5 .. 7) \cup (9 .. 11) \cup (13 .. 15)
memextent_modify_op == (0 .. 4) \cup {255}
partition_donate_type == 0 .. 2
partition_query_type == {0, 1}
scheduler_yield_hint == 0 .. 2
sdei_error_reason == 0 .. 2
smccc_owner_id == 0 .. 6
smccc_vendor_hyp_function_class == {0, 2, 3}
virtio_transport_type == {0, 1}
virtio_device_type == (0 .. 3) \cup {13, 16, 18, 19, 23, 24}

-----------------------------------------------------------------------------
(* The types. *)

addrspace_info_area_entry_data_info_fields ==
  [size |-> Bits(31, 0), alignment |-> Bits(63, 32)]
addrspace_info_area_entry_data_info ==
  Layout(64, addrspace_info_area_entry_data_info_fields, 0 .. 63, {})

addrspace_info_area_entry_flags_fields == [valid |-> Bit(31)]
addrspace_info_area_entry_flags ==
  Flags(32, addrspace_info_area_entry_flags_fields, {31}, 0 .. 30)

addrspace_info_area_entry_type_fields ==
  [id |-> Bits(15, 0), owner |-> Bits(31, 16)]
addrspace_info_area_entry_type ==
  [Layout(32, addrspace_info_area_entry_type_fields, 0 .. 31, {}) EXCEPT
     !.enums = [owner |-> addrspace_info_area_id_owner]]

addrspace_map_flags_fields ==
  [partial |-> Bit(0), private |-> Bit(1), vmmio |-> Bit(2),
   whole_extent |-> Bit(3), no_sync |-> Bit(31)]
addrspace_map_flags ==
  Flags(32, addrspace_map_flags_fields, (0 .. 3) \cup {31}, 4 .. 30)

addrspace_modify_pages_flags_fields ==
  [unlock |-> Bit(0), no_sync_unlock |-> Bit(2), do_not_sanitise |-> Bit(3)]
addrspace_modify_pages_flags ==
  [Flags(32, addrspace_modify_pages_flags_fields,
         (2 .. 3) \cup {0}, (4 .. 31) \cup {1}) EXCEPT
     !.default = {1},
     !.expected = {1}]

allocator_memattr_fields == [type |-> Bits(3, 0)]
allocator_memattr ==
  [Layout(16, allocator_memattr_fields, 0 .. 3, 4 .. 15) EXCEPT
     !.enums = [type |-> allocator_memtype]]

allocator_stats_info_fields == [version |-> Bits(7, 0)]
allocator_stats_info ==
  [Layout(32, allocator_stats_info_fields, 0 .. 7, 8 .. 31) EXCEPT
     !.default = {0},
     !.readonly = DOMAIN allocator_stats_info_fields]

cap_rights_addrspace_fields ==
  [attach |-> Bit(0), map |-> Bit(1), lookup |-> Bit(2),
   configure_range |-> Bit(3), map_protected |-> Bit(4),
   modify_protected |-> Bit(5), add_info |-> Bit(6),
   object_activate |-> Bit(31)]
cap_rights_addrspace ==
  Flags(32, cap_rights_addrspace_fields, (0 .. 6) \cup {31}, 7 .. 30)

cap_rights_cspace_fields ==
  [cap_create |-> Bit(0), cap_delete |-> Bit(1), cap_copy |-> Bit(2),
   attach |-> Bit(3), cap_revoke |-> Bit(4), object_activate |-> Bit(31)]
cap_rights_cspace ==
  Flags(32, cap_rights_cspace_fields, (0 .. 4) \cup {31}, 5 .. 30)

cap_rights_doorbell_fields ==
  [send |-> Bit(0), receive |-> Bit(1), bind |-> Bit(2),
   object_activate |-> Bit(31)]
cap_rights_doorbell ==
  Flags(32, cap_rights_doorbell_fields, (0 .. 2) \cup {31}, 3 .. 30)

cap_rights_generic_fields == [object_activate |-> Bit(31)]
cap_rights_generic == Flags(32, cap_rights_generic_fields, {31}, 0 .. 30)

cap_rights_gicv3_its_fields ==
  [bind_device |-> Bit(0), object_activate |-> Bit(31)]
cap_rights_gicv3_its ==
  Flags(32, cap_rights_gicv3_its_fields, {0, 31}, 1 .. 30)

cap_rights_hwirq_fields == [bind_vic |-> Bit(1), object_activate |-> Bit(31)]
cap_rights_hwirq ==
  Flags(32, cap_rights_hwirq_fields, {1, 31}, (2 .. 30) \cup {0})

cap_rights_memextent_fields ==
  [map |-> Bit(0), derive |-> Bit(1), attach |-> Bit(2), lookup |-> Bit(3),
   donate |-> Bit(4), protected_host |-> Bit(5), protected_guest |-> Bit(6),
   map_private |-> Bit(7), object_activate |-> Bit(31)]
cap_rights_memextent ==
  Flags(32, cap_rights_memextent_fields, (0 .. 7) \cup {31}, 8 .. 30)

cap_rights_msgqueue_fields ==
  [send |-> Bit(0), receive |-> Bit(1), bind_send |-> Bit(2),
   bind_receive |-> Bit(3), object_activate |-> Bit(31)]
cap_rights_msgqueue ==
  Flags(32, cap_rights_msgqueue_fields, (0 .. 3) \cup {31}, 4 .. 30)

cap_rights_partition_fields ==
  [object_create |-> Bit(0), donate |-> Bit(1), query |-> Bit(2),
   object_activate |-> Bit(31)]
cap_rights_partition ==
  Flags(32, cap_rights_partition_fields, (0 .. 2) \cup {31}, 3 .. 30)

cap_rights_power_fields ==
  [system_suspend |-> Bit(0), cpu_suspend |-> Bit(1),
   object_activate |-> Bit(31)]
cap_rights_power ==
  Flags(32, cap_rights_power_fields, (0 .. 1) \cup {31}, 2 .. 30)

cap_rights_smmuv3_fields ==
  [configure |-> Bit(0), manage_streams |-> Bit(1),
   object_activate |-> Bit(31)]
cap_rights_smmuv3 ==
  Flags(32, cap_rights_smmuv3_fields, (0 .. 1) \cup {31}, 2 .. 30)

cap_rights_thread_fields ==
  [yield_to |-> Bit(4), power |-> Bit(0), affinity |-> Bit(1),
   priority |-> Bit(2), timeslice |-> Bit(3), bind_virq |-> Bit(5),
   state |-> Bit(6), lifecycle |-> Bit(7), write_context |-> Bit(8),
   disable |-> Bit(9), object_activate |-> Bit(31)]
cap_rights_thread ==
  Flags(32, cap_rights_thread_fields, (0 .. 9) \cup {31}, 10 .. 30)

cap_rights_vgic_its_fields ==
  [bind_vic |-> Bit(0), attach_addrspace |-> Bit(1), bind_devices |-> Bit(2),
   unbind_devices |-> Bit(3), object_activate |-> Bit(31)]
cap_rights_vgic_its ==
  Flags(32, cap_rights_vgic_its_fields, (0 .. 3) \cup {31}, 4 .. 30)

cap_rights_vic_fields ==
  [bind_source |-> Bit(0), attach_vcpu |-> Bit(1), attach_vdevice |-> Bit(2),
   object_activate |-> Bit(31)]
cap_rights_vic == Flags(32, cap_rights_vic_fields, (0 .. 2) \cup {31}, 3 .. 30)

cap_rights_virtio_backend_fields ==
  [bind_virq |-> Bit(0), assert_virq |-> Bit(2), config |-> Bit(3),
   bind_mmio_frontend_virq |-> Bit(1), bind_vpci |-> Bit(4),
   object_activate |-> Bit(31)]
cap_rights_virtio_backend ==
  Flags(32, cap_rights_virtio_backend_fields, (0 .. 4) \cup {31}, 5 .. 30)

cap_rights_virtio_iommu_fields ==
  [bind_vpci |-> Bit(0), manage_streams |-> Bit(1),
   object_activate |-> Bit(31)]
cap_rights_virtio_iommu ==
  Flags(32, cap_rights_virtio_iommu_fields, (0 .. 1) \cup {31}, 2 .. 30)

cap_rights_vpci_fields ==
  [attach |-> Bit(0), bind |-> Bit(1), object_activate |-> Bit(31)]
cap_rights_vpci ==
  Flags(32, cap_rights_vpci_fields, (0 .. 1) \cup {31}, 2 .. 30)

cap_rights_vpm_group_fields ==
  [attach_vcpu |-> Bit(0), bind_virq |-> Bit(1), query |-> Bit(2),
   wakeup |-> Bit(3), bind_power |-> Bit(4), set_threshold |-> Bit(5),
   object_activate |-> Bit(31)]
cap_rights_vpm_group ==
  Flags(32, cap_rights_vpm_group_fields, (0 .. 5) \cup {31}, 6 .. 30)

cap_rights_vrtc_fields ==
  [configure |-> Bit(0), attach_addrspace |-> Bit(1), set_time_base |-> Bit(2),
   object_activate |-> Bit(31)]
cap_rights_vrtc ==
  Flags(32, cap_rights_vrtc_fields, (0 .. 2) \cup {31}, 3 .. 30)

cap_rights_vsmmuv2_fields ==
  [manage_streams |-> Bit(0), attach_addrspace |-> Bit(1),
   object_activate |-> Bit(31)]
cap_rights_vsmmuv2 ==
  Flags(32, cap_rights_vsmmuv2_fields, (0 .. 1) \cup {31}, 2 .. 30)

cap_rights_watchdog_fields ==
  [attach_vcpu |-> Bit(0), bind_virq |-> Bit(1), manage |-> Bit(2),
   object_activate |-> Bit(31)]
cap_rights_watchdog ==
  Flags(32, cap_rights_watchdog_fields, (0 .. 2) \cup {31}, 3 .. 30)

hyp_api_flags0_fields ==
  [trace_profile |-> Bit(12), reserved_16 |-> Bit(16),
   scheduler |-> Bits(31, 28),
   res0_0 |-> Piece(15, 15, 0) @@ Piece(27, 17, 1) @@ Piece(63, 32, 12),
   doorbell |-> Bit(1), msgqueue |-> Bit(2), partition_cspace |-> Bit(0),
   power |-> Bit(14), trace_ctrl |-> Bit(7), vcpu_run |-> Bit(11),
   vic |-> Bit(3), virtio_mmio |-> Bit(9), vpci |-> Bit(13), vpm |-> Bit(4),
   watchdog |-> Bit(8), memextent |-> Bit(6), prng |-> Bit(10),
   vcpu |-> Bit(5)]
hyp_api_flags0 ==
  [Layout(64, hyp_api_flags0_fields, 0 .. 63, {}) EXCEPT
     !.default = (0 .. 11) \cup (13 .. 14) \cup {28},
     !.readonly = DOMAIN hyp_api_flags0_fields,
     !.enums = [scheduler |-> scheduler_variant]]

hyp_api_flags1_fields ==
  [arm_v82_sve |-> Bit(0), vgic_ext_spis |-> Bit(1), vgic_ext_ppis |-> Bit(2)]
hyp_api_flags1 ==
  [Flags(64, hyp_api_flags1_fields, 0 .. 2, 3 .. 63) EXCEPT
     !.readonly = DOMAIN hyp_api_flags1_fields]

hyp_api_flags2_fields == [res0_0 |-> Bits(63, 0)]
hyp_api_flags2 ==
  [Layout(64, hyp_api_flags2_fields, 0 .. 63, {}) EXCEPT
     !.readonly = DOMAIN hyp_api_flags2_fields]

hyp_api_info_fields ==
  [api_version |-> Bits(13, 0), big_endian |-> Bit(14), is_64bit |-> Bit(15),
   variant |-> Bits(63, 56)]
hyp_api_info ==
  [Layout(64, hyp_api_info_fields, (0 .. 15) \cup (56 .. 63), 16 .. 55) EXCEPT
     !.default = {0, 15, 56, 60, 62},
     !.readonly = DOMAIN hyp_api_info_fields,
     !.enums = [variant |-> hyp_variant]]

memextent_access_attrs_fields ==
  [user_access |-> Bits(2, 0), kernel_access |-> Bits(6, 4),
   res_0 |-> Piece(3, 3, 0) @@ Piece(31, 7, 1)]
memextent_access_attrs ==
  [Layout(32, memextent_access_attrs_fields, 0 .. 31, {}) EXCEPT
     !.readonly = {"res_0"},
     !.enums = [user_access |-> pgtable_access,
                kernel_access |-> pgtable_access]]

memextent_attrs_fields ==
  [access |-> Bits(2, 0), memtype |-> Bits(9, 8), type |-> Bits(17, 16),
   res_0 |-> Piece(7, 3, 0) @@ Piece(15, 10, 5) @@ Piece(31, 18, 11)]
memextent_attrs ==
  [Layout(32, memextent_attrs_fields, 0 .. 31, {}) EXCEPT
     !.readonly = {"res_0"},
     !.enums = [access |-> pgtable_access, memtype |-> memextent_memtype,
                type |-> memextent_type]]

memextent_donate_options_fields ==
  [type |-> Bits(7, 0), res_0 |-> Bits(30, 8), no_sync |-> Bit(31)]
memextent_donate_options ==
  [Layout(32, memextent_donate_options_fields, 0 .. 31, {}) EXCEPT
     !.readonly = {"res_0"},
     !.enums = [type |-> memextent_donate_type]]

memextent_mapping_attrs_fields ==
  [user_access |-> Bits(2, 0), kernel_access |-> Bits(6, 4),
   memtype |-> Bits(23, 16),
   res_0 |-> Piece(3, 3, 0) @@ Piece(15, 7, 1) @@ Piece(31, 24, 10)]
memextent_mapping_attrs ==
  [Layout(32, memextent_mapping_attrs_fields, 0 .. 31, {}) EXCEPT
     !.readonly = {"res_0"},
     !.enums = [user_access |-> pgtable_access,
                kernel_access |-> pgtable_access,
                memtype |-> pgtable_vm_memtype]]

memextent_modify_flags_fields ==
  [op |-> Bits(7, 0), res_0 |-> Bits(30, 8), no_sync |-> Bit(31)]
memextent_modify_flags ==
  [Layout(32, memextent_modify_flags_fields, 0 .. 31, {}) EXCEPT
     !.readonly = {"res_0"},
     !.enums = [op |-> memextent_modify_op]]

msgqueue_create_info_fields ==
  [queue_depth |-> Bits(15, 0), max_msg_size |-> Bits(31, 16)]
msgqueue_create_info ==
  Layout(64, msgqueue_create_info_fields, 0 .. 31, 32 .. 63)

msgqueue_send_flags_fields == [push |-> Bit(0)]
msgqueue_send_flags == Flags(32, msgqueue_send_flags_fields, {0}, 1 .. 31)

partition_donate_flags_fields == [type |-> Bits(7, 0), res0 |-> Bits(31, 8)]
partition_donate_flags ==
  [Layout(32, partition_donate_flags_fields, 0 .. 31, {}) EXCEPT
     !.readonly = {"res0"},
     !.enums = [type |-> partition_donate_type]]

partition_query_flags_fields == [type |-> Bits(7, 0), res0 |-> Bits(31, 8)]
partition_query_flags ==
  [Layout(32, partition_query_flags_fields, 0 .. 31, {}) EXCEPT
     !.readonly = {"res0"},
     !.enums = [type |-> partition_query_type]]

root_env_mmio_range_properties_fields ==
  [num_pages |-> Bits(31, 0), access |-> Bits(34, 32),
   res_s2pt_attr |-> Bits(47, 40), pvm_unmapped |-> Bit(62),
   non_exclusive |-> Bit(63)]
root_env_mmio_range_properties ==
  [Layout(64, root_env_mmio_range_properties_fields,
          (0 .. 34) \cup (40 .. 47) \cup (62 .. 63), (35 .. 39) \cup (48 .. 61)) EXCEPT
     !.enums = [access |-> pgtable_access]]

scheduler_yield_control_fields == [hint |-> Bits(15, 0), impl_def |-> Bit(31)]
scheduler_yield_control ==
  [Layout(32, scheduler_yield_control_fields,
          (0 .. 15) \cup {31}, 16 .. 30) EXCEPT
     !.enums = [hint |-> scheduler_yield_hint]]

sdei_error_flags_fields ==
  [reason |-> Bits(31, 0), res0 |-> Bits(62, 32), system_error |-> Bit(63)]
sdei_error_flags ==
  [Layout(64, sdei_error_flags_fields, 0 .. 63, {}) EXCEPT
     !.readonly = {"res0"},
     !.enums = [reason |-> sdei_error_reason]]

smccc_function_id_fields ==
  [function |-> Bits(15, 0), sve_live_state_hint |-> Bit(16),
   res0 |-> Bits(23, 17), owner_id |-> Bits(29, 24), is_smc64 |-> Bit(30),
   is_fast |-> Bit(31)]
smccc_function_id ==
  [Layout(32, smccc_function_id_fields, 0 .. 31, {}) EXCEPT
     !.readonly = {"res0"},
     !.enums = [owner_id |-> smccc_owner_id]]

smccc_vendor_hyp_function_id_fields ==
  [call_class |-> Bits(15, 14), function |-> Bits(13, 0)]
smccc_vendor_hyp_function_id ==
  [Layout(16, smccc_vendor_hyp_function_id_fields, 0 .. 15, {}) EXCEPT
     !.enums = [call_class |-> smccc_vendor_hyp_function_class]]

vcpu_option_flags_fields ==
  [pinned |-> Bit(0), critical |-> Bit(8), ras_error_handler |-> Bit(1),
   amu_counting_disabled |-> Bit(2), sve_allowed |-> Bit(3),
   debug_allowed |-> Bit(4), trace_allowed |-> Bit(5), sme_allowed |-> Bit(10),
   hlos_vm |-> Bit(63), sdei_allowed |-> Bit(11),
   vcpu_run_scheduled |-> Bit(9)]
vcpu_option_flags ==
  Flags(64, vcpu_option_flags_fields,
        (0 .. 5) \cup (8 .. 11) \cup {63}, (6 .. 7) \cup (12 .. 62))

vcpu_poweroff_flags_fields == [last_vcpu |-> Bit(0)]
vcpu_poweroff_flags == Flags(64, vcpu_poweroff_flags_fields, {0}, 1 .. 63)

vcpu_poweron_flags_fields ==
  [preserve_entry_point |-> Bit(0), preserve_context |-> Bit(1)]
vcpu_poweron_flags == Flags(64, vcpu_poweron_flags_fields, 0 .. 1, 2 .. 63)

vcpu_run_poweroff_flags_fields == [exited |-> Bit(0)]
vcpu_run_poweroff_flags ==
  Flags(32, vcpu_run_poweroff_flags_fields, {0}, 1 .. 31)

vgic_gicr_attach_flags_fields == [last_valid |-> Bit(0), last |-> Bit(1)]
vgic_gicr_attach_flags ==
  Flags(64, vgic_gicr_attach_flags_fields, 0 .. 1, 2 .. 63)

vic_msi_source_config_fields == [index |-> Bits(15, 0), res0 |-> Bits(63, 16)]
vic_msi_source_config ==
  [Layout(64, vic_msi_source_config_fields, 0 .. 63, {}) EXCEPT
     !.readonly = {"res0"}]

vic_option_flags_fields ==
  [max_msis_valid |-> Bit(0), disable_default_addr |-> Bit(1),
   res0_0 |-> Bits(63, 2)]
vic_option_flags ==
  [Layout(64, vic_option_flags_fields, 0 .. 63, {}) EXCEPT
     !.default = 0 .. 1]

virtio_backend_interface_type_fields ==
  [transport |-> Bits(23, 16), device |-> Bits(7, 0)]
virtio_backend_interface_type ==
  [Layout(64, virtio_backend_interface_type_fields,
          (0 .. 7) \cup (16 .. 23), (8 .. 15) \cup (24 .. 63)) EXCEPT
     !.enums = [transport |-> virtio_transport_type,
                device |-> virtio_device_type]]

virtio_backend_interrupt_perqueue_fields ==
  [queues_ready |-> Bits(15, 0), config_update |-> Bit(63)]
virtio_backend_interrupt_perqueue ==
  Layout(64, virtio_backend_interrupt_perqueue_fields,
         (0 .. 15) \cup {63}, 16 .. 62)

virtio_backend_memextent_layout_fields ==
  [devcfg_offset |-> Bits(32, 16), devcfg_size |-> Bits(15, 0)]
virtio_backend_memextent_layout ==
  Layout(64, virtio_backend_memextent_layout_fields, 0 .. 32, 33 .. 63)

virtio_backend_notify_flags_fields ==
  [per_queue |-> Bit(0), config_update |-> Bit(1)]
virtio_backend_notify_flags ==
  [Flags(64, virtio_backend_notify_flags_fields, 0 .. 1, 2 .. 63) EXCEPT
     !.default = {0}]

virtio_backend_notify_reason_fields ==
  [new_buffer |-> Bit(0), reset_request |-> Bit(1), res0_2 |-> Bit(2),
   driver_ok |-> Bit(3), failed |-> Bit(4)]
virtio_backend_notify_reason ==
  [Flags(64, virtio_backend_notify_reason_fields, 0 .. 4, 5 .. 63) EXCEPT
     !.readonly = {"res0_2"}]

virtio_backend_option_flags_fields ==
  [sync_reset |-> Bit(0), per_queue_irqs |-> Bit(1),
   ignore_config_writes |-> Bit(2), valid_me_layout |-> Bit(3),
   valid_type |-> Bit(6)]
virtio_backend_option_flags ==
  Flags(64, virtio_backend_option_flags_fields,
        (0 .. 3) \cup {6}, (4 .. 5) \cup (7 .. 63))

virtio_interrupt_fields == [queue_ready |-> Bit(0), config_update |-> Bit(1)]
virtio_interrupt == Flags(8, virtio_interrupt_fields, 0 .. 1, 2 .. 7)

virtio_iommu_options_fields ==
  [max_streams |-> Bits(31, 0), addrspace_valid |-> Bit(32)]
virtio_iommu_options ==
  [Layout(64, virtio_iommu_options_fields, 0 .. 32, 33 .. 63) EXCEPT
     !.default = {32},
     !.readonly = {"addrspace_valid"}]

virtio_status_fields ==
  [acknowledge |-> Bit(0), driver |-> Bit(1), driver_ok |-> Bit(2),
   features_ok |-> Bit(3), device_needs_reset |-> Bit(6), failed |-> Bit(7)]
virtio_status ==
  [Flags(8, virtio_status_fields, (0 .. 3) \cup (6 .. 7), 4 .. 5) EXCEPT
     !.default = {6}]

vpci_aperture_fields ==
  [bits |-> Bits(5, 0), res0 |-> Bits(11, 6), base |-> Piece(63, 12, 12)]
vpci_aperture ==
  [Layout(64, vpci_aperture_fields, 0 .. 63, {}) EXCEPT
     !.readonly = {"res0"}]

vpci_option_flags_fields == [pcie |-> Bit(0), res0 |-> Bits(63, 1)]
vpci_option_flags ==
  [Layout(64, vpci_option_flags_fields, 0 .. 63, {}) EXCEPT
     !.default = {0},
     !.readonly = {"res0"}]

vpm_group_option_flags_fields ==
  [no_aggregation |-> Bit(0), explicit_wakeup |-> Bit(1)]
vpm_group_option_flags ==
  Flags(64, vpm_group_option_flags_fields, 0 .. 1, 2 .. 63)

watchdog_bind_option_flags_fields == [bite_virq |-> Bit(0)]
watchdog_bind_option_flags ==
  Flags(64, watchdog_bind_option_flags_fields, {0}, 1 .. 63)

watchdog_option_flags_fields ==
  [critical_bite |-> Bit(0), fatal_bite |-> Bit(1)]
watchdog_option_flags ==
  Flags(64, watchdog_option_flags_fields, 0 .. 1, 2 .. 63)

\* The types by name.
TypeTable ==
  [addrspace_info_area_entry_data_info |-> addrspace_info_area_entry_data_info,
   addrspace_info_area_entry_flags |-> addrspace_info_area_entry_flags,
   addrspace_info_area_entry_type |-> addrspace_info_area_entry_type,
   addrspace_map_flags |-> addrspace_map_flags,
   addrspace_modify_pages_flags |-> addrspace_modify_pages_flags,
   allocator_memattr |-> allocator_memattr,
   allocator_stats_info |-> allocator_stats_info,
   cap_rights_addrspace |-> cap_rights_addrspace,
   cap_rights_cspace |-> cap_rights_cspace,
   cap_rights_doorbell |-> cap_rights_doorbell,
   cap_rights_generic |-> cap_rights_generic,
   cap_rights_gicv3_its |-> cap_rights_gicv3_its,
   cap_rights_hwirq |-> cap_rights_hwirq,
   cap_rights_memextent |-> cap_rights_memextent,
   cap_rights_msgqueue |-> cap_rights_msgqueue,
   cap_rights_partition |-> cap_rights_partition,
   cap_rights_power |-> cap_rights_power,
   cap_rights_smmuv3 |-> cap_rights_smmuv3,
   cap_rights_thread |-> cap_rights_thread,
   cap_rights_vgic_its |-> cap_rights_vgic_its,
   cap_rights_vic |-> cap_rights_vic,
   cap_rights_virtio_backend |-> cap_rights_virtio_backend,
   cap_rights_virtio_iommu |-> cap_rights_virtio_iommu,
   cap_rights_vpci |-> cap_rights_vpci,
   cap_rights_vpm_group |-> cap_rights_vpm_group,
   cap_rights_vrtc |-> cap_rights_vrtc,
   cap_rights_vsmmuv2 |-> cap_rights_vsmmuv2,
   cap_rights_watchdog |-> cap_rights_watchdog,
   hyp_api_flags0 |-> hyp_api_flags0, hyp_api_flags1 |-> hyp_api_flags1,
   hyp_api_flags2 |-> hyp_api_flags2, hyp_api_info |-> hyp_api_info,
   memextent_access_attrs |-> memextent_access_attrs,
   memextent_attrs |-> memextent_attrs,
   memextent_donate_options |-> memextent_donate_options,
   memextent_mapping_attrs |-> memextent_mapping_attrs,
   memextent_modify_flags |-> memextent_modify_flags,
   msgqueue_create_info |-> msgqueue_create_info,
   msgqueue_send_flags |-> msgqueue_send_flags,
   partition_donate_flags |-> partition_donate_flags,
   partition_query_flags |-> partition_query_flags,
   root_env_mmio_range_properties |-> root_env_mmio_range_properties,
   scheduler_yield_control |-> scheduler_yield_control,
   sdei_error_flags |-> sdei_error_flags,
   smccc_function_id |-> smccc_function_id,
   smccc_vendor_hyp_function_id |-> smccc_vendor_hyp_function_id,
   vcpu_option_flags |-> vcpu_option_flags,
   vcpu_poweroff_flags |-> vcpu_poweroff_flags,
   vcpu_poweron_flags |-> vcpu_poweron_flags,
   vcpu_run_poweroff_flags |-> vcpu_run_poweroff_flags,
   vgic_gicr_attach_flags |-> vgic_gicr_attach_flags,
   vic_msi_source_config |-> vic_msi_source_config,
   vic_option_flags |-> vic_option_flags,
   virtio_backend_interface_type |-> virtio_backend_interface_type,
   virtio_backend_interrupt_perqueue |-> virtio_backend_interrupt_perqueue,
   virtio_backend_memextent_layout |-> virtio_backend_memextent_layout,
   virtio_backend_notify_flags |-> virtio_backend_notify_flags,
   virtio_backend_notify_reason |-> virtio_backend_notify_reason,
   virtio_backend_option_flags |-> virtio_backend_option_flags,
   virtio_interrupt |-> virtio_interrupt,
   virtio_iommu_options |-> virtio_iommu_options,
   virtio_status |-> virtio_status, vpci_aperture |-> vpci_aperture,
   vpci_option_flags |-> vpci_option_flags,
   vpm_group_option_flags |-> vpm_group_option_flags,
   watchdog_bind_option_flags |-> watchdog_bind_option_flags,
   watchdog_option_flags |-> watchdog_option_flags]
=============================================================================
