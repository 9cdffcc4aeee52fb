--------------------------- MODULE BgapiReversal ----------------------------
(***************************************************************************)
(* The byte reversal of received messages: for every case of               *)
(* reverse_rev_payload (silabs_msg.c), the fields it reverses, each with   *)
(* the number of bytes handed to reverse_endian.                           *)
(***************************************************************************)
EXTENDS BgapiLayouts

(* Cases that reverse the result and nothing else. *)
ResultOnly(names) == [n \in names |-> [result |-> 2]]
-----------------------------------------------------------------------------
rev_rsp_dfu ==
  ResultOnly({"dfu_flash_set_address", "dfu_flash_upload",
    "dfu_flash_upload_finish"})

rev_rsp_system ==
  ResultOnly({"system_hello", "system_start_bluetooth",
    "system_stop_bluetooth", "system_get_version", "system_halt",
    "system_linklayer_configure", "system_set_tx_power",
    "system_get_tx_power_setting", "system_set_identity_address",
    "system_get_identity_address", "system_get_random_data",
    "system_data_buffer_write", "system_data_buffer_clear",
    "system_get_counters", "system_set_lazy_soft_timer"})

rev_rsp_gap ==
  ResultOnly({"gap_set_privacy_mode", "gap_set_data_channel_classification",
    "gap_enable_whitelisting"})

rev_rsp_advertiser ==
  ResultOnly({"advertiser_create_set", "advertiser_configure",
    "advertiser_set_timing", "advertiser_set_channel_map",
    "advertiser_set_tx_power", "advertiser_set_report_scan_request",
    "advertiser_set_random_address", "advertiser_clear_random_address",
    "advertiser_stop", "advertiser_delete_set", "advertiser_set_phy",
    "advertiser_set_configuration", "advertiser_clear_configuration",
    "advertiser_set_data", "advertiser_set_long_data", "advertiser_start",
    "advertiser_start_periodic_advertising",
    "advertiser_stop_periodic_advertising"})

rev_rsp_legacy_advertiser ==
  ResultOnly({"legacy_advertiser_set_data", "legacy_advertiser_generate_data",
    "legacy_advertiser_start", "legacy_advertiser_start_directed"})

rev_rsp_extended_advertiser ==
  ResultOnly({"extended_advertiser_set_phy", "extended_advertiser_set_data",
    "extended_advertiser_set_long_data", "extended_advertiser_generate_data",
    "extended_advertiser_start", "extended_advertiser_start_directed"})

rev_rsp_periodic_advertiser ==
  ResultOnly({"periodic_advertiser_set_data",
    "periodic_advertiser_set_long_data", "periodic_advertiser_start",
    "periodic_advertiser_stop"})

rev_rsp_scanner ==
  ResultOnly({"scanner_set_parameters", "scanner_stop", "scanner_set_timing",
    "scanner_set_mode", "scanner_start"})

rev_rsp_sync ==
  ResultOnly({"sync_set_parameters", "sync_set_reporting_mode", "sync_close"})
  @@ [sync_open |-> [result |-> 2, sync |-> 2]]

rev_rsp_past_receiver ==
  ResultOnly({"past_receiver_set_default_sync_receive_parameters",
    "past_receiver_set_sync_receive_parameters"})

rev_rsp_advertiser_past ==
  ResultOnly({"advertiser_past_transfer"})

(* A mutant: the result is not reversed. *)
rev_rsp_sync_past_unswapped ==
  [sync_past_transfer |-> Nothing]
rev_rsp_sync_past ==
  ResultOnly({"sync_past_transfer"})

rev_rsp_connection ==
  ResultOnly({"connection_set_default_parameters",
    "connection_set_default_preferred_phy", "connection_open",
    "connection_set_parameters", "connection_set_preferred_phy",
    "connection_disable_slave_latency", "connection_get_rssi",
    "connection_read_channel_map", "connection_set_power_reporting",
    "connection_set_remote_power_reporting", "connection_get_tx_power",
    "connection_get_remote_tx_power", "connection_close",
    "connection_read_remote_used_features", "connection_get_security_status"})

rev_rsp_gatt ==
  ResultOnly({"gatt_set_max_mtu", "gatt_discover_primary_services",
    "gatt_discover_primary_services_by_uuid", "gatt_find_included_services",
    "gatt_discover_characteristics", "gatt_discover_characteristics_by_uuid",
    "gatt_discover_descriptors", "gatt_set_characteristic_notification",
    "gatt_send_characteristic_confirmation", "gatt_read_characteristic_value",
    "gatt_read_characteristic_value_from_offset",
    "gatt_read_multiple_characteristic_values",
    "gatt_read_characteristic_value_by_uuid",
    "gatt_write_characteristic_value",
    "gatt_prepare_characteristic_value_write",
    "gatt_prepare_characteristic_value_reliable_write",
    "gatt_execute_characteristic_value_write", "gatt_read_descriptor_value",
    "gatt_write_descriptor_value"})
  @@ [gatt_write_characteristic_value_without_response |-> [sent_len |-> 2,
        result |-> 2]]

rev_rsp_gattdb ==
  ResultOnly({"gattdb_remove_service", "gattdb_add_included_service",
    "gattdb_remove_included_service", "gattdb_remove_characteristic",
    "gattdb_remove_descriptor", "gattdb_start_service", "gattdb_stop_service",
    "gattdb_start_characteristic", "gattdb_stop_characteristic",
    "gattdb_commit", "gattdb_abort"})
  @@ [gattdb_new_session |-> [session |-> 2, result |-> 2],
      gattdb_add_service |-> [service |-> 2, result |-> 2],
      gattdb_add_uuid16_characteristic |-> [characteristic |-> 2,
        result |-> 2],
      gattdb_add_uuid128_characteristic |-> [characteristic |-> 2,
        result |-> 2],
      gattdb_add_uuid16_descriptor |-> [descriptor |-> 2, result |-> 2],
      gattdb_add_uuid128_descriptor |-> [descriptor |-> 2, result |-> 2]]

rev_rsp_gatt_server ==
  ResultOnly({"gatt_server_set_max_mtu", "gatt_server_get_mtu",
    "gatt_server_read_attribute_value", "gatt_server_read_attribute_type",
    "gatt_server_write_attribute_value", "gatt_server_send_user_read_response",
    "gatt_server_send_user_write_response", "gatt_server_send_notification",
    "gatt_server_send_indication", "gatt_server_notify_all",
    "gatt_server_read_client_configuration",
    "gatt_server_send_user_prepare_write_response",
    "gatt_server_set_capabilities", "gatt_server_enable_capabilities",
    "gatt_server_disable_capabilities", "gatt_server_get_enabled_capabilities",
    "gatt_server_read_client_supported_features"})
  @@ [gatt_server_find_attribute |-> [attribute |-> 2, result |-> 2]]

rev_rsp_nvm ==
  ResultOnly({"nvm_save", "nvm_load", "nvm_erase", "nvm_erase_all"})

rev_rsp_test ==
  ResultOnly({"test_dtm_tx_v4", "test_dtm_tx_cw", "test_dtm_rx",
    "test_dtm_end"})

rev_rsp_sm ==
  ResultOnly({"sm_configure", "sm_set_minimum_key_size", "sm_set_debug_mode",
    "sm_add_to_whitelist", "sm_store_bonding_configuration",
    "sm_set_bondable_mode", "sm_set_passkey", "sm_increase_security",
    "sm_enter_passkey", "sm_passkey_confirm", "sm_bonding_confirm",
    "sm_delete_bonding", "sm_delete_bondings", "sm_get_bonding_handles",
    "sm_get_bonding_details", "sm_find_bonding_by_address",
    "sm_set_bonding_key", "sm_set_legacy_oob", "sm_set_oob",
    "sm_set_remote_oob", "sm_set_bonding_data"})

rev_rsp_ota ==
  ResultOnly({"ota_set_device_name", "ota_set_advertising_data",
    "ota_set_configuration", "ota_set_rf_path"})

rev_rsp_coex ==
  ResultOnly({"coex_set_options", "coex_set_parameters",
    "coex_set_directional_priority_pulse", "coex_get_parameters",
    "coex_get_counters"})

rev_rsp_l2cap ==
  ResultOnly({"l2cap_open_le_channel", "l2cap_send_le_channel_open_response",
    "l2cap_channel_send_data", "l2cap_channel_send_credit",
    "l2cap_close_channel"})

rev_rsp_cte_transmitter ==
  ResultOnly({"cte_transmitter_set_dtm_parameters",
    "cte_transmitter_clear_dtm_parameters",
    "cte_transmitter_enable_connection_cte",
    "cte_transmitter_disable_connection_cte",
    "cte_transmitter_enable_connectionless_cte",
    "cte_transmitter_disable_connectionless_cte",
    "cte_transmitter_enable_silabs_cte", "cte_transmitter_disable_silabs_cte"})

rev_rsp_cte_receiver ==
  ResultOnly({"cte_receiver_set_dtm_parameters",
    "cte_receiver_clear_dtm_parameters", "cte_receiver_set_sync_cte_type",
    "cte_receiver_set_default_sync_receive_parameters",
    "cte_receiver_set_sync_receive_parameters", "cte_receiver_configure",
    "cte_receiver_enable_connection_cte",
    "cte_receiver_disable_connection_cte",
    "cte_receiver_enable_connectionless_cte",
    "cte_receiver_disable_connectionless_cte",
    "cte_receiver_enable_silabs_cte", "cte_receiver_disable_silabs_cte"})

rev_rsp_user ==
  ResultOnly({"user_message_to_target", "user_manage_event_filter"})

rev_evt_dfu ==
  [dfu_boot |-> [version |-> 4],
   dfu_boot_failure |-> [reason |-> 2]]

rev_evt_system ==
  [system_boot |-> [major |-> 2, minor |-> 2, patch |-> 2, build |-> 2,
        bootloader |-> 4, hw |-> 2, hash |-> 4],
   system_error |-> [reason |-> 2],
   system_hardware_error |-> [status |-> 2],
   system_external_signal |-> [extsignals |-> 4],
   system_soft_timer |-> Nothing]

rev_evt_advertiser ==
  [advertiser_timeout |-> Nothing,
   advertiser_scan_request |-> Nothing]

rev_evt_periodic_advertiser ==
  [periodic_advertiser_status |-> [status |-> 4]]

rev_evt_scanner ==
  [scanner_legacy_advertisement_report |-> Nothing,
   scanner_extended_advertisement_report |-> [periodic_interval |-> 2],
   scanner_scan_report |-> [periodic_interval |-> 2]]

(* A mutant: the sync event is not reversed. *)
rev_evt_sync_unswapped ==
  [sync_opened |-> Nothing,
   sync_transfer_received |-> Nothing,
   sync_data |-> Nothing,
   sync_closed |-> Nothing]
rev_evt_sync ==
  [sync_opened |-> [sync |-> 2, adv_interval |-> 2, clock_accuracy |-> 2],
   sync_transfer_received |-> [status |-> 2, sync |-> 2, service_data |-> 2,
        adv_interval |-> 2, clock_accuracy |-> 2],
   sync_data |-> [sync |-> 2],
   sync_closed |-> [reason |-> 2, sync |-> 2]]

rev_evt_connection ==
  [connection_opened |-> Nothing,
   connection_parameters |-> [interval |-> 2, latency |-> 2, timeout |-> 2,
        txsize |-> 2],
   connection_phy_status |-> Nothing,
   connection_rssi |-> Nothing,
   connection_get_remote_tx_power_completed |-> [status |-> 2],
   connection_tx_power |-> Nothing,
   connection_remote_tx_power |-> Nothing,
   connection_closed |-> [reason |-> 2],
   connection_remote_used_features |-> Nothing]

rev_evt_gatt ==
  ResultOnly({"gatt_procedure_completed"})
  @@ [gatt_mtu_exchanged |-> [mtu |-> 2],
      gatt_service |-> [service |-> 4],
      gatt_characteristic |-> [characteristic |-> 2],
      gatt_descriptor |-> [descriptor |-> 2],
      gatt_characteristic_value |-> [characteristic |-> 2, offset |-> 2],
      gatt_descriptor_value |-> [descriptor |-> 2, offset |-> 2]]

rev_evt_gatt_server ==
  ResultOnly({"gatt_server_execute_write_completed"})
  @@ [gatt_server_attribute_value |-> [attribute |-> 2, offset |-> 2],
      gatt_server_user_read_request |-> [characteristic |-> 2, offset |-> 2],
      gatt_server_user_write_request |-> [characteristic |-> 2, offset |-> 2],
      gatt_server_characteristic_status |-> [characteristic |-> 2,
        client_config_flags |-> 2, client_config |-> 2],
      gatt_server_indication_timeout |-> Nothing]

rev_evt_test ==
  [test_dtm_completed |-> [result |-> 2, number_of_packets |-> 2]]

rev_evt_sm ==
  [sm_passkey_display |-> [passkey |-> 4],
   sm_passkey_request |-> Nothing,
   sm_confirm_passkey |-> [passkey |-> 4],
   sm_bonded |-> Nothing,
   sm_bonding_failed |-> [reason |-> 2],
   sm_confirm_bonding |-> Nothing]

rev_evt_l2cap ==
  [l2cap_le_channel_open_request |-> [spsm |-> 2, cid |-> 2, max_sdu |-> 2,
        max_pdu |-> 2, credit |-> 2],
   l2cap_le_channel_open_response |-> [cid |-> 2, max_sdu |-> 2, max_pdu |-> 2,
        credit |-> 2, errorcode |-> 2],
   l2cap_channel_data |-> [cid |-> 2],
   l2cap_channel_credit |-> [cid |-> 2, credit |-> 2],
   l2cap_channel_closed |-> [cid |-> 2, reason |-> 2],
   l2cap_command_rejected |-> [reason |-> 2]]

rev_evt_cte_receiver ==
  [cte_receiver_dtm_iq_report |-> [status |-> 2, event_counter |-> 2],
   cte_receiver_connection_iq_report |-> [status |-> 2, event_counter |-> 2],
   cte_receiver_connectionless_iq_report |-> [status |-> 2, sync |-> 2,
        event_counter |-> 2],
   cte_receiver_silabs_iq_report |-> [status |-> 2, packet_counter |-> 2]]

rev_evt_user ==
  [user_message_to_host |-> Nothing]

reverse_rsp_payload ==
  rev_rsp_dfu @@ rev_rsp_system @@ rev_rsp_gap @@ rev_rsp_advertiser
  @@ rev_rsp_legacy_advertiser @@ rev_rsp_extended_advertiser
  @@ rev_rsp_periodic_advertiser @@ rev_rsp_scanner @@ rev_rsp_sync
  @@ rev_rsp_past_receiver @@ rev_rsp_advertiser_past @@ rev_rsp_sync_past
  @@ rev_rsp_connection @@ rev_rsp_gatt @@ rev_rsp_gattdb
  @@ rev_rsp_gatt_server @@ rev_rsp_nvm @@ rev_rsp_test @@ rev_rsp_sm
  @@ rev_rsp_ota @@ rev_rsp_coex @@ rev_rsp_l2cap @@ rev_rsp_cte_transmitter
  @@ rev_rsp_cte_receiver @@ rev_rsp_user

reverse_evt_payload ==
  rev_evt_dfu @@ rev_evt_system @@ rev_evt_advertiser
  @@ rev_evt_periodic_advertiser @@ rev_evt_scanner @@ rev_evt_sync
  @@ rev_evt_connection @@ rev_evt_gatt @@ rev_evt_gatt_server @@ rev_evt_test
  @@ rev_evt_sm @@ rev_evt_l2cap @@ rev_evt_cte_receiver @@ rev_evt_user
=============================================================================
