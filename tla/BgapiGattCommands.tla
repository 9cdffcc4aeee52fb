------------------------- MODULE BgapiGattCommands --------------------------
(***************************************************************************)
(* The command functions of the host (sl_bt_ncp_host_api.c) from the       *)
(* attribute protocol on, in the form that BgapiCommands describes, and    *)
(* the set of all of them.                                                 *)
(***************************************************************************)
EXTENDS BgapiCommands

sl_bt_gatt_set_max_mtu ==
  Command("gatt_set_max_mtu", 9, 0, 2, [max_mtu |-> 2], None,
      [max_mtu_out |-> 2])
sl_bt_gatt_discover_primary_services ==
  Command("gatt_discover_primary_services", 9, 1, 1, Nothing, None, Nothing)
sl_bt_gatt_discover_primary_services_by_uuid ==
  Command("gatt_discover_primary_services_by_uuid", 9, 2, 2, Nothing,
      "uuid", Nothing)
sl_bt_gatt_find_included_services ==
  Command("gatt_find_included_services", 9, 16, 5, [service |-> 4], None,
      Nothing)
(* A mutant: the service handle is not reversed. *)
sl_bt_gatt_discover_characteristics_unswapped ==
  Command("gatt_discover_characteristics", 9, 3, 5, Nothing, None, Nothing)
sl_bt_gatt_discover_characteristics ==
  Command("gatt_discover_characteristics", 9, 3, 5, [service |-> 4], None,
      Nothing)
sl_bt_gatt_discover_characteristics_by_uuid ==
  Command("gatt_discover_characteristics_by_uuid", 9, 4, 6,
      [service |-> 4], "uuid", Nothing)
sl_bt_gatt_discover_descriptors ==
  Command("gatt_discover_descriptors", 9, 6, 3, [characteristic |-> 2],
      None, Nothing)
sl_bt_gatt_set_characteristic_notification ==
  Command("gatt_set_characteristic_notification", 9, 5, 4,
      [characteristic |-> 2], None, Nothing)
sl_bt_gatt_send_characteristic_confirmation ==
  Command("gatt_send_characteristic_confirmation", 9, 13, 1, Nothing,
      None, Nothing)
sl_bt_gatt_read_characteristic_value ==
  Command("gatt_read_characteristic_value", 9, 7, 3,
      [characteristic |-> 2], None, Nothing)
sl_bt_gatt_read_characteristic_value_from_offset ==
  Command("gatt_read_characteristic_value_from_offset", 9, 18, 7,
      [characteristic |-> 2, offset |-> 2, maxlen |-> 2], None, Nothing)
sl_bt_gatt_read_multiple_characteristic_values ==
  Command("gatt_read_multiple_characteristic_values", 9, 17, 2, Nothing,
      "characteristic_list", Nothing)
sl_bt_gatt_read_characteristic_value_by_uuid ==
  Command("gatt_read_characteristic_value_by_uuid", 9, 8, 6,
      [service |-> 4], "uuid", Nothing)
sl_bt_gatt_write_characteristic_value ==
  Command("gatt_write_characteristic_value", 9, 9, 4,
      [characteristic |-> 2], "value", Nothing)
sl_bt_gatt_write_characteristic_value_without_response ==
  Command("gatt_write_characteristic_value_without_response", 9, 10, 4,
      [characteristic |-> 2], "value", [sent_len |-> 2])
sl_bt_gatt_prepare_characteristic_value_write ==
  Command("gatt_prepare_characteristic_value_write", 9, 11, 6,
      [characteristic |-> 2, offset |-> 2], "value", [sent_len |-> 2])
sl_bt_gatt_prepare_characteristic_value_reliable_write ==
  Command("gatt_prepare_characteristic_value_reliable_write", 9, 19, 6,
      [characteristic |-> 2, offset |-> 2], "value", [sent_len |-> 2])
sl_bt_gatt_execute_characteristic_value_write ==
  Command("gatt_execute_characteristic_value_write", 9, 12, 2, Nothing,
      None, Nothing)
sl_bt_gatt_read_descriptor_value ==
  Command("gatt_read_descriptor_value", 9, 14, 3, [descriptor |-> 2],
      None, Nothing)
sl_bt_gatt_write_descriptor_value ==
  Command("gatt_write_descriptor_value", 9, 15, 4, [descriptor |-> 2],
      "value", Nothing)
sl_bt_gattdb_new_session ==
  Command("gattdb_new_session", 70, 0, 0, Nothing, None, [session |-> 2])
sl_bt_gattdb_add_service ==
  Command("gattdb_add_service", 70, 1, 5, [session |-> 2], "uuid",
      [service |-> 2])
sl_bt_gattdb_remove_service ==
  Command("gattdb_remove_service", 70, 2, 4, [session |-> 2,
      service |-> 2], None, Nothing)
sl_bt_gattdb_add_included_service ==
  Command("gattdb_add_included_service", 70, 3, 6, [session |-> 2,
      service |-> 2, included_service |-> 2], None, [attribute |-> 2])
sl_bt_gattdb_remove_included_service ==
  Command("gattdb_remove_included_service", 70, 4, 4, [session |-> 2,
      attribute |-> 2], None, Nothing)
sl_bt_gattdb_add_uuid16_characteristic ==
  Command("gattdb_add_uuid16_characteristic", 70, 5, 16, [session |-> 2,
      service |-> 2, property |-> 2, security |-> 2, maxlen |-> 2,
      value |-> 2], "value", [characteristic |-> 2])
sl_bt_gattdb_add_uuid128_characteristic ==
  Command("gattdb_add_uuid128_characteristic", 70, 6, 30, [session |-> 2,
      service |-> 2, property |-> 2, security |-> 2, maxlen |-> 2,
      value |-> 2], "value", [characteristic |-> 2])
sl_bt_gattdb_remove_characteristic ==
  Command("gattdb_remove_characteristic", 70, 7, 4, [session |-> 2,
      characteristic |-> 2], None, Nothing)
sl_bt_gattdb_add_uuid16_descriptor ==
  Command("gattdb_add_uuid16_descriptor", 70, 8, 15, [session |-> 2,
      characteristic |-> 2, property |-> 2, security |-> 2, maxlen |-> 2,
      value |-> 2], "value", [descriptor |-> 2])
sl_bt_gattdb_add_uuid128_descriptor ==
  Command("gattdb_add_uuid128_descriptor", 70, 9, 29, [session |-> 2,
      characteristic |-> 2, property |-> 2, security |-> 2, maxlen |-> 2,
      value |-> 2], "value", [descriptor |-> 2])
sl_bt_gattdb_remove_descriptor ==
  Command("gattdb_remove_descriptor", 70, 10, 4, [session |-> 2,
      descriptor |-> 2], None, Nothing)
sl_bt_gattdb_start_service ==
  Command("gattdb_start_service", 70, 11, 4, [session |-> 2,
      service |-> 2], None, Nothing)
sl_bt_gattdb_stop_service ==
  Command("gattdb_stop_service", 70, 12, 4, [session |-> 2,
      service |-> 2], None, Nothing)
sl_bt_gattdb_start_characteristic ==
  Command("gattdb_start_characteristic", 70, 13, 4, [session |-> 2,
      characteristic |-> 2], None, Nothing)
sl_bt_gattdb_stop_characteristic ==
  Command("gattdb_stop_characteristic", 70, 14, 4, [session |-> 2,
      characteristic |-> 2], None, Nothing)
sl_bt_gattdb_commit ==
  Command("gattdb_commit", 70, 15, 2, [session |-> 2], None, Nothing)
sl_bt_gattdb_abort ==
  Command("gattdb_abort", 70, 16, 2, [session |-> 2], None, Nothing)
sl_bt_gatt_server_set_max_mtu ==
  Command("gatt_server_set_max_mtu", 10, 10, 2, [max_mtu |-> 2], None,
      [max_mtu_out |-> 2])
sl_bt_gatt_server_get_mtu ==
  Command("gatt_server_get_mtu", 10, 11, 1, Nothing, None, [mtu |-> 2])
sl_bt_gatt_server_find_attribute ==
  Command("gatt_server_find_attribute", 10, 6, 3, [start |-> 2], "type",
      [attribute |-> 2])
sl_bt_gatt_server_read_attribute_value ==
  Command("gatt_server_read_attribute_value", 10, 0, 4, [attribute |-> 2,
      offset |-> 2], None, Nothing)
sl_bt_gatt_server_read_attribute_type ==
  Command("gatt_server_read_attribute_type", 10, 1, 2, [attribute |-> 2],
      None, Nothing)
sl_bt_gatt_server_write_attribute_value ==
  Command("gatt_server_write_attribute_value", 10, 2, 5, [attribute |-> 2,
      offset |-> 2], "value", Nothing)
sl_bt_gatt_server_send_user_read_response ==
  Command("gatt_server_send_user_read_response", 10, 3, 5,
      [characteristic |-> 2], "value", [sent_len |-> 2])
sl_bt_gatt_server_send_user_write_response ==
  Command("gatt_server_send_user_write_response", 10, 4, 4,
      [characteristic |-> 2], None, Nothing)
sl_bt_gatt_server_send_notification ==
  Command("gatt_server_send_notification", 10, 15, 4,
      [characteristic |-> 2], "value", Nothing)
sl_bt_gatt_server_send_indication ==
  Command("gatt_server_send_indication", 10, 16, 4,
      [characteristic |-> 2], "value", Nothing)
sl_bt_gatt_server_notify_all ==
  Command("gatt_server_notify_all", 10, 17, 3, [characteristic |-> 2],
      "value", Nothing)
sl_bt_gatt_server_read_client_configuration ==
  Command("gatt_server_read_client_configuration", 10, 18, 3,
      [characteristic |-> 2], None, [client_config_flags |-> 2])
sl_bt_gatt_server_send_user_prepare_write_response ==
  Command("gatt_server_send_user_prepare_write_response", 10, 20, 7,
      [characteristic |-> 2, offset |-> 2], "value", Nothing)
sl_bt_gatt_server_set_capabilities ==
  Command("gatt_server_set_capabilities", 10, 8, 8, [caps |-> 4,
      reserved |-> 4], None, Nothing)
sl_bt_gatt_server_enable_capabilities ==
  Command("gatt_server_enable_capabilities", 10, 12, 4, [caps |-> 4],
      None, Nothing)
sl_bt_gatt_server_disable_capabilities ==
  Command("gatt_server_disable_capabilities", 10, 13, 4, [caps |-> 4],
      None, Nothing)
sl_bt_gatt_server_get_enabled_capabilities ==
  Command("gatt_server_get_enabled_capabilities", 10, 14, 0, Nothing,
      None, [caps |-> 4])
sl_bt_gatt_server_read_client_supported_features ==
  Command("gatt_server_read_client_supported_features", 10, 21, 1,
      Nothing, None, Nothing)
sl_bt_nvm_save ==
  Command("nvm_save", 13, 2, 3, [key |-> 2], "value", Nothing)
sl_bt_nvm_load == Command("nvm_load", 13, 3, 2, [key |-> 2], None, Nothing)
sl_bt_nvm_erase == Command("nvm_erase", 13, 4, 2, [key |-> 2], None, Nothing)
sl_bt_nvm_erase_all ==
  Command("nvm_erase_all", 13, 1, 0, Nothing, None, Nothing)
sl_bt_test_dtm_tx_v4 ==
  Command("test_dtm_tx_v4", 14, 3, 5, Nothing, None, Nothing)
sl_bt_test_dtm_tx_cw ==
  Command("test_dtm_tx_cw", 14, 4, 5, [power_level |-> 2], None, Nothing)
sl_bt_test_dtm_rx == Command("test_dtm_rx", 14, 1, 2, Nothing, None, Nothing)
sl_bt_test_dtm_end ==
  Command("test_dtm_end", 14, 2, 0, Nothing, None, Nothing)
sl_bt_sm_configure ==
  Command("sm_configure", 15, 1, 2, Nothing, None, Nothing)
sl_bt_sm_set_minimum_key_size ==
  Command("sm_set_minimum_key_size", 15, 20, 1, Nothing, None, Nothing)
sl_bt_sm_set_debug_mode ==
  Command("sm_set_debug_mode", 15, 15, 0, Nothing, None, Nothing)
sl_bt_sm_add_to_whitelist ==
  Command("sm_add_to_whitelist", 15, 19, 7, Nothing, None, Nothing)
sl_bt_sm_store_bonding_configuration ==
  Command("sm_store_bonding_configuration", 15, 2, 2, Nothing, None, Nothing)
sl_bt_sm_set_bondable_mode ==
  Command("sm_set_bondable_mode", 15, 0, 1, Nothing, None, Nothing)
sl_bt_sm_set_passkey ==
  Command("sm_set_passkey", 15, 16, 4, [passkey |-> 4], None, Nothing)
sl_bt_sm_increase_security ==
  Command("sm_increase_security", 15, 4, 1, Nothing, None, Nothing)
sl_bt_sm_enter_passkey ==
  Command("sm_enter_passkey", 15, 8, 5, [passkey |-> 4], None, Nothing)
sl_bt_sm_passkey_confirm ==
  Command("sm_passkey_confirm", 15, 9, 2, Nothing, None, Nothing)
sl_bt_sm_bonding_confirm ==
  Command("sm_bonding_confirm", 15, 14, 2, Nothing, None, Nothing)
sl_bt_sm_delete_bonding ==
  Command("sm_delete_bonding", 15, 6, 1, Nothing, None, Nothing)
sl_bt_sm_delete_bondings ==
  Command("sm_delete_bondings", 15, 7, 0, Nothing, None, Nothing)
sl_bt_sm_get_bonding_handles ==
  Command("sm_get_bonding_handles", 15, 21, 4, [reserved |-> 4], None,
      [num_bondings |-> 4])
sl_bt_sm_get_bonding_details ==
  Command("sm_get_bonding_details", 15, 22, 4, [bonding |-> 4], None, Nothing)
sl_bt_sm_find_bonding_by_address ==
  Command("sm_find_bonding_by_address", 15, 23, 6, Nothing, None,
      [bonding |-> 4])
sl_bt_sm_set_bonding_key ==
  Command("sm_set_bonding_key", 15, 24, 21, [bonding |-> 4], None, Nothing)
sl_bt_sm_set_legacy_oob ==
  Command("sm_set_legacy_oob", 15, 25, 17, Nothing, None, Nothing)
sl_bt_sm_set_oob == Command("sm_set_oob", 15, 26, 1, Nothing, None, Nothing)
sl_bt_sm_set_remote_oob ==
  Command("sm_set_remote_oob", 15, 27, 33, Nothing, None, Nothing)
sl_bt_sm_set_bonding_data ==
  Command("sm_set_bonding_data", 15, 28, 3, Nothing, "data", Nothing)
sl_bt_ota_set_device_name ==
  Command("ota_set_device_name", 16, 1, 1, Nothing, "name", Nothing)
sl_bt_ota_set_advertising_data ==
  Command("ota_set_advertising_data", 16, 2, 2, Nothing, "adv_data", Nothing)
sl_bt_ota_set_configuration ==
  Command("ota_set_configuration", 16, 3, 4, [flags |-> 4], None, Nothing)
sl_bt_ota_set_rf_path ==
  Command("ota_set_rf_path", 16, 4, 2, Nothing, None, Nothing)
sl_bt_coex_set_options ==
  Command("coex_set_options", 32, 0, 8, [mask |-> 4, options |-> 4], None,
      Nothing)
sl_bt_coex_set_parameters ==
  Command("coex_set_parameters", 32, 2, 4, Nothing, None, Nothing)
sl_bt_coex_set_directional_priority_pulse ==
  Command("coex_set_directional_priority_pulse", 32, 3, 1, Nothing, None,
      Nothing)
sl_bt_coex_get_parameters ==
  Command("coex_get_parameters", 32, 4, 0, Nothing, None, Nothing)
sl_bt_coex_get_counters ==
  Command("coex_get_counters", 32, 1, 1, Nothing, None, Nothing)
sl_bt_l2cap_open_le_channel ==
  Command("l2cap_open_le_channel", 67, 1, 9, [spsm |-> 2, max_sdu |-> 2,
      max_pdu |-> 2, credit |-> 2], None, [cid |-> 2])
sl_bt_l2cap_send_le_channel_open_response ==
  Command("l2cap_send_le_channel_open_response", 67, 2, 11, [cid |-> 2,
      max_sdu |-> 2, max_pdu |-> 2, credit |-> 2, errorcode |-> 2], None,
      Nothing)
sl_bt_l2cap_channel_send_data ==
  Command("l2cap_channel_send_data", 67, 3, 4, [cid |-> 2], "data", Nothing)
sl_bt_l2cap_channel_send_credit ==
  Command("l2cap_channel_send_credit", 67, 4, 5, [cid |-> 2,
      credit |-> 2], None, Nothing)
sl_bt_l2cap_close_channel ==
  Command("l2cap_close_channel", 67, 5, 3, [cid |-> 2], None, Nothing)
sl_bt_cte_transmitter_set_dtm_parameters ==
  Command("cte_transmitter_set_dtm_parameters", 68, 4, 3, Nothing,
      "switching_pattern", Nothing)
sl_bt_cte_transmitter_clear_dtm_parameters ==
  Command("cte_transmitter_clear_dtm_parameters", 68, 5, 0, Nothing, None,
      Nothing)
sl_bt_cte_transmitter_enable_connection_cte ==
  Command("cte_transmitter_enable_connection_cte", 68, 0, 3, Nothing,
      "switching_pattern", Nothing)
sl_bt_cte_transmitter_disable_connection_cte ==
  Command("cte_transmitter_disable_connection_cte", 68, 1, 1, Nothing,
      None, Nothing)
sl_bt_cte_transmitter_enable_connectionless_cte ==
  Command("cte_transmitter_enable_connectionless_cte", 68, 2, 5, Nothing,
      "switching_pattern", Nothing)
sl_bt_cte_transmitter_disable_connectionless_cte ==
  Command("cte_transmitter_disable_connectionless_cte", 68, 3, 1, Nothing,
      None, Nothing)
sl_bt_cte_transmitter_enable_silabs_cte ==
  Command("cte_transmitter_enable_silabs_cte", 68, 6, 5, Nothing,
      "switching_pattern", Nothing)
sl_bt_cte_transmitter_disable_silabs_cte ==
  Command("cte_transmitter_disable_silabs_cte", 68, 7, 1, Nothing, None,
      Nothing)
sl_bt_cte_receiver_set_dtm_parameters ==
  Command("cte_receiver_set_dtm_parameters", 69, 5, 4, Nothing,
      "switching_pattern", Nothing)
sl_bt_cte_receiver_clear_dtm_parameters ==
  Command("cte_receiver_clear_dtm_parameters", 69, 6, 0, Nothing, None,
      Nothing)
sl_bt_cte_receiver_set_sync_cte_type ==
  Command("cte_receiver_set_sync_cte_type", 69, 9, 1, Nothing, None, Nothing)
sl_bt_cte_receiver_set_default_sync_receive_parameters ==
  Command("cte_receiver_set_default_sync_receive_parameters", 69, 10, 7,
      [skip |-> 2, timeout |-> 2], None, Nothing)
sl_bt_cte_receiver_set_sync_receive_parameters ==
  Command("cte_receiver_set_sync_receive_parameters", 69, 11, 8,
      [skip |-> 2, timeout |-> 2], None, Nothing)
sl_bt_cte_receiver_configure ==
  Command("cte_receiver_configure", 69, 0, 1, Nothing, None, Nothing)
sl_bt_cte_receiver_enable_connection_cte ==
  Command("cte_receiver_enable_connection_cte", 69, 1, 7,
      [interval |-> 2], "switching_pattern", Nothing)
sl_bt_cte_receiver_disable_connection_cte ==
  Command("cte_receiver_disable_connection_cte", 69, 2, 1, Nothing, None,
      Nothing)
sl_bt_cte_receiver_enable_connectionless_cte ==
  Command("cte_receiver_enable_connectionless_cte", 69, 3, 5,
      [sync |-> 2], "switching_pattern", Nothing)
sl_bt_cte_receiver_disable_connectionless_cte ==
  Command("cte_receiver_disable_connectionless_cte", 69, 4, 2,
      [sync |-> 2], None, Nothing)
sl_bt_cte_receiver_enable_silabs_cte ==
  Command("cte_receiver_enable_silabs_cte", 69, 7, 3, Nothing,
      "switching_pattern", Nothing)
sl_bt_cte_receiver_disable_silabs_cte ==
  Command("cte_receiver_disable_silabs_cte", 69, 8, 0, Nothing, None, Nothing)
sl_bt_user_message_to_target ==
  Command("user_message_to_target", 255, 0, 1, Nothing, "data", Nothing)
sl_bt_user_manage_event_filter ==
  Command("user_manage_event_filter", 255, 1, 1, Nothing, "data", Nothing)
sl_bt_user_reset_to_dfu ==
  Unanswered("user_reset_to_dfu", 255, 2, 0, Nothing, None, Nothing)

(* Every command function of the library. *)
HostCommands == {
  sl_bt_dfu_reset, sl_bt_dfu_flash_set_address, sl_bt_dfu_flash_upload,
  sl_bt_dfu_flash_upload_finish, sl_bt_system_hello,
  sl_bt_system_start_bluetooth, sl_bt_system_stop_bluetooth,
  sl_bt_system_get_version, sl_bt_system_reset, sl_bt_system_halt,
  sl_bt_system_linklayer_configure, sl_bt_system_set_tx_power,
  sl_bt_system_get_tx_power_setting, sl_bt_system_set_identity_address,
  sl_bt_system_get_identity_address, sl_bt_system_get_random_data,
  sl_bt_system_data_buffer_write, sl_bt_system_data_buffer_clear,
  sl_bt_system_get_counters, sl_bt_system_set_lazy_soft_timer,
  sl_bt_gap_set_privacy_mode, sl_bt_gap_set_data_channel_classification,
  sl_bt_gap_enable_whitelisting, sl_bt_advertiser_create_set,
  sl_bt_advertiser_configure, sl_bt_advertiser_set_timing,
  sl_bt_advertiser_set_channel_map, sl_bt_advertiser_set_tx_power,
  sl_bt_advertiser_set_report_scan_request,
  sl_bt_advertiser_set_random_address, sl_bt_advertiser_clear_random_address,
  sl_bt_advertiser_stop, sl_bt_advertiser_delete_set,
  sl_bt_advertiser_set_phy, sl_bt_advertiser_set_configuration,
  sl_bt_advertiser_clear_configuration, sl_bt_advertiser_set_data,
  sl_bt_advertiser_set_long_data, sl_bt_advertiser_start,
  sl_bt_advertiser_start_periodic_advertising,
  sl_bt_advertiser_stop_periodic_advertising,
  sl_bt_legacy_advertiser_set_data, sl_bt_legacy_advertiser_generate_data,
  sl_bt_legacy_advertiser_start, sl_bt_legacy_advertiser_start_directed,
  sl_bt_extended_advertiser_set_phy, sl_bt_extended_advertiser_set_data,
  sl_bt_extended_advertiser_set_long_data,
  sl_bt_extended_advertiser_generate_data, sl_bt_extended_advertiser_start,
  sl_bt_extended_advertiser_start_directed,
  sl_bt_periodic_advertiser_set_data, sl_bt_periodic_advertiser_set_long_data,
  sl_bt_periodic_advertiser_start, sl_bt_periodic_advertiser_stop,
  sl_bt_scanner_set_parameters, sl_bt_scanner_stop, sl_bt_scanner_set_timing,
  sl_bt_scanner_set_mode, sl_bt_scanner_start, sl_bt_sync_set_parameters,
  sl_bt_sync_open, sl_bt_sync_set_reporting_mode, sl_bt_sync_close,
  sl_bt_past_receiver_set_default_sync_receive_parameters,
  sl_bt_past_receiver_set_sync_receive_parameters,
  sl_bt_advertiser_past_transfer, sl_bt_sync_past_transfer,
  sl_bt_connection_set_default_parameters,
  sl_bt_connection_set_default_preferred_phy, sl_bt_connection_open,
  sl_bt_connection_set_parameters, sl_bt_connection_set_preferred_phy,
  sl_bt_connection_disable_slave_latency, sl_bt_connection_get_rssi,
  sl_bt_connection_read_channel_map, sl_bt_connection_set_power_reporting,
  sl_bt_connection_set_remote_power_reporting, sl_bt_connection_get_tx_power,
  sl_bt_connection_get_remote_tx_power, sl_bt_connection_close,
  sl_bt_connection_read_remote_used_features,
  sl_bt_connection_get_security_status, sl_bt_gatt_set_max_mtu,
  sl_bt_gatt_discover_primary_services,
  sl_bt_gatt_discover_primary_services_by_uuid,
  sl_bt_gatt_find_included_services, sl_bt_gatt_discover_characteristics,
  sl_bt_gatt_discover_characteristics_by_uuid,
  sl_bt_gatt_discover_descriptors, sl_bt_gatt_set_characteristic_notification,
  sl_bt_gatt_send_characteristic_confirmation,
  sl_bt_gatt_read_characteristic_value,
  sl_bt_gatt_read_characteristic_value_from_offset,
  sl_bt_gatt_read_multiple_characteristic_values,
  sl_bt_gatt_read_characteristic_value_by_uuid,
  sl_bt_gatt_write_characteristic_value,
  sl_bt_gatt_write_characteristic_value_without_response,
  sl_bt_gatt_prepare_characteristic_value_write,
  sl_bt_gatt_prepare_characteristic_value_reliable_write,
  sl_bt_gatt_execute_characteristic_value_write,
  sl_bt_gatt_read_descriptor_value, sl_bt_gatt_write_descriptor_value,
  sl_bt_gattdb_new_session, sl_bt_gattdb_add_service,
  sl_bt_gattdb_remove_service, sl_bt_gattdb_add_included_service,
  sl_bt_gattdb_remove_included_service,
  sl_bt_gattdb_add_uuid16_characteristic,
  sl_bt_gattdb_add_uuid128_characteristic, sl_bt_gattdb_remove_characteristic,
  sl_bt_gattdb_add_uuid16_descriptor, sl_bt_gattdb_add_uuid128_descriptor,
  sl_bt_gattdb_remove_descriptor, sl_bt_gattdb_start_service,
  sl_bt_gattdb_stop_service, sl_bt_gattdb_start_characteristic,
  sl_bt_gattdb_stop_characteristic, sl_bt_gattdb_commit, sl_bt_gattdb_abort,
  sl_bt_gatt_server_set_max_mtu, sl_bt_gatt_server_get_mtu,
  sl_bt_gatt_server_find_attribute, sl_bt_gatt_server_read_attribute_value,
  sl_bt_gatt_server_read_attribute_type,
  sl_bt_gatt_server_write_attribute_value,
  sl_bt_gatt_server_send_user_read_response,
  sl_bt_gatt_server_send_user_write_response,
  sl_bt_gatt_server_send_notification, sl_bt_gatt_server_send_indication,
  sl_bt_gatt_server_notify_all, sl_bt_gatt_server_read_client_configuration,
  sl_bt_gatt_server_send_user_prepare_write_response,
  sl_bt_gatt_server_set_capabilities, sl_bt_gatt_server_enable_capabilities,
  sl_bt_gatt_server_disable_capabilities,
  sl_bt_gatt_server_get_enabled_capabilities,
  sl_bt_gatt_server_read_client_supported_features, sl_bt_nvm_save,
  sl_bt_nvm_load, sl_bt_nvm_erase, sl_bt_nvm_erase_all, sl_bt_test_dtm_tx_v4,
  sl_bt_test_dtm_tx_cw, sl_bt_test_dtm_rx, sl_bt_test_dtm_end,
  sl_bt_sm_configure, sl_bt_sm_set_minimum_key_size, sl_bt_sm_set_debug_mode,
  sl_bt_sm_add_to_whitelist, sl_bt_sm_store_bonding_configuration,
  sl_bt_sm_set_bondable_mode, sl_bt_sm_set_passkey,
  sl_bt_sm_increase_security, sl_bt_sm_enter_passkey,
  sl_bt_sm_passkey_confirm, sl_bt_sm_bonding_confirm, sl_bt_sm_delete_bonding,
  sl_bt_sm_delete_bondings, sl_bt_sm_get_bonding_handles,
  sl_bt_sm_get_bonding_details, sl_bt_sm_find_bonding_by_address,
  sl_bt_sm_set_bonding_key, sl_bt_sm_set_legacy_oob, sl_bt_sm_set_oob,
  sl_bt_sm_set_remote_oob, sl_bt_sm_set_bonding_data,
  sl_bt_ota_set_device_name, sl_bt_ota_set_advertising_data,
  sl_bt_ota_set_configuration, sl_bt_ota_set_rf_path, sl_bt_coex_set_options,
  sl_bt_coex_set_parameters, sl_bt_coex_set_directional_priority_pulse,
  sl_bt_coex_get_parameters, sl_bt_coex_get_counters,
  sl_bt_l2cap_open_le_channel, sl_bt_l2cap_send_le_channel_open_response,
  sl_bt_l2cap_channel_send_data, sl_bt_l2cap_channel_send_credit,
  sl_bt_l2cap_close_channel, sl_bt_cte_transmitter_set_dtm_parameters,
  sl_bt_cte_transmitter_clear_dtm_parameters,
  sl_bt_cte_transmitter_enable_connection_cte,
  sl_bt_cte_transmitter_disable_connection_cte,
  sl_bt_cte_transmitter_enable_connectionless_cte,
  sl_bt_cte_transmitter_disable_connectionless_cte,
  sl_bt_cte_transmitter_enable_silabs_cte,
  sl_bt_cte_transmitter_disable_silabs_cte,
  sl_bt_cte_receiver_set_dtm_parameters,
  sl_bt_cte_receiver_clear_dtm_parameters,
  sl_bt_cte_receiver_set_sync_cte_type,
  sl_bt_cte_receiver_set_default_sync_receive_parameters,
  sl_bt_cte_receiver_set_sync_receive_parameters,
  sl_bt_cte_receiver_configure, sl_bt_cte_receiver_enable_connection_cte,
  sl_bt_cte_receiver_disable_connection_cte,
  sl_bt_cte_receiver_enable_connectionless_cte,
  sl_bt_cte_receiver_disable_connectionless_cte,
  sl_bt_cte_receiver_enable_silabs_cte, sl_bt_cte_receiver_disable_silabs_cte,
  sl_bt_user_message_to_target, sl_bt_user_manage_event_filter,
  sl_bt_user_reset_to_dfu}
=============================================================================
