---------------------------- MODULE BgapiLayouts ----------------------------
(***************************************************************************)
(* The payloads of the BGAPI messages (sli_bt_api.h for commands and       *)
(* responses, sl_bt_api.h for events): for every message its fields and    *)
(* their types.  The structures are packed, so a payload is exactly its    *)
(* fields, in little-endian byte order on the wire.                        *)
(*                                                                         *)
(* A type is the bytes it occupies and whether it is a number, whose bytes *)
(* have an order, or a byte string, whose bytes do not.  An array counts   *)
(* with its length field; the data that follows it has no fixed size.      *)
(***************************************************************************)
EXTENDS Naturals, TLC

Number(n) == [width |-> n, number |-> TRUE, array |-> FALSE]
Bytes(n)  == [width |-> n, number |-> FALSE, array |-> FALSE]
Array(n)  == [width |-> n, number |-> TRUE, array |-> TRUE]

uint8_t  == Number(1)
int8_t   == Number(1)
uint16_t == Number(2)
int16_t  == Number(2)
uint32_t == Number(4)
int32_t  == Number(4)
bd_addr         == Bytes(6)
aes_key_128     == Bytes(16)
uuid_128        == Bytes(16)
sl_bt_uuid_16_t == Bytes(2)
uint8array == Array(1)
byte_array == Array(2)

(* No fields. *)
Nothing == <<>>

(* Responses that consist of a result. *)
OnlyResult(names) == [n \in names |-> [result |-> uint16_t]]
-----------------------------------------------------------------------------
(* Commands: the structures sl_bt_cmd_..._s of sli_bt_api.h.               *)

cmd_dfu ==
  [dfu_reset |-> [dfu |-> uint8_t],
   dfu_flash_set_address |-> [address |-> uint32_t],
   dfu_flash_upload |-> [data |-> uint8array]]

cmd_system ==
  [system_reset |-> [dfu |-> uint8_t],
   system_halt |-> [halt |-> uint8_t],
   system_linklayer_configure |-> [key |-> uint8_t, data |-> uint8array],
   system_set_tx_power |-> [min_power |-> int16_t, max_power |-> int16_t],
   system_set_identity_address |-> [address |-> bd_addr, type |-> uint8_t],
   system_get_random_data |-> [length |-> uint8_t],
   system_data_buffer_write |-> [data |-> uint8array],
   system_get_counters |-> [reset |-> uint8_t],
   system_set_lazy_soft_timer |-> [time |-> uint32_t, slack |-> uint32_t,
        handle |-> uint8_t, single_shot |-> uint8_t]]

cmd_gap ==
  [gap_set_privacy_mode |-> [privacy |-> uint8_t, interval |-> uint8_t],
   gap_set_data_channel_classification |-> [channel_map |-> uint8array],
   gap_enable_whitelisting |-> [enable |-> uint8_t]]

cmd_advertiser_1 ==
  [advertiser_configure |-> [advertising_set |-> uint8_t, flags |-> uint32_t],
   advertiser_set_timing |-> [advertising_set |-> uint8_t,
        interval_min |-> uint32_t, interval_max |-> uint32_t,
        duration |-> uint16_t, maxevents |-> uint8_t],
   advertiser_set_channel_map |-> [advertising_set |-> uint8_t,
        channel_map |-> uint8_t],
   advertiser_set_tx_power |-> [advertising_set |-> uint8_t,
        power |-> int16_t],
   advertiser_set_report_scan_request |-> [advertising_set |-> uint8_t,
        report_scan_req |-> uint8_t],
   advertiser_set_random_address |-> [advertising_set |-> uint8_t,
        addr_type |-> uint8_t, address |-> bd_addr],
   advertiser_clear_random_address |-> [advertising_set |-> uint8_t],
   advertiser_stop |-> [advertising_set |-> uint8_t],
   advertiser_delete_set |-> [advertising_set |-> uint8_t],
   advertiser_set_phy |-> [advertising_set |-> uint8_t,
        primary_phy |-> uint8_t, secondary_phy |-> uint8_t],
   advertiser_set_configuration |-> [advertising_set |-> uint8_t,
        configurations |-> uint32_t],
   advertiser_clear_configuration |-> [advertising_set |-> uint8_t,
        configurations |-> uint32_t],
   advertiser_set_data |-> [advertising_set |-> uint8_t,
        packet_type |-> uint8_t, adv_data |-> uint8array],
   advertiser_set_long_data |-> [advertising_set |-> uint8_t,
        packet_type |-> uint8_t],
   advertiser_start |-> [advertising_set |-> uint8_t, discover |-> uint8_t,
        connect |-> uint8_t],
   advertiser_start_periodic_advertising |-> [advertising_set |-> uint8_t,
        interval_min |-> uint16_t, interval_max |-> uint16_t,
        flags |-> uint32_t]]

cmd_advertiser_2 ==
  [advertiser_stop_periodic_advertising |-> [advertising_set |-> uint8_t]]

cmd_legacy_advertiser ==
  [legacy_advertiser_set_data |-> [advertising_set |-> uint8_t,
        type |-> uint8_t, data |-> uint8array],
   legacy_advertiser_generate_data |-> [advertising_set |-> uint8_t,
        discover |-> uint8_t],
   legacy_advertiser_start |-> [advertising_set |-> uint8_t,
        connect |-> uint8_t],
   legacy_advertiser_start_directed |-> [advertising_set |-> uint8_t,
        connect |-> uint8_t, peer_addr |-> bd_addr,
        peer_addr_type |-> uint8_t]]

cmd_extended_advertiser ==
  [extended_advertiser_set_phy |-> [advertising_set |-> uint8_t,
        primary_phy |-> uint8_t, secondary_phy |-> uint8_t],
   extended_advertiser_set_data |-> [advertising_set |-> uint8_t,
        data |-> uint8array],
   extended_advertiser_set_long_data |-> [advertising_set |-> uint8_t],
   extended_advertiser_generate_data |-> [advertising_set |-> uint8_t,
        discover |-> uint8_t],
   extended_advertiser_start |-> [advertising_set |-> uint8_t,
        connect |-> uint8_t, flags |-> uint32_t],
   extended_advertiser_start_directed |-> [advertising_set |-> uint8_t,
        connect |-> uint8_t, flags |-> uint32_t, peer_addr |-> bd_addr,
        peer_addr_type |-> uint8_t]]

cmd_periodic_advertiser ==
  [periodic_advertiser_set_data |-> [advertising_set |-> uint8_t,
        data |-> uint8array],
   periodic_advertiser_set_long_data |-> [advertising_set |-> uint8_t],
   periodic_advertiser_start |-> [advertising_set |-> uint8_t,
        interval_min |-> uint16_t, interval_max |-> uint16_t,
        flags |-> uint32_t],
   periodic_advertiser_stop |-> [advertising_set |-> uint8_t]]

cmd_scanner ==
  [scanner_set_parameters |-> [mode |-> uint8_t, interval |-> uint16_t,
        window |-> uint16_t],
   scanner_set_timing |-> [phys |-> uint8_t, scan_interval |-> uint16_t,
        scan_window |-> uint16_t],
   scanner_set_mode |-> [phys |-> uint8_t, scan_mode |-> uint8_t],
   scanner_start |-> [scanning_phy |-> uint8_t, discover_mode |-> uint8_t]]

cmd_sync ==
  [sync_set_parameters |-> [skip |-> uint16_t, timeout |-> uint16_t,
        flags |-> uint32_t],
   sync_open |-> [address |-> bd_addr, address_type |-> uint8_t,
        adv_sid |-> uint8_t],
   sync_set_reporting_mode |-> [sync |-> uint16_t, reporting_mode |-> uint8_t],
   sync_close |-> [sync |-> uint16_t]]

cmd_past_receiver ==
  [past_receiver_set_default_sync_receive_parameters |-> [mode |-> uint8_t,
        skip |-> uint16_t, timeout |-> uint16_t, reporting_mode |-> uint8_t],
   past_receiver_set_sync_receive_parameters |-> [connection |-> uint8_t,
        mode |-> uint8_t, skip |-> uint16_t, timeout |-> uint16_t,
        reporting_mode |-> uint8_t]]

cmd_advertiser_past ==
  [advertiser_past_transfer |-> [connection |-> uint8_t,
        service_data |-> uint16_t, advertising_set |-> uint8_t]]

cmd_sync_past ==
  [sync_past_transfer |-> [connection |-> uint8_t, service_data |-> uint16_t,
        sync |-> uint16_t]]

cmd_connection ==
  [connection_set_default_parameters |-> [min_interval |-> uint16_t,
        max_interval |-> uint16_t, latency |-> uint16_t, timeout |-> uint16_t,
        min_ce_length |-> uint16_t, max_ce_length |-> uint16_t],
   connection_set_default_preferred_phy |-> [preferred_phy |-> uint8_t,
        accepted_phy |-> uint8_t],
   connection_open |-> [address |-> bd_addr, address_type |-> uint8_t,
        initiating_phy |-> uint8_t],
   connection_set_parameters |-> [connection |-> uint8_t,
        min_interval |-> uint16_t, max_interval |-> uint16_t,
        latency |-> uint16_t, timeout |-> uint16_t, min_ce_length |-> uint16_t,
        max_ce_length |-> uint16_t],
   connection_set_preferred_phy |-> [connection |-> uint8_t,
        preferred_phy |-> uint8_t, accepted_phy |-> uint8_t],
   connection_disable_slave_latency |-> [connection |-> uint8_t,
        disable |-> uint8_t],
   connection_get_rssi |-> [connection |-> uint8_t],
   connection_read_channel_map |-> [connection |-> uint8_t],
   connection_set_power_reporting |-> [connection |-> uint8_t,
        mode |-> uint8_t],
   connection_set_remote_power_reporting |-> [connection |-> uint8_t,
        mode |-> uint8_t],
   connection_get_tx_power |-> [connection |-> uint8_t, phy |-> uint8_t],
   connection_get_remote_tx_power |-> [connection |-> uint8_t,
        phy |-> uint8_t],
   connection_close |-> [connection |-> uint8_t],
   connection_read_remote_used_features |-> [connection |-> uint8_t],
   connection_get_security_status |-> [connection |-> uint8_t]]

cmd_gatt_1 ==
  [gatt_set_max_mtu |-> [max_mtu |-> uint16_t],
   gatt_discover_primary_services |-> [connection |-> uint8_t],
   gatt_discover_primary_services_by_uuid |-> [connection |-> uint8_t,
        uuid |-> uint8array],
   gatt_find_included_services |-> [connection |-> uint8_t,
        service |-> uint32_t],
   gatt_discover_characteristics |-> [connection |-> uint8_t,
        service |-> uint32_t],
   gatt_discover_characteristics_by_uuid |-> [connection |-> uint8_t,
        service |-> uint32_t, uuid |-> uint8array],
   gatt_discover_descriptors |-> [connection |-> uint8_t,
        characteristic |-> uint16_t],
   gatt_set_characteristic_notification |-> [connection |-> uint8_t,
        characteristic |-> uint16_t, flags |-> uint8_t],
   gatt_send_characteristic_confirmation |-> [connection |-> uint8_t],
   gatt_read_characteristic_value |-> [connection |-> uint8_t,
        characteristic |-> uint16_t],
   gatt_read_characteristic_value_from_offset |-> [connection |-> uint8_t,
        characteristic |-> uint16_t, offset |-> uint16_t, maxlen |-> uint16_t],
   gatt_read_multiple_characteristic_values |-> [connection |-> uint8_t,
        characteristic_list |-> uint8array],
   gatt_read_characteristic_value_by_uuid |-> [connection |-> uint8_t,
        service |-> uint32_t, uuid |-> uint8array],
   gatt_write_characteristic_value |-> [connection |-> uint8_t,
        characteristic |-> uint16_t, value |-> uint8array],
   gatt_write_characteristic_value_without_response |-> [
        connection |-> uint8_t, characteristic |-> uint16_t,
        value |-> uint8array],
   gatt_prepare_characteristic_value_write |-> [connection |-> uint8_t,
        characteristic |-> uint16_t, offset |-> uint16_t,
        value |-> uint8array]]

cmd_gatt_2 ==
  [gatt_prepare_characteristic_value_reliable_write |-> [
        connection |-> uint8_t, characteristic |-> uint16_t,
        offset |-> uint16_t, value |-> uint8array],
   gatt_execute_characteristic_value_write |-> [connection |-> uint8_t,
        flags |-> uint8_t],
   gatt_read_descriptor_value |-> [connection |-> uint8_t,
        descriptor |-> uint16_t],
   gatt_write_descriptor_value |-> [connection |-> uint8_t,
        descriptor |-> uint16_t, value |-> uint8array]]

cmd_gattdb_1 ==
  [gattdb_add_service |-> [session |-> uint16_t, type |-> uint8_t,
        property |-> uint8_t, uuid |-> uint8array],
   gattdb_remove_service |-> [session |-> uint16_t, service |-> uint16_t],
   gattdb_add_included_service |-> [session |-> uint16_t, service |-> uint16_t,
        included_service |-> uint16_t],
   gattdb_remove_included_service |-> [session |-> uint16_t,
        attribute |-> uint16_t],
   gattdb_add_uuid16_characteristic |-> [session |-> uint16_t,
        service |-> uint16_t, property |-> uint16_t, security |-> uint16_t,
        flag |-> uint8_t, uuid |-> sl_bt_uuid_16_t, value_type |-> uint8_t,
        maxlen |-> uint16_t, value |-> byte_array],
   gattdb_add_uuid128_characteristic |-> [session |-> uint16_t,
        service |-> uint16_t, property |-> uint16_t, security |-> uint16_t,
        flag |-> uint8_t, uuid |-> uuid_128, value_type |-> uint8_t,
        maxlen |-> uint16_t, value |-> byte_array],
   gattdb_remove_characteristic |-> [session |-> uint16_t,
        characteristic |-> uint16_t],
   gattdb_add_uuid16_descriptor |-> [session |-> uint16_t,
        characteristic |-> uint16_t, property |-> uint16_t,
        security |-> uint16_t, uuid |-> sl_bt_uuid_16_t,
        value_type |-> uint8_t, maxlen |-> uint16_t, value |-> byte_array],
   gattdb_add_uuid128_descriptor |-> [session |-> uint16_t,
        characteristic |-> uint16_t, property |-> uint16_t,
        security |-> uint16_t, uuid |-> uuid_128, value_type |-> uint8_t,
        maxlen |-> uint16_t, value |-> byte_array],
   gattdb_remove_descriptor |-> [session |-> uint16_t,
        descriptor |-> uint16_t],
   gattdb_start_service |-> [session |-> uint16_t, service |-> uint16_t],
   gattdb_stop_service |-> [session |-> uint16_t, service |-> uint16_t],
   gattdb_start_characteristic |-> [session |-> uint16_t,
        characteristic |-> uint16_t]]

cmd_gattdb_2 ==
  [gattdb_stop_characteristic |-> [session |-> uint16_t,
        characteristic |-> uint16_t],
   gattdb_commit |-> [session |-> uint16_t],
   gattdb_abort |-> [session |-> uint16_t]]

cmd_gatt_server_1 ==
  [gatt_server_set_max_mtu |-> [max_mtu |-> uint16_t],
   gatt_server_get_mtu |-> [connection |-> uint8_t],
   gatt_server_find_attribute |-> [start |-> uint16_t, type |-> uint8array],
   gatt_server_read_attribute_value |-> [attribute |-> uint16_t,
        offset |-> uint16_t],
   gatt_server_read_attribute_type |-> [attribute |-> uint16_t],
   gatt_server_write_attribute_value |-> [attribute |-> uint16_t,
        offset |-> uint16_t, value |-> uint8array],
   gatt_server_send_user_read_response |-> [connection |-> uint8_t,
        characteristic |-> uint16_t, att_errorcode |-> uint8_t,
        value |-> uint8array],
   gatt_server_send_user_write_response |-> [connection |-> uint8_t,
        characteristic |-> uint16_t, att_errorcode |-> uint8_t],
   gatt_server_send_notification |-> [connection |-> uint8_t,
        characteristic |-> uint16_t, value |-> uint8array],
   gatt_server_send_indication |-> [connection |-> uint8_t,
        characteristic |-> uint16_t, value |-> uint8array],
   gatt_server_notify_all |-> [characteristic |-> uint16_t,
        value |-> uint8array],
   gatt_server_read_client_configuration |-> [connection |-> uint8_t,
        characteristic |-> uint16_t],
   gatt_server_send_user_prepare_write_response |-> [connection |-> uint8_t,
        characteristic |-> uint16_t, att_errorcode |-> uint8_t,
        offset |-> uint16_t, value |-> uint8array],
   gatt_server_set_capabilities |-> [caps |-> uint32_t, reserved |-> uint32_t],
   gatt_server_enable_capabilities |-> [caps |-> uint32_t],
   gatt_server_disable_capabilities |-> [caps |-> uint32_t]]

cmd_gatt_server_2 ==
  [gatt_server_read_client_supported_features |-> [connection |-> uint8_t]]

cmd_nvm ==
  [nvm_save |-> [key |-> uint16_t, value |-> uint8array],
   nvm_load |-> [key |-> uint16_t],
   nvm_erase |-> [key |-> uint16_t]]

cmd_test ==
  [test_dtm_tx_v4 |-> [packet_type |-> uint8_t, length |-> uint8_t,
        channel |-> uint8_t, phy |-> uint8_t, power_level |-> int8_t],
   test_dtm_tx_cw |-> [packet_type |-> uint8_t, channel |-> uint8_t,
        phy |-> uint8_t, power_level |-> int16_t],
   test_dtm_rx |-> [channel |-> uint8_t, phy |-> uint8_t]]

cmd_sm_1 ==
  [sm_configure |-> [flags |-> uint8_t, io_capabilities |-> uint8_t],
   sm_set_minimum_key_size |-> [minimum_key_size |-> uint8_t],
   sm_add_to_whitelist |-> [address |-> bd_addr, address_type |-> uint8_t],
   sm_store_bonding_configuration |-> [max_bonding_count |-> uint8_t,
        policy_flags |-> uint8_t],
   sm_set_bondable_mode |-> [bondable |-> uint8_t],
   sm_set_passkey |-> [passkey |-> int32_t],
   sm_increase_security |-> [connection |-> uint8_t],
   sm_enter_passkey |-> [connection |-> uint8_t, passkey |-> int32_t],
   sm_passkey_confirm |-> [connection |-> uint8_t, confirm |-> uint8_t],
   sm_bonding_confirm |-> [connection |-> uint8_t, confirm |-> uint8_t],
   sm_delete_bonding |-> [bonding |-> uint8_t],
   sm_get_bonding_handles |-> [reserved |-> uint32_t],
   sm_get_bonding_details |-> [bonding |-> uint32_t],
   sm_find_bonding_by_address |-> [address |-> bd_addr],
   sm_set_bonding_key |-> [bonding |-> uint32_t, key_type |-> uint8_t,
        key |-> aes_key_128],
   sm_set_legacy_oob |-> [enable |-> uint8_t, oob_data |-> aes_key_128],
   sm_set_oob |-> [enable |-> uint8_t]]

cmd_sm_2 ==
  [sm_set_remote_oob |-> [enable |-> uint8_t, random |-> aes_key_128,
        confirm |-> aes_key_128],
   sm_set_bonding_data |-> [connection |-> uint8_t, type |-> uint8_t,
        data |-> uint8array]]

cmd_ota ==
  [ota_set_device_name |-> [name |-> uint8array],
   ota_set_advertising_data |-> [packet_type |-> uint8_t,
        adv_data |-> uint8array],
   ota_set_configuration |-> [flags |-> uint32_t],
   ota_set_rf_path |-> [enable |-> uint8_t, antenna |-> uint8_t]]

cmd_coex ==
  [coex_set_options |-> [mask |-> uint32_t, options |-> uint32_t],
   coex_set_parameters |-> [priority |-> uint8_t, request |-> uint8_t,
        pwm_period |-> uint8_t, pwm_dutycycle |-> uint8_t],
   coex_set_directional_priority_pulse |-> [pulse |-> uint8_t],
   coex_get_counters |-> [reset |-> uint8_t]]

cmd_l2cap ==
  [l2cap_open_le_channel |-> [connection |-> uint8_t, spsm |-> uint16_t,
        max_sdu |-> uint16_t, max_pdu |-> uint16_t, credit |-> uint16_t],
   l2cap_send_le_channel_open_response |-> [connection |-> uint8_t,
        cid |-> uint16_t, max_sdu |-> uint16_t, max_pdu |-> uint16_t,
        credit |-> uint16_t, errorcode |-> uint16_t],
   l2cap_channel_send_data |-> [connection |-> uint8_t, cid |-> uint16_t,
        data |-> uint8array],
   l2cap_channel_send_credit |-> [connection |-> uint8_t, cid |-> uint16_t,
        credit |-> uint16_t],
   l2cap_close_channel |-> [connection |-> uint8_t, cid |-> uint16_t]]

cmd_cte_transmitter ==
  [cte_transmitter_set_dtm_parameters |-> [cte_length |-> uint8_t,
        cte_type |-> uint8_t, switching_pattern |-> uint8array],
   cte_transmitter_enable_connection_cte |-> [connection |-> uint8_t,
        cte_types |-> uint8_t, switching_pattern |-> uint8array],
   cte_transmitter_disable_connection_cte |-> [connection |-> uint8_t],
   cte_transmitter_enable_connectionless_cte |-> [handle |-> uint8_t,
        cte_length |-> uint8_t, cte_type |-> uint8_t, cte_count |-> uint8_t,
        switching_pattern |-> uint8array],
   cte_transmitter_disable_connectionless_cte |-> [handle |-> uint8_t],
   cte_transmitter_enable_silabs_cte |-> [handle |-> uint8_t,
        cte_length |-> uint8_t, cte_type |-> uint8_t, cte_count |-> uint8_t,
        switching_pattern |-> uint8array],
   cte_transmitter_disable_silabs_cte |-> [handle |-> uint8_t]]

cmd_cte_receiver ==
  [cte_receiver_set_dtm_parameters |-> [cte_length |-> uint8_t,
        cte_type |-> uint8_t, slot_durations |-> uint8_t,
        switching_pattern |-> uint8array],
   cte_receiver_set_sync_cte_type |-> [sync_cte_type |-> uint8_t],
   cte_receiver_set_default_sync_receive_parameters |-> [mode |-> uint8_t,
        skip |-> uint16_t, timeout |-> uint16_t, sync_cte_type |-> uint8_t,
        reporting_mode |-> uint8_t],
   cte_receiver_set_sync_receive_parameters |-> [connection |-> uint8_t,
        mode |-> uint8_t, skip |-> uint16_t, timeout |-> uint16_t,
        sync_cte_type |-> uint8_t, reporting_mode |-> uint8_t],
   cte_receiver_configure |-> [flags |-> uint8_t],
   cte_receiver_enable_connection_cte |-> [connection |-> uint8_t,
        interval |-> uint16_t, cte_length |-> uint8_t, cte_type |-> uint8_t,
        slot_durations |-> uint8_t, switching_pattern |-> uint8array],
   cte_receiver_disable_connection_cte |-> [connection |-> uint8_t],
   cte_receiver_enable_connectionless_cte |-> [sync |-> uint16_t,
        slot_durations |-> uint8_t, cte_count |-> uint8_t,
        switching_pattern |-> uint8array],
   cte_receiver_disable_connectionless_cte |-> [sync |-> uint16_t],
   cte_receiver_enable_silabs_cte |-> [slot_durations |-> uint8_t,
        cte_count |-> uint8_t, switching_pattern |-> uint8array]]

cmd_user ==
  [user_message_to_target |-> [data |-> uint8array],
   user_manage_event_filter |-> [data |-> uint8array]]

-----------------------------------------------------------------------------
(* Responses: the structures sl_bt_rsp_..._s of sli_bt_api.h.               *)

rsp_dfu ==
  OnlyResult({"dfu_flash_set_address", "dfu_flash_upload",
    "dfu_flash_upload_finish"})

rsp_system ==
  OnlyResult({"system_hello", "system_start_bluetooth",
    "system_stop_bluetooth", "system_halt", "system_linklayer_configure",
    "system_set_identity_address", "system_data_buffer_write",
    "system_data_buffer_clear", "system_set_lazy_soft_timer"})
  @@ [system_get_version |-> [result |-> uint16_t, major |-> uint16_t,
        minor |-> uint16_t, patch |-> uint16_t, build |-> uint16_t,
        bootloader |-> uint32_t, hash |-> uint32_t],
      system_set_tx_power |-> [result |-> uint16_t, set_min |-> int16_t,
        set_max |-> int16_t],
      system_get_tx_power_setting |-> [result |-> uint16_t,
        support_min |-> int16_t, support_max |-> int16_t, set_min |-> int16_t,
        set_max |-> int16_t, rf_path_gain |-> int16_t],
      system_get_identity_address |-> [result |-> uint16_t,
        address |-> bd_addr, type |-> uint8_t],
      system_get_random_data |-> [result |-> uint16_t, data |-> uint8array],
      system_get_counters |-> [result |-> uint16_t, tx_packets |-> uint16_t,
        rx_packets |-> uint16_t, crc_errors |-> uint16_t,
        failures |-> uint16_t]]

rsp_gap ==
  OnlyResult({"gap_set_privacy_mode", "gap_set_data_channel_classification",
    "gap_enable_whitelisting"})

rsp_advertiser ==
  OnlyResult({"advertiser_configure", "advertiser_set_timing",
    "advertiser_set_channel_map", "advertiser_set_report_scan_request",
    "advertiser_clear_random_address", "advertiser_stop",
    "advertiser_delete_set", "advertiser_set_phy",
    "advertiser_set_configuration", "advertiser_clear_configuration",
    "advertiser_set_data", "advertiser_set_long_data", "advertiser_start",
    "advertiser_start_periodic_advertising",
    "advertiser_stop_periodic_advertising"})
  @@ [advertiser_create_set |-> [result |-> uint16_t, handle |-> uint8_t],
      advertiser_set_tx_power |-> [result |-> uint16_t, set_power |-> int16_t],
      advertiser_set_random_address |-> [result |-> uint16_t,
        address_out |-> bd_addr]]

rsp_legacy_advertiser ==
  OnlyResult({"legacy_advertiser_set_data", "legacy_advertiser_generate_data",
    "legacy_advertiser_start", "legacy_advertiser_start_directed"})

rsp_extended_advertiser ==
  OnlyResult({"extended_advertiser_set_phy", "extended_advertiser_set_data",
    "extended_advertiser_set_long_data", "extended_advertiser_generate_data",
    "extended_advertiser_start", "extended_advertiser_start_directed"})

rsp_periodic_advertiser ==
  OnlyResult({"periodic_advertiser_set_data",
    "periodic_advertiser_set_long_data", "periodic_advertiser_start",
    "periodic_advertiser_stop"})

rsp_scanner ==
  OnlyResult({"scanner_set_parameters", "scanner_stop", "scanner_set_timing",
    "scanner_set_mode", "scanner_start"})

rsp_sync ==
  OnlyResult({"sync_set_parameters", "sync_set_reporting_mode", "sync_close"})
  @@ [sync_open |-> [result |-> uint16_t, sync |-> uint16_t]]

rsp_past_receiver ==
  OnlyResult({"past_receiver_set_default_sync_receive_parameters",
    "past_receiver_set_sync_receive_parameters"})

rsp_advertiser_past ==
  OnlyResult({"advertiser_past_transfer"})

rsp_sync_past ==
  OnlyResult({"sync_past_transfer"})

rsp_connection ==
  OnlyResult({"connection_set_default_parameters",
    "connection_set_default_preferred_phy", "connection_set_parameters",
    "connection_set_preferred_phy", "connection_disable_slave_latency",
    "connection_get_rssi", "connection_set_power_reporting",
    "connection_set_remote_power_reporting", "connection_get_remote_tx_power",
    "connection_close", "connection_read_remote_used_features"})
  @@ [connection_open |-> [result |-> uint16_t, connection |-> uint8_t],
      connection_read_channel_map |-> [result |-> uint16_t,
        channel_map |-> uint8array],
      connection_get_tx_power |-> [result |-> uint16_t,
        current_level |-> int8_t, max_level |-> int8_t],
      connection_get_security_status |-> [result |-> uint16_t,
        security_mode |-> uint8_t, key_size |-> uint8_t,
        bonding_handle |-> uint8_t]]

rsp_gatt_1 ==
  OnlyResult({"gatt_discover_primary_services",
    "gatt_discover_primary_services_by_uuid", "gatt_find_included_services",
    "gatt_discover_characteristics", "gatt_discover_characteristics_by_uuid",
    "gatt_discover_descriptors", "gatt_set_characteristic_notification",
    "gatt_send_characteristic_confirmation", "gatt_read_characteristic_value",
    "gatt_read_characteristic_value_from_offset",
    "gatt_read_multiple_characteristic_values",
    "gatt_read_characteristic_value_by_uuid",
    "gatt_write_characteristic_value",
    "gatt_execute_characteristic_value_write"})
  @@ [gatt_set_max_mtu |-> [result |-> uint16_t, max_mtu_out |-> uint16_t],
      gatt_write_characteristic_value_without_response |-> [
        result |-> uint16_t, sent_len |-> uint16_t],
      gatt_prepare_characteristic_value_write |-> [result |-> uint16_t,
        sent_len |-> uint16_t],
      gatt_prepare_characteristic_value_reliable_write |-> [
        result |-> uint16_t, sent_len |-> uint16_t]]

rsp_gatt_2 ==
  OnlyResult({"gatt_read_descriptor_value", "gatt_write_descriptor_value"})

rsp_gattdb ==
  OnlyResult({"gattdb_remove_service", "gattdb_remove_included_service",
    "gattdb_remove_characteristic", "gattdb_remove_descriptor",
    "gattdb_start_service", "gattdb_stop_service",
    "gattdb_start_characteristic", "gattdb_stop_characteristic",
    "gattdb_commit", "gattdb_abort"})
  @@ [gattdb_new_session |-> [result |-> uint16_t, session |-> uint16_t],
      gattdb_add_service |-> [result |-> uint16_t, service |-> uint16_t],
      gattdb_add_included_service |-> [result |-> uint16_t,
        attribute |-> uint16_t],
      gattdb_add_uuid16_characteristic |-> [result |-> uint16_t,
        characteristic |-> uint16_t],
      gattdb_add_uuid128_characteristic |-> [result |-> uint16_t,
        characteristic |-> uint16_t],
      gattdb_add_uuid16_descriptor |-> [result |-> uint16_t,
        descriptor |-> uint16_t],
      gattdb_add_uuid128_descriptor |-> [result |-> uint16_t,
        descriptor |-> uint16_t]]

rsp_gatt_server ==
  OnlyResult({"gatt_server_write_attribute_value",
    "gatt_server_send_user_write_response", "gatt_server_send_notification",
    "gatt_server_send_indication", "gatt_server_notify_all",
    "gatt_server_send_user_prepare_write_response",
    "gatt_server_set_capabilities", "gatt_server_enable_capabilities",
    "gatt_server_disable_capabilities"})
  @@ [gatt_server_set_max_mtu |-> [result |-> uint16_t,
        max_mtu_out |-> uint16_t],
      gatt_server_get_mtu |-> [result |-> uint16_t, mtu |-> uint16_t],
      gatt_server_find_attribute |-> [result |-> uint16_t,
        attribute |-> uint16_t],
      gatt_server_read_attribute_value |-> [result |-> uint16_t,
        value |-> uint8array],
      gatt_server_read_attribute_type |-> [result |-> uint16_t,
        type |-> uint8array],
      gatt_server_send_user_read_response |-> [result |-> uint16_t,
        sent_len |-> uint16_t],
      gatt_server_read_client_configuration |-> [result |-> uint16_t,
        client_config_flags |-> uint16_t],
      gatt_server_get_enabled_capabilities |-> [result |-> uint16_t,
        caps |-> uint32_t],
      gatt_server_read_client_supported_features |-> [result |-> uint16_t,
        client_features |-> uint8_t]]

rsp_nvm ==
  OnlyResult({"nvm_save", "nvm_erase", "nvm_erase_all"})
  @@ [nvm_load |-> [result |-> uint16_t, value |-> uint8array]]

rsp_test ==
  OnlyResult({"test_dtm_tx_v4", "test_dtm_tx_cw", "test_dtm_rx",
    "test_dtm_end"})

rsp_sm_1 ==
  OnlyResult({"sm_configure", "sm_set_minimum_key_size", "sm_set_debug_mode",
    "sm_add_to_whitelist", "sm_store_bonding_configuration",
    "sm_set_bondable_mode", "sm_set_passkey", "sm_increase_security",
    "sm_enter_passkey", "sm_passkey_confirm", "sm_bonding_confirm",
    "sm_delete_bonding", "sm_delete_bondings", "sm_set_bonding_key",
    "sm_set_legacy_oob"})
  @@ [sm_get_bonding_handles |-> [result |-> uint16_t,
        num_bondings |-> uint32_t, bondings |-> uint8array],
      sm_get_bonding_details |-> [result |-> uint16_t, address |-> bd_addr,
        address_type |-> uint8_t, security_mode |-> uint8_t,
        key_size |-> uint8_t],
      sm_find_bonding_by_address |-> [result |-> uint16_t,
        bonding |-> uint32_t, security_mode |-> uint8_t, key_size |-> uint8_t]]

rsp_sm_2 ==
  OnlyResult({"sm_set_remote_oob", "sm_set_bonding_data"})
  @@ [sm_set_oob |-> [result |-> uint16_t, random |-> aes_key_128,
        confirm |-> aes_key_128]]

rsp_ota ==
  OnlyResult({"ota_set_device_name", "ota_set_advertising_data",
    "ota_set_configuration", "ota_set_rf_path"})

rsp_coex ==
  OnlyResult({"coex_set_options", "coex_set_parameters",
    "coex_set_directional_priority_pulse"})
  @@ [coex_get_parameters |-> [result |-> uint16_t, priority |-> uint8_t,
        request |-> uint8_t, pwm_period |-> uint8_t,
        pwm_dutycycle |-> uint8_t],
      coex_get_counters |-> [result |-> uint16_t, counters |-> uint8array]]

rsp_l2cap ==
  OnlyResult({"l2cap_send_le_channel_open_response", "l2cap_channel_send_data",
    "l2cap_channel_send_credit", "l2cap_close_channel"})
  @@ [l2cap_open_le_channel |-> [result |-> uint16_t, cid |-> uint16_t]]

rsp_cte_transmitter ==
  OnlyResult({"cte_transmitter_set_dtm_parameters",
    "cte_transmitter_clear_dtm_parameters",
    "cte_transmitter_enable_connection_cte",
    "cte_transmitter_disable_connection_cte",
    "cte_transmitter_enable_connectionless_cte",
    "cte_transmitter_disable_connectionless_cte",
    "cte_transmitter_enable_silabs_cte", "cte_transmitter_disable_silabs_cte"})

rsp_cte_receiver ==
  OnlyResult({"cte_receiver_set_dtm_parameters",
    "cte_receiver_clear_dtm_parameters", "cte_receiver_set_sync_cte_type",
    "cte_receiver_set_default_sync_receive_parameters",
    "cte_receiver_set_sync_receive_parameters", "cte_receiver_configure",
    "cte_receiver_enable_connection_cte",
    "cte_receiver_disable_connection_cte",
    "cte_receiver_enable_connectionless_cte",
    "cte_receiver_disable_connectionless_cte",
    "cte_receiver_enable_silabs_cte", "cte_receiver_disable_silabs_cte"})

rsp_user ==
  OnlyResult({"user_manage_event_filter"})
  @@ [user_message_to_target |-> [result |-> uint16_t,
        response |-> uint8array]]

-----------------------------------------------------------------------------
(* Events: the structures sl_bt_evt_..._s of sl_bt_api.h.                  *)

evt_dfu_1 ==
  [dfu_boot |-> [version |-> uint32_t]]

evt_dfu_2 ==
  [dfu_boot_failure |-> [reason |-> uint16_t]]

evt_system_1 ==
  [system_boot |-> [major |-> uint16_t, minor |-> uint16_t, patch |-> uint16_t,
        build |-> uint16_t, bootloader |-> uint32_t, hw |-> uint16_t,
        hash |-> uint32_t]]

evt_system_2 ==
  [system_error |-> [reason |-> uint16_t, data |-> uint8array]]

evt_system_3 ==
  [system_hardware_error |-> [status |-> uint16_t]]

evt_system_4 ==
  [system_external_signal |-> [extsignals |-> uint32_t]]

evt_system_5 ==
  [system_soft_timer |-> [handle |-> uint8_t]]

evt_advertiser_1 ==
  [advertiser_timeout |-> [handle |-> uint8_t]]

evt_advertiser_2 ==
  [advertiser_scan_request |-> [handle |-> uint8_t, address |-> bd_addr,
        address_type |-> uint8_t, bonding |-> uint8_t]]

evt_periodic_advertiser ==
  [periodic_advertiser_status |-> [advertising_set |-> uint8_t,
        status |-> uint32_t]]

evt_scanner_1 ==
  [scanner_legacy_advertisement_report |-> [event_flags |-> uint8_t,
        address |-> bd_addr, address_type |-> uint8_t, bonding |-> uint8_t,
        rssi |-> int8_t, channel |-> uint8_t, target_address |-> bd_addr,
        target_address_type |-> uint8_t, data |-> uint8array]]

evt_scanner_2 ==
  [scanner_extended_advertisement_report |-> [event_flags |-> uint8_t,
        address |-> bd_addr, address_type |-> uint8_t, bonding |-> uint8_t,
        rssi |-> int8_t, channel |-> uint8_t, target_address |-> bd_addr,
        target_address_type |-> uint8_t, adv_sid |-> uint8_t,
        primary_phy |-> uint8_t, secondary_phy |-> uint8_t,
        tx_power |-> int8_t, periodic_interval |-> uint16_t,
        data_completeness |-> uint8_t, counter |-> uint8_t,
        data |-> uint8array]]

evt_scanner_3 ==
  [scanner_scan_report |-> [packet_type |-> uint8_t, address |-> bd_addr,
        address_type |-> uint8_t, bonding |-> uint8_t, primary_phy |-> uint8_t,
        secondary_phy |-> uint8_t, adv_sid |-> uint8_t, tx_power |-> int8_t,
        rssi |-> int8_t, channel |-> uint8_t, periodic_interval |-> uint16_t,
        data |-> uint8array]]

evt_sync_1 ==
  [sync_opened |-> [sync |-> uint16_t, adv_sid |-> uint8_t,
        address |-> bd_addr, address_type |-> uint8_t, adv_phy |-> uint8_t,
        adv_interval |-> uint16_t, clock_accuracy |-> uint16_t,
        bonding |-> uint8_t]]

evt_sync_2 ==
  [sync_transfer_received |-> [status |-> uint16_t, sync |-> uint16_t,
        service_data |-> uint16_t, connection |-> uint8_t, adv_sid |-> uint8_t,
        address |-> bd_addr, address_type |-> uint8_t, adv_phy |-> uint8_t,
        adv_interval |-> uint16_t, clock_accuracy |-> uint16_t,
        bonding |-> uint8_t]]

evt_sync_3 ==
  [sync_data |-> [sync |-> uint16_t, tx_power |-> int8_t, rssi |-> int8_t,
        data_status |-> uint8_t, data |-> uint8array]]

evt_sync_4 ==
  [sync_closed |-> [reason |-> uint16_t, sync |-> uint16_t]]

evt_connection_1 ==
  [connection_opened |-> [address |-> bd_addr, address_type |-> uint8_t,
        master |-> uint8_t, connection |-> uint8_t, bonding |-> uint8_t,
        advertiser |-> uint8_t]]

evt_connection_2 ==
  [connection_parameters |-> [connection |-> uint8_t, interval |-> uint16_t,
        latency |-> uint16_t, timeout |-> uint16_t, security_mode |-> uint8_t,
        txsize |-> uint16_t]]

evt_connection_3 ==
  [connection_phy_status |-> [connection |-> uint8_t, phy |-> uint8_t]]

evt_connection_4 ==
  [connection_rssi |-> [connection |-> uint8_t, status |-> uint8_t,
        rssi |-> int8_t]]

evt_connection_5 ==
  [connection_get_remote_tx_power_completed |-> [status |-> uint16_t,
        connection |-> uint8_t, phy |-> uint8_t, power_level |-> int8_t,
        flags |-> uint8_t, delta |-> int8_t]]

evt_connection_6 ==
  [connection_tx_power |-> [connection |-> uint8_t, phy |-> uint8_t,
        power_level |-> int8_t, flags |-> uint8_t, delta |-> int8_t]]

evt_connection_7 ==
  [connection_remote_tx_power |-> [connection |-> uint8_t, phy |-> uint8_t,
        power_level |-> int8_t, flags |-> uint8_t, delta |-> int8_t]]

evt_connection_8 ==
  [connection_closed |-> [reason |-> uint16_t, connection |-> uint8_t]]

evt_connection_9 ==
  [connection_remote_used_features |-> [connection |-> uint8_t,
        features |-> uint8array]]

evt_gatt_1 ==
  [gatt_mtu_exchanged |-> [connection |-> uint8_t, mtu |-> uint16_t]]

evt_gatt_2 ==
  [gatt_service |-> [connection |-> uint8_t, service |-> uint32_t,
        uuid |-> uint8array]]

evt_gatt_3 ==
  [gatt_characteristic |-> [connection |-> uint8_t,
        characteristic |-> uint16_t, properties |-> uint8_t,
        uuid |-> uint8array]]

evt_gatt_4 ==
  [gatt_descriptor |-> [connection |-> uint8_t, descriptor |-> uint16_t,
        uuid |-> uint8array]]

evt_gatt_5 ==
  [gatt_characteristic_value |-> [connection |-> uint8_t,
        characteristic |-> uint16_t, att_opcode |-> uint8_t,
        offset |-> uint16_t, value |-> uint8array]]

evt_gatt_6 ==
  [gatt_descriptor_value |-> [connection |-> uint8_t, descriptor |-> uint16_t,
        offset |-> uint16_t, value |-> uint8array]]

evt_gatt_7 ==
  [gatt_procedure_completed |-> [connection |-> uint8_t, result |-> uint16_t]]

evt_gatt_server_1 ==
  [gatt_server_attribute_value |-> [connection |-> uint8_t,
        attribute |-> uint16_t, att_opcode |-> uint8_t, offset |-> uint16_t,
        value |-> uint8array]]

evt_gatt_server_2 ==
  [gatt_server_user_read_request |-> [connection |-> uint8_t,
        characteristic |-> uint16_t, att_opcode |-> uint8_t,
        offset |-> uint16_t]]

evt_gatt_server_3 ==
  [gatt_server_user_write_request |-> [connection |-> uint8_t,
        characteristic |-> uint16_t, att_opcode |-> uint8_t,
        offset |-> uint16_t, value |-> uint8array]]

evt_gatt_server_4 ==
  [gatt_server_characteristic_status |-> [connection |-> uint8_t,
        characteristic |-> uint16_t, status_flags |-> uint8_t,
        client_config_flags |-> uint16_t, client_config |-> uint16_t]]

evt_gatt_server_5 ==
  [gatt_server_execute_write_completed |-> [connection |-> uint8_t,
        result |-> uint16_t]]

evt_gatt_server_6 ==
  [gatt_server_indication_timeout |-> [connection |-> uint8_t]]

evt_test ==
  [test_dtm_completed |-> [result |-> uint16_t,
        number_of_packets |-> uint16_t]]

evt_sm_1 ==
  [sm_passkey_display |-> [connection |-> uint8_t, passkey |-> uint32_t]]

evt_sm_2 ==
  [sm_passkey_request |-> [connection |-> uint8_t]]

evt_sm_3 ==
  [sm_confirm_passkey |-> [connection |-> uint8_t, passkey |-> uint32_t]]

evt_sm_4 ==
  [sm_bonded |-> [connection |-> uint8_t, bonding |-> uint8_t,
        security_mode |-> uint8_t]]

evt_sm_5 ==
  [sm_bonding_failed |-> [connection |-> uint8_t, reason |-> uint16_t]]

evt_sm_6 ==
  [sm_confirm_bonding |-> [connection |-> uint8_t, bonding_handle |-> uint8_t]]

evt_l2cap_1 ==
  [l2cap_le_channel_open_request |-> [connection |-> uint8_t,
        spsm |-> uint16_t, cid |-> uint16_t, max_sdu |-> uint16_t,
        max_pdu |-> uint16_t, credit |-> uint16_t]]

evt_l2cap_2 ==
  [l2cap_le_channel_open_response |-> [connection |-> uint8_t,
        cid |-> uint16_t, max_sdu |-> uint16_t, max_pdu |-> uint16_t,
        credit |-> uint16_t, errorcode |-> uint16_t]]

evt_l2cap_3 ==
  [l2cap_channel_data |-> [connection |-> uint8_t, cid |-> uint16_t,
        data |-> uint8array]]

evt_l2cap_4 ==
  [l2cap_channel_credit |-> [connection |-> uint8_t, cid |-> uint16_t,
        credit |-> uint16_t]]

evt_l2cap_5 ==
  [l2cap_channel_closed |-> [connection |-> uint8_t, cid |-> uint16_t,
        reason |-> uint16_t]]

evt_l2cap_6 ==
  [l2cap_command_rejected |-> [connection |-> uint8_t, code |-> uint8_t,
        reason |-> uint16_t]]

evt_cte_receiver_1 ==
  [cte_receiver_dtm_iq_report |-> [status |-> uint16_t, channel |-> uint8_t,
        rssi |-> int8_t, rssi_antenna_id |-> uint8_t, cte_type |-> uint8_t,
        slot_durations |-> uint8_t, event_counter |-> uint16_t,
        samples |-> uint8array]]

evt_cte_receiver_2 ==
  [cte_receiver_connection_iq_report |-> [status |-> uint16_t,
        connection |-> uint8_t, phy |-> uint8_t, channel |-> uint8_t,
        rssi |-> int8_t, rssi_antenna_id |-> uint8_t, cte_type |-> uint8_t,
        slot_durations |-> uint8_t, event_counter |-> uint16_t,
        samples |-> uint8array]]

evt_cte_receiver_3 ==
  [cte_receiver_connectionless_iq_report |-> [status |-> uint16_t,
        sync |-> uint16_t, channel |-> uint8_t, rssi |-> int8_t,
        rssi_antenna_id |-> uint8_t, cte_type |-> uint8_t,
        slot_durations |-> uint8_t, event_counter |-> uint16_t,
        samples |-> uint8array]]

evt_cte_receiver_4 ==
  [cte_receiver_silabs_iq_report |-> [status |-> uint16_t, address |-> bd_addr,
        address_type |-> uint8_t, phy |-> uint8_t, channel |-> uint8_t,
        rssi |-> int8_t, rssi_antenna_id |-> uint8_t, cte_type |-> uint8_t,
        slot_durations |-> uint8_t, packet_counter |-> uint16_t,
        samples |-> uint8array]]

evt_user ==
  [user_message_to_host |-> [message |-> uint8array]]

-----------------------------------------------------------------------------
(* All messages.  A command without a structure has no arguments, an event *)
(* without one no fields.                                                  *)
CommandLayout ==
  cmd_dfu @@ cmd_system @@ cmd_gap @@ cmd_advertiser_1 @@ cmd_advertiser_2
  @@ cmd_legacy_advertiser @@ cmd_extended_advertiser
  @@ cmd_periodic_advertiser @@ cmd_scanner @@ cmd_sync @@ cmd_past_receiver
  @@ cmd_advertiser_past @@ cmd_sync_past @@ cmd_connection @@ cmd_gatt_1
  @@ cmd_gatt_2 @@ cmd_gattdb_1 @@ cmd_gattdb_2 @@ cmd_gatt_server_1
  @@ cmd_gatt_server_2 @@ cmd_nvm @@ cmd_test @@ cmd_sm_1 @@ cmd_sm_2
  @@ cmd_ota @@ cmd_coex @@ cmd_l2cap @@ cmd_cte_transmitter
  @@ cmd_cte_receiver @@ cmd_user

ResponseLayout ==
  rsp_dfu @@ rsp_system @@ rsp_gap @@ rsp_advertiser @@ rsp_legacy_advertiser
  @@ rsp_extended_advertiser @@ rsp_periodic_advertiser @@ rsp_scanner
  @@ rsp_sync @@ rsp_past_receiver @@ rsp_advertiser_past @@ rsp_sync_past
  @@ rsp_connection @@ rsp_gatt_1 @@ rsp_gatt_2 @@ rsp_gattdb
  @@ rsp_gatt_server @@ rsp_nvm @@ rsp_test @@ rsp_sm_1 @@ rsp_sm_2 @@ rsp_ota
  @@ rsp_coex @@ rsp_l2cap @@ rsp_cte_transmitter @@ rsp_cte_receiver
  @@ rsp_user

EventLayout ==
  evt_dfu_1 @@ evt_dfu_2 @@ evt_system_1 @@ evt_system_2 @@ evt_system_3
  @@ evt_system_4 @@ evt_system_5 @@ evt_advertiser_1 @@ evt_advertiser_2
  @@ evt_periodic_advertiser @@ evt_scanner_1 @@ evt_scanner_2 @@ evt_scanner_3
  @@ evt_sync_1 @@ evt_sync_2 @@ evt_sync_3 @@ evt_sync_4 @@ evt_connection_1
  @@ evt_connection_2 @@ evt_connection_3 @@ evt_connection_4
  @@ evt_connection_5 @@ evt_connection_6 @@ evt_connection_7
  @@ evt_connection_8 @@ evt_connection_9 @@ evt_gatt_1 @@ evt_gatt_2
  @@ evt_gatt_3 @@ evt_gatt_4 @@ evt_gatt_5 @@ evt_gatt_6 @@ evt_gatt_7
  @@ evt_gatt_server_1 @@ evt_gatt_server_2 @@ evt_gatt_server_3
  @@ evt_gatt_server_4 @@ evt_gatt_server_5 @@ evt_gatt_server_6 @@ evt_test
  @@ evt_sm_1 @@ evt_sm_2 @@ evt_sm_3 @@ evt_sm_4 @@ evt_sm_5 @@ evt_sm_6
  @@ evt_l2cap_1 @@ evt_l2cap_2 @@ evt_l2cap_3 @@ evt_l2cap_4 @@ evt_l2cap_5
  @@ evt_l2cap_6 @@ evt_cte_receiver_1 @@ evt_cte_receiver_2
  @@ evt_cte_receiver_3 @@ evt_cte_receiver_4 @@ evt_user
=============================================================================
