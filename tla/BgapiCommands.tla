---------------------------- MODULE BgapiCommands ----------------------------
(***************************************************************************)
(* The command functions of the host (sl_bt_ncp_host_api.c), up to those   *)
(* for connections; BgapiGattCommands has the others.                      *)
(*                                                                         *)
(* All command functions have one form, written here as a record:          *)
(*   name, class, method  the message the header names                     *)
(*   size     length of the payload without the data of an array           *)
(*   swaps    arguments reversed under if(ENDIAN), each with the number of *)
(*            bytes handed to reverse_endian                               *)
(*   data     the array argument, copied after the check of its length     *)
(*   unswaps  response fields reversed under if(ENDIAN) once the response  *)
(*            is there, before they are returned                           *)
(*   answered whether the function waits for a response                    *)
(***************************************************************************)
EXTENDS BgapiLayouts

None == "none"

Command(name, class, method, size, swaps, data, unswaps) ==
  [name |-> name, class |-> class, method |-> method, size |-> size,
   swaps |-> swaps, data |-> data, unswaps |-> unswaps, answered |-> TRUE]
Unanswered(name, class, method, size, swaps, data, unswaps) ==
  [Command(name, class, method, size, swaps, data, unswaps)
     EXCEPT !.answered = FALSE]
-----------------------------------------------------------------------------
sl_bt_dfu_reset == Unanswered("dfu_reset", 0, 0, 1, Nothing, None, Nothing)
sl_bt_dfu_flash_set_address ==
  Command("dfu_flash_set_address", 0, 1, 4, [address |-> 4], None, Nothing)
sl_bt_dfu_flash_upload ==
  Command("dfu_flash_upload", 0, 2, 1, Nothing, "data", Nothing)
sl_bt_dfu_flash_upload_finish ==
  Command("dfu_flash_upload_finish", 0, 3, 0, Nothing, None, Nothing)
sl_bt_system_hello ==
  Command("system_hello", 1, 0, 0, Nothing, None, Nothing)
sl_bt_system_start_bluetooth ==
  Command("system_start_bluetooth", 1, 28, 0, Nothing, None, Nothing)
sl_bt_system_stop_bluetooth ==
  Command("system_stop_bluetooth", 1, 29, 0, Nothing, None, Nothing)
sl_bt_system_get_version ==
  Command("system_get_version", 1, 27, 0, Nothing, None, Nothing)
sl_bt_system_reset ==
  Unanswered("system_reset", 1, 1, 1, Nothing, None, Nothing)
sl_bt_system_halt == Command("system_halt", 1, 12, 1, Nothing, None, Nothing)
sl_bt_system_linklayer_configure ==
  Command("system_linklayer_configure", 1, 14, 2, Nothing, "data", Nothing)
sl_bt_system_set_tx_power ==
  Command("system_set_tx_power", 1, 23, 4, [min_power |-> 2,
      max_power |-> 2], None, [set_min |-> 2, set_max |-> 2])
sl_bt_system_get_tx_power_setting ==
  Command("system_get_tx_power_setting", 1, 24, 0, Nothing, None,
      [support_min |-> 2, support_max |-> 2, set_min |-> 2, set_max |-> 2,
      rf_path_gain |-> 2])
sl_bt_system_set_identity_address ==
  Command("system_set_identity_address", 1, 19, 7, Nothing, None, Nothing)
sl_bt_system_get_identity_address ==
  Command("system_get_identity_address", 1, 21, 0, Nothing, None, Nothing)
sl_bt_system_get_random_data ==
  Command("system_get_random_data", 1, 11, 1, Nothing, None, Nothing)
sl_bt_system_data_buffer_write ==
  Command("system_data_buffer_write", 1, 18, 1, Nothing, "data", Nothing)
sl_bt_system_data_buffer_clear ==
  Command("system_data_buffer_clear", 1, 20, 0, Nothing, None, Nothing)
sl_bt_system_get_counters ==
  Command("system_get_counters", 1, 15, 1, Nothing, None,
      [tx_packets |-> 2, rx_packets |-> 2, crc_errors |-> 2, failures |-> 2])
sl_bt_system_set_lazy_soft_timer ==
  Command("system_set_lazy_soft_timer", 1, 26, 10, [time |-> 4,
      slack |-> 4], None, Nothing)
sl_bt_gap_set_privacy_mode ==
  Command("gap_set_privacy_mode", 2, 1, 2, Nothing, None, Nothing)
sl_bt_gap_set_data_channel_classification ==
  Command("gap_set_data_channel_classification", 2, 2, 1, Nothing,
      "channel_map", Nothing)
sl_bt_gap_enable_whitelisting ==
  Command("gap_enable_whitelisting", 2, 3, 1, Nothing, None, Nothing)
sl_bt_advertiser_create_set ==
  Command("advertiser_create_set", 4, 1, 0, Nothing, None, Nothing)
sl_bt_advertiser_configure ==
  Command("advertiser_configure", 4, 18, 5, [flags |-> 4], None, Nothing)
sl_bt_advertiser_set_timing ==
  Command("advertiser_set_timing", 4, 3, 12, [interval_min |-> 4,
      interval_max |-> 4, duration |-> 2], None, Nothing)
sl_bt_advertiser_set_channel_map ==
  Command("advertiser_set_channel_map", 4, 4, 2, Nothing, None, Nothing)
sl_bt_advertiser_set_tx_power ==
  Command("advertiser_set_tx_power", 4, 11, 3, [power |-> 2], None,
      [set_power |-> 2])
sl_bt_advertiser_set_report_scan_request ==
  Command("advertiser_set_report_scan_request", 4, 5, 2, Nothing, None,
      Nothing)
sl_bt_advertiser_set_random_address ==
  Command("advertiser_set_random_address", 4, 16, 8, Nothing, None, Nothing)
sl_bt_advertiser_clear_random_address ==
  Command("advertiser_clear_random_address", 4, 17, 1, Nothing, None, Nothing)
sl_bt_advertiser_stop ==
  Command("advertiser_stop", 4, 10, 1, Nothing, None, Nothing)
sl_bt_advertiser_delete_set ==
  Command("advertiser_delete_set", 4, 2, 1, Nothing, None, Nothing)
sl_bt_advertiser_set_phy ==
  Command("advertiser_set_phy", 4, 6, 3, Nothing, None, Nothing)
sl_bt_advertiser_set_configuration ==
  Command("advertiser_set_configuration", 4, 7, 5, [configurations |-> 4],
      None, Nothing)
sl_bt_advertiser_clear_configuration ==
  Command("advertiser_clear_configuration", 4, 8, 5,
      [configurations |-> 4], None, Nothing)
sl_bt_advertiser_set_data ==
  Command("advertiser_set_data", 4, 15, 3, Nothing, "adv_data", Nothing)
sl_bt_advertiser_set_long_data ==
  Command("advertiser_set_long_data", 4, 14, 2, Nothing, None, Nothing)
sl_bt_advertiser_start ==
  Command("advertiser_start", 4, 9, 3, Nothing, None, Nothing)
sl_bt_advertiser_start_periodic_advertising ==
  Command("advertiser_start_periodic_advertising", 4, 12, 9,
      [interval_min |-> 2, interval_max |-> 2, flags |-> 4], None, Nothing)
sl_bt_advertiser_stop_periodic_advertising ==
  Command("advertiser_stop_periodic_advertising", 4, 13, 1, Nothing, None,
      Nothing)
sl_bt_legacy_advertiser_set_data ==
  Command("legacy_advertiser_set_data", 86, 0, 3, Nothing, "data", Nothing)
sl_bt_legacy_advertiser_generate_data ==
  Command("legacy_advertiser_generate_data", 86, 1, 2, Nothing, None, Nothing)
sl_bt_legacy_advertiser_start ==
  Command("legacy_advertiser_start", 86, 2, 2, Nothing, None, Nothing)
sl_bt_legacy_advertiser_start_directed ==
  Command("legacy_advertiser_start_directed", 86, 3, 9, Nothing, None, Nothing)
sl_bt_extended_advertiser_set_phy ==
  Command("extended_advertiser_set_phy", 87, 0, 3, Nothing, None, Nothing)
sl_bt_extended_advertiser_set_data ==
  Command("extended_advertiser_set_data", 87, 1, 2, Nothing, "data", Nothing)
sl_bt_extended_advertiser_set_long_data ==
  Command("extended_advertiser_set_long_data", 87, 2, 1, Nothing, None,
      Nothing)
sl_bt_extended_advertiser_generate_data ==
  Command("extended_advertiser_generate_data", 87, 3, 2, Nothing, None,
      Nothing)
sl_bt_extended_advertiser_start ==
  Command("extended_advertiser_start", 87, 4, 6, [flags |-> 4], None, Nothing)
sl_bt_extended_advertiser_start_directed ==
  Command("extended_advertiser_start_directed", 87, 5, 13, [flags |-> 4],
      None, Nothing)
sl_bt_periodic_advertiser_set_data ==
  Command("periodic_advertiser_set_data", 88, 0, 2, Nothing, "data", Nothing)
sl_bt_periodic_advertiser_set_long_data ==
  Command("periodic_advertiser_set_long_data", 88, 1, 1, Nothing, None,
      Nothing)
sl_bt_periodic_advertiser_start ==
  Command("periodic_advertiser_start", 88, 2, 9, [interval_min |-> 2,
      interval_max |-> 2, flags |-> 4], None, Nothing)
sl_bt_periodic_advertiser_stop ==
  Command("periodic_advertiser_stop", 88, 3, 1, Nothing, None, Nothing)
sl_bt_scanner_set_parameters ==
  Command("scanner_set_parameters", 5, 6, 5, [interval |-> 2,
      window |-> 2], None, Nothing)
sl_bt_scanner_stop ==
  Command("scanner_stop", 5, 5, 0, Nothing, None, Nothing)
sl_bt_scanner_set_timing ==
  Command("scanner_set_timing", 5, 1, 5, [scan_interval |-> 2,
      scan_window |-> 2], None, Nothing)
sl_bt_scanner_set_mode ==
  Command("scanner_set_mode", 5, 2, 2, Nothing, None, Nothing)
sl_bt_scanner_start ==
  Command("scanner_start", 5, 3, 2, Nothing, None, Nothing)
sl_bt_sync_set_parameters ==
  Command("sync_set_parameters", 66, 2, 8, [skip |-> 2, timeout |-> 2,
      flags |-> 4], None, Nothing)
sl_bt_sync_open ==
  Command("sync_open", 66, 0, 8, Nothing, None, [sync |-> 2])
sl_bt_sync_set_reporting_mode ==
  Command("sync_set_reporting_mode", 66, 3, 3, [sync |-> 2], None, Nothing)
sl_bt_sync_close ==
  Command("sync_close", 66, 1, 2, [sync |-> 2], None, Nothing)
sl_bt_past_receiver_set_default_sync_receive_parameters ==
  Command("past_receiver_set_default_sync_receive_parameters", 81, 0, 6,
      [skip |-> 2, timeout |-> 2], None, Nothing)
sl_bt_past_receiver_set_sync_receive_parameters ==
  Command("past_receiver_set_sync_receive_parameters", 81, 1, 7,
      [skip |-> 2, timeout |-> 2], None, Nothing)
sl_bt_advertiser_past_transfer ==
  Command("advertiser_past_transfer", 82, 0, 4, [service_data |-> 2],
      None, Nothing)
sl_bt_sync_past_transfer ==
  Command("sync_past_transfer", 91, 0, 5, [service_data |-> 2,
      sync |-> 2], None, Nothing)
sl_bt_connection_set_default_parameters ==
  Command("connection_set_default_parameters", 6, 0, 12,
      [min_interval |-> 2, max_interval |-> 2, latency |-> 2, timeout |-> 2,
      min_ce_length |-> 2, max_ce_length |-> 2], None, Nothing)
sl_bt_connection_set_default_preferred_phy ==
  Command("connection_set_default_preferred_phy", 6, 1, 2, Nothing, None,
      Nothing)
sl_bt_connection_open ==
  Command("connection_open", 6, 4, 8, Nothing, None, Nothing)
sl_bt_connection_set_parameters ==
  Command("connection_set_parameters", 6, 6, 13, [min_interval |-> 2,
      max_interval |-> 2, latency |-> 2, timeout |-> 2, min_ce_length |-> 2,
      max_ce_length |-> 2], None, Nothing)
sl_bt_connection_set_preferred_phy ==
  Command("connection_set_preferred_phy", 6, 8, 3, Nothing, None, Nothing)
sl_bt_connection_disable_slave_latency ==
  Command("connection_disable_slave_latency", 6, 3, 2, Nothing, None, Nothing)
sl_bt_connection_get_rssi ==
  Command("connection_get_rssi", 6, 2, 1, Nothing, None, Nothing)
sl_bt_connection_read_channel_map ==
  Command("connection_read_channel_map", 6, 7, 1, Nothing, None, Nothing)
sl_bt_connection_set_power_reporting ==
  Command("connection_set_power_reporting", 6, 9, 2, Nothing, None, Nothing)
sl_bt_connection_set_remote_power_reporting ==
  Command("connection_set_remote_power_reporting", 6, 10, 2, Nothing,
      None, Nothing)
sl_bt_connection_get_tx_power ==
  Command("connection_get_tx_power", 6, 11, 2, Nothing, None, Nothing)
sl_bt_connection_get_remote_tx_power ==
  Command("connection_get_remote_tx_power", 6, 12, 2, Nothing, None, Nothing)
sl_bt_connection_close ==
  Command("connection_close", 6, 5, 1, Nothing, None, Nothing)
sl_bt_connection_read_remote_used_features ==
  Command("connection_read_remote_used_features", 6, 13, 1, Nothing, None,
      Nothing)
sl_bt_connection_get_security_status ==
  Command("connection_get_security_status", 6, 14, 1, Nothing, None, Nothing)
=============================================================================
