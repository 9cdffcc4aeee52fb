-------------------------------- MODULE Bgapi --------------------------------
(***************************************************************************)
(* What happens to the bytes of a BGAPI message between the caller of a    *)
(* command function and the Bluetooth module, on hosts of either byte      *)
(* order.  The command function reverses its arguments, sends and reverses *)
(* response fields; sl_bt_host_handle_command reverses the header; the     *)
(* driver reverses the header and the payload of what it reads.  Together  *)
(* they have to reverse every number exactly once on a big-endian host,    *)
(* and never on a little-endian one.                                       *)
(*                                                                         *)
(* One command, or one event, is followed from its call to its end: what   *)
(* calls leave behind for each other is the subject of NcpLink.  A field   *)
(* is its byte order: "le", "be", "bytes" for a byte string, or "garbled". *)
(* A header is the four bytes of its value, least significant first.       *)
(***************************************************************************)
EXTENDS BgapiLayouts, BgapiGattCommands, BgapiReversal, SequencesExt

CONSTANT DataSizes   (* lengths of the array argument of a command *)

MAX_PAYLOAD_SIZE == 256
NoMessage == [header |-> <<0, 0, 0, 0>>, fields |-> Nothing, bytes |-> 0]

ASSUME DataSizesAssumption == DataSizes \subseteq Nat

VARIABLES
  big,      (* ENDIAN: the host is big-endian                              *)
  pc,       (* where the calling thread is                                 *)
  call,     (* the command called                                          *)
  length,   (* length of its array argument                                *)
  cmdMsg,   (* sl_bt_cmd_msg                                               *)
  wire,     (* the message in the UART                                     *)
  dpc,      (* where the driver thread is                                  *)
  name,     (* the name of the message the module sent last                *)
  rspMsg,   (* sl_bt_rsp_msg, or the ring slot of an event                 *)
  got       (* what the caller received                                    *)

vars == <<big, pc, call, length, cmdMsg, wire, dpc, name, rspMsg, got>>
-----------------------------------------------------------------------------
(* Fields and byte orders.                                                 *)

HasOrder(type) == type.number /\ type.width > 1

(* A payload as the module sends and expects it, and as the C code of the  *)
(* host reads and writes it.                                               *)
OnWire(layout) ==
  [f \in DOMAIN layout |-> IF HasOrder(layout[f]) THEN "le" ELSE "bytes"]
InHost(layout) ==
  [f \in DOMAIN layout |-> IF HasOrder(layout[f])
                             THEN IF big THEN "be" ELSE "le"
                             ELSE "bytes"]

(* reverse_endian over n bytes of a field of the given type. *)
Reverse_endian(order, type, n) ==
  IF n # type.width THEN "garbled"
  ELSE CASE order = "le" -> "be" [] order = "be" -> "le" [] OTHER -> "garbled"

(* if(ENDIAN) reverse_endian(...) for each of the fields in swaps. *)
ReverseFields(fields, layout, swaps) ==
  [f \in DOMAIN fields |->
     IF big /\ f \in DOMAIN swaps
       THEN Reverse_endian(fields[f], layout[f], swaps[f])
       ELSE fields[f]]

LayoutOf(layouts, n) == IF n \in DOMAIN layouts THEN layouts[n] ELSE Nothing
SwapsOf(table, n) == IF n \in DOMAIN table THEN table[n] ELSE Nothing

Widths(layout) == FoldSet(LAMBDA f, sum : sum + layout[f].width, 0,
                          DOMAIN layout)
HasArray(layout) == \E f \in DOMAIN layout : layout[f].array
-----------------------------------------------------------------------------
(* Headers: SL_BGAPI_MSG_ID, SL_BGAPI_MSG_LEN and the sum that the command *)
(* functions write.                                                        *)

MsgIdWithLength(h) == <<h[1], h[3], h[4]>>                 \* mutant of MsgId
MsgId(h) == <<(h[1] \div 8) * 8, h[3], h[4]>>

MsgLen(h) == (h[1] % 8) * 256 + h[2]

Header(kind, class, method, len) ==
  <<kind + (len % 2048) \div 256, len % 256, class, method>>

ReverseHeader(h) == IF big THEN Reverse(h) ELSE h

(* The bytes of a header in memory, and the header that bytes make. *)
Memory(h) == ReverseHeader(h)
-----------------------------------------------------------------------------
(* The calling thread.                                                     *)

TooLong(c, n) == c.data # None /\ c.size + n > MAX_PAYLOAD_SIZE

(* A command function fills sl_bt_cmd_msg, unless its array is too long. *)
Call(c, n) ==
  /\ pc = "idle"
  /\ c.data = None => n = 0
  /\ call' = c
  /\ length' = n
  /\ IF TooLong(c, n)
       THEN pc' = "refused" /\ UNCHANGED cmdMsg
       ELSE LET layout == LayoutOf(CommandLayout, c.name) IN
            /\ cmdMsg' =
                 [header |-> Header(32, c.class, c.method, c.size + n),
                  fields |-> ReverseFields(InHost(layout), layout, c.swaps),
                  bytes  |-> Widths(layout) + n]
            /\ pc' = "filled"
  /\ UNCHANGED <<big, wire, dpc, name, rspMsg, got>>

(* sl_bt_host_handle_command: as many bytes go out as the header says.     *)
(* The header is reversed where it is, in sl_bt_cmd_msg.                   *)
Send ==
  /\ pc = "filled"
  /\ cmdMsg' = [cmdMsg EXCEPT !.header = ReverseHeader(@)]
  /\ rspMsg' = [rspMsg EXCEPT !.header = IF call.answered THEN <<0, 0, 0, 0>>
                                                          ELSE @]
  /\ wire' = [header |-> Memory(ReverseHeader(cmdMsg.header)),
              fields |-> cmdMsg.fields,
              bytes  |-> MsgLen(cmdMsg.header)]
  /\ pc' = IF call.answered THEN "peek" ELSE "done"
  /\ dpc' = "module"
  /\ UNCHANGED <<big, call, length, name, got>>

(* rx_peek_timeout compares the header it sent with the one received. *)
PeekMatch ==
  /\ pc = "peek"
  /\ MsgId(cmdMsg.header) = MsgId(rspMsg.header)
  /\ pc' = "collect"
  /\ UNCHANGED <<big, call, length, cmdMsg, wire, dpc, name, rspMsg, got>>

PeekTimeout ==
  /\ pc = "peek"
  /\ pc' = "collect"
  /\ UNCHANGED <<big, call, length, cmdMsg, wire, dpc, name, rspMsg, got>>

(* The rest of the command function: fields are reversed and returned. *)
Collect ==
  /\ pc = "collect"
  /\ LET layout == LayoutOf(ResponseLayout, call.name)
         fields == IF dpc = "read"
                     THEN ReverseFields(rspMsg.fields, layout, call.unswaps)
                     ELSE Nothing
     IN got' = [complete |-> dpc = "read", fields |-> fields]
  /\ pc' = "done"
  /\ UNCHANGED <<big, call, length, cmdMsg, wire, dpc, name, rspMsg>>
-----------------------------------------------------------------------------
(* The module (external) answers a command it understands, with an array   *)
(* as long as fits, or sends an event.                                     *)

Payloads(layout) ==
  {Widths(layout)} \cup (IF HasArray(layout) THEN {MAX_PAYLOAD_SIZE} ELSE {})

Answer ==
  /\ dpc = "module"
  /\ call.answered
  /\ wire.header = Header(32, call.class, call.method, wire.bytes)
  /\ LET layout == LayoutOf(ResponseLayout, call.name) IN
     \E len \in Payloads(layout) :
       wire' = [header |-> Header(32, call.class, call.method, len),
                fields |-> OnWire(layout),
                bytes  |-> len]
  /\ name' = call.name
  /\ dpc' = "answer"
  /\ UNCHANGED <<big, pc, call, length, cmdMsg, rspMsg, got>>

(* The class and the method of an event take no part in its reversal. *)
Event(e) ==
  /\ pc = "idle"
  /\ dpc = "idle"
  /\ \E len \in Payloads(EventLayout[e]) :
       wire' = [header |-> Header(160, 0, 0, len),
                fields |-> OnWire(EventLayout[e]),
                bytes  |-> len]
  /\ name' = e
  /\ pc' = "done"
  /\ dpc' = "event"
  /\ UNCHANGED <<big, call, length, cmdMsg, rspMsg, got>>
-----------------------------------------------------------------------------
(* The driver thread: gecko_wait_message.                                  *)

(* The header as it is after the read and its reversal. *)
HeaderRead == ReverseHeader(Memory(wire.header))

DriverHeader ==
  /\ dpc \in {"answer", "event"}
  /\ MsgLen(HeaderRead) <= MAX_PAYLOAD_SIZE
  /\ rspMsg' = [rspMsg EXCEPT !.header = HeaderRead]
  /\ dpc' = IF dpc = "event" THEN "eventPayload" ELSE "answerPayload"
  /\ UNCHANGED <<big, pc, call, length, cmdMsg, wire, name, got>>

(* The payload is read, and reversed by the case of its message. *)
DriverPayload ==
  /\ dpc \in {"answerPayload", "eventPayload"}
  /\ LET layout == LayoutOf(IF dpc = "eventPayload" THEN EventLayout
                                                    ELSE ResponseLayout, name)
         table  == IF dpc = "eventPayload" THEN reverse_evt_payload
                                           ELSE reverse_rsp_payload
         swaps  == SwapsOf(table, name)
     IN rspMsg' = [rspMsg EXCEPT
                     !.fields = ReverseFields(wire.fields, layout, swaps),
                     !.bytes  = MsgLen(rspMsg.header)]
  /\ dpc' = IF dpc = "eventPayload" THEN "eventRead" ELSE "read"
  /\ UNCHANGED <<big, pc, call, length, cmdMsg, wire, name, got>>
-----------------------------------------------------------------------------
Init ==
  /\ big \in BOOLEAN
  /\ pc = "idle" /\ dpc = "idle"
  /\ call = sl_bt_system_hello /\ length = 0 /\ name = None
  /\ cmdMsg = NoMessage /\ wire = NoMessage /\ rspMsg = NoMessage
  /\ got = [complete |-> FALSE, fields |-> Nothing]

Next ==
  \/ \E c \in HostCommands, n \in DataSizes : Call(c, n)
  \/ Send \/ PeekMatch \/ PeekTimeout \/ Collect
  \/ Answer \/ \E e \in DOMAIN EventLayout : Event(e)
  \/ DriverHeader \/ DriverPayload

Spec == Init /\ [][Next]_vars
-----------------------------------------------------------------------------
(* Every command reaches the module as its caller meant it, on both kinds  *)
(* of host: each numeric argument in the byte order of the wire, each byte *)
(* string as it was.  The header names the command and counts exactly the  *)
(* bytes of its payload, up to the limit of 256, and the length of an      *)
(* array fits its length field.                                            *)
CommandArrives ==
  dpc = "module" =>
    LET layout == LayoutOf(CommandLayout, call.name) IN
    /\ wire.fields = OnWire(layout)
    /\ wire.header = Header(32, call.class, call.method, wire.bytes)
    /\ wire.bytes = Widths(layout) + length
    /\ MsgLen(wire.header) = wire.bytes
    /\ (call.data # None) <=> HasArray(layout)
    /\ call.data # None =>
         length < (IF layout[call.data].width = 1 THEN 256 ELSE 65536)

(* Fields of responses that reverse_rev_payload and the command function   *)
(* both reverse, or neither of them.                                       *)
ReversedTwice == {
  <<"sync_open", "sync">>,
  <<"gatt_write_characteristic_value_without_response", "sent_len">>,
  <<"gattdb_new_session", "session">>, <<"gattdb_add_service", "service">>,
  <<"gattdb_add_uuid16_characteristic", "characteristic">>,
  <<"gattdb_add_uuid128_characteristic", "characteristic">>,
  <<"gattdb_add_uuid16_descriptor", "descriptor">>,
  <<"gattdb_add_uuid128_descriptor", "descriptor">>,
  <<"gatt_server_find_attribute", "attribute">>}
NeverReversed ==
  {"system_get_version"} \X
  {"major", "minor", "patch", "build", "bootloader", "hash"}

(* An answer that was read in time reaches the caller field by field as    *)
(* the module sent it: always on a little-endian host; on a big-endian one *)
(* except for exactly the fields above, which come out reversed.           *)
ResultsArrive ==
  got.complete =>
    LET layout == LayoutOf(ResponseLayout, call.name) IN
    \A f \in DOMAIN layout :
      got.fields[f] = InHost(layout)[f] <=>
        ~(big /\ <<call.name, f>> \in ReversedTwice \cup NeverReversed)

(* Every event the driver hands on has its numbers in the order of the     *)
(* host, and its length survives the header.                               *)
EventsArrive ==
  dpc = "eventRead" =>
    /\ rspMsg.fields = InHost(EventLayout[name])
    /\ rspMsg.bytes = wire.bytes

(* A caller recognises the answer to its command once the driver has read  *)
(* it: always on a little-endian host.  On a big-endian host never: the    *)
(* header it compares with was reversed for sending and is never reversed  *)
(* back, so every command waits until its time is up.                      *)
AnswerRecognised ==
  pc = "peek" /\ dpc = "read" =>
    (MsgId(cmdMsg.header) = MsgId(rspMsg.header) <=> ~big)
=============================================================================
