---------------------------- MODULE GattDiscovery ----------------------------
(***************************************************************************)
(* The API calls that wait for an event (silabs_ble_get_service,           *)
(* silabs_ble_get_char, silabs_ble_get_rssi with wait_rsp_evt of           *)
(* silabs_msg.c) against the driver thread, which produces what they wait  *)
(* for.  There is no condition variable: the caller polls the global evt,  *)
(* the packet the driver handles at this moment, and takes the records the *)
(* driver has put into special_evt so far.  evt and special_evt_num are    *)
(* written by both threads without a lock.                                 *)
(*                                                                         *)
(* Commands are answered in time here; what happens when they are not is   *)
(* the subject of NcpLink.                                                 *)
(***************************************************************************)
EXTENDS Naturals, Sequences, SequencesExt

CONSTANTS
  Conns,      (* established connections                                   *)
  Founds,     (* numbers of records a discovery may find                   *)
  SpecialMax, (* SPE_EVT_MAX, entries of special_evt                       *)
  ListMax,    (* LIST_LENGTHE_MAX, entries of the caller's list            *)
  MaxOther,   (* bound: other events of the module                         *)
  MaxCalls    (* bound: API calls                                          *)

ASSUME BoundsAssumption ==
  /\ Founds \subseteq Nat /\ MaxOther \in Nat /\ MaxCalls \in Nat
  /\ SpecialMax \in Nat /\ ListMax \in Nat

VARIABLES
  proc,     (* the module: the GATT procedure running on each connection   *)
  others,   (* number of other events emitted                              *)
  queue,    (* packets from the module the driver has not taken            *)
  dpc,      (* where the driver thread is, "lost" after a write behind an  *)
            (* array                                                       *)
  evt,      (* the packet it handles (global evt)                          *)
  index,    (* special_evt_num as the driver read it                       *)
  special,  (* special_evt                                                 *)
  num,      (* special_evt_num                                             *)
  answered, (* the response to the command is in the response buffer       *)
  apc,      (* where the API call is                                       *)
  op,       (* what it does                                                *)
  len,      (* list_len of the caller's list                               *)
  list,     (* the entries of the caller's list                            *)
  result,   (* the outcome of the last call                                *)
  spent,    (* completed events that ended a successful discovery          *)
  calm      (* no wait ended without its event, no unwaited procedure and  *)
            (* no write behind an array yet                                *)

moduleVars == <<proc, others>>
driverVars == <<dpc, evt, index, special>>
callVars   == <<apc, op, len, list, result, spent>>
vars == <<moduleVars, queue, driverVars, num, answered, callVars, calm>>

Discoveries == {"service", "char"}        \* silabs_ble_get_service, _get_char
Ops == Discoveries \cup {"rssi", "read"}
Kinds == Discoveries \cup {"rssi", "completed", "response", "other", "none"}
NoConn == "none"
Packet == [kind : Kinds, conn : Conns \cup {NoConn}, call : Nat, n : Nat]
NoPacket == [kind |-> "none", conn |-> NoConn, call |-> 0, n |-> 0]
NoProc == [op |-> "none", call |-> 0, found |-> 0, sent |-> 0]
Hole == NoPacket                          \* an entry the copy does not fill
-----------------------------------------------------------------------------
(* The module (external): at most one GATT procedure on a connection, its  *)
(* records first, then the completed event.                                *)

Pkt(kind, c, call, n) == [kind |-> kind, conn |-> c, call |-> call, n |-> n]
Emit(p) == queue' = Append(queue, p)

ReportRecord(c) ==
  /\ proc[c].op \in Discoveries
  /\ proc[c].sent < proc[c].found
  /\ proc' = [proc EXCEPT ![c].sent = @ + 1]
  /\ Emit(Pkt(proc[c].op, c, proc[c].call, proc[c].sent + 1))
  /\ UNCHANGED <<others, driverVars, num, answered, callVars, calm>>

ReportCompleted(c) ==
  /\ proc[c].op # "none"
  /\ proc[c].sent = proc[c].found
  /\ proc' = [proc EXCEPT ![c] = NoProc]
  /\ Emit(Pkt(IF proc[c].op = "rssi" THEN "rssi" ELSE "completed", c,
              proc[c].call, proc[c].found))
  /\ UNCHANGED <<others, driverVars, num, answered, callVars, calm>>

ReportOther ==
  /\ others < MaxOther
  /\ others' = others + 1
  /\ Emit(Pkt("other", NoConn, 0, 0))
  /\ UNCHANGED <<proc, driverVars, num, answered, callVars, calm>>

Module ==
  \/ \E c \in Conns : ReportRecord(c) \/ ReportCompleted(c)
  \/ ReportOther
-----------------------------------------------------------------------------
(* The driver thread.                                                      *)

(* A response is complete in its buffer ...                                *)
ReadResponse ==
  /\ dpc = "take"
  /\ queue # <<>> /\ Head(queue).kind = "response"
  /\ answered' = TRUE
  /\ dpc' = "response"
  /\ UNCHANGED <<moduleVars, queue, evt, index, special, num, callVars, calm>>

(* ... before it becomes the packet handled.                               *)
TakePacket ==
  /\ \/ dpc = "response"
     \/ dpc = "take" /\ queue # <<>> /\ Head(queue).kind # "response"
  /\ evt' = Head(queue)
  /\ queue' = Tail(queue)
  /\ dpc' = "handle"
  /\ UNCHANGED <<moduleVars, index, special, num, answered, callVars, calm>>

(* silabs_event_handler: records are kept (header and payload in one step: *)
(* only records nobody waits for could be torn by a reset of the count) ... *)
SlotSkipped == num + 2                       \* mutant of Slot
Slot == num + 1
StoreRecord ==
  /\ dpc = "handle"
  /\ evt.kind \in Discoveries
  /\ Slot <= SpecialMax
  /\ special' = [special EXCEPT ![Slot] = evt]
  /\ index' = num
  /\ dpc' = "count"
  /\ UNCHANGED <<moduleVars, queue, evt, num, answered, callVars, calm>>

(* ... and counted.  special_evt_num++ races with the caller's reset: it   *)
(* may use the value read before.                                          *)
Counted == {num + 1, index + 1}
CountRecord ==
  /\ dpc = "count"
  /\ num' \in Counted
  /\ dpc' = "take"
  /\ UNCHANGED <<moduleVars, queue, evt, index, special, answered, callVars, calm>>

(* Everything else, and a packet whose header the caller has cleared.      *)
PassPacket ==
  /\ dpc = "handle"
  /\ evt.kind \notin Discoveries
  /\ dpc' = "take"
  /\ UNCHANGED <<moduleVars, queue, evt, index, special, num, answered, callVars, calm>>

Driver == ReadResponse \/ TakePacket \/ StoreRecord \/ CountRecord \/ PassPacket
-----------------------------------------------------------------------------
(* The API call, one at a time under _ble_mutex.                           *)

Return(outcome) ==
  /\ apc' = "idle"
  /\ result' = [no |-> op.no, op |-> op.op, outcome |-> outcome,
                found |-> op.found]

(* The command.  The module refuses a second procedure on a connection.    *)
CallOp(kind, c) ==
  /\ apc = "idle" /\ op.no < MaxCalls
  /\ \E found \in IF kind \in Discoveries THEN Founds ELSE {0} :
       LET no == op.no + 1
           accepted == proc[c].op = "none"
       IN  /\ op' = [op |-> kind, conn |-> c, no |-> no, found |-> found,
                     accepted |-> accepted]
           /\ proc' = IF accepted
                        THEN [proc EXCEPT ![c] = [op |-> kind, call |-> no,
                                                  found |-> found, sent |-> 0]]
                        ELSE proc
           /\ Emit(Pkt("response", c, no, 0))
  /\ answered' = FALSE
  /\ apc' = "sent"
  /\ calm' = (calm /\ kind # "read")
  /\ UNCHANGED <<others, driverVars, num, len, list, result, spent>>

(* A refused command is an error, an accepted read needs nothing more.     *)
Refused ==
  /\ apc = "sent" /\ answered
  /\ ~op.accepted
  /\ Return("unknown")
  /\ UNCHANGED <<moduleVars, queue, driverVars, num, answered, op, len, list, spent, calm>>

ReadStarted ==
  /\ apc = "sent" /\ answered
  /\ op.accepted /\ op.op = "read"
  /\ Return("success")
  /\ UNCHANGED <<moduleVars, queue, driverVars, num, answered, op, len, list, spent, calm>>

BeginWait ==
  /\ apc = "sent" /\ answered
  /\ op.accepted /\ op.op # "read"
  /\ apc' = "wait"
  /\ UNCHANGED <<moduleVars, queue, driverVars, num, answered, op, len, list,
                 result, spent, calm>>

(* wait_rsp_evt looks at the id of the packet in hand, and only at that.   *)
RssiSeen ==
  /\ apc = "wait" /\ op.op = "rssi"
  /\ evt.kind = "rssi"
  /\ Return("success")
  /\ UNCHANGED <<moduleVars, queue, driverVars, num, answered, op, len, list, spent, calm>>

CompletedSeen ==
  /\ apc = "wait" /\ op.op \in Discoveries
  /\ evt.kind = "completed"
  /\ len' = num
  /\ apc' = "copy"
  /\ UNCHANGED <<moduleVars, queue, driverVars, num, answered, op, list, result, spent, calm>>

(* The event was not in hand at any poll: for want of it or because the    *)
(* driver has already gone on.                                             *)
CountAfterTimeout == IF op.op \in Discoveries THEN 0 ELSE num
WaitTimeout ==
  /\ apc = "wait"
  /\ num' = CountAfterTimeout
  /\ calm' = FALSE
  /\ Return("missing")
  /\ UNCHANGED <<moduleVars, queue, driverVars, answered, op, len, list, spent>>

(* Only records of this connection and kind fill their entry.              *)
Wanted(p) == p.kind = op.op /\ p.conn = op.conn
Fits == \A i \in 1 .. num : Wanted(special[i]) => i <= ListMax
CopyRecords ==
  /\ apc = "copy"
  /\ Fits
  /\ list' = [i \in 1 .. num |-> IF Wanted(special[i]) THEN special[i] ELSE Hole]
  /\ apc' = "clean"
  /\ UNCHANGED <<moduleVars, queue, driverVars, num, answered, op, len, result, spent, calm>>

CountAfterCopyKept == num                    \* mutant of CountAfterCopy
CountAfterCopy == 0
CleanCount ==
  /\ apc = "clean"
  /\ num' = CountAfterCopy
  /\ apc' = "check"
  /\ UNCHANGED <<moduleVars, queue, driverVars, answered, op, len, list, result, spent, calm>>

(* The event must still be in hand.                                        *)
CheckSeen ==
  /\ apc = "check"
  /\ evt.kind = "completed"
  /\ spent' = Append(spent, evt.call)
  /\ apc' = "clear"
  /\ UNCHANGED <<moduleVars, queue, driverVars, num, answered, op, len, list,
                 result, calm>>

CheckGone ==
  /\ apc = "check"
  /\ evt.kind # "completed"
  /\ calm' = FALSE
  /\ Return("missing")
  /\ UNCHANGED <<moduleVars, queue, driverVars, num, answered, op, len, list, spent>>

(* evt->header = 0, in whatever packet evt is by now.                      *)
HeaderKept == evt.kind                       \* mutant of HeaderAfterUse
HeaderAfterUse == "none"
ClearHeader ==
  /\ apc = "clear"
  /\ evt' = [evt EXCEPT !.kind = HeaderAfterUse]
  /\ Return("success")
  /\ UNCHANGED <<moduleVars, queue, dpc, index, special, num, answered, op, len,
                 list, spent, calm>>

CallStep ==
  \/ Refused \/ ReadStarted \/ BeginWait \/ RssiSeen \/ CompletedSeen
  \/ WaitTimeout \/ CopyRecords \/ CleanCount \/ CheckSeen \/ CheckGone
  \/ ClearHeader
-----------------------------------------------------------------------------
(* Neither side asks whether there is room.  A record more than            *)
(* special_evt holds is written behind it, an entry more than the caller's *)
(* list has behind that, over whatever is there; the model ends.           *)

StoreBehind ==
  /\ dpc = "handle"
  /\ evt.kind \in Discoveries
  /\ Slot > SpecialMax

CopyBehind == apc = "copy" /\ ~Fits

WriteBehind ==
  /\ StoreBehind \/ CopyBehind
  /\ dpc' = "lost"
  /\ calm' = FALSE
  /\ UNCHANGED <<moduleVars, queue, evt, index, special, num, answered, callVars>>
-----------------------------------------------------------------------------
Init ==
  /\ proc = [c \in Conns |-> NoProc] /\ others = 0 /\ queue = <<>>
  /\ dpc = "take" /\ evt = NoPacket /\ index = 0
  /\ special = [i \in 1 .. SpecialMax |-> NoPacket] /\ num = 0
  /\ answered = FALSE /\ apc = "idle"
  /\ op = [op |-> "none", conn |-> NoConn, no |-> 0, found |-> 0,
           accepted |-> FALSE]
  /\ len = 0 /\ list = <<>>
  /\ result = [no |-> 0, op |-> "none", outcome |-> "none", found |-> 0]
  /\ spent = <<>> /\ calm = TRUE

Next ==
  /\ dpc # "lost"
  /\ \/ Module \/ Driver \/ CallStep \/ WriteBehind
     \/ \E kind \in Ops, c \in Conns : CallOp(kind, c)

Spec == Init /\ [][Next]_vars
-----------------------------------------------------------------------------

(* As long as no wait has ended without its event, no procedure runs that  *)
(* nobody waits for and no record was written behind an array, a discovery *)
(* that succeeds returns exactly what the remote device has, in order and  *)
(* without holes, although the list is taken while the driver goes on.     *)
DiscoveryIsWhole ==
  calm /\ apc = "idle" /\ result.op \in Discoveries /\ result.outcome = "success" =>
    /\ len = result.found
    /\ list = [i \in 1 .. result.found |-> Pkt(result.op, op.conn, result.no, i)]

(* Under the same conditions nothing is left for the next call to find.    *)
NothingLeftBehind ==
  calm /\ apc = "idle" => num = 0 /\ evt.kind # "completed"

(* Whatever went wrong before, short of a write behind an array, one       *)
(* completed event ends one successful discovery at most.                  *)
CompletedUsedOnce ==
  \A i, j \in DOMAIN spent : spent[i] = spent[j] => i = j

=============================================================================
