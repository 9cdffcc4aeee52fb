------------------------------- MODULE NcpLink -------------------------------
(***************************************************************************)
(* The serial link to the Bluetooth module (silabs_msg.c, and the reset    *)
(* part of silabs_bleapi.c).  Three actors share it:                       *)
(*                                                                         *)
(*  - the module, an external NCP that answers commands and emits events;  *)
(*  - the driver thread, the only reader of the UART: it reads one message *)
(*    at a time, writes a response into the one response buffer or an      *)
(*    event into the event ring, pops the ring, and hands the event to the *)
(*    watcher through a bounded message queue.  It also serves the reset   *)
(*    flag;                                                                *)
(*  - the API call that holds _ble_mutex: a BGAPI command, a hard reset, a *)
(*    power-off or a power-on.  The mutex lets one call run at a time, so  *)
(*    one call pc stands for all application threads.                      *)
(*                                                                         *)
(* The actors share plain globals (the response buffer, appBooted,         *)
(* wait_reset_flag), each read and written in a step of its own.  Waits    *)
(* with a deadline may expire at any time.                                 *)
(***************************************************************************)
EXTENDS Naturals, Sequences

CONSTANTS
  QueueLen,   (* SL_BT_API_QUEUE_LEN, slots of the event ring             *)
  MsgqCap,    (* packets the System V queue to the watcher holds          *)
  Commands,   (* message ids of the BGAPI commands the application issues *)
  MaxWire,    (* bound: messages in the UART at once                      *)
  MaxEvents,  (* bound: events the module emits                           *)
  MaxCalls,   (* bound: API calls                                         *)
  MaxReopens, (* bound: gl_ble_destroy; gl_ble_init cycles                *)
  ReadErrors  (* whether read() may fail while a payload is awaited       *)

EventKinds == {"boot", "report", "service", "other"}
None == "none"

ASSUME QueueLenAssumption == QueueLen \in Nat /\ QueueLen >= 2
ASSUME BoundsAssumption ==
  /\ MsgqCap \in Nat /\ MaxWire \in Nat /\ MaxEvents \in Nat
  /\ MaxCalls \in Nat /\ MaxReopens \in Nat /\ ReadErrors \in BOOLEAN
ASSUME CommandsAssumption == Commands \cap (EventKinds \cup {None}) = {}

VARIABLES
  power,      (* the module: "off", "booting", "up", or "silent"          *)
  pend,       (* commands the module has received and not answered        *)
  rx,         (* messages in the UART, oldest first                       *)
  evtNo,      (* number of events emitted so far                          *)
  bornAt,     (* evtNo when the module was last powered on                *)
  dpc,        (* where the driver thread is                               *)
  cur,        (* the message whose payload the driver awaits              *)
  w, r,       (* sl_bt_queue_w, sl_bt_queue_r                             *)
  slots,      (* sl_bt_queue_buffer                                       *)
  torn,       (* whether a read of an event's payload was interrupted     *)
  evt,        (* the packet the driver handles (global evt)               *)
  rspHead,    (* header of sl_bt_rsp_msg                                  *)
  rspPay,     (* payload of sl_bt_rsp_msg                                 *)
  rspOpen,    (* whether the payload of that header has not been read     *)
  booted,     (* appBooted                                                *)
  bootTag,    (* number of the boot event that set appBooted last         *)
  flag,       (* wait_reset_flag                                          *)
  specialNum, (* special_evt_num                                          *)
  msgq,       (* the queue to the watcher                                 *)
  lastFwd,    (* highest number of an event the driver tried to forward   *)
  apc,        (* where the API call is                                    *)
  cmd,        (* command of the call (header of sl_bt_cmd_msg)            *)
  callNo,     (* number of API calls so far                               *)
  tries,      (* reset_time                                               *)
  lastRst,    (* result of the last hard reset                            *)
  expired,    (* whether some command has timed out                       *)
  got,        (* what the last command returned to its caller             *)
  reopens     (* number of destroy/init cycles                            *)

moduleVars == <<power, pend, evtNo, bornAt>>
ringVars   == <<w, r, slots, torn>>
rspVars    == <<rspHead, rspPay, rspOpen>>
handVars   == <<bootTag, specialNum, msgq, lastFwd>>
driverVars == <<dpc, cur, evt>>
callVars   == <<apc, cmd, callNo, tries, lastRst, expired, got>>
vars == <<moduleVars, rx, ringVars, rspVars, handVars, driverVars, callVars,
          booted, flag, reopens>>

(* Events are numbered in the order of emission; the number of a response  *)
(* is that of the call it answers.  The header and the payload of a        *)
(* message reach the memory in steps of their own, so a packet has the     *)
(* number of the message its header is of (no) and of the message its      *)
(* payload is of (pay, 0 for none).                                        *)
Ids == EventKinds \cup Commands \cup {None}
Header == [hdr : Ids, no : Nat]
NoHeader == [hdr |-> None, no |-> 0]
Packet == [hdr : Ids, no : Nat, pay : Nat]
NoPacket == [hdr |-> None, no |-> 0, pay |-> 0]
Message == [class : {"evt", "rsp"}, hdr : Ids, no : Nat]

(* The slot after and the slot before slot i of the ring. *)
Next1Unwrapped(i) == i + 1                                   \* mutant of Next1
Next1(i) == (i + 1) % QueueLen
Prev1(i) == (i + QueueLen - 1) % QueueLen
-----------------------------------------------------------------------------
(* The module (external).                                                  *)

Emit(class, hdr, no) ==
  /\ Len(rx) < MaxWire
  /\ rx' = Append(rx, [class |-> class, hdr |-> hdr, no |-> no])

EmitEvent(kind) ==
  /\ evtNo < MaxEvents
  /\ evtNo' = evtNo + 1
  /\ Emit("evt", kind, evtNo + 1)

(* Powered on, the firmware starts and announces itself. *)
ModuleBoot ==
  /\ power = "booting"
  /\ power' = "up"
  /\ EmitEvent("boot")
  /\ UNCHANGED <<pend, bornAt, ringVars, rspVars, handVars, driverVars,
                 callVars, booted, flag, reopens>>

ModuleEvent ==
  /\ power = "up"
  /\ \E kind \in EventKinds \ {"boot"} : EmitEvent(kind)
  /\ UNCHANGED <<power, pend, bornAt, ringVars, rspVars, handVars, driverVars,
                 callVars, booted, flag, reopens>>

ModuleAnswer ==
  /\ power = "up"
  /\ pend # <<>>
  /\ Emit("rsp", Head(pend).hdr, Head(pend).call)
  /\ pend' = Tail(pend)
  /\ UNCHANGED <<power, evtNo, bornAt, ringVars, rspVars, handVars,
                 driverVars, callVars, booted, flag, reopens>>

(* The module (or the line) dies inside a message: the header is read, the *)
(* rest of the payload never comes, and no other message does.             *)
ModuleFallsSilent ==
  /\ power = "up"
  /\ dpc = "payload" /\ rx = <<>>
  /\ power' = "silent"
  /\ UNCHANGED <<pend, evtNo, bornAt, rx, ringVars, rspVars, handVars,
                 driverVars, callVars, booted, flag, reopens>>

Module == ModuleBoot \/ ModuleEvent \/ ModuleAnswer \/ ModuleFallsSilent
-----------------------------------------------------------------------------
(* The driver thread: silabs_driver, gecko_get_event, gecko_wait_message.  *)

(* What the loop decides on: the pending events, the flag, and what it     *)
(* leaves behind.                                                          *)
RingEmptyLate == w = r \/ w = Next1(r)                   \* mutant of RingEmpty
RingEmpty == w = r
SlotAfterPopStuck == r                                \* mutant of SlotAfterPop
SlotAfterPop == Next1(r)
UartUncleaned == rx                                 \* mutant of UartAfterClean
UartAfterClean == <<>>
FlagKept == flag                                    \* mutant of FlagAfterReset
FlagAfterReset == FALSE
ReadLoopDeaf == flag /\ dpc = "hdr"                  \* mutant of ReadLoopStops
ReadLoopStops == flag

(* Top of the loop of gecko_get_event: a queued event is popped first. *)
PopEvent ==
  /\ dpc = "get"
  /\ ~RingEmpty
  /\ evt' = slots[r]
  /\ r' = SlotAfterPop
  /\ dpc' = "handle"
  /\ UNCHANGED <<moduleVars, rx, w, slots, torn, rspVars, handVars, cur,
                 callVars, booted, flag, reopens>>

(* With an empty ring the reset flag is looked at, before more is read. *)
BeginReset ==
  /\ dpc = "get"
  /\ RingEmpty
  /\ flag
  /\ dpc' = "rstOff"
  /\ UNCHANGED <<moduleVars, rx, ringVars, rspVars, handVars, cur, evt,
                 callVars, booted, flag, reopens>>

(* system(rstoff): the module and what it had not yet sent are gone. *)
ResetPowerOff ==
  /\ dpc = "rstOff"
  /\ power' = "off"
  /\ pend' = <<>>
  /\ dpc' = "rstClean"
  /\ UNCHANGED <<evtNo, bornAt, rx, ringVars, rspVars, handVars, cur, evt,
                 callVars, booted, flag, reopens>>

(* uartCacheClean after a pause: what was in the UART is thrown away. *)
ResetCleanUart ==
  /\ dpc = "rstClean"
  /\ rx' = UartAfterClean
  /\ dpc' = "rstUnboot"
  /\ UNCHANGED <<moduleVars, ringVars, rspVars, handVars, cur, evt, callVars,
                 booted, flag, reopens>>

ResetClearBooted ==
  /\ dpc = "rstUnboot"
  /\ booted' = FALSE
  /\ dpc' = "rstAck"
  /\ UNCHANGED <<moduleVars, rx, ringVars, rspVars, handVars, cur, evt,
                 callVars, flag, reopens>>

(* The flag is lowered last, and the thread goes on to read. *)
ResetAcknowledge ==
  /\ dpc = "rstAck"
  /\ flag' = FlagAfterReset
  /\ dpc' = "sync"
  /\ UNCHANGED <<moduleVars, rx, ringVars, rspVars, handVars, cur, evt,
                 callVars, booted, reopens>>

(* Entering gecko_wait_message: byte-wise synchronisation until booted. *)
BeginRead ==
  /\ dpc = "get"
  /\ RingEmpty
  /\ ~flag
  /\ dpc' = IF booted THEN "hdr" ELSE "sync"
  /\ UNCHANGED <<moduleVars, rx, ringVars, rspVars, handVars, cur, evt,
                 callVars, booted, flag, reopens>>

(* Bytes are skipped until 0xa0, the first byte of an event header: a      *)
(* response (first byte 0x20) is skipped whole.                            *)
SyncSkip ==
  /\ dpc = "sync"
  /\ rx # <<>>
  /\ Head(rx).class = "rsp"
  /\ rx' = Tail(rx)
  /\ UNCHANGED <<moduleVars, ringVars, rspVars, handVars, driverVars,
                 callVars, booted, flag, reopens>>

SyncFound ==
  /\ dpc = "sync"
  /\ rx # <<>>
  /\ Head(rx).class = "evt"
  /\ dpc' = "hdr"
  /\ UNCHANGED <<moduleVars, rx, ringVars, rspVars, handVars, cur, evt,
                 callVars, booted, flag, reopens>>

(* Both read loops leave when the reset flag is up; what is left of the    *)
(* message stays in the UART.                                              *)
AbandonRead ==
  /\ dpc \in {"sync", "hdr"}
  /\ ReadLoopStops
  /\ dpc' = "get"
  /\ UNCHANGED <<moduleVars, rx, ringVars, rspVars, handVars, cur, evt,
                 callVars, booted, flag, reopens>>

(* A failing read ends the header loop; the bytes read so far, if any, are *)
(* lost with the rest of their message.                                    *)
HeaderError ==
  /\ ReadErrors
  /\ dpc = "hdr"
  /\ rx' \in {rx} \cup (IF rx = <<>> THEN {} ELSE {Tail(rx)})
  /\ dpc' = "get"
  /\ UNCHANGED <<moduleVars, ringVars, rspVars, handVars, cur, evt, callVars,
                 booted, flag, reopens>>

(* Header of an event: a slot is taken, w moves past it and the header is  *)
(* stored, before the payload is read.  With no room in the ring the       *)
(* message is read and thrown away.                                        *)
HeaderOfEvent ==
  /\ dpc = "hdr"
  /\ rx # <<>>
  /\ ~flag
  /\ Head(rx).class = "evt"
  /\ rx' = Tail(rx)
  /\ IF Next1(w) = r
       THEN /\ dpc' = "get"
            /\ UNCHANGED <<cur, slots, w>>
       ELSE /\ cur' = Head(rx)
            /\ slots' = [slots EXCEPT ![w].hdr = Head(rx).hdr, ![w].no = Head(rx).no]
            /\ w' = Next1(w)
            /\ dpc' = "payload"
  /\ UNCHANGED <<moduleVars, r, torn, rspVars, handVars, evt, callVars,
                 booted, flag, reopens>>

(* Header of a response: stored in the response buffer, where a waiting    *)
(* call sees it, before the payload is read.                               *)
HeaderOfResponse ==
  /\ dpc = "hdr"
  /\ rx # <<>>
  /\ ~flag
  /\ Head(rx).class = "rsp"
  /\ cur' = Head(rx)
  /\ rx' = Tail(rx)
  /\ rspHead' = [hdr |-> Head(rx).hdr, no |-> Head(rx).no]
  /\ rspOpen' = TRUE
  /\ dpc' = "payload"
  /\ UNCHANGED <<moduleVars, ringVars, rspPay, handVars, evt, callVars,
                 booted, flag, reopens>>

(* uartRx of the payload returns when all of it has come: it tries again   *)
(* without end and never looks at wait_reset_flag, so a module that is     *)
(* silent inside the message starves it.  An event is left for the next    *)
(* PopEvent; a response goes straight to the handler.                      *)
Starved == dpc = "payload" /\ power = "silent"

PayloadOfEvent ==
  /\ dpc = "payload" /\ ~Starved
  /\ cur.class = "evt"
  /\ slots' = [slots EXCEPT ![Prev1(w)].pay = cur.no]
  /\ dpc' = "get"
  /\ UNCHANGED <<moduleVars, rx, w, r, torn, rspVars, handVars, cur, evt,
                 callVars, booted, flag, reopens>>

PayloadOfResponse ==
  /\ dpc = "payload" /\ ~Starved
  /\ cur.class = "rsp"
  /\ rspPay' = cur.no
  /\ rspOpen' = FALSE
  /\ evt' = [hdr |-> rspHead.hdr, no |-> rspHead.no, pay |-> cur.no]
  /\ dpc' = "handle"
  /\ UNCHANGED <<moduleVars, rx, ringVars, rspHead, handVars, cur, callVars,
                 booted, flag, reopens>>

(* The payload of an event is left unread. *)
TearsEvent == dpc = "payload" /\ cur.class = "evt"

(* uartRx fails: the function returns.  The slot stays taken, with the     *)
(* payload it had before; so does the response header a call waits for.    *)
PayloadError ==
  /\ ReadErrors
  /\ dpc = "payload"
  /\ torn' = (torn \/ TearsEvent)
  /\ dpc' = "get"
  /\ UNCHANGED <<moduleVars, rx, w, r, slots, rspVars, handVars, cur, evt,
                 callVars, booted, flag, reopens>>
-----------------------------------------------------------------------------
(* silabs_event_handler.                                                   *)

Forwards(p) == p.hdr = "boot" \/ (booted /\ p.hdr = "report")

(* msgsnd with IPC_NOWAIT: into a full queue the event is lost. *)
HandleForward ==
  /\ dpc = "handle"
  /\ Forwards(evt)
  /\ booted' = (booted \/ evt.hdr = "boot")
  /\ bootTag' = IF evt.hdr = "boot" THEN evt.no ELSE bootTag
  /\ msgq' = IF Len(msgq) < MsgqCap THEN Append(msgq, evt) ELSE msgq
  /\ lastFwd' = IF evt.no > lastFwd THEN evt.no ELSE lastFwd
  /\ dpc' = "get"
  /\ UNCHANGED <<moduleVars, rx, ringVars, rspVars, specialNum, cur, evt,
                 callVars, flag, reopens>>

(* A discovered service or characteristic is kept for the waiting call. *)
HandleSpecial ==
  /\ dpc = "handle"
  /\ booted
  /\ evt.hdr = "service"
  /\ specialNum' = specialNum + 1
  /\ dpc' = "get"
  /\ UNCHANGED <<moduleVars, rx, ringVars, rspVars, bootTag, msgq, lastFwd,
                 cur, evt, callVars, booted, flag, reopens>>

(* Other packets, and everything but boot before the module has booted. *)
HandleIgnore ==
  /\ dpc = "handle"
  /\ ~Forwards(evt)
  /\ ~(booted /\ evt.hdr = "service")
  /\ dpc' = "get"
  /\ UNCHANGED <<moduleVars, rx, ringVars, rspVars, handVars, cur, evt,
                 callVars, booted, flag, reopens>>

DriverGoesOn ==
  \/ PopEvent \/ BeginReset \/ ResetPowerOff \/ ResetCleanUart
  \/ ResetClearBooted \/ ResetAcknowledge \/ BeginRead
  \/ SyncSkip \/ SyncFound \/ AbandonRead
  \/ HeaderOfEvent \/ HeaderOfResponse
  \/ PayloadOfEvent \/ PayloadOfResponse
  \/ HandleForward \/ HandleSpecial \/ HandleIgnore

Driver == DriverGoesOn \/ HeaderError \/ PayloadError

(* The watcher thread takes one packet. *)
WatcherTake ==
  /\ msgq # <<>>
  /\ msgq' = Tail(msgq)
  /\ UNCHANGED <<moduleVars, rx, ringVars, rspVars, bootTag, specialNum,
                 lastFwd, driverVars, callVars, booted, flag, reopens>>
-----------------------------------------------------------------------------
(* The API call that holds _ble_mutex.                                     *)

Call(pc) ==
  /\ apc = "idle"
  /\ callNo < MaxCalls
  /\ callNo' = callNo + 1
  /\ apc' = pc

ResponseHeaderKept == rspHead                 \* mutant of ResponseHeaderCleared
ResponseHeaderCleared == NoHeader

(* sl_bt_host_handle_command: the response header is cleared, the command  *)
(* is written to the UART; a module that is not up does not see it.        *)
CommandSend(c) ==
  /\ Call("peek")
  /\ cmd' = c
  /\ rspHead' = ResponseHeaderCleared
  /\ pend' = IF power = "up" THEN Append(pend, [hdr |-> c, call |-> callNo + 1])
                             ELSE pend
  /\ UNCHANGED <<power, evtNo, bornAt, rx, ringVars, rspPay, rspOpen,
                 handVars, driverVars, tries, lastRst, expired, got, booted,
                 flag, reopens>>

(* rx_peek_timeout sees a response header with the id of the command. *)
PeekMatch ==
  /\ apc = "peek"
  /\ rspHead.hdr = cmd
  /\ apc' = "collect"
  /\ UNCHANGED <<moduleVars, rx, ringVars, rspVars, handVars, driverVars, cmd,
                 callNo, tries, lastRst, expired, got, booted, flag, reopens>>

(* ... or gives up; its return value is not looked at. *)
PeekTimeout ==
  /\ apc = "peek"
  /\ apc' = "collect"
  /\ expired' = TRUE
  /\ UNCHANGED <<moduleVars, rx, ringVars, rspVars, handVars, driverVars, cmd,
                 callNo, tries, lastRst, got, booted, flag, reopens>>

(* The wrapper takes the result out of the response buffer. *)
CommandCollect ==
  /\ apc = "collect"
  /\ apc' = "idle"
  /\ got' = [call    |-> callNo,
             head    |-> rspHead.no,
             pay     |-> rspPay,
             expired |-> expired,
             torn    |-> rspOpen]
  /\ UNCHANGED <<moduleVars, rx, ringVars, rspVars, handVars, driverVars, cmd,
                 callNo, tries, lastRst, expired, booted, flag, reopens>>

(* silabs_ble_hard_reset. *)
HardReset ==
  /\ Call("rstTop")
  /\ tries' = 0
  /\ UNCHANGED <<moduleVars, rx, ringVars, rspVars, handVars, driverVars, cmd,
                 lastRst, expired, got, booted, flag, reopens>>

ResetRequest ==
  /\ apc = "rstTop"
  /\ tries < 3
  /\ flag' = TRUE
  /\ apc' = "offWait"
  /\ UNCHANGED <<moduleVars, rx, ringVars, rspVars, handVars, driverVars, cmd,
                 callNo, tries, lastRst, expired, got, booted, reopens>>

(* The flag is seen down in time. *)
ResetOffSeen ==
  /\ apc = "offWait"
  /\ ~flag
  /\ apc' = IF booted THEN "rstTop" ELSE "off"
  /\ tries' = IF booted THEN tries + 1 ELSE tries
  /\ UNCHANGED <<moduleVars, rx, ringVars, rspVars, handVars, driverVars, cmd,
                 callNo, lastRst, expired, got, booted, flag, reopens>>

(* wait_off has run out, also when the flag went down on the last poll. *)
ResetOffTimeout ==
  /\ apc = "offWait"
  /\ apc' = "rstTop"
  /\ tries' = tries + 1
  /\ UNCHANGED <<moduleVars, rx, ringVars, rspVars, handVars, driverVars, cmd,
                 callNo, lastRst, expired, got, booted, flag, reopens>>

(* system(rston). *)
PowerOn ==
  /\ power' = IF power = "off" THEN "booting" ELSE power
  /\ bornAt' = IF power = "off" THEN evtNo ELSE bornAt
  /\ UNCHANGED <<pend, evtNo>>

ResetPowerOn ==
  /\ apc = "off"
  /\ PowerOn
  /\ apc' = "bootWait"
  /\ UNCHANGED <<rx, ringVars, rspVars, handVars, driverVars, cmd, callNo,
                 tries, lastRst, expired, got, booted, flag, reopens>>

ResetBootSeen ==
  /\ apc = "bootWait"
  /\ booted
  /\ apc' = "idle"
  /\ lastRst' = "ok"
  /\ UNCHANGED <<moduleVars, rx, ringVars, rspVars, handVars, driverVars, cmd,
                 callNo, tries, expired, got, booted, flag, reopens>>

ResetBootTimeout ==
  /\ apc = "bootWait"
  /\ ~booted
  /\ apc' = "rstTop"
  /\ tries' = tries + 1
  /\ UNCHANGED <<moduleVars, rx, ringVars, rspVars, handVars, driverVars, cmd,
                 callNo, lastRst, expired, got, booted, flag, reopens>>

(* Three tries are used up: GL_UNKNOW_ERR, with the flag as it is. *)
ResetGiveUp ==
  /\ apc = "rstTop"
  /\ tries >= 3
  /\ apc' = "idle"
  /\ lastRst' = "failed"
  /\ UNCHANGED <<moduleVars, rx, ringVars, rspVars, handVars, driverVars, cmd,
                 callNo, tries, expired, got, booted, flag, reopens>>

PowerOffUnconfirmed == TRUE                      \* mutant of PowerOffConfirmed
PowerOffConfirmed == ~flag

(* silabs_ble_enable(0) waits for the driver without a deadline. *)
Disable ==
  /\ Call("disWait")
  /\ flag' = TRUE
  /\ UNCHANGED <<moduleVars, rx, ringVars, rspVars, handVars, driverVars, cmd,
                 tries, lastRst, expired, got, booted, reopens>>

DisableSeen ==
  /\ apc = "disWait"
  /\ PowerOffConfirmed
  /\ apc' = "idle"
  /\ UNCHANGED <<moduleVars, rx, ringVars, rspVars, handVars, driverVars, cmd,
                 callNo, tries, lastRst, expired, got, booted, flag, reopens>>

(* silabs_ble_enable(1) powers the module on and does not wait. *)
Enable ==
  /\ Call("idle")
  /\ PowerOn
  /\ UNCHANGED <<rx, ringVars, rspVars, handVars, driverVars, cmd, tries,
                 lastRst, expired, got, booted, flag, reopens>>

CallStep ==
  \/ PeekMatch \/ PeekTimeout \/ CommandCollect
  \/ ResetRequest \/ ResetOffSeen \/ ResetOffTimeout \/ ResetPowerOn
  \/ ResetBootSeen \/ ResetBootTimeout \/ ResetGiveUp
  \/ DisableSeen

CallStart ==
  \/ \E c \in Commands : CommandSend(c)
  \/ HardReset \/ Disable \/ Enable
-----------------------------------------------------------------------------
(* gl_ble_destroy cancels the driver thread at a cancellation point and    *)
(* removes the message queue.  The globals of silabs_msg.c keep their      *)
(* values.                                                                 *)
AtCancelPoint ==
  \/ dpc \in {"sync", "hdr", "payload", "rstOff", "rstClean"}
  \/ dpc = "get" /\ w = r
  \/ dpc = "handle" /\ Forwards(evt)

Destroy ==
  /\ apc = "idle"
  /\ reopens < MaxReopens
  /\ reopens' = reopens + 1
  /\ AtCancelPoint
  /\ torn' = (torn \/ TearsEvent)
  /\ booted' = (booted \/ (dpc = "handle" /\ evt.hdr = "boot"))
  /\ bootTag' = IF dpc = "handle" /\ evt.hdr = "boot" THEN evt.no
                                                    ELSE bootTag
  /\ dpc' = "dead"
  /\ apc' = "closed"
  /\ msgq' = <<>>
  /\ UNCHANGED <<moduleVars, rx, w, r, slots, rspVars, specialNum, lastFwd,
                 cur, evt, cmd, callNo, tries, lastRst, expired, got, flag>>

(* gl_ble_init opens and flushes the UART, starts the thread and resets    *)
(* the module.                                                             *)
Reinit ==
  /\ apc = "closed"
  /\ dpc' = "get"
  /\ rx' = <<>>
  /\ apc' = "rstTop"
  /\ tries' = 0
  /\ UNCHANGED <<moduleVars, ringVars, rspVars, handVars, cur, evt, cmd,
                 callNo, lastRst, expired, got, booted, flag, reopens>>
-----------------------------------------------------------------------------
(* The process has just opened the UART and started the driver; the first  *)
(* hard reset is about to begin.  The module may be on from before.        *)
Init ==
  /\ power \in {"off", "up"}
  /\ pend = <<>> /\ rx = <<>> /\ evtNo = 0 /\ bornAt = 0
  /\ dpc = "get" /\ cur = [class |-> "evt", hdr |-> None, no |-> 0]
  /\ w = 0 /\ r = 0 /\ slots = [i \in 0 .. QueueLen - 1 |-> NoPacket]
  /\ torn = FALSE
  /\ evt = NoPacket
  /\ rspHead = NoHeader /\ rspPay = 0 /\ rspOpen = FALSE
  /\ booted = FALSE /\ bootTag = 0 /\ flag = FALSE
  /\ specialNum = 0 /\ msgq = <<>> /\ lastFwd = 0
  /\ apc = "rstTop" /\ cmd = None /\ callNo = 0 /\ tries = 0
  /\ lastRst = "none" /\ expired = FALSE
  /\ got = [call |-> 0, head |-> 0, pay |-> 0, expired |-> FALSE,
            torn |-> FALSE]
  /\ reopens = 0

Next == Module \/ Driver \/ WatcherTake \/ CallStep \/ CallStart
        \/ Destroy \/ Reinit

Spec == Init /\ [][Next]_vars

(* The threads run: the driver takes the steps it can take and a call in   *)
(* progress goes on.  Nothing is assumed of the module, which may stay     *)
(* silent inside a message, nothing of failing reads, and nothing of the   *)
(* application: it need make no call, nor initialise again after a destroy.*)
FairSpec == Spec /\ WF_vars(DriverGoesOn) /\ WF_vars(CallStep)
-----------------------------------------------------------------------------
DriverStates == {"get", "handle", "rstOff", "rstClean", "rstUnboot", "rstAck",
                 "sync", "hdr", "payload", "dead"}
CallStates == {"idle", "peek", "collect", "rstTop", "offWait", "off",
               "bootWait", "disWait", "closed"}

ModuleType ==
  /\ power \in {"off", "booting", "up", "silent"}
  /\ pend \in Seq([hdr : Commands, call : Nat])
  /\ evtNo \in Nat /\ bornAt \in Nat
DriverType == dpc \in DriverStates /\ cur \in Message /\ evt \in Packet
RingType ==
  /\ w \in 0 .. QueueLen - 1 /\ r \in 0 .. QueueLen - 1
  /\ slots \in [0 .. QueueLen - 1 -> Packet] /\ torn \in BOOLEAN
HandType ==
  bootTag \in Nat /\ specialNum \in Nat /\ msgq \in Seq(Packet) /\ lastFwd \in Nat
CallType ==
  /\ apc \in CallStates /\ cmd \in Ids
  /\ callNo \in Nat /\ tries \in 0 .. 3
  /\ apc \in {"offWait", "off", "bootWait"} => tries < 3
  /\ lastRst \in {"none", "ok", "failed"}
GotType ==
  got \in [call : Nat, head : Nat, pay : Nat, expired : BOOLEAN,
           torn : BOOLEAN]

(* Every variable has its type: indices stay inside the ring, the reset    *)
(* counter inside its three tries.                                         *)
TypeOK ==
  /\ ModuleType
  /\ rx \in Seq(Message)
  /\ DriverType
  /\ RingType
  /\ rspHead \in Header /\ rspPay \in Nat /\ rspOpen \in BOOLEAN
  /\ HandType
  /\ booted \in BOOLEAN /\ flag \in BOOLEAN /\ expired \in BOOLEAN
  /\ CallType
  /\ GotType
  /\ reopens \in Nat

(* The ring is empty whenever the driver reads a header, so the drop       *)
(* branch of gecko_wait_message ("NO ROOM IN QUEUE") is never taken: an    *)
(* event is lost in the message queue or not at all.                       *)
RingNeverFull ==
  dpc \in {"sync", "hdr"} => w = r

(* When a hard reset believes the module is off, it is: power is cut, the  *)
(* UART and the ring hold nothing, appBooted is down and the driver is not *)
(* inside a message of the earlier life.  After a hard reset that gave up  *)
(* this does not hold: the flag it left up may be lowered late, after a    *)
(* power-on in between, and be taken for the answer to a new request.      *)
ResetQuiesces ==
  apc = "off" /\ lastRst # "failed" =>
    /\ power = "off" /\ pend = <<>> /\ rx = <<>>
    /\ w = r
    /\ ~booted
    /\ dpc \in {"get", "sync"}

(* The appBooted a hard reset waits for is raised by the boot event of the *)
(* current life of the module, never by one left over from before the      *)
(* power-off.                                                              *)
BootIsFresh ==
  apc = "bootWait" /\ booted => bootTag > bornAt

(* wait_reset_flag is up outside of a reset only after a reset that        *)
(* reported failure: only then may the driver still cut the power of a     *)
(* module the caller believes it has.                                      *)
FlagOnlyAfterFailure ==
  flag /\ apc \in {"idle", "peek", "collect"} => lastRst = "failed"

(* As long as no command has timed out, a command collects under the       *)
(* header of its own answer, whatever fails; the result it takes is that   *)
(* of its answer too, unless the payload was not read before it looked.    *)
AnswerIsOwn ==
  got.call > 0 /\ ~got.expired =>
    got.head = got.call /\ (got.pay = got.call \/ got.torn)

(* The link implements the lossy ordered stream of EventStream: events     *)
(* reach the message queue in the order the module emitted them, none      *)
(* twice, and none of an earlier life of the module.  Its payload is its   *)
(* own; once a read has been interrupted, by an error or by gl_ble_destroy,*)
(* it may be what an earlier event left in its slot, never a later one's.  *)
Stream == INSTANCE EventStream WITH
  Capacity <- MsgqCap,
  emitted <- evtNo, born <- bornAt, offered <- lastFwd, torn <- torn,
  queue <- [i \in 1 .. Len(msgq) |-> [no |-> msgq[i].no, pay |-> msgq[i].pay]]
ImplementsEventStream == Stream!Spec

(* The driver serves a reset request from wherever it is in its loop, in   *)
(* the middle of a header too, unless the module is silent inside a        *)
(* payload (the reset that could bring it back is then never made) or the  *)
(* application destroys the library and leaves it so.                      *)
FlagServed == flag ~> (~flag \/ Starved \/ apc = "closed")

(* silabs_ble_enable(0), which waits without a deadline while it holds the *)
(* API mutex, returns, unless the module is silent inside a payload: then  *)
(* it never does, and every later call waits for the mutex.                *)
DisableReturns == apc = "disWait" ~> (apc = "idle" \/ Starved)
=============================================================================
