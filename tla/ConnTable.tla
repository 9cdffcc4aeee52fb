------------------------------ MODULE ConnTable ------------------------------
(***************************************************************************)
(* The table of connected devices (gl_dev_mgr.c) and its users: the        *)
(* watcher thread (silabs_evt.c), which adds and removes devices as the    *)
(* module's events come out of the message queue; the API calls connect    *)
(* and disconnect (silabs_bleapi.c), which add and look up devices on the  *)
(* caller's thread; and the driver thread, which forwards the events and   *)
(* empties the table when the module is reset.                             *)
(*                                                                         *)
(* The table's mutex makes each of its operations one step, and nothing    *)
(* spans two of them: a lookup and the use of its result are two steps.    *)
(***************************************************************************)
EXTENDS Naturals, Sequences, SequencesExt, FiniteSets

CONSTANTS
  Addrs,       (* device addresses                                        *)
  Handles,     (* connection handles of the module (never 0)              *)
  MsgqCap,     (* packets the message queue holds                         *)
  MaxEvents,   (* bound: events the module emits                          *)
  MaxCalls,    (* bound: API calls                                        *)
  MaxResets    (* bound: resets of the module                             *)

None == "none"

ASSUME BoundsAssumption ==
  /\ MsgqCap \in Nat /\ MaxEvents \in Nat /\ MaxCalls \in Nat
  /\ MaxResets \in Nat
ASSUME NamesAssumption == None \notin Addrs /\ None \notin Handles

VARIABLES
  peer,     (* the module: the device on each handle, None if it is free  *)
  up,       (* handles whose connection is established                    *)
  closing,  (* handles the application asked to close                     *)
  evtNo,    (* number of events emitted                                   *)
  list,     (* g_ble_dev_mgr.dev_list                                     *)
  msgq,     (* events on their way to the watcher                         *)
  wpc,      (* where the watcher is                                       *)
  wevt,     (* the event it handles                                       *)
  waddr,    (* the address it looked up for it                            *)
  apc,      (* where the API call is                                      *)
  acall,    (* its address and connection                                 *)
  callNo,   (* number of API calls                                        *)
  resets,   (* number of resets                                           *)
  calm,     (* no reset, no lost event, no connect by the application yet *)
  told,     (* devices the callbacks reported as connected                *)
  lastCb    (* the last callback about a device, and the device it was    *)

moduleVars  == <<peer, up, closing, evtNo>>
watcherVars == <<wpc, wevt, waddr, told, lastCb>>
appVars     == <<apc, acall, callNo>>
vars == <<moduleVars, list, msgq, watcherVars, appVars, resets, calm>>

Node  == [addr : Addrs, conn : Handles]
(* Events carry a handle; only "opened" carries the address as well, so    *)
(* the field peer of the others is history.                                *)
Event == [kind : {"opened", "closed", "data"}, conn : Handles, peer : Addrs]
NoEvent == [kind |-> "none", conn |-> None, peer |-> None]
-----------------------------------------------------------------------------
(* gl_dev_mgr.c.                                                           *)

(* search_ble_dev_by_addr and search_ble_dev_by_connection: first match.   *)
HasAddr(l, a) == \E i \in DOMAIN l : l[i].addr = a
HasConnSkips(l, c) == \E i \in DOMAIN l \ {1} : l[i].conn = c
                                                        \* mutant of HasConn
HasConn(l, c) == \E i \in DOMAIN l : l[i].conn = c
FirstAddr(l, a) == CHOOSE i \in DOMAIN l :
  l[i].addr = a /\ \A j \in DOMAIN l : j < i => l[j].addr # a
FirstConn(l, c) == CHOOSE i \in DOMAIN l :
  l[i].conn = c /\ \A j \in DOMAIN l : j < i => l[j].conn # c

(* ble_dev_mgr_add: a known address gets the new connection. *)
DevAddAppends(l, a, c) ==                                   \* mutant of DevAdd
  Append(l, [addr |-> a, conn |-> c])
DevAdd(l, a, c) ==
  IF HasAddr(l, a) THEN [l EXCEPT ![FirstAddr(l, a)].conn = c]
                   ELSE Append(l, [addr |-> a, conn |-> c])

(* ble_dev_mgr_del: the first node with the connection, if there is one. *)
DevDelKeeps(l, c) == l                                       \* mutant of DevDel
DevDelHead(l, c) == IF l = <<>> THEN l ELSE Tail(l)           \* mutant of DevDel
DevDel(l, c) == IF HasConn(l, c) THEN RemoveAt(l, FirstConn(l, c)) ELSE l

(* ble_dev_mgr_get_address and ble_dev_mgr_get_connection, where they find *)
(* something.                                                              *)
DevAddress(l, c) == l[FirstConn(l, c)].addr
DevConnection(l, a) == l[FirstAddr(l, a)].conn
-----------------------------------------------------------------------------
(* The module (external) and the driver, which forwards its events with    *)
(* IPC_NOWAIT: into a full queue an event is lost.                         *)

Free(h) == peer[h] = None
Linked(a) == \E h \in Handles : peer[h] = a

Emit(kind, h, a) ==
  /\ evtNo < MaxEvents
  /\ evtNo' = evtNo + 1
  /\ LET e == [kind |-> kind, conn |-> h, peer |-> a]
     IN  IF Len(msgq) < MsgqCap THEN msgq' = Append(msgq, e) /\ UNCHANGED calm
                                ELSE calm' = FALSE /\ UNCHANGED msgq

(* A remote central connects. *)
RemoteOpens(a, h) ==
  /\ ~Linked(a) /\ Free(h)
  /\ peer' = [peer EXCEPT ![h] = a]
  /\ up' = up \cup {h}
  /\ Emit("opened", h, a)
  /\ UNCHANGED <<closing, list, watcherVars, appVars, resets>>

(* A connection the application asked for is established. *)
RequestedOpens(h) ==
  /\ ~Free(h) /\ h \notin up
  /\ up' = up \cup {h}
  /\ Emit("opened", h, peer[h])
  /\ UNCHANGED <<peer, closing, list, watcherVars, appVars, resets>>

(* A connection ends; one that was never established only on request. *)
Closes(h) ==
  /\ ~Free(h)
  /\ h \in up \cup closing
  /\ peer' = [peer EXCEPT ![h] = None]
  /\ up' = up \ {h}
  /\ closing' = closing \ {h}
  /\ Emit("closed", h, peer[h])
  /\ UNCHANGED <<list, watcherVars, appVars, resets>>

(* Attribute values, parameters and status of an established connection. *)
Sends(h) ==
  /\ h \in up
  /\ Emit("data", h, peer[h])
  /\ UNCHANGED <<peer, up, closing, list, watcherVars, appVars, resets>>

(* The reset in gecko_get_event: the connections are gone with the power,  *)
(* the table is emptied, the message queue is left as it is.               *)
Reset ==
  /\ resets < MaxResets
  /\ resets' = resets + 1
  /\ calm' = FALSE
  /\ apc = "idle"
  /\ peer' = [h \in Handles |-> None]
  /\ up' = {} /\ closing' = {}
  /\ list' = <<>>
  /\ UNCHANGED <<evtNo, msgq, watcherVars, appVars>>
-----------------------------------------------------------------------------
(* silabs_watcher.                                                         *)

Callback(kind, a, truth) ==
  lastCb' = [kind |-> kind, addr |-> a, truth |-> truth]

WatchOpened ==
  /\ wpc = "recv" /\ msgq # <<>>
  /\ Head(msgq).kind = "opened"
  /\ LET e == Head(msgq) IN
       /\ list' = DevAdd(list, e.peer, e.conn)
       /\ told' = told \cup {e.peer}
       /\ Callback("connect", e.peer, e.peer)
  /\ msgq' = Tail(msgq)
  /\ UNCHANGED <<moduleVars, wpc, wevt, waddr, appVars, resets, calm>>

(* The other events name a handle; its address is looked up, and when the  *)
(* table has none the thread function returns.                             *)
WatchUnknown ==
  /\ wpc = "recv" /\ msgq # <<>>
  /\ Head(msgq).kind # "opened"
  /\ ~HasConn(list, Head(msgq).conn)
  /\ wpc' = "exited"
  /\ msgq' = Tail(msgq)
  /\ UNCHANGED <<moduleVars, list, wevt, waddr, told, lastCb, appVars, resets,
                 calm>>

WatchData ==
  /\ wpc = "recv" /\ msgq # <<>>
  /\ Head(msgq).kind = "data"
  /\ HasConn(list, Head(msgq).conn)
  /\ Callback("data", DevAddress(list, Head(msgq).conn), Head(msgq).peer)
  /\ msgq' = Tail(msgq)
  /\ UNCHANGED <<moduleVars, list, wpc, wevt, waddr, told, appVars, resets,
                 calm>>

WatchClosed ==
  /\ wpc = "recv" /\ msgq # <<>>
  /\ Head(msgq).kind = "closed"
  /\ HasConn(list, Head(msgq).conn)
  /\ waddr' = DevAddress(list, Head(msgq).conn)
  /\ wevt' = Head(msgq)
  /\ wpc' = "del"
  /\ msgq' = Tail(msgq)
  /\ UNCHANGED <<moduleVars, list, told, lastCb, appVars, resets, calm>>

WatchDelete ==
  /\ wpc = "del"
  /\ list' = DevDel(list, wevt.conn)
  /\ told' = told \ {waddr}
  /\ Callback("disconnect", waddr, wevt.peer)
  /\ wpc' = "recv"
  /\ wevt' = NoEvent
  /\ waddr' = None
  /\ UNCHANGED <<moduleVars, msgq, appVars, resets, calm>>

Watcher ==
  WatchOpened \/ WatchUnknown \/ WatchData \/ WatchClosed \/ WatchDelete
-----------------------------------------------------------------------------
(* API calls, one at a time under _ble_mutex.                              *)

(* silabs_ble_connect: the module accepts the request and answers with a   *)
(* handle ...                                                              *)
Connect(a, h) ==
  /\ apc = "idle" /\ callNo < MaxCalls
  /\ ~Linked(a) /\ Free(h)
  /\ peer' = [peer EXCEPT ![h] = a]
  /\ apc' = "add"
  /\ calm' = FALSE
  /\ acall' = [addr |-> a, conn |-> h]
  /\ callNo' = callNo + 1
  /\ UNCHANGED <<up, closing, evtNo, list, msgq, watcherVars, resets>>

(* ... and the caller adds the device to the table. *)
ConnectAdd ==
  /\ apc = "add"
  /\ list' = DevAdd(list, acall.addr, acall.conn)
  /\ apc' = "idle"
  /\ UNCHANGED <<moduleVars, msgq, watcherVars, acall, callNo, resets, calm>>

(* silabs_ble_disconnect: the address is looked up (an unknown one is a    *)
(* parameter error) ...                                                    *)
Disconnect(a) ==
  /\ apc = "idle" /\ callNo < MaxCalls
  /\ HasAddr(list, a)
  /\ acall' = [addr |-> a, conn |-> DevConnection(list, a)]
  /\ apc' = "close"
  /\ callNo' = callNo + 1
  /\ UNCHANGED <<moduleVars, list, msgq, watcherVars, resets, calm>>

(* ... and the connection with the handle found is closed, if the module   *)
(* has one.                                                                *)
DisconnectClose ==
  /\ apc = "close"
  /\ closing' = IF Free(acall.conn) THEN closing ELSE closing \cup {acall.conn}
  /\ apc' = "idle"
  /\ UNCHANGED <<peer, up, evtNo, list, msgq, watcherVars, acall, callNo, resets, calm>>
-----------------------------------------------------------------------------
Init ==
  /\ peer = [h \in Handles |-> None] /\ up = {} /\ closing = {}
  /\ evtNo = 0 /\ list = <<>> /\ msgq = <<>>
  /\ wpc = "recv" /\ wevt = NoEvent /\ waddr = None
  /\ apc = "idle" /\ acall = [addr |-> None, conn |-> None]
  /\ callNo = 0 /\ resets = 0 /\ calm = TRUE /\ told = {}
  /\ lastCb = [kind |-> None, addr |-> None, truth |-> None]

Next ==
  \/ \E a \in Addrs, h \in Handles : RemoteOpens(a, h) \/ Connect(a, h)
  \/ \E h \in Handles : RequestedOpens(h) \/ Closes(h) \/ Sends(h)
  \/ \E a \in Addrs : Disconnect(a)
  \/ Reset \/ Watcher \/ ConnectAdd \/ DisconnectClose

Spec == Init /\ [][Next]_vars

(* The watcher runs whenever it has something to do. *)
FairSpec == Spec /\ WF_vars(Watcher)
-----------------------------------------------------------------------------
(* Every variable has its type. *)
TypeOK ==
  /\ peer \in [Handles -> Addrs \cup {None}]
  /\ up \subseteq Handles /\ closing \subseteq Handles
  /\ evtNo \in Nat /\ callNo \in Nat /\ resets \in Nat /\ calm \in BOOLEAN
  /\ list \in Seq(Node) /\ msgq \in Seq(Event)
  /\ wpc \in {"recv", "del", "exited"}
  /\ wevt \in Event \cup {NoEvent}
  /\ wpc = "del" => wevt \in Event
  /\ waddr \in Addrs \cup {None}
  /\ apc \in {"idle", "add", "close"}
  /\ acall \in [addr : Addrs \cup {None}, conn : Handles \cup {None}]
  /\ apc # "idle" => acall \in Node
  /\ told \subseteq Addrs
  /\ lastCb \in [kind : {None, "connect", "disconnect", "data"},
                 addr : Addrs \cup {None}, truth : Addrs \cup {None}]

(* The table is a map: whatever the threads interleave, no address is in   *)
(* it twice, so a lookup by address has one answer.                        *)
NoDuplicateAddress ==
  \A i, j \in DOMAIN list : list[i].addr = list[j].addr => i = j

(* The events still to be handled, applied to the table. *)
Apply(t, e) ==
  CASE e.kind = "opened" -> {n \in t : n.addr # e.peer}
                              \cup {[addr |-> e.peer, conn |-> e.conn]}
    [] e.kind = "closed" -> {n \in t : n.conn # e.conn}
    [] OTHER             -> t
Unhandled == IF wpc = "del" THEN <<wevt>> \o msgq ELSE msgq
Nodes(l) == {l[i] : i \in DOMAIN l}
TableAfter[i \in 0 .. Len(Unhandled)] ==
  IF i = 0 THEN Nodes(list) ELSE Apply(TableAfter[i - 1], Unhandled[i])
TableAfterUnhandled == TableAfter[Len(Unhandled)]

(* The module's established connections. *)
Links == {[addr |-> peer[h], conn |-> h] : h \in up}

(* As long as no event is lost, the module is not reset and connections    *)
(* are opened by the remote side only, the table lags behind the module by *)
(* exactly the unhandled events.                                           *)
TableFollowsModule ==
  calm => TableAfterUnhandled = Links

(* Under these conditions a callback about a connection names the device   *)
(* the event was about.                                                    *)
CallbackNamesDevice == calm => lastCb.addr = lastCb.truth

(* gl_bleapi.h: the subscribed callback "will be called when module        *)
(* receive a system boot, GAP and GATT event": the watcher thread is there *)
(* to call it.                                                             *)
WatcherAlive == wpc # "exited"

(* Under these conditions it is. *)
CalmWatcherAlive == calm => WatcherAlive

(* A connection that lasts is reported, and its end is reported, as long   *)
(* as those conditions last.                                               *)
Up(a) == \E h \in up : peer[h] = a
UpIsReported == \A a \in Addrs : Up(a) ~> (a \in told \/ ~Up(a) \/ ~calm)
DownIsReported == \A a \in Addrs : ~Up(a) ~> (a \notin told \/ Up(a) \/ ~calm)
=============================================================================
