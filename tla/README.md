# Verification of gl-ble-sdk

The SDK drives a Silicon Labs Bluetooth module (an NCP) over a UART.  It is a
C library of three threads and a handful of plain globals: the application
calls `gl_ble_*`, a driver thread reads the UART, and a watcher thread calls
the application back.  This directory holds TLA+ models of the parts where
these threads meet, the TLC configurations that check them, and proofs for
TLAPS.  Paths below are relative to `src/src/`.

## 1. Inventory

| part | code | state | operations |
|---|---|---|---|
| serial link, driver thread | `bledriver/silabs/silabs_msg.c`, `silabs_msg.h` | event ring `sl_bt_queue_buffer/_w/_r`, one command and one response buffer, `evt`, `appBooted`, `wait_reset_flag` | `silabs_driver`, `gecko_get_event`, `gecko_wait_message`, `sl_bt_host_handle_command`, `rx_peek_timeout`, `silabs_event_handler` |
| reset and power | `silabs_bleapi.c:40-119` | `reset_time`, the deadlines | `silabs_ble_enable`, `silabs_ble_hard_reset` |
| device table | `components/dev_mgr/gl_dev_mgr.c` | list of (address, handle), its mutex | init, destroy, add, del, the two lookups, del-all |
| watcher thread | `silabs_evt.c` | the message queue, `module_boot`, `ble_version_match` | `silabs_watcher` |
| long advertisements | `silabs_evt.c:339-471` | buffer, fill level, source recorded | `extended_adv_data_constuct`, `periodic_adv_data_constuct` |
| connect, disconnect | `silabs_bleapi.c:509-555` | - | add to and look up the table around a command |
| GATT client | `silabs_bleapi.c:557-803`, `silabs_msg.c:341-370` | `special_evt`, `special_evt_num`, `evt` | `get_service`, `get_char`, `get_rssi`, `read_char`, writes, `wait_rsp_evt` |
| library lifecycle | `lib/gl_bleapi.c:56-216, 472-555` | `_driver_param`, `_watcher_param`, the thread handles, `msqid` | init, destroy, subscribe, unsubscribe, check_module, dfu |
| API wrappers | `lib/gl_bleapi.c:218-470` | `_ble_mutex` | lock, call, unlock |
| local GATT database | `silabs_bleapi.c:805-1221` | a session in the module | `set_gattdb`, `del_gattdb` |
| advertising | `silabs_bleapi.c:205-474`, `bledriver/util/gl_common.c` (long data) | sets, their data, a data buffer in the module | create, start, set data, stop, delete |
| scanning, periodic sync | `silabs_bleapi.c:135-203` | handles in the module | one command each |
| generated commands | `sl_bt_ncp_host_api.c`, `sl_bt_api.h` | - | one function per BGAPI command, one structure per message |
| byte order | `silabs_msg.c` (headers, `reverse_rev_payload`), `bledriver/util/gl_common.c`, `gl_hal.c` | `ENDIAN` | reversal of headers and fields |
| example programs | `example/` | bletool: a list of advertising handles; bleSynchronize: what to synchronize to | main, callbacks, signal handlers |
| hardware set-up, UART parameters, conversions, log | `bledriver/util`, `components` | - | pure I/O or pure functions |

How they interact:

    application --lock _ble_mutex--> command buffer --UART--> module
         ^   polls sl_bt_rsp_msg, evt, appBooted,               |
         |   wait_reset_flag                                    | UART
         |                                                      v
      callbacks <-- watcher <-- System V queue <-- handler <-- driver thread
                       |        (IPC_NOWAIT)                    |
                       +----> device table <--- del_all --------+

Only `_ble_mutex` (between API calls) and the mutex of the device table are
locks.  Everything else the threads share is a global that one writes and
another polls.  The behaviours that are hard to get right follow from that:

* a reset is a flag that the caller raises and polls with a deadline while the
  driver may be in the middle of a message (`silabs_msg.c:107-120`);
* a response is visible before its payload is read, a command that timed out
  leaves its answer to a later one, and the time-out is not looked at
  (`silabs_msg.c:251-279`);
* events pass two queues, and the second drops them (`silabs_msg.c:333`);
* the device table is written by three threads, each on its own view of what
  the module has done;
* a call waits for an event by looking at what the driver holds just now
  (`silabs_msg.c:356-370`);
* threads are cancelled, globals survive (`gl_bleapi.c:125-161`).

What makes each part correct, in a sentence: the *link* never fills its ring,
never mixes answers up, hands events over in order and leaves nothing of an
earlier life of the module behind after a reset; a *reset* request is served
unless the module is silent inside a message; the *device table* is a map and follows the module; a *reassembled
advertisement* is one advertisement; a *discovery* is what the remote device
has; the *lifecycle* leaks no kernel queue, puts both threads on one queue, and
survives a failure of any of its steps; the *local database* is old, new or
empty, never half of one; *advertising data* arrive whole; every *field of a
message* has its byte order reversed once or not at all, as the host needs; a
*program* on top can be ended.

`PROJECT.json` lists the hazards line by line with the properties that cover
them.

## 2. Modules

| module | models | checked by |
|---|---|---|
| `EventStream` | abstract: a lossy stream of events in order, within one life of the module, and whose content an event comes with | as a property of `NcpLink` |
| `NcpLink` | link, driver, reset, one API call at a time; implements `EventStream` | `MCNcpLink`: `NcpLinkSafety`, `NcpLinkRecovery` |
| `ConnTable` | device table, watcher, connect and disconnect | `MCConnTable`: `ConnTable`, `ConnTableReset` |
| `AdvReassembly` | the two reassembly functions | `MCAdvReassembly` |
| `GattDiscovery` | calls that wait for an event against the driver | `MCGattDiscovery` |
| `Lifecycle` | init to destroy, module check and update | `MCLifecycle`: `Lifecycle`, `LifecycleCheck` |
| `GattDb` | setting and deleting the local GATT database | `MCGattDb` |
| `AdvSets` | advertising sets, long data, bletool's list of handles | `AdvSets` |
| `SyncApp` | bleSynchronize: main, callback, signal handler on one mutex | `SyncApp` |
| `Bgapi` | one message through the generated code, on hosts of both byte orders | `Bgapi` |
| `BgapiCommands`, `BgapiGattCommands` | the command functions, as data: message number, arguments, lengths, fields reversed | by `Bgapi` |
| `BgapiLayouts` | the payload structures of commands, responses and events, as data | by `Bgapi` |
| `BgapiReversal` | the cases of `reverse_rev_payload`, as data | by `Bgapi` |
| `NcpLinkProofs`, `ConnTableProofs`, `AdvReassemblyProofs`, `GattDiscoveryProofs`, `LifecycleProofs`, `GattDbProofs`, `AdvSetsProofs`, `SyncAppProofs` | theorems about the module they are named after | tlapm |

The modules overlap where the code does.  `ConnTable` takes from `NcpLink` what
it establishes about the driver, which `EventStream` says in a page (events
arrive in order, or are lost in the message queue) and that a reset is one step
for the table; `GattDiscovery`, `GattDb` and `AdvSets` take that commands are
answered, `Lifecycle` that a running driver may post a boot event, and `SyncApp`
that a call holds `_ble_mutex` from its begin to its end.

Operators whose name ends like a fault (`RingEmptyLate`, `FlagKept`, ...) and
that are marked "mutant of" are not part of a model.  Each is a plausible bug;
put in place of its original it breaks the properties `PROJECT.json` pairs it
with, which shows that these properties depend on that line of the code.

### NcpLink

State: the module (`power`, commands it has not answered, events emitted), the
UART (`rx`, whole messages), the ring (`w`, `r`, `slots`), the response buffer
(`rspHead`, `rspPay`), the driver's place (`dpc`) and packets (`cur`, `evt`),
the flags, the queue to the watcher, and the API call (`apc`, `cmd`, `tries`).

| action | code |
|---|---|
| `PopEvent`, `BeginReset` ... `ResetAcknowledge`, `BeginRead` | the loop of `gecko_get_event`, one action for each write another thread can see |
| `SyncSkip`, `SyncFound` | the byte-wise search for 0xa0 before the module has booted |
| `AbandonRead`, `HeaderError`, `PayloadError` | the early returns of `gecko_wait_message` |
| `HeaderOfEvent`, `HeaderOfResponse`, `PayloadOf...` | header and payload are two steps: other threads see what is between |
| `HandleForward`, `HandleSpecial`, `HandleIgnore` | `silabs_event_handler` |
| `CommandSend`, `PeekMatch`, `PeekTimeout`, `CommandCollect` | `sl_bt_host_handle_command` and the command function around it |
| `HardReset`, `Reset...` | `silabs_ble_hard_reset`, with its two deadlines and three tries |
| `Disable`, `DisableSeen`, `Enable` | `silabs_ble_enable` |
| `Destroy`, `Reinit` | cancellation of the driver at a cancellation point, and a new one on the same globals |

A message is one unit of the wire.  Bytes out of step with message boundaries
(a payload that begins with 0xa0 while the driver synchronises, a message cut by
a cancellation) are not modelled.  A module that falls silent in the middle of
a payload is (`ModuleFallsSilent`): `uartRx` tries again without an end
(`gl_uart.c:110-122`) and looks at no flag, so the driver is `Starved` and takes
no further step until the library is destroyed.

The header and the payload of a message reach the memory in two steps, and the
second may never happen: a read fails (`PayloadError`) or the thread is cancelled
(`Destroy`), and the slot or the response buffer keeps the payload it had.  So a
packet carries two numbers, that of the message its header is of (`no`) and that
of the message its payload is of (`pay`).  These numbers and `bornAt`, `bootTag`,
`lastFwd`, `got`, `expired`, `rspOpen`, `torn` are history: they number events and
calls so that properties can say which one is meant, and no guard reads them.

The refinement mapping to `EventStream` does: `emitted <- evtNo`,
`born <- bornAt`, `offered <- lastFwd`, `torn <- torn`, and the queue is the two
numbers of each event in `msgq`.  A failed read of an event's payload is the
stream's `Tear`, `Destroy` its `Close`.  Everything else the link does is a
stutter of the stream: commands, headers, the ring, a reset up to the moment the
power comes back.

### ConnTable

`peer`, `up` and `closing` are the module's connections; `list` is the table;
`msgq` the events between driver and watcher.  A table operation is one step,
since it holds the table's mutex, and nothing holds it over two:
`silabs_ble_disconnect` is `Disconnect` (lookup) and `DisconnectClose`, the
closed event is `WatchClosed` (lookup) and `WatchDelete`, `silabs_ble_connect`
is `Connect` (command) and `ConnectAdd`.  When the handle of an event is not in
the table, `silabs_watcher` returns: `WatchUnknown`.

The ghost `calm` says that so far no event was lost, no reset has emptied the
table and no connection was requested by the application.  Up to then the
table plus the unhandled events *is* the state of the module
(`TableFollowsModule`); without any one of the three this is not so, and the
violation runs show two of the ways.

### AdvReassembly

A fragment stands for the bytes of one report; the buffer is the sequence of
fragments copied, the fill level the 16-bit counter.  The two functions of the
code differ only in what identifies the sender (address type, address and set
id, or the sync handle) and share the model.  A fragment may be empty.  The
ghost `orderly` says that no report was lost and that reports of two senders
did not alternate; `sent` and `bytes` are what each sender has sent so far.
An advertisement is at most as long as the 16-bit counter can count
(`total < LenMod`); Bluetooth's own limit is 1650.  `Copy` records of the last
report copied where in the buffer it ended and where in its advertisement it
belongs; the code copies a complete report before it compares anything
(`silabs_evt.c:385-392`), and what lies behind the buffer is not modelled.

### GattDiscovery

`evt` is the packet in the driver's hand, `special` and `num` the records kept.
The caller's polls of `evt` (`RssiSeen`, `CompletedSeen`, `CheckSeen`) and its
writes (`CleanCount`, `ClearHeader`) are single steps between which the driver
goes on.  `num' \in Counted` is the lost update of an unlocked `++`.  The ghost
`calm` says that no wait has ended without its event, no read, whose completed
event nobody waits for, was started, and nothing was written behind an array.
The code compares neither the count of records with `SPE_EVT_MAX` (50 places of
`special_evt`, `silabs_msg.c:344`) nor the entries it copies with
`LIST_LENGTHE_MAX` (16 of the caller's list).  The model does both only to end
there: `WriteBehind` is the write behind one of them, and after it the model says
nothing.  No bound on all calls together is assumed; the records of discoveries
that timed out add up in `special_evt` and can lead there.

### Lifecycle

One application thread calls in any order; every step that can fail may
(`msgget`, `hal_init`, the creation of a thread, the update tool).
`gl_ble_check_module` is cut into its steps since the watcher runs beside it
until it is unsubscribed.  Using what is not there (`ble_dev_mgr_destroy` twice,
`*msqid` of a null pointer) sets `crashed` and ends the behaviour.  The ghost
`orderly` says that the application destroyed only what the results told it
was there and after unsubscribing, that the `msgget` of no subscription failed,
and that no re-initialisation inside of a check failed.  The ghost `wedged` says
that the `msgget` of an init has failed (`gl_bleapi.c:71-76`): `_driver_param`
stays set then, and no init is accepted again.

### GattDb

A call walks through its commands; every command may be refused, and every
refusal goes to the error path of its place in the code.  The module keeps a
database and, in a session, a draft of it.  A file is a sequence of attributes
with a flaw where a key is missing: before the uuid is read, after it, or the
list of what is under the attribute, since buffers differ there.

| action | code |
|---|---|
| `DelSession`, `FindService`, `FindNothing`, `RemoveService`, `DelCommit`, `DelFails`, `DelAbort` | `silabs_ble_del_gattdb`: search on behind the last service found until a search has found nothing twice, then remove them, the last one first |
| `SetSession`, `RootUnreadable`, `RootRead` | the head of `silabs_ble_set_gattdb` |
| `AddItem`, `SkipItem`, `ItemRefused`, `ItemFlawed`, `StartService` | one turn of its three nested loops |
| `SetCommit`, `SetFails`, `Exit` | commit, the error label, the frees both share |
| `FindTooMany` | a service found when `service_handle[]` is full: it is written behind the array (`silabs_bleapi.c:1192`), and the model ends (`pc = "lost"`) |
| `HardReset` | the module forgets database and session |

`held` counts the buffers allocated and not freed, `ptr` the pointers that are
not NULL: the loops free and clear, the common exit frees again.

### AdvSets

One action per command of a call; `CommandFails` ends the call at the command
that was refused.  Data are bytes told apart by call and place, so a mixture
shows.  Long data pass `ble_write_long_data`: `Clear`, `WriteChunk`,
`WriteRest` or `WriteOnly`, `SetLong`.  `list` is bletool's array of handles;
`Create` and `Delete` include what bletool does with the result.  Nothing asks
whether the array has a place: `CreateBehind` is the creation for which it has
none.  The new handle, or the 0xff of a refused creation (`silabs_bleapi.c:211`),
is then written behind `adv_handle[]`, and the model ends (`pc = "lost"`).  With
the real sizes, four sets (`gl_bleapi.h:161`) and four places, the fifth creation
does that although the module refuses it.  `Limit` is the length up to which data
are accepted: 31 bytes for legacy advertising, 1024 for the others.  `Restart` is
a reset or a power-off, of which bletool's list does not hear.

### SyncApp

`mutex` is `_ble_mutex`.  The main thread makes the calls of `main` one after
the other, `inMain` says that it is inside of one; the watcher runs the
callback, whose test of `is_specified` (`WatcherChecks`) and whose call
(`WatcherLocks`, `WatcherReturns`) are separate steps; the handler runs on the
main thread, wherever that is.  `Dies` lists the places where a cancelled
watcher ends: while it waits for a message and inside of a call, whose
`usleep` is a cancellation point.  In the second case the mutex stays locked.
`Open` may be taken by the module and not answered in time (`done` without
`timely`): the call then returns an error, or what the answer buffer held, with
the synchronization opened.  `handle` is assigned from the answer buffer whatever
the result is (`sl_bt_ncp_host_api.c:1272`), so a failed open overwrites it.
The handler lowers `is_specified` (`Signal`), reads `handle` (`HandlerReads`)
and only then waits for the mutex.  `stopped` says that the module has taken the
handler's close.  The ghost `orderly` says that each open was answered in time
and sent while there was no synchronization, and that the signal came while no
report could reach the callback.

### Bgapi

A field is its byte order and a header its four bytes.  `big` is fixed at the
start.  One command of the table is followed through `Reverse_endian` of its
arguments, the header it is given, `sl_bt_host_handle_command`, the module, the
driver's reading and `reverse_rev_payload`, to the fields the caller gets; or
one event, to the ring.  The four modules of data are transcribed entry by
entry, with the entry's own mistakes.

## 3. Runs

| run | question | instance and why it is enough |
|---|---|---|
| `link_safety` | Does the link keep its promises under every interleaving, and is it the stream that the watcher needs? | Ring of 2 slots, which one event fills, so that an event left there would show at once; queue of 1 (so that events are dropped), 2 messages on the wire, 2 events (one left over and a boot; the second index wraps), 2 calls after the initial reset: a command and its late answer, a reset and a second one, two commands in a row; any read of a header or payload may fail, and the library is destroyed and initialised again once, at any point. Commands are symmetric. The same instance passes with a ring of 3 (where the slots before and after one differ), and with 3 events and 1 call (where a slot is used again, and a torn event carries the payload of an earlier one); the theorems of section 5 are for any size. |
| `link_recovery` | Is every request served, with read errors, a re-opened link and a silent module? | Ring of 2, one message on the wire, 2 events, 1 call and one destroy/init at any point; the module may fall silent inside any payload. 538,173 states. |
| `conn_table` | Is the table a map, and does it follow the module? | 2 addresses and 2 handles, so that a handle is reused by another device; 4 events, 2 calls, 1 reset, a queue of 3 so that an event is lost. |
| `conn_reset` | Is the watcher there after a reset? | No: see findings. |
| `adv_reassembly` | Is a result one advertisement, and does each copy go where it belongs? | 2 senders, 2 advertisements each of up to 3 reports, lengths 0 and 1 against a limit of 2: below, at and above the limit, empty reports at every place; the counter is taken modulo 4, its largest legal value is reached. |
| `gatt_discovery` | Is a discovery whole, and is an event used once? | 2 symmetric connections, discoveries of 0 or 2 records, 1 other event, 2 calls: the late events of the first meet the second. A `special_evt` of 3 places and a list of 2: one undisturbed discovery fits into both, two that add up fit into neither. |
| `lifecycle` | Do pointers, threads and queues fit after any sequence of calls? | 6 calls, 3 boot events and as many queues as 6 calls can create. |
| `lifecycle_check` | Does a successful check mean a matching module? | No: see findings. |
| `gatt_db` | Does a failure leave nothing half done, and a success the file's attributes? | 13 files: every kind of attribute under every other and with every flaw at every place that has its own exit, uuids of 2, 4 and 16 bytes, two services; a firmware database of two services, which two places of `service_handle` just hold, and a file of three, which they do not; 3 calls, so that a call meets what two others left. |
| `adv_sets` | Are data whole, stops complete, handles right? | Commands of 2 bytes against data of 1 to 6: short, one byte less than a chunk, exactly a chunk, one chunk and a rest, two chunks, and over the limit, with a smaller limit for legacy data; 2 sets and an array of 2, as many as sets, like the code's four and four, so that the next creation is written behind it; 4 calls. |
| `sync_app` | Whom is bleSynchronize synchronized to, does its end leave a synchronization, and does a signal end it? | 2 advertisers, 3 reports, a queue of 2: a report behind the one handled, one lost, one after the scan stopped. |
| `bgapi` | Do header, length and fields of every message arrive? | All commands, responses and events there are; array lengths at 0, 1, 255, 256 and around every length at which a command with its fixed part fills 255 bytes or passes 255. |

Deadlock is not checked: every model stops when its bounds are used up, and the
system may rest at any time when the module is silent.

What the passing runs show, beyond types:

* `RingNeverFull`: a header is read only with an empty ring, so the branch "NO
  ROOM IN QUEUE" is dead code, and events are lost in the message queue only.
* `ResetQuiesces`: when a hard reset sees its request acknowledged, the module
  is off and UART, ring and flags are clean, unless the reset before it gave
  up: the flag that one left up may be lowered late, after `gl_ble_enable(1)`,
  and be taken for an acknowledgement.
* `BootIsFresh`: the boot event a reset waits for is one of the new life.
  `ImplementsEventStream`: the same of every event, and they are forwarded in
  order and once, with failing reads and re-openings too.  Each has its own
  payload until the read of one has been interrupted; after that a payload may
  be what an earlier event left in the slot, never a later event's.
* `FlagOnlyAfterFailure`: a request outlives only a reset that reported failure.
* `AnswerIsOwn`: without a time-out a command leaves its wait with the header of
  its own answer, and the result it collects is that answer's unless the payload
  has not been read (`got.torn`): the caller may be faster than `uartRx`, or the
  read has failed, which nothing tells the caller.
* `FlagServed`, `DisableReturns`: a request is served wherever in its loop the
  driver was, in the middle of a header too, so the unbounded wait of
  `gl_ble_enable(0)` ends.  There is one way out, and the code does take it: a
  module that is silent inside a payload (`Starved`) keeps the driver in
  `uartRx`.  Then the request, which alone could restart the module, is never
  served, and `gl_ble_enable(0)` keeps `_ble_mutex`, and with it every other
  API call, for ever.  An application that destroys the library and does not
  initialise it again (`apc = "closed"`) is not served either.
* `NoDuplicateAddress` holds in every case, the others of `ConnTable` under
  `calm`: `CallbackNamesDevice` although handles are reused, since the lookup
  happens in the order of the events; `CalmWatcherAlive`; `UpIsReported`,
  `DownIsReported`.
* `CopiedInPlace`: while reports are in order each copy goes where its report
  belongs in its advertisement, so nothing of an earlier one, truncated or
  over-long, displaces it, and only an advertisement that is itself longer than
  the buffer is copied past its end.  When two senders alternate, or reports are
  lost, one within the limit may be, too.
  `PublishedIsWhole`, `EveryCompleteIsPublished`: orderly advertisements come
  out whole, whatever truncated or over-long ones came before.  The exception
  `EndsEmpty` is an edge of `silabs_evt.c:376`: a fragment that ends exactly at
  the end of the buffer is counted and not copied, and an empty last report
  then hands out the limit's length with that fragment missing.
* `DiscoveryIsWhole`, `NothingLeftBehind`: under `calm`.  `CompletedUsedOnce`: a
  completed event ends one discovery at most, time-outs or not.  All three up to
  a write behind an array.
* `NoQueueLeak`, `SharedQueue`, `BootIsHandled`: in any order of calls and with
  any failures.  `DestroyIsSafe`: for an orderly application.
  `RefusalHasTwoCauses`: `gl_ble_init` is refused exactly while a driver thread
  exists and, once the `msgget` of an init has failed, for good.
* `FailureIsUndone`, `BuffersReturned`, `SuccessMeansServed`, `FailureHasCause`:
  no session stays open unless the module refused to abort it; the database
  after a failure is the one before or empty; no path leaks a buffer; handles
  found before a removal stay valid since the last service goes first, and only a
  database of more services than places is written behind `service_handle`.  A
  success has the attributes of the file and no other, each under the right
  service, with its uuid in the file's order on big-endian hosts only: on
  little-endian ones, the only ones whose commands are answered, every uuid goes
  out reversed, and the property says so (see findings).
* `DataAreWhole`: with one exception, below.  `StopSilences`: a stop that
  succeeds has stopped both kinds of advertising.  `ListNamesSets`: up to a
  restart bletool's list is the module's, through any failures, until it writes
  behind its array; that happens only when the module has as many sets as the
  array has places.
* `OnlyTheSpecified`: with an address, the callback synchronizes to no other.
  `EndsUnsynchronized`: once the handler's close was taken the module is
  synchronized to nobody and stays so, whoever opened and whatever was lost.
  Three things are excluded (`orderly`), and each does leave a synchronization
  behind: a second open while there is one; an open that was not answered in
  time; a signal while the module scans or the callback has a report before it,
  since the handler lowers `is_specified` before it stops the watcher, and the
  callback may then open another.
  `SignalEndsProgram`: with the limits below.
* `CommandArrives`, `ResultsArrive`, `EventsArrive`, `AnswerRecognised`: all is
  in order on a little-endian host; `ReversedTwice` and `NeverReversed` are
  exactly the response fields that come out wrong on a big-endian one.

### Findings

Two have a run in which TLC finds the statement violated.

1. A reset empties the table but not the message queue; the next queued event
   of an old connection ends the watcher (`WatcherAlive`).
2. `gl_ble_check_module` returns success after an update whatever the
   re-initialisation did (`SuccessMeansMatched`).

The others are exceptions that the properties above had to make, or were met
while reading.

* Link.  A module silent inside a payload blocks the driver and then every API
  call (`FlagServed` above).  `sl_bt_host_handle_command` ignores that `rx_peek_timeout` failed: the
  caller gets the result of an older response, which may be OK
  (`silabs_msg.c:278`).
* Connections.  `gl_ble_disconnect` looks the handle up and closes it later;
  between the two the module may have given it to another device
  (`silabs_bleapi.c:540`).
* Advertisements.  A complete report is appended to the recording of another
  sender when reports alternate (`silabs_evt.c:385`).  The limit of 1024 is
  below Bluetooth's 1650; longer advertisements are dropped, but their last
  report is copied first, past the end of the buffer.
* Lifecycle.  The comment at `gl_bleapi.c:58` says that init returns an error "if
  ble driver thread exist".  After a failed `msgget` (lines 71-76) none exists,
  `_driver_param` stays set, and every later init is refused; an application
  that follows the results does not destroy what it could not initialise, and
  never recovers.
* GATT client.  A second `gl_ble_get_rssi` may return the value of the first,
  which is still the packet in the driver's hand.
* Big-endian hosts.  The header of a command is reversed in place for sending
  and then compared with the answer's, so no answer is recognised and every
  command waits until its time is up (`silabs_msg.c:272`).  Nine response
  fields are reversed by the driver and again by the command function; those
  of `sl_bt_system_get_version` by neither.
* Local database.  On a little-endian host uuids are in the wrong order: the
  code reverses them only `if(ENDIAN)`, the text of the file is most
  significant first (`UuidOrder`; `SuccessMeansServed` states both orders): the
  `180a` and `1800` of `gl_gattdb_cfg.json` do not go out as the services they
  name.  Reading a remote database reverses always
  (`silabs_bleapi.c:619, 677`).  An attribute whose uuid is neither 2 nor 16
  bytes is skipped without an error.  `service_handle[16]` is filled without a
  comparison.
* Advertising data.  Data of exactly 255 bytes take a path that does not clear
  the module's buffer and are appended to what a failed call left there.
* bletool.  The fifth handle is stored behind `adv_handle[4]`, the 0xff of a
  creation that the module refused as well; the list is kept
  over a reset; `adv_data` is used after the JSON object that owns it.
* bleSynchronize.  A signal inside of a library call of the main thread
  deadlocks: the handler waits for the mutex its own thread holds, although
  `example/bleSynchronize/README.md:99` says that CTRL+C terminates the
  application.  A second report queued behind the first opens a second
  synchronization and overwrites the handle of the first, even if it fails.
  When CTRL+C comes while reports are queued the callback may open one that
  nobody closes.

## 4. Fairness

`NcpLink!FairSpec`: weak fairness of `DriverGoesOn`, the steps of the driver's
loop that no error forces on it, and of a call in progress.  They are threads the
scheduler runs, and no step of theirs waits for a lock another one holds for
ever.  Nothing is assumed of the module: it may fall silent inside a payload, and
then no step of the driver is enabled.  Nothing is assumed of failing reads, of
the watcher, or of the application, which need not initialise again after a
destroy.  What may go wrong through any of these stands in the two properties
themselves.  Weak fairness of the *union* of the driver's steps is enough: its
loop is a cycle and a raised flag stays up until the driver lowers it.
`ConnTable!FairSpec` and `Lifecycle!FairSpec`: weak fairness of the watcher,
which sleeps in `msgrcv` only while the queue is empty.  `SyncApp!FairSpec`:
weak fairness of main thread, watcher and handler, each a thread with something
to do; a call returns, at the latest when `rx_peek_timeout` gives up.  Nothing
is assumed of the module, and weak fairness of a thread does not make a mutex
fair: the handler may find it taken again and again, as often as the callback
has a report to open or to stop scanning for.  `SignalEndsProgram` rests on the
bound `MaxReports` there; in the code reports cease once the scan stops, which
the callback asks for after each of them.
The other modules state safety only: every wait in `GattDiscovery` has a
deadline, and the calls of `GattDb` and `AdvSets` are finite loops.

## 5. Proofs

Every theorem below holds for every value of the constants that satisfies the
named assumptions of the module (`BoundsAssumption` and the like: bounds are
naturals, names differ, the counter of `AdvReassembly` holds `MaxLen`, and the
legacy limit of `AdvSets` is below what one command carries), and none has
another hypothesis.  Each was first checked by TLC as an invariant of the
run, then its strengthening `IInv`, then proved: `Init => IInv`, one step for
each action of `IInv /\ [Next]_vars => IInv'`, and `IInv` implies the property.
With them every safety property of the passing runs is a theorem, but for the
four of `Bgapi`.

| module | theorems | the inductive invariant, and why the property needs it |
|---|---|---|
| `NcpLinkProofs` | `TypeCorrect`, `RingHasRoom` (`RingNeverFull`), `FlagIsServed` (`FlagOnlyAfterFailure`), `ResetIsClean` (`ResetQuiesces`), `BootEventIsFresh` (`BootIsFresh`), `CommandsGetOwnAnswer` (`AnswerIsOwn`), `LinkIsStream` (`ImplementsEventStream`) | below |
| `ConnTableProofs` | `TypeCorrect`, `TableIsMap` (`NoDuplicateAddress`), `TableIsCurrent` (`TableFollowsModule`), `CallbackIsRight` (`CallbackNamesDevice`), `WatcherStays` (`CalmWatcherAlive`) | `NoDuplicateAddress` is inductive with the types of the queue and of the watcher: `DevAdd` looks up by address before it adds, `DevDel` takes an entry out. The others: below. |
| `AdvReassemblyProofs` | `CopyIsInPlace` (`CopiedInPlace`), `ResultIsWhole` (`PublishedIsWhole`), `NoneIsMissed` (`EveryCompleteIsPublished`) | `Follows`: in order, at most one sender is under way (`OneUnderWay`), what is recorded is exactly what it has sent (`RecordedIsSent`), and nothing is recorded while no one is (`NothingRecorded`), the fill level being zero then. |
| `GattDiscoveryProofs` | `EventEndsOneCall` (`CompletedUsedOnce`), `DiscoveryReturnsAll` (`DiscoveryIsWhole`), `NothingIsLeft` (`NothingLeftBehind`) | For the first: the completed event of a call is in one place: not yet emitted (`OnceRunning`), once in the queue (`OnceQueued`), or in the driver's hand (`OnceInHand`), and `spent` names only calls whose event has left these places (`Known`). The others: below. |
| `LifecycleProofs` | `TypeCorrect`, `QueuesAreOwned` (`NoQueueLeak`), `ThreadsShareQueue` (`SharedQueue`), `DestroyOnlyWhatIs` (`DestroyIsSafe`), `InitIsRefused` (`RefusalHasTwoCauses`) | `Consistent`: for an orderly application, what the pointers say exists and what it may believe agree (`Pointers`), at each step of a module check too (`Progress`); `Params`: whatever the application does, `_driver_param` stands for a driver or for an init whose `msgget` failed. |
| `GattDbProofs` | `BuffersAreFreed`, `NothingHalfDone`, `FileIsServed`, `FailureIsExplained` | `Heap` (which buffers are held at each place), `Undo` (what session, draft and database are there), `Cause` (how the error path was reached), `Search` (the handles found are services of the draft, in ascending order, with nothing between or before them that was not found), `Build` (the draft is the file up to `pos`). |
| `AdvSetsProofs` | `ListIsTrue`, `StoppedIsSilent`, `DataAreSet` | `Named` (the list is one-to-one to the sets, at every step of a call), `Stops` (between the two commands of a stop the first has had its effect), `Collected` (what of the data is in the buffer). |
| `SyncAppProofs` | `AddressIsKept` (`OnlyTheSpecified`), `NothingIsLeftOpen` (`EndsUnsynchronized`) | `Pinned` (with an address the callback never gets to a call, without a loss of synchronization), `Ending` (while all is in order `handle` names the only synchronization, once the signal has come no report can reach the callback, and what the handler closes is what there is: `Named`, `Silence`, `Closing`, `Ended`). |

`NcpLinkProofs` assumes `QueueLenAssumption` (at least 2 slots) and
`CommandsAssumption` (commands are not events); its theorems include
read errors and re-opened links.  `RingNeverFull` speaks of the places where a header is read;
it is inductive only with what holds at the others.  `RingInv` says where the
ring is empty (everywhere but at the top of the loop and while an event's
payload is read) and that it holds at most one event, which `PayloadError` and
`Destroy` may leave there: `w` is `r` or the slot after it.  Of the arithmetic
only `SlotStep` is needed: a slot has a successor in the ring, different from it.
`FlagOnlyAfterFailure` needs `FlagInv`: while a call of the reset is at
a place that assumes the flag down, it is down or an earlier reset failed.
`ResetQuiesces` needs `QuietInv`, which follows the
acknowledgement through the driver's steps (power off, then clean UART, then
`appBooted` down, then the flag) and says what each has established.

`BootEventIsFresh` and `LinkIsStream` share `FreshInv`.  `WireInv`: the events in
the UART have ascending numbers, above `bornAt` unless the UART is still to be
cleaned by a reset, and above every number forwarded.  `HeldInv`: the one event
between the UART and the message queue (`EventHeld`: its payload awaited, in the
ring, perhaps since a read failed or the thread was cancelled, or in the driver's
hand) is of the present life, older than those in the UART and later than those
forwarded.  That this speaks of the number of the header is what lets it survive
an interrupted read: the order of events rests on their headers alone.  The
payloads have two invariants of their own.  `OldPayInv`: no slot of the ring, the
unused ones included, holds a payload later than the event in hand or than one
still in the UART; so whatever an event is handed on with is its own or an
earlier one's.  `HeldPayInv`: the payload that is awaited belongs to the event in
hand, and once it is read, or as long as nothing was interrupted (`torn`), the
two numbers are the same.  `BootInv`: an `appBooted` that no reset is about to
clear is of the present life.  `OffInv` says what the power-off has left, and
`AnswerInv` that no answer is taken for an event.  Each step of the link is then
a step of `EventStream` or a stutter (`StreamStep`): the two ways to emit, a
power-on, `HandleForward`, `WatcherTake`, `PayloadError` (`Tear`) and `Destroy`
(`Close`).

`CommandsGetOwnAnswer` needs `OwnInv`: until a command has timed out, the one
answer to the running command is owed by the module, or in the UART, or read,
and outside of a command none is on the way.  From the moment the call sees a
header until it has collected the result, `OwnBuffer` holds: the header is its
own, and so is the payload unless it is still unread.  A read that fails before
the header loses the answer, and the command then times out, which `expired`
records.

What these theorems do not promise is what the code does not do: an event whose
read was interrupted is handed to the application all the same, and so is the
result of a command whose payload was not read.

`TableIsCurrent` is about what the table becomes when the events that are still
unhandled are applied to it, one after the other (`TableAfter`, a recursive
function).  `HistoryIsFold` shows that any function with the right first value
and the right steps is this one, by the least index at which the two would
differ (`Least`); with it `CalmInv` says that there is a *history*, a sequence
of tables from the present one to the module's list of connections, one for each
unhandled event, in which every event fits: it closes a connection that is in
its table, or opens one that is not.  The module appends to the history
(`HistoryGrows`), the watcher takes its first table away (`HistoryShrinks`).
That the events fit is what the watcher needs to stay alive and the callback to
name the right device.

`DiscoveryReturnsAll` needs to know where every record of the running discovery
is: not sent yet (`ProcInv`), in the queue, each once, in order, none missing
and the completed event behind them (`QueueInv`), or taken and stored at its
place, the last one possibly still in the driver's hand or stored and not yet
counted (`StoreInv`).  So when the completed event is in hand, all the records
are stored, the count is final and the driver has nothing left to write
(`CalmCompleted`): the list, the check and the two resets of the caller happen
while nothing of a discovery is under way (`Quiet`, `CopyInv`).  Without that,
`special_evt_num++` and the caller's `special_evt_num = 0` would meet.

Only model-checked: the liveness properties `FlagServed`, `DisableReturns`,
`UpIsReported`, `DownIsReported`, `BootIsHandled`, `SignalEndsProgram` (fairness
is out of the prover's reach), and the four properties of `Bgapi`.  These are
about tables of some 180 commands, their responses and the events, entry by
entry, and sums over their fields; TLC evaluates all the entries, only the
lengths in between are left out, and a proof would do the same by cases.

## 6. Order of the work

The link and its reset came first (model, runs, proofs), then what depends on
the events it delivers (device table, reassembly, waiting calls), then the
lifecycle, then the sequences of commands (`GattDb`, `AdvSets`), the program on
top (`SyncApp`) and the generated code (`Bgapi`).  `EventStream` was written when
`ConnTable` and `AdvReassembly` had shown what a consumer needs.  What the stream
still promises after an interrupted read, and over a destroy and init, came last,
with the payloads.  Left to do: a proof for `Bgapi`.

## 7. Not modelled

* Bytes out of step with message boundaries on the UART: a payload that begins
  with 0xa0 while the driver synchronises, a message cut by a cancellation.
  `NcpLink` has whole messages, but for the one that a silent module breaks off.
* UART and UCI set-up, GPIO paths, log and time stamps: pure I/O.
* The parameter calls of scanning, synchronization, power and advertising
  reports: one command each, without state in the library.  The command is in
  `BgapiCommands`.
* Hex and MAC text of `gl_common.c`: pure functions on one string.
* The bytes behind an array.  The writes there are steps of the models (a record
  or an entry too many, a service handle too many, a handle of bletool too many,
  the last report of an over-long advertisement); what they overwrite is not,
  and all but `AdvReassembly` end with them.
* The macros and constants of `sl_bt_api.h` and `sli_bt_api.h` that are not
  payload structures: declarations without behaviour; the compatibility header
  renames them.
* The other examples (iBeacon, the parts of bletool that parse and print): they
  call the library from main and print what the callbacks get.
* `gl_ble_module_dfu` locks the mutex that `gl_ble_destroy` has destroyed.
  Nothing runs that could contend for it; the lock is left out.
