------------------------------ MODULE Lifecycle ------------------------------
(***************************************************************************)
(* The life of the library (gl_bleapi.c): gl_ble_init, gl_ble_destroy,     *)
(* gl_ble_subscribe, gl_ble_unsubscribe and gl_ble_check_module, which     *)
(* takes the library down, updates the firmware and brings it up again.    *)
(* They are called by one application thread, in any order, and share      *)
(* pointers that say what exists: _driver_param, _watcher_param, the two   *)
(* thread handles, msqid and the device manager.  Beside them run the      *)
(* driver, which posts the module's boot events, and the watcher, which    *)
(* raises module_boot and ble_version_match.                               *)
(*                                                                         *)
(* What the driver does with the module is the subject of NcpLink; here it *)
(* may post a boot event whenever it runs.  gl_ble_module_dfu locks the    *)
(* mutex that gl_ble_destroy has destroyed; as nothing runs that could     *)
(* contend for it, the lock is left out.                                   *)
(***************************************************************************)
EXTENDS Naturals, Sequences

CONSTANTS
  MaxCalls,  (* bound: calls of the application                            *)
  MaxQueues, (* bound: message queues ever created                         *)
  MaxBoots   (* bound: boot events                                         *)

ASSUME BoundsAssumption ==
  MaxCalls \in Nat /\ MaxQueues \in Nat /\ MaxBoots \in Nat

None == 0            (* a NULL pointer, no thread                          *)
Bad == MaxQueues + 1 (* the -1 of a failed msgget                          *)
QueueIds == 1 .. MaxQueues
Versions == {"match", "other"}

VARIABLES
  drvParam, (* _driver_param is set                                        *)
  driver,   (* the queue of the running driver thread                      *)
  watParam, (* _watcher_param is set                                       *)
  watcher,  (* the queue of the running watcher thread                     *)
  msqid,    (* what msqid points to                                        *)
  live,     (* message queues the kernel holds                             *)
  created,  (* number of message queues created                            *)
  devMgr,   (* the device manager's mutex exists                           *)
  inbox,    (* boot events in each queue, with the version they report     *)
  boots,    (* number of boot events                                       *)
  booted,   (* module_boot                                                 *)
  matched,  (* ble_version_match                                           *)
  firmware, (* version of the module's firmware                            *)
  apc,      (* where the application's call is                             *)
  force,    (* force_dfu                                                   *)
  result,   (* the last call and what it returned                          *)
  wedged,   (* an init could not create its queue                          *)
  believed, (* the last results say that the library is up                 *)
  since,    (* versions of the boot events handled since the last init     *)
  orderly,  (* the calls follow their results, no queue of a subscription  *)
            (* and no init inside a check failed                           *)
  calls,    (* number of calls                                             *)
  crashed   (* a pointer that is not there was used                        *)

drvVars == <<drvParam, driver, devMgr>>
watVars == <<watParam, watcher>>
queueVars == <<msqid, live, created>>
bootVars == <<inbox, boots, booted, matched, firmware, since>>
callVars == <<apc, force, result, wedged, believed, orderly, calls>>
vars == <<drvVars, watVars, queueVars, bootVars, callVars, crashed>>
-----------------------------------------------------------------------------
(* "create an event message queue if it not exist".                        *)
NeedsQueueAlways == TRUE                              \* mutant of NeedsQueue
NeedsQueue == msqid = None

GotQueue ==
  IF NeedsQueue
    THEN /\ created < MaxQueues
         /\ created' = created + 1
         /\ msqid' = created + 1
         /\ live' = live \cup {created + 1}
    ELSE UNCHANGED queueVars

NoQueue ==
  /\ msqid = None
  /\ msqid' = Bad
  /\ UNCHANGED <<live, created>>

(* gl_ble_init.  The result of the hard reset at its end is ignored.       *)
Busy == drvParam \/ driver # None

InitRefused ==
  /\ Busy
  /\ UNCHANGED <<drvVars, queueVars, wedged, since>>

(* msgget fails: _driver_param stays set, and no call but a destroy of     *)
(* what is not there would reset it.                                       *)
InitNoQueue ==
  /\ ~Busy
  /\ NoQueue
  /\ drvParam' = TRUE
  /\ wedged' = TRUE
  /\ UNCHANGED <<driver, devMgr, since>>

(* hal_init or the creation of the thread fails: the queue stays.          *)
ParamAfterFailureKept == TRUE                 \* mutant of ParamAfterFailure
ParamAfterFailure == FALSE
InitFailed ==
  /\ ~Busy
  /\ GotQueue
  /\ drvParam' = ParamAfterFailure
  /\ devMgr' = FALSE
  /\ UNCHANGED <<driver, wedged, since>>

InitOk ==
  /\ ~Busy
  /\ GotQueue
  /\ drvParam' = TRUE
  /\ driver' = msqid'
  /\ devMgr' = TRUE
  /\ since' = {}
  /\ UNCHANGED wedged

(* gl_ble_subscribe.                                                       *)
SubscribeRefused ==
  /\ watParam \/ watcher # None
  /\ UNCHANGED <<watVars, queueVars, orderly>>

SubscribeNoQueue ==
  /\ ~watParam /\ watcher = None
  /\ NoQueue
  /\ watParam' = TRUE
  /\ orderly' = FALSE
  /\ UNCHANGED watcher

SubscribeFailedDrops ==                         \* mutant of SubscribeFailed
  /\ ~watParam /\ watcher = None
  /\ msqid' = None
  /\ live' = live \ {msqid}
  /\ UNCHANGED <<watVars, created, orderly>>
SubscribeFailed ==
  /\ ~watParam /\ watcher = None
  /\ GotQueue
  /\ UNCHANGED <<watVars, orderly>>

SubscribeOk ==
  /\ ~watParam /\ watcher = None
  /\ GotQueue
  /\ watParam' = TRUE
  /\ watcher' = msqid'
  /\ UNCHANGED orderly

(* gl_ble_unsubscribe: cancel, join, forget.                               *)
DropWatcher ==
  /\ watcher' = None
  /\ watParam' = FALSE

(* gl_ble_destroy.  Destroying the device manager twice, or freeing a      *)
(* queue that is not there, is undefined; a queue that cannot be removed   *)
(* is kept.                                                                *)
Destructible == devMgr /\ msqid # None

LiveAfterDestroyKept == live                   \* mutant of LiveAfterDestroy
LiveAfterDestroy == live \ {msqid}
MsqidAfterDestroy == IF msqid = Bad THEN Bad ELSE None
DropDriver ==
  IF Destructible
    THEN /\ driver' = None /\ drvParam' = FALSE /\ devMgr' = FALSE
         /\ live' = LiveAfterDestroy
         /\ msqid' = MsqidAfterDestroy
         /\ inbox' = IF msqid = Bad THEN inbox ELSE [inbox EXCEPT ![msqid] = <<>>]
         /\ UNCHANGED <<created, crashed>>
    ELSE /\ crashed' = TRUE
         /\ UNCHANGED <<drvVars, queueVars, inbox>>
-----------------------------------------------------------------------------
(* The application's calls.                                                *)

Call == apc = "idle" /\ ~crashed /\ calls < MaxCalls /\ calls' = calls + 1
Report(op, outcome) == result' = [op |-> op, outcome |-> outcome]

CallInit ==
  /\ Call
  /\ \/ InitRefused /\ Report("init", "invoke") /\ UNCHANGED believed
     \/ InitNoQueue /\ Report("init", "unknown") /\ believed' = FALSE
     \/ InitFailed /\ Report("init", "unknown") /\ believed' = FALSE
     \/ InitOk /\ Report("init", "success") /\ believed' = TRUE
  /\ UNCHANGED <<watVars, inbox, boots, booted, matched, firmware, apc, force,
                 orderly, crashed>>

CallSubscribe ==
  /\ Call
  /\ \/ SubscribeRefused /\ Report("subscribe", "invoke")
     \/ SubscribeNoQueue /\ Report("subscribe", "unknown")
     \/ SubscribeFailed /\ Report("subscribe", "unknown")
     \/ SubscribeOk /\ Report("subscribe", "success")
  /\ UNCHANGED <<drvVars, bootVars, apc, force, wedged, believed, crashed>>

CallUnsubscribe ==
  /\ Call
  /\ DropWatcher
  /\ Report("unsubscribe", "success")
  /\ UNCHANGED <<drvVars, queueVars, bootVars, apc, force, wedged, believed,
                 orderly, crashed>>

CallDestroy ==
  /\ Call
  /\ DropDriver
  /\ Report("destroy", IF msqid = Bad THEN "unknown" ELSE "success")
  /\ orderly' = (orderly /\ believed /\ watcher = None)
  /\ believed' = FALSE
  /\ UNCHANGED <<watVars, boots, booted, matched, firmware, since, apc, force, wedged>>
-----------------------------------------------------------------------------
(* gl_ble_check_module, step by step: the watcher runs beside it.          *)

CallCheck ==
  /\ Call
  /\ apc' = IF booted THEN "verdict" ELSE "wait"
  /\ force' \in BOOLEAN
  /\ orderly' = (orderly /\ believed)
  /\ UNCHANGED <<drvVars, watVars, queueVars, bootVars, result, wedged, believed, crashed>>

CheckBooted ==
  /\ apc = "wait"
  /\ booted
  /\ apc' = "verdict"
  /\ UNCHANGED <<drvVars, watVars, queueVars, bootVars, force, result, wedged,
                 believed, orderly, calls, crashed>>

CheckPassed ==
  /\ apc = "verdict"
  /\ ~force /\ matched
  /\ booted' = FALSE
  /\ apc' = "idle"
  /\ Report("check", "success")
  /\ UNCHANGED <<drvVars, watVars, queueVars, inbox, boots, matched, firmware,
                 since, force, wedged, believed, orderly, calls, crashed>>

(* No boot within three seconds (the last sleep is not followed by a       *)
(* poll), an update demanded, or another version.                          *)
CheckUpdates ==
  /\ \/ apc = "wait"
     \/ apc = "verdict" /\ (force \/ ~matched)
  /\ apc' = "clear"
  /\ UNCHANGED <<drvVars, watVars, queueVars, bootVars, force, result, wedged,
                 believed, orderly, calls, crashed>>

DfuClear ==
  /\ apc = "clear"
  /\ booted' = FALSE
  /\ apc' = "unsubscribe"
  /\ UNCHANGED <<drvVars, watVars, queueVars, inbox, boots, matched, firmware,
                 since, force, result, wedged, believed, orderly, calls, crashed>>

DfuUnsubscribe ==
  /\ apc = "unsubscribe"
  /\ DropWatcher
  /\ apc' = "destroy"
  /\ UNCHANGED <<drvVars, queueVars, bootVars, force, result, wedged, believed,
                 orderly, calls, crashed>>

DfuDestroy ==
  /\ apc = "destroy" /\ ~crashed
  /\ DropDriver
  /\ apc' = "dfu"
  /\ UNCHANGED <<watVars, boots, booted, matched, firmware, since, force, result,
                 wedged, believed, orderly, calls>>

(* gl_ble_module_dfu: without the GPIO or with a failing tool, an error.   *)
DfuFails ==
  /\ apc = "dfu" /\ ~crashed
  /\ apc' = "idle"
  /\ Report("check", "unknown")
  /\ believed' = FALSE
  /\ UNCHANGED <<drvVars, watVars, queueVars, bootVars, force, wedged, orderly,
                 calls, crashed>>

DfuSucceeds ==
  /\ apc = "dfu" /\ ~crashed
  /\ firmware' \in {firmware, "match"}
  /\ apc' = "init"
  /\ UNCHANGED <<drvVars, watVars, queueVars, inbox, boots, booted, matched,
                 since, force, result, wedged, believed, orderly, calls, crashed>>

(* The results of init and subscribe are ignored.                          *)
DfuInit ==
  /\ apc = "init"
  /\ \/ (InitRefused \/ InitOk) /\ UNCHANGED orderly
     \/ (InitNoQueue \/ InitFailed) /\ orderly' = FALSE
  /\ apc' = "subscribe"
  /\ UNCHANGED <<watVars, inbox, boots, booted, matched, firmware, force, result,
                 believed, calls, crashed>>

DfuSubscribe ==
  /\ apc = "subscribe"
  /\ SubscribeRefused \/ SubscribeNoQueue \/ SubscribeFailed \/ SubscribeOk
  /\ apc' = "idle"
  /\ Report("check", "success")
  /\ UNCHANGED <<drvVars, bootVars, force, wedged, believed, calls, crashed>>

CheckStep ==
  \/ CheckBooted \/ CheckPassed \/ CheckUpdates \/ DfuClear \/ DfuUnsubscribe \/ DfuDestroy
  \/ DfuFails \/ DfuSucceeds \/ DfuInit \/ DfuSubscribe
-----------------------------------------------------------------------------
(* The driver posts a boot event, if its queue exists and has room.        *)
PostBoot ==
  /\ driver \in live /\ boots < MaxBoots /\ ~crashed
  /\ boots' = boots + 1
  /\ inbox' = [inbox EXCEPT ![driver] = Append(@, firmware)]
  /\ UNCHANGED <<drvVars, watVars, queueVars, booted, matched, firmware, since,
                 callVars, crashed>>

(* The watcher handles it: the version first, and only ever up.            *)
WatchBoot ==
  /\ watcher \in live /\ inbox[watcher] # <<>> /\ ~crashed
  /\ LET version == Head(inbox[watcher])
     IN  /\ matched' = (matched \/ version = "match")
         /\ since' = since \cup {version}
  /\ booted' = TRUE
  /\ inbox' = [inbox EXCEPT ![watcher] = Tail(@)]
  /\ UNCHANGED <<drvVars, watVars, queueVars, boots, firmware, callVars, crashed>>
-----------------------------------------------------------------------------
Init ==
  /\ drvParam = FALSE /\ driver = None /\ devMgr = FALSE
  /\ watParam = FALSE /\ watcher = None
  /\ msqid = None /\ live = {} /\ created = 0
  /\ inbox = [q \in QueueIds |-> <<>>] /\ boots = 0
  /\ booted = FALSE /\ matched = FALSE
  /\ firmware \in Versions /\ since = {}
  /\ apc = "idle" /\ force = FALSE
  /\ result = [op |-> "none", outcome |-> "none"]
  /\ wedged = FALSE /\ believed = FALSE /\ orderly = TRUE
  /\ calls = 0 /\ crashed = FALSE

Next ==
  \/ CallInit \/ CallSubscribe \/ CallUnsubscribe \/ CallDestroy \/ CallCheck
  \/ CheckStep \/ PostBoot \/ WatchBoot

Spec == Init /\ [][Next]_vars

(* A running watcher takes what is in its queue.                           *)
FairSpec == Spec /\ WF_vars(WatchBoot)
-----------------------------------------------------------------------------
(* Every variable has its type; msqid points to a queue there is, or to    *)
(* the -1 of one that could not be created.                                *)
TypeOK ==
  /\ drvParam \in BOOLEAN /\ watParam \in BOOLEAN /\ devMgr \in BOOLEAN
  /\ driver \in QueueIds \cup {None, Bad} /\ watcher \in QueueIds \cup {None, Bad}
  /\ msqid \in live \cup {None, Bad}
  /\ live \subseteq 1 .. created /\ created \in 0 .. MaxQueues
  /\ inbox \in [QueueIds -> Seq(Versions)] /\ boots \in Nat
  /\ booted \in BOOLEAN /\ matched \in BOOLEAN
  /\ firmware \in Versions /\ since \subseteq Versions
  /\ apc \in {"idle", "wait", "verdict", "clear", "unsubscribe", "destroy",
              "dfu", "init", "subscribe"}
  /\ force \in BOOLEAN
  /\ result \in [op : {"none", "init", "subscribe", "unsubscribe", "destroy", "check"},
                 outcome : {"none", "success", "invoke", "unknown"}]
  /\ wedged \in BOOLEAN /\ believed \in BOOLEAN /\ orderly \in BOOLEAN
  /\ calls \in Nat /\ crashed \in BOOLEAN

(* A System V queue outlives its process.  However the calls are ordered   *)
(* and whatever fails, no queue is left behind: the only one there can be  *)
(* is the one msqid holds.                                                 *)
NoQueueLeak == live \subseteq {msqid}

(* Driver and subscriber are on the same queue, in whatever order they     *)
(* were started and however often, as long as the application destroys     *)
(* only what it unsubscribed from.                                         *)
SharedQueue ==
  orderly /\ driver # None /\ watcher # None => driver = watcher /\ driver \in live

(* An application that follows the results it gets never makes the library *)
(* destroy what is not there, as long as no re-initialisation inside of a  *)
(* check fails unnoticed.                                                  *)
DestroyIsSafe == orderly => ~crashed

(* gl_ble_init: "err return if ble driver thread exist".  That is not all: *)
(* whatever calls were made and failed, it is refused exactly while a      *)
(* driver thread exists, and, after an init whose msgget failed, for good. *)
RefusalHasTwoCauses == Busy <=> driver # None \/ wedged

(* A boot event the driver has posted is handled, as long as the           *)
(* subscription lasts.                                                     *)
Pending == driver # None /\ driver \in live /\ inbox[driver] # <<>>
BootIsHandled ==
  Pending /\ watcher # None ~> (~Pending \/ watcher = None \/ ~orderly \/ crashed)

(* gl_bleapi.h of gl_ble_check_module: "If the ble module can booted and   *)
(* version matched, will return GL_SUCCESS. Other return situation are not *)
(* matched."                                                               *)
SuccessMeansMatched ==
  apc = "idle" /\ result = [op |-> "check", outcome |-> "success"]
    => "match" \in since
=============================================================================
