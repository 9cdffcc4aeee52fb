--------------------------- MODULE LifecycleProofs ---------------------------
(* Proofs about the life of the library, for every number of calls, queues *)
(* and boot events.                                                        *)
EXTENDS Lifecycle, SequenceTheorems, TLAPS

(* The parts of TypeOK a step can be looked at by itself.                  *)
QueueType ==
  /\ msqid \in live \cup {None, Bad}
  /\ live \subseteq 1 .. created /\ created \in 0 .. MaxQueues
ThreadType ==
  /\ driver \in QueueIds \cup {None, Bad}
  /\ watcher \in QueueIds \cup {None, Bad}
FlagType ==
  /\ drvParam \in BOOLEAN /\ watParam \in BOOLEAN /\ devMgr \in BOOLEAN
  /\ wedged \in BOOLEAN /\ believed \in BOOLEAN /\ orderly \in BOOLEAN
  /\ crashed \in BOOLEAN
InboxType == inbox \in [QueueIds -> Seq(Versions)] /\ boots \in Nat
BootType ==
  /\ booted \in BOOLEAN /\ matched \in BOOLEAN
  /\ firmware \in Versions /\ since \subseteq Versions
CallType ==
  /\ apc \in {"idle", "wait", "verdict", "clear", "unsubscribe", "destroy",
              "dfu", "init", "subscribe"}
  /\ force \in BOOLEAN /\ calls \in Nat
  /\ result \in [op : {"none", "init", "subscribe", "unsubscribe", "destroy", "check"},
                 outcome : {"none", "success", "invoke", "unknown"}]

(* What the pointers mean to each other as long as the application follows *)
(* the results: the driver and the watcher are on the queue of msqid, a    *)
(* library believed to be up is up, and inside a check it is taken down    *)
(* and brought up again.                                                   *)
Up == devMgr /\ msqid # None
Down == driver = None /\ ~drvParam

Pointers ==
  /\ msqid # Bad
  /\ drvParam => driver # None
  /\ driver # None => driver = msqid
  /\ watcher # None => watcher = msqid
Progress ==
  /\ apc = "idle" /\ believed => Up
  /\ apc \in {"wait", "verdict", "clear", "unsubscribe", "destroy", "subscribe"}
       => Up
  /\ apc \in {"destroy", "dfu", "init"} => watcher = None
  /\ apc \in {"dfu", "init"} => Down
(* After an init without a queue there is no driver, and an application    *)
(* that follows the results makes neither a destroy nor a check.           *)
Stuck == driver = None /\ ~believed /\ apc = "idle"
Sound == IF wedged THEN Stuck ELSE Pointers /\ Progress
Consistent == orderly => ~crashed /\ Sound

(* _driver_param and the device manager stand for a driver, whatever the   *)
(* application does, but for an init without a queue.                      *)
Params ==
  /\ drvParam <=> driver # None \/ wedged
  /\ devMgr <=> driver # None
  /\ wedged => driver = None

IInv == TypeOK /\ NoQueueLeak /\ Params /\ Consistent

USE BoundsAssumption DEF None, Bad, QueueIds, Versions
-----------------------------------------------------------------------------
LEMMA TypeParts ==
  TypeOK <=> QueueType /\ ThreadType /\ FlagType /\ InboxType /\ BootType /\ CallType
BY Zenon DEF TypeOK, QueueType, ThreadType, FlagType, InboxType, BootType, CallType

LEMMA InitInv == Init => IInv
<1> SUFFICES ASSUME Init PROVE IInv
  OBVIOUS
<1>1. QueueType /\ ThreadType
  BY DEF Init, QueueType, ThreadType
<1>2. FlagType
  BY Zenon DEF Init, FlagType
<1>3. InboxType
  <2>1. <<>> \in Seq(Versions)
    OBVIOUS
  <2> QED BY <2>1 DEF Init, InboxType
<1>4. BootType
  BY Zenon DEF Init, BootType
<1>5. CallType
  BY DEF Init, CallType
<1>6. NoQueueLeak /\ Params /\ Consistent
  BY DEF Init, NoQueueLeak, Params, Consistent, Sound, Pointers, Progress, Up, Down
<1> QED BY <1>1, <1>2, <1>3, <1>4, <1>5, <1>6, TypeParts DEF IInv

(* A queue that is there, or a new one, is the only one. *)
LEMMA GotQueueInv ==
  ASSUME QueueType, NoQueueLeak, GotQueue
  PROVE  /\ QueueType' /\ NoQueueLeak'
         /\ msqid' \in QueueIds \cup {Bad}
         /\ msqid # None => msqid' = msqid
         /\ msqid # Bad => msqid' # Bad
<1>1. CASE NeedsQueue
  <2>1. live = {}
    BY <1>1 DEF QueueType, NoQueueLeak, NeedsQueue
  <2> QED BY <1>1, <2>1 DEF GotQueue, NeedsQueue, QueueType, NoQueueLeak
<1>2. CASE ~NeedsQueue
  <2>1. msqid' = msqid /\ live' = live /\ created' = created /\ msqid # None
    BY <1>2 DEF GotQueue, NeedsQueue, queueVars
  <2> QED BY <2>1 DEF QueueType, NoQueueLeak
<1> QED BY <1>1, <1>2

LEMMA NoQueueInv ==
  ASSUME QueueType, NoQueueLeak, NoQueue
  PROVE  QueueType' /\ NoQueueLeak' /\ msqid' = Bad
BY DEF QueueType, NoQueueLeak, NoQueue

(* Destroying what is there leaves no queue. *)
LEMMA DropDriverInv ==
  ASSUME QueueType, NoQueueLeak, ThreadType, InboxType, DropDriver, boots' = boots,
         watcher' = watcher
  PROVE  QueueType' /\ NoQueueLeak' /\ ThreadType' /\ InboxType'
<1>1. CASE Destructible
  <2>1. msqid # None /\ live' = {} /\ created' = created /\ driver' = None
    BY <1>1 DEF DropDriver, Destructible, LiveAfterDestroy, QueueType, NoQueueLeak
  <2>2. InboxType'
    <3>1. CASE msqid = Bad
      BY <1>1, <3>1 DEF DropDriver, InboxType
    <3>2. CASE msqid # Bad
      <4>1. inbox' = [inbox EXCEPT ![msqid] = <<>>]
        BY <1>1, <3>2 DEF DropDriver
      <4>2. <<>> \in Seq(Versions)
        OBVIOUS
      <4> QED BY <4>1, <4>2 DEF InboxType
    <3> QED BY <3>1, <3>2
  <2>3. msqid' \in {None, Bad}
    BY <1>1 DEF DropDriver, MsqidAfterDestroy
  <2> QED BY <2>1, <2>2, <2>3 DEF QueueType, NoQueueLeak, ThreadType
<1>2. CASE ~Destructible
  <2>1. /\ msqid' = msqid /\ live' = live /\ created' = created
        /\ driver' = driver /\ inbox' = inbox
    BY <1>2 DEF DropDriver, drvVars, queueVars
  <2> QED BY <2>1 DEF QueueType, NoQueueLeak, ThreadType, InboxType
<1> QED BY <1>1, <1>2
-----------------------------------------------------------------------------
(* The queues and the threads: every step.                                 *)
Queues == QueueType /\ NoQueueLeak /\ ThreadType

LEMMA QueuesNext ==
  ASSUME Queues, InboxType, [Next]_vars
  PROVE  Queues'
<1> USE DEF Queues
<1>1. ASSUME UNCHANGED <<queueVars, driver, watcher>>
      PROVE  Queues'
  BY <1>1 DEF queueVars, QueueType, ThreadType, NoQueueLeak
<1>2. ASSUME UNCHANGED queueVars, watcher' = None, driver' = driver
      PROVE  Queues'
  BY <1>2 DEF queueVars, QueueType, ThreadType, NoQueueLeak
<1>3. ASSUME InitRefused \/ InitNoQueue \/ InitOk \/ (GotQueue /\ driver' = driver),
             watcher' = watcher
      PROVE  Queues'
  <2>1. CASE InitRefused
    BY <1>1, <1>3, <2>1 DEF InitRefused, drvVars
  <2>2. CASE InitNoQueue
    BY <1>3, <2>2, NoQueueInv DEF InitNoQueue, ThreadType
  <2>3. CASE InitOk
    BY <1>3, <2>3, GotQueueInv DEF InitOk, ThreadType
  <2>4. CASE GotQueue /\ driver' = driver
    BY <1>3, <2>4, GotQueueInv DEF ThreadType
  <2> QED BY <1>3, <2>1, <2>2, <2>3, <2>4
<1>4. ASSUME SubscribeRefused \/ SubscribeNoQueue \/ SubscribeFailed \/ SubscribeOk,
             driver' = driver
      PROVE  Queues'
  <2>1. CASE SubscribeRefused
    BY <1>1, <1>4, <2>1 DEF SubscribeRefused, watVars
  <2>2. CASE SubscribeNoQueue
    BY <1>4, <2>2, NoQueueInv DEF SubscribeNoQueue, ThreadType
  <2>3. CASE SubscribeFailed
    BY <1>4, <2>3, GotQueueInv DEF SubscribeFailed, ThreadType, watVars
  <2>4. CASE SubscribeOk
    BY <1>4, <2>4, GotQueueInv DEF SubscribeOk, ThreadType
  <2> QED BY <1>4, <2>1, <2>2, <2>3, <2>4
<1>5. CASE CallInit
  <2>1. InitRefused \/ InitNoQueue \/ InitOk \/ (GotQueue /\ driver' = driver)
    <3>1. InitRefused \/ InitNoQueue \/ InitFailed \/ InitOk
      BY <1>5, Zenon DEF CallInit
    <3>2. InitFailed => GotQueue /\ driver' = driver
      BY DEF InitFailed
    <3> QED BY <3>1, <3>2, Zenon
  <2>2. watcher' = watcher
    BY <1>5 DEF CallInit, watVars
  <2> QED BY <2>1, <2>2, <1>3
<1>6. CASE CallSubscribe
  BY <1>6, <1>4 DEF CallSubscribe, drvVars
<1>7. CASE CallUnsubscribe
  BY <1>7, <1>2 DEF CallUnsubscribe, DropWatcher, drvVars
<1>8. CASE CallDestroy
  BY <1>8, DropDriverInv DEF CallDestroy, watVars
<1>9. CASE CheckStep
  <2>1. CASE CheckBooted \/ CheckPassed \/ CheckUpdates \/ DfuClear \/ DfuFails
             \/ DfuSucceeds
    BY <2>1, <1>1 DEF CheckBooted, CheckPassed, CheckUpdates, DfuClear, DfuFails,
       DfuSucceeds, drvVars, watVars
  <2>2. CASE DfuUnsubscribe
    BY <2>2, <1>2 DEF DfuUnsubscribe, DropWatcher, drvVars
  <2>3. CASE DfuDestroy
    BY <2>3, DropDriverInv DEF DfuDestroy, watVars
  <2>4. CASE DfuInit
    <3>1. InitRefused \/ InitNoQueue \/ InitOk \/ (GotQueue /\ driver' = driver)
      <4>1. \/ InitRefused \/ InitNoQueue \/ InitOk
            \/ InitFailed
        BY <2>4, Zenon DEF DfuInit
      <4>2. InitFailed => GotQueue /\ driver' = driver
        BY DEF InitFailed
      <4> QED BY <4>1, <4>2, Zenon
    <3>2. watcher' = watcher
      BY <2>4 DEF DfuInit, watVars
    <3> QED BY <3>1, <3>2, <1>3
  <2>5. CASE DfuSubscribe
    BY <2>5, <1>4 DEF DfuSubscribe, drvVars
  <2> QED BY <1>9, <2>1, <2>2, <2>3, <2>4, <2>5 DEF CheckStep
<1>10. CASE CallCheck \/ PostBoot \/ WatchBoot
  BY <1>10, <1>1 DEF CallCheck, PostBoot, WatchBoot, drvVars, watVars
<1>11. CASE UNCHANGED vars
  BY <1>11, <1>1 DEF vars, drvVars, watVars
<1> QED BY <1>5, <1>6, <1>7, <1>8, <1>9, <1>10, <1>11 DEF Next
-----------------------------------------------------------------------------
(* The other types: every step.                                            *)
LEMMA InboxNext ==
  ASSUME Queues, InboxType, firmware \in Versions, [Next]_vars
  PROVE  InboxType'
<1>1. CASE CallInit \/ CallSubscribe \/ CallUnsubscribe \/ CallCheck \/ UNCHANGED vars
  BY <1>1 DEF CallInit, CallSubscribe, CallUnsubscribe, CallCheck, vars, bootVars, InboxType
<1>2. CASE CallDestroy \/ DfuDestroy
  BY <1>2, DropDriverInv DEF CallDestroy, DfuDestroy, watVars, Queues
<1>3. CASE CheckStep /\ ~DfuDestroy
  BY <1>3 DEF CheckStep, CheckBooted, CheckPassed, CheckUpdates, DfuClear,
     DfuUnsubscribe, DfuFails, DfuSucceeds, DfuInit, DfuSubscribe, bootVars, InboxType
<1>4. CASE PostBoot
  <2>1. driver \in QueueIds /\ inbox[driver] \in Seq(Versions)
    BY <1>4 DEF PostBoot, Queues, QueueType, InboxType
  <2>2. Append(inbox[driver], firmware) \in Seq(Versions)
    BY <2>1
  <2>3. inbox' = [inbox EXCEPT ![driver] = Append(inbox[driver], firmware)]
    BY <1>4 DEF PostBoot
  <2>4. boots' \in Nat
    BY <1>4 DEF PostBoot, InboxType
  <2> QED BY <2>1, <2>2, <2>3, <2>4 DEF InboxType
<1>5. CASE WatchBoot
  <2>1. /\ watcher \in QueueIds /\ inbox[watcher] \in Seq(Versions)
        /\ inbox[watcher] # <<>>
    BY <1>5 DEF WatchBoot, Queues, QueueType, InboxType
  <2>2. Tail(inbox[watcher]) \in Seq(Versions)
    BY <2>1
  <2>3. inbox' = [inbox EXCEPT ![watcher] = Tail(inbox[watcher])] /\ boots' = boots
    BY <1>5 DEF WatchBoot
  <2> QED BY <2>1, <2>2, <2>3 DEF InboxType
<1> QED BY <1>1, <1>2, <1>3, <1>4, <1>5 DEF Next, CheckStep

LEMMA BootNext ==
  ASSUME Queues, InboxType, BootType, [Next]_vars
  PROVE  BootType'
<1>1. CASE CallInit
  BY <1>1, Zenon DEF CallInit, InitRefused, InitNoQueue, InitFailed, InitOk, BootType
<1>2. CASE CallSubscribe \/ CallUnsubscribe \/ CallDestroy \/ CallCheck \/ UNCHANGED vars
  BY <1>2, Zenon DEF CallSubscribe, CallUnsubscribe, CallDestroy, CallCheck, vars,
     bootVars, BootType
<1>3. CASE CheckStep
  <2>1. CASE DfuSucceeds
    BY <2>1, Zenon DEF DfuSucceeds, BootType
  <2>2. CASE DfuInit
    BY <2>2, Zenon DEF DfuInit, InitRefused, InitNoQueue, InitFailed, InitOk, BootType
  <2>3. CASE CheckPassed \/ DfuClear
    BY <2>3, Zenon DEF CheckPassed, DfuClear, BootType
  <2>4. CASE DfuDestroy
    BY <2>4, Zenon DEF DfuDestroy, BootType
  <2>5. CASE CheckBooted \/ CheckUpdates \/ DfuUnsubscribe \/ DfuFails \/ DfuSubscribe
    BY <2>5, Zenon DEF CheckBooted, CheckUpdates, DfuUnsubscribe, DfuFails, DfuSubscribe,
       bootVars, BootType
  <2> QED BY <1>3, <2>1, <2>2, <2>3, <2>4, <2>5 DEF CheckStep
<1>4. CASE PostBoot
  BY <1>4, Zenon DEF PostBoot, BootType
<1>5. CASE WatchBoot
  <2>1. Head(inbox[watcher]) \in Versions
    BY <1>5 DEF WatchBoot, Queues, QueueType, InboxType
  <2>2. since' \subseteq Versions
    BY <2>1, <1>5 DEF WatchBoot, BootType
  <2>3. booted' \in BOOLEAN /\ matched' \in BOOLEAN
    BY <1>5, Zenon DEF WatchBoot, BootType
  <2>4. firmware' = firmware
    BY <1>5 DEF WatchBoot
  <2> QED BY <2>2, <2>3, <2>4 DEF BootType
<1> QED BY <1>1, <1>2, <1>3, <1>4, <1>5 DEF Next

LEMMA CallNext ==
  ASSUME CallType, [Next]_vars
  PROVE  CallType'
<1> USE DEF CallType, Call, Report
<1>1. CASE CallInit
  BY <1>1 DEF CallInit
<1>2. CASE CallSubscribe \/ CallUnsubscribe \/ CallDestroy
  BY <1>2 DEF CallSubscribe, CallUnsubscribe, CallDestroy
<1>3. CASE CallCheck
  BY <1>3 DEF CallCheck
<1>4. CASE CheckStep
  BY <1>4 DEF CheckStep, CheckBooted, CheckPassed, CheckUpdates, DfuClear,
     DfuUnsubscribe, DfuDestroy, DfuFails, DfuSucceeds, DfuInit, DfuSubscribe
<1>5. CASE PostBoot \/ WatchBoot \/ UNCHANGED vars
  BY <1>5 DEF PostBoot, WatchBoot, vars, callVars
<1> QED BY <1>1, <1>2, <1>3, <1>4, <1>5 DEF Next

LEMMA FlagNext ==
  ASSUME FlagType, [Next]_vars
  PROVE  FlagType'
<1> USE DEF FlagType
<1>1. ASSUME InitRefused \/ InitNoQueue \/ InitFailed \/ InitOk
      PROVE  /\ drvParam' \in BOOLEAN /\ devMgr' \in BOOLEAN
             /\ wedged' \in BOOLEAN
  BY <1>1, Zenon DEF InitRefused, InitNoQueue, InitFailed, InitOk, ParamAfterFailure,
     drvVars
<1>2. ASSUME SubscribeRefused \/ SubscribeNoQueue \/ SubscribeFailed \/ SubscribeOk
      PROVE  watParam' \in BOOLEAN /\ orderly' \in BOOLEAN
  BY <1>2, Zenon DEF SubscribeRefused, SubscribeNoQueue, SubscribeFailed, SubscribeOk,
     watVars
<1>3. ASSUME DropDriver
      PROVE  drvParam' \in BOOLEAN /\ devMgr' \in BOOLEAN /\ crashed' \in BOOLEAN
  BY <1>3, Zenon DEF DropDriver, drvVars
<1>4. CASE CallInit
  BY <1>4, <1>1, Zenon DEF CallInit, watVars
<1>5. CASE CallSubscribe
  BY <1>5, <1>2, Zenon DEF CallSubscribe, drvVars
<1>6. CASE CallUnsubscribe
  BY <1>6, Zenon DEF CallUnsubscribe, DropWatcher, drvVars
<1>7. CASE CallDestroy
  BY <1>7, <1>3, Zenon DEF CallDestroy, watVars
<1>8. CASE CallCheck
  BY <1>8, Zenon DEF CallCheck, drvVars, watVars
<1>9. CASE CheckStep
  <2>1. CASE CheckBooted \/ CheckPassed \/ CheckUpdates \/ DfuClear \/ DfuFails
             \/ DfuSucceeds
    BY <2>1, Zenon DEF CheckBooted, CheckPassed, CheckUpdates, DfuClear, DfuFails,
       DfuSucceeds, drvVars, watVars
  <2>2. CASE DfuUnsubscribe
    BY <2>2, Zenon DEF DfuUnsubscribe, DropWatcher, drvVars
  <2>3. CASE DfuDestroy
    BY <2>3, <1>3, Zenon DEF DfuDestroy, watVars
  <2>4. CASE DfuInit
    BY <2>4, <1>1, Zenon DEF DfuInit, watVars, ParamAfterFailure
  <2>5. CASE DfuSubscribe
    BY <2>5, <1>2, Zenon DEF DfuSubscribe, drvVars
  <2> QED BY <1>9, <2>1, <2>2, <2>3, <2>4, <2>5 DEF CheckStep
<1>10. CASE PostBoot \/ WatchBoot
  BY <1>10, Zenon DEF PostBoot, WatchBoot, drvVars, watVars, callVars
<1>11. CASE UNCHANGED vars
  BY <1>11, Zenon DEF vars, drvVars, watVars, callVars
<1> QED BY <1>4, <1>5, <1>6, <1>7, <1>8, <1>9, <1>10, <1>11 DEF Next
-----------------------------------------------------------------------------
(* What the parameters stand for: every step.                              *)
LEMMA ParamsNext ==
  ASSUME Queues, Params, [Next]_vars
  PROVE  Params'
<1> USE DEF Params
<1>1. ASSUME UNCHANGED <<drvVars, wedged>>
      PROVE  Params'
  BY <1>1 DEF drvVars
<1>2. ASSUME InitRefused \/ InitNoQueue \/ InitFailed \/ InitOk
      PROVE  Params'
  <2>1. CASE InitRefused
    BY <2>1, <1>1 DEF InitRefused
  <2>2. CASE InitNoQueue
    BY <2>2 DEF InitNoQueue, Busy
  <2>3. CASE InitFailed
    BY <2>3 DEF InitFailed, Busy, ParamAfterFailure
  <2>4. CASE InitOk
    <3>1. msqid' \in QueueIds \cup {Bad}
      BY <2>4, GotQueueInv DEF InitOk, Queues
    <3> QED BY <2>4, <3>1 DEF InitOk, Busy
  <2> QED BY <1>2, <2>1, <2>2, <2>3, <2>4
<1>3. ASSUME DropDriver, wedged' = wedged
      PROVE  Params'
  <2>1. CASE Destructible
    BY <1>3, <2>1 DEF DropDriver, Destructible
  <2>2. CASE ~Destructible
    BY <1>1, <1>3, <2>2 DEF DropDriver
  <2> QED BY <2>1, <2>2
<1>4. CASE CallInit
  BY <1>2, <1>4, Zenon DEF CallInit
<1>5. CASE CallSubscribe \/ CallUnsubscribe \/ CallCheck \/ PostBoot \/ WatchBoot
           \/ UNCHANGED vars
  BY <1>1, <1>5 DEF CallSubscribe, CallUnsubscribe, CallCheck, PostBoot, WatchBoot,
     vars, callVars
<1>6. CASE CallDestroy \/ DfuDestroy
  BY <1>3, <1>6 DEF CallDestroy, DfuDestroy
<1>7. CASE DfuInit
  BY <1>2, <1>7, Zenon DEF DfuInit
<1>8. CASE CheckStep /\ ~DfuDestroy /\ ~DfuInit
  BY <1>1, <1>8 DEF CheckStep, CheckBooted, CheckPassed, CheckUpdates, DfuClear,
     DfuUnsubscribe, DfuFails, DfuSucceeds, DfuSubscribe
<1> QED BY <1>4, <1>5, <1>6, <1>7, <1>8 DEF Next

(* What the pointers mean: every step.                                     *)
LEMMA OrderlyStays ==
  ASSUME FlagType, [Next]_vars, orderly'
  PROVE  orderly
<1>1. CASE CallInit \/ CallUnsubscribe \/ PostBoot \/ WatchBoot \/ UNCHANGED vars
  BY <1>1, Zenon DEF CallInit, CallUnsubscribe, PostBoot, WatchBoot, vars, callVars
<1>2. CASE CallSubscribe \/ DfuSubscribe
  BY <1>2, Zenon DEF CallSubscribe, DfuSubscribe, SubscribeRefused, SubscribeNoQueue,
     SubscribeFailed, SubscribeOk
<1>3. CASE CallDestroy \/ CallCheck
  BY <1>3, Zenon DEF CallDestroy, CallCheck
<1>4. CASE DfuInit
  BY <1>4, Zenon DEF DfuInit
<1>5. CASE CheckStep /\ ~DfuInit /\ ~DfuSubscribe
  BY <1>5, Zenon DEF CheckStep, CheckBooted, CheckPassed, CheckUpdates, DfuClear,
     DfuUnsubscribe, DfuDestroy, DfuFails, DfuSucceeds
<1> QED BY <1>1, <1>2, <1>3, <1>4, <1>5 DEF Next, CheckStep

(* After an init without a queue the library stays without a driver.       *)
LEMMA StuckNext ==
  ASSUME Params, wedged, Stuck, ~crashed, orderly, [Next]_vars, orderly'
  PROVE  ~crashed' /\ wedged' /\ Stuck'
<1> USE DEF Stuck
<1>1. Busy
  BY DEF Params, Busy
<1>2. CASE CallInit
  <2>1. InitRefused /\ UNCHANGED believed
    BY <1>1, <1>2, Zenon DEF CallInit, InitNoQueue, InitFailed, InitOk
  <2> QED BY <1>2, <2>1 DEF CallInit, Call, InitRefused, drvVars
<1>3. CASE CallSubscribe \/ CallUnsubscribe \/ PostBoot \/ WatchBoot \/ UNCHANGED vars
  <2>1. UNCHANGED <<driver, wedged, believed, crashed, apc>>
    BY <1>3 DEF CallSubscribe, CallUnsubscribe, Call, PostBoot, WatchBoot, vars, drvVars,
       callVars
  <2> QED BY <2>1
<1>4. ~CallDestroy /\ ~CallCheck
  BY Zenon DEF CallDestroy, CallCheck
<1>5. ~CheckStep
  BY DEF CheckStep, CheckBooted, CheckPassed, CheckUpdates, DfuClear, DfuUnsubscribe,
     DfuDestroy, DfuFails, DfuSucceeds, DfuInit, DfuSubscribe
<1> QED BY <1>2, <1>3, <1>4, <1>5 DEF Next

LEMMA SoundNext ==
  ASSUME Queues, FlagType, CallType, ~wedged, ~crashed, orderly, Pointers, Progress,
         [Next]_vars, orderly'
  PROVE  ~crashed' /\ Sound'
<1>1. ASSUME UNCHANGED <<drvVars, watVars, queueVars, apc, wedged, believed, crashed>>
      PROVE  ~crashed' /\ Sound'
  BY <1>1 DEF Sound, Pointers, Progress, Up, Down, drvVars, watVars, queueVars
<1>2. CASE CallInit
  <2>2. apc = "idle" /\ apc' = "idle" /\ crashed' = crashed /\ watcher' = watcher
    BY <1>2 DEF CallInit, Call, watVars
  <2>3. CASE InitRefused /\ UNCHANGED believed
    <3>1. /\ drvParam' = drvParam /\ driver' = driver /\ devMgr' = devMgr
          /\ msqid' = msqid /\ live' = live /\ believed' = believed /\ wedged' = wedged
      BY <2>3 DEF InitRefused, drvVars, queueVars
    <3> QED BY <2>2, <3>1 DEF Sound, Pointers, Progress, Up, Down
  <2>4. CASE InitFailed /\ believed' = FALSE
    <3>1. drvParam' = FALSE /\ driver' = driver /\ wedged' = wedged /\ ~Busy
      BY <2>4 DEF InitFailed, ParamAfterFailure
    <3>2. msqid' # Bad /\ (msqid # None => msqid' = msqid)
      BY <2>4, GotQueueInv DEF InitFailed, Queues, Pointers
    <3> QED BY <2>2, <2>4, <3>1, <3>2 DEF Sound, Pointers, Progress, Busy
  <2>5. CASE InitOk
    <3>1. drvParam' = TRUE /\ driver' = msqid' /\ wedged' = wedged /\ ~Busy /\ devMgr' = TRUE
      BY <2>5 DEF InitOk
    <3>2. /\ msqid' # Bad /\ (msqid # None => msqid' = msqid) /\ msqid' # None
      BY <2>5, GotQueueInv DEF InitOk, Queues, Pointers
    <3> QED BY <2>2, <2>5, <3>1, <3>2 DEF Sound, Pointers, Progress, Up
  <2>6. CASE InitNoQueue /\ believed' = FALSE
    <3>1. wedged' /\ driver' = driver /\ driver = None
      BY <2>6 DEF InitNoQueue, Busy
    <3> QED BY <2>2, <2>6, <3>1 DEF Sound, Stuck
  <2>7. \/ InitRefused /\ UNCHANGED believed
        \/ InitNoQueue /\ believed' = FALSE
        \/ InitFailed /\ believed' = FALSE
        \/ InitOk
    BY <1>2, Zenon DEF CallInit
  <2> QED BY <2>3, <2>4, <2>5, <2>6, <2>7
<1>3. ASSUME SubscribeRefused \/ SubscribeNoQueue \/ SubscribeFailed \/ SubscribeOk,
             UNCHANGED <<drvVars, wedged, crashed>>, apc \notin {"destroy", "dfu", "init"},
             apc' = "idle", apc = "idle" => believed' = believed, apc # "idle" => apc = "subscribe"
      PROVE  ~crashed' /\ Sound'
  <2>1. drvParam' = drvParam /\ driver' = driver /\ devMgr' = devMgr /\ wedged' = wedged /\ crashed' = crashed
    BY <1>3 DEF drvVars
  <2>2. ~SubscribeNoQueue
    BY Zenon DEF SubscribeNoQueue
  <2>4. CASE SubscribeRefused
    BY <1>3, <2>1, <2>4 DEF SubscribeRefused, Sound, Pointers, Progress, Up, watVars, queueVars
  <2>5. CASE SubscribeFailed \/ SubscribeOk
    <3>1. watcher = None /\ watcher' \in {None, msqid'} /\ GotQueue
      BY <2>5 DEF SubscribeFailed, SubscribeOk, watVars
    <3>2. msqid' # Bad /\ (msqid # None => msqid' = msqid)
      BY <3>1, GotQueueInv DEF Queues, Pointers
    <3> QED BY <1>3, <2>1, <3>1, <3>2 DEF Sound, Pointers, Progress, Up
  <2> QED BY <1>3, <2>2, <2>4, <2>5
<1>4. CASE CallSubscribe
  BY <1>4, <1>3 DEF CallSubscribe, Call
<1>5. CASE CallUnsubscribe
  BY <1>5 DEF CallUnsubscribe, Call, DropWatcher, drvVars, queueVars, Sound, Pointers,
     Progress, Up
<1>6. CASE CallDestroy
  <2>1. believed /\ watcher = None /\ apc = "idle" /\ apc' = "idle"
        /\ watcher' = watcher /\ wedged' = wedged /\ ~believed'
    BY <1>6 DEF CallDestroy, Call, watVars
  <2>2. Up
    BY <2>1 DEF Progress
  <2>3. Destructible
    BY <2>2 DEF Up, Destructible
  <2>4. driver' = None /\ drvParam' = FALSE /\ crashed' = crashed /\ msqid' \in {None, Bad}
        /\ msqid' = MsqidAfterDestroy
    BY <1>6, <2>3 DEF CallDestroy, DropDriver, MsqidAfterDestroy
  <2> QED BY <2>1, <2>4 DEF Sound, Pointers, Progress, MsqidAfterDestroy
<1>7. CASE CallCheck
  <2>1. believed /\ apc = "idle" /\ apc' \in {"verdict", "wait"}
    BY <1>7 DEF CallCheck, Call
  <2> QED BY <1>7, <2>1 DEF CallCheck, Call, Sound, Pointers, Progress, Up, Down, drvVars,
             watVars, queueVars
<1>8. CASE CheckStep
  <2>1. CASE CheckBooted \/ CheckPassed \/ CheckUpdates \/ DfuClear
    <3>1. /\ UNCHANGED <<drvVars, watVars, queueVars, wedged, believed, crashed>>
          /\ apc \in {"wait", "verdict", "clear"} /\ apc' \in {"idle", "verdict", "clear", "unsubscribe"}
      BY <2>1 DEF CheckBooted, CheckPassed, CheckUpdates, DfuClear
    <3> QED BY <3>1 DEF Sound, Pointers, Progress, Up, drvVars, watVars, queueVars
  <2>2. CASE DfuUnsubscribe
    BY <2>2 DEF DfuUnsubscribe, DropWatcher, Sound, Pointers, Progress, Up, Down, drvVars,
       queueVars
  <2>3. CASE DfuDestroy
    <3>1. apc = "destroy" /\ apc' = "dfu" /\ watcher' = watcher /\ wedged' = wedged
      BY <2>3 DEF DfuDestroy, watVars
    <3>2. Up /\ watcher = None
      BY <3>1 DEF Progress
    <3>3. Destructible
      BY <3>2 DEF Up, Destructible
    <3>4. driver' = None /\ drvParam' = FALSE /\ crashed' = crashed
          /\ msqid' = MsqidAfterDestroy
      BY <2>3, <3>3 DEF DfuDestroy, DropDriver
    <3> QED BY <3>1, <3>2, <3>4 DEF Sound, Pointers, Progress, Down, MsqidAfterDestroy
  <2>4. CASE DfuFails \/ DfuSucceeds
    <3>1. /\ UNCHANGED <<drvVars, watVars, queueVars, wedged, crashed>>
          /\ apc = "dfu"
          /\ \/ apc' = "idle" /\ believed' = FALSE
             \/ apc' = "init"
      BY <2>4 DEF DfuFails, DfuSucceeds
    <3> QED BY <3>1 DEF Sound, Pointers, Progress, Up, Down, drvVars, watVars, queueVars
  <2>5. CASE DfuInit
    <3>1. apc = "init" /\ apc' = "subscribe" /\ watcher' = watcher /\ crashed' = crashed
      BY <2>5 DEF DfuInit, watVars
    <3>3. InitRefused \/ InitOk
      BY <2>5, Zenon DEF DfuInit
    <3>5. Down /\ watcher = None
      BY <3>1 DEF Progress
    <3>6. ~InitRefused
      BY <3>5 DEF Down, InitRefused, Busy
    <3>7. drvParam' = TRUE /\ driver' = msqid' /\ wedged' = wedged /\ devMgr' = TRUE
      BY <3>3, <3>6 DEF InitOk
    <3>8. msqid' # Bad /\ msqid' # None
      BY <3>3, <3>6, GotQueueInv DEF InitOk, Queues, Pointers
    <3> QED BY <3>1, <3>5, <3>7, <3>8 DEF Sound, Pointers, Progress, Up
  <2>6. CASE DfuSubscribe
    BY <2>6, <1>3 DEF DfuSubscribe
  <2> QED BY <1>8, <2>1, <2>2, <2>3, <2>4, <2>5, <2>6 DEF CheckStep
<1>9. CASE PostBoot \/ WatchBoot
  BY <1>9, <1>1 DEF PostBoot, WatchBoot, callVars
<1>10. CASE UNCHANGED vars
  BY <1>10, <1>1 DEF vars, callVars
<1> QED BY <1>2, <1>4, <1>5, <1>6, <1>7, <1>8, <1>9, <1>10 DEF Next

LEMMA ConsistentNext ==
  ASSUME Queues, FlagType, CallType, Params, Consistent, [Next]_vars
  PROVE  Consistent'
<1> SUFFICES ASSUME orderly' PROVE ~crashed' /\ Sound'
  BY DEF Consistent
<1>1. orderly /\ ~crashed /\ Sound
  BY OrderlyStays DEF Consistent
<1>2. CASE wedged
  BY <1>1, <1>2, StuckNext DEF Sound
<1>3. CASE ~wedged
  BY <1>1, <1>3, SoundNext DEF Sound
<1> QED BY <1>2, <1>3

LEMMA InvNext == IInv /\ [Next]_vars => IInv'
<1> SUFFICES ASSUME IInv, [Next]_vars PROVE IInv'
  OBVIOUS
<1>1. Queues /\ FlagType /\ InboxType /\ BootType /\ CallType /\ Consistent
      /\ Params
  BY TypeParts DEF IInv, Queues
<1>2. Queues' /\ FlagType' /\ InboxType' /\ BootType' /\ CallType'
  BY <1>1, QueuesNext, FlagNext, InboxNext, BootNext, CallNext DEF BootType
<1>3. Consistent' /\ Params'
  BY <1>1, ConsistentNext, ParamsNext
<1>4. TypeOK'
  BY <1>2, Zenon DEF TypeOK, Queues, QueueType, ThreadType, FlagType, InboxType, BootType, CallType
<1> QED BY <1>2, <1>3, <1>4 DEF IInv, Queues

LEMMA Invariance == Spec => []IInv
BY InitInv, InvNext, PTL DEF Spec
-----------------------------------------------------------------------------
(* The variables of the library keep their types, and msqid points to a    *)
(* queue there is, or to the -1 of one that could not be created.          *)
THEOREM TypeCorrect == Spec => []TypeOK
<1>1. IInv => TypeOK
  BY DEF IInv
<1> QED BY Invariance, <1>1, PTL

(* No sequence of calls of init, destroy, subscribe, unsubscribe and check *)
(* leaves a queue behind, whichever of them fail.                          *)
THEOREM QueuesAreOwned == Spec => []NoQueueLeak
<1>1. IInv => NoQueueLeak
  BY DEF IInv
<1> QED BY Invariance, <1>1, PTL

(* However often an orderly application starts and stops the library, the  *)
(* driver posts to the queue the watcher reads.                            *)
THEOREM ThreadsShareQueue == Spec => []SharedQueue
<1>1. IInv => SharedQueue
  BY DEF IInv, Consistent, Sound, Stuck, Pointers, SharedQueue, TypeOK
<1> QED BY Invariance, <1>1, PTL

(* An orderly application never makes gl_ble_destroy, or a check, destroy  *)
(* what is not there.                                                      *)
THEOREM DestroyOnlyWhatIs == Spec => []DestroyIsSafe
<1>1. IInv => DestroyIsSafe
  BY DEF IInv, Consistent, DestroyIsSafe
<1> QED BY Invariance, <1>1, PTL

(* For any sequence of calls, and whatever fails: gl_ble_init is refused    *)
(* while a driver thread exists and, after an init without a queue, for    *)
(* good; in every other state it tries.                                    *)
THEOREM InitIsRefused == Spec => []RefusalHasTwoCauses
<1>1. IInv => RefusalHasTwoCauses
  BY DEF IInv, Params, RefusalHasTwoCauses, Busy
<1> QED BY Invariance, <1>1, PTL
=============================================================================
