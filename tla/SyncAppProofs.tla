---------------------------- MODULE SyncAppProofs ----------------------------
(* Proofs about bleSynchronize, for any advertisers, capacity of the queue *)
(* and number of reports.                                                  *)
EXTENDS SyncApp, SequenceTheorems, TLAPS

Calls == {"discover", "params", "open", "stop", "giveUp"}
WatcherStates == {"idle", "check", "open", "inOpen", "stop", "inStop", "dead"}

(* Types; the calls that synchronize to an address are made only if there  *)
(* is one; and before a signal the main thread is in one of its calls only *)
(* where it makes one; the close is taken when the handler has returned,   *)
(* and then the watcher is cancelled.                                      *)
Types ==
  /\ queue \in Seq(Advertisers \cup {"closed"})
  /\ watcher \in WatcherStates
  /\ main \in Calls \cup {"sleep", "failed", "exited"}
MainInv ==
  /\ main \in {"open", "stop", "giveUp"} => target # None
  /\ handler = None /\ inMain => main \in Calls
  /\ stopped => handler \in {"cancel", "join", "done"}
  /\ cancelled => handler \in {"join", "done"}

(* With an address, before anything is closed: the callback never opens.   *)
NoneClosed == \A i \in DOMAIN queue : queue[i] # "closed"
Pinned ==
  target # None /\ ~closed /\ handler = None =>
    /\ specified
    /\ NoneClosed
    /\ watcher \in {"idle", "check", "dead"}
    /\ syncs \subseteq {target}

(* While all is in order: handle names what there is; once the signal has  *)
(* come the callback has nothing to handle, and nothing will come; and the *)
(* handler closes what there is.                                           *)
NoReport == \A i \in DOMAIN queue : queue[i] = "closed"
Silence == ~scanning /\ NoReport /\ watcher \in {"idle", "dead"}
Named == syncs \subseteq {handle}
Closing == handler \in {"close", "inClose"} => syncs \subseteq {closing}
Ended == handler \in {"cancel", "join", "done"} /\ stopped => syncs = {}
Ending == orderly => Named /\ (handler # None => Silence) /\ Closing /\ Ended

IInv == Types /\ MainInv /\ Pinned /\ Ending

USE ConstantsAssumption
-----------------------------------------------------------------------------
LEMMA InitInv == Init => IInv
<1> SUFFICES ASSUME Init PROVE IInv
  OBVIOUS
<1>1. Types /\ MainInv
  BY DEF Init, Types, MainInv, WatcherStates, Calls
<1>2. specified <=> target # None
  BY Zenon DEF Init
<1>3. Pinned
  BY <1>2 DEF Init, Pinned, NoneClosed
<1>4. Ending
  BY DEF Init, Ending, Named, Closing, Ended
<1> QED BY <1>1, <1>3, <1>4 DEF IInv

(* What Send does to a queue of events.                                    *)
LEMMA SendInv ==
  ASSUME queue \in Seq(Advertisers \cup {"closed"}),
         NEW e \in Advertisers \cup {"closed"}, Send(e)
  PROVE  /\ queue' \in Seq(Advertisers \cup {"closed"})
         /\ e # "closed" /\ NoneClosed => NoneClosed'
         /\ e = "closed" /\ NoReport => NoReport'
<1>1. CASE Len(queue) < MsgqCap
  <2>1. queue' = Append(queue, e)
    BY <1>1 DEF Send
  <2>2. /\ queue' \in Seq(Advertisers \cup {"closed"})
        /\ Len(queue') = Len(queue) + 1 /\ Len(queue) \in Nat
        /\ \A i \in 1 .. Len(queue) : queue'[i] = queue[i]
        /\ queue'[Len(queue) + 1] = e
    BY <2>1, AppendProperties
  <2>3. DOMAIN queue = 1 .. Len(queue) /\ DOMAIN queue' = 1 .. Len(queue) + 1
    BY <2>2
  <2> QED BY <2>2, <2>3 DEF NoneClosed, NoReport
<1>2. CASE ~(Len(queue) < MsgqCap)
  <2>1. queue' = queue
    BY <1>2 DEF Send
  <2> QED BY <2>1 DEF NoneClosed, NoReport
<1> QED BY <1>1, <1>2

LEMMA TakeInv ==
  ASSUME queue \in Seq(Advertisers \cup {"closed"}), queue # <<>>,
         queue' = Tail(queue)
  PROVE  /\ queue' \in Seq(Advertisers \cup {"closed"})
         /\ NoneClosed => NoneClosed' /\ Head(queue) # "closed"
         /\ NoReport => NoReport' /\ Head(queue) = "closed"
<1>1. /\ queue' \in Seq(Advertisers \cup {"closed"})
      /\ Len(queue) \in Nat /\ Len(queue) > 0 /\ Len(queue') = Len(queue) - 1
      /\ \A i \in 1 .. Len(queue) - 1 : queue'[i] = queue[i + 1]
      /\ Head(queue) = queue[1]
  BY HeadTailProperties
<1>2. DOMAIN queue = 1 .. Len(queue) /\ DOMAIN queue' = 1 .. Len(queue) - 1
  BY <1>1
<1>3. 1 \in DOMAIN queue /\ \A i \in DOMAIN queue' : i + 1 \in DOMAIN queue
  BY <1>1, <1>2
<1> QED BY <1>1, <1>2, <1>3 DEF NoneClosed, NoReport
-----------------------------------------------------------------------------
USE DEF IInv

(* The module.                                                             *)
LEMMA ReportStep ==
  ASSUME IInv, Report
  PROVE  IInv'
<1>1. PICK a \in Advertisers : Send(a)
  BY DEF Report
<1>2. /\ scanning /\ target' = target /\ specified' = specified /\ handle' = handle
      /\ closed' = closed /\ closing' = closing /\ stopped' = stopped
      /\ handler' = handler /\ main' = main /\ inMain' = inMain /\ watcher' = watcher
      /\ syncs' = syncs /\ orderly' = orderly /\ cancelled' = cancelled
  BY DEF Report, appVars, mainVars, watcherVars, closeVars
<1>3. queue' \in Seq(Advertisers \cup {"closed"}) /\ (NoneClosed => NoneClosed')
  BY <1>1, SendInv DEF Types
<1>4. Types' /\ MainInv' /\ Pinned'
  BY <1>2, <1>3 DEF Types, MainInv, Pinned
<1>5. orderly => handler = None
  BY <1>2 DEF Ending, Silence
<1>6. Ending'
  BY <1>2, <1>5 DEF Ending, Named, Closing, Ended
<1> QED BY <1>4, <1>6

LEMMA LoseStep ==
  ASSUME IInv, Lose
  PROVE  IInv'
<1>1. /\ target' = target /\ specified' = specified /\ handle' = handle /\ closed' = TRUE
      /\ handler' = handler /\ main' = main /\ inMain' = inMain /\ watcher' = watcher
      /\ syncs' \subseteq syncs /\ scanning' = scanning
      /\ closing' = closing /\ stopped' = stopped /\ orderly' = orderly
      /\ cancelled' = cancelled
  BY DEF Lose, appVars, mainVars, watcherVars, closeVars
<1>2. queue' \in Seq(Advertisers \cup {"closed"}) /\ (NoReport => NoReport')
  BY SendInv DEF Types, Lose
<1>3. Types' /\ MainInv' /\ Pinned'
  BY <1>1, <1>2 DEF Types, MainInv, Pinned
<1>4. Ending'
  BY <1>1, <1>2 DEF Ending, Silence, Named, Closing, Ended
<1> QED BY <1>3, <1>4

(* An open that leaves all in order gives handle what it opens.            *)
LEMMA OpenInv ==
  ASSUME NEW a, NEW ok \in BOOLEAN, Open(a, ok)
  PROVE  /\ queue' = queue /\ closed' = closed /\ scanning' = scanning
         /\ syncs' \subseteq syncs \cup {a}
         /\ orderly' => orderly /\ syncs' \subseteq {handle'}
<1>1. PICK done \in BOOLEAN, timely \in BOOLEAN :
        /\ syncs' = IF done THEN syncs \cup {a} ELSE syncs
        /\ handle' \in IF timely /\ done THEN {a} ELSE Advertisers \cup {None}
        /\ orderly' = (orderly /\ timely /\ syncs = {})
        /\ UNCHANGED <<scanning, queue, closed>>
  BY DEF Open
<1>2. orderly' <=> orderly /\ timely /\ syncs = {}
  BY <1>1, Zenon
<1> QED BY <1>1, <1>2

(* The main thread.                                                        *)
LEMMA MainStep ==
  ASSUME IInv, Main
  PROVE  IInv'
<1>1. CASE MainLocks
  <2>1. /\ handler = None /\ handler' = None /\ target' = target /\ specified' = specified
        /\ handle' = handle /\ closed' = closed /\ main' = main /\ watcher' = watcher
        /\ queue' = queue /\ syncs' = syncs /\ orderly' = orderly /\ main \in Calls
        /\ stopped' = stopped /\ cancelled' = cancelled
    BY <1>1 DEF MainLocks, appVars, watcherVars, moduleVars, closeVars, Calls
  <2>2. Types' /\ MainInv' /\ Pinned'
    BY <2>1 DEF Types, MainInv, Pinned, NoneClosed
  <2>3. Ending'
    BY <2>1 DEF Ending, Named, Closing, Ended
  <2> QED BY <2>2, <2>3
<1>2. CASE MainReturns
  <2>1. /\ handler = None /\ inMain /\ inMain' = FALSE /\ target' = target
        /\ specified' = specified /\ handler' = handler /\ watcher' = watcher
        /\ stopped' = stopped /\ cancelled' = cancelled
    BY <1>2 DEF MainReturns, watcherVars, closeVars
  <2>2. main \in Calls
    BY <2>1 DEF MainInv
  <2>3. PICK ok \in BOOLEAN :
          /\ CASE main = "discover" -> Scan(TRUE)
               [] main = "params" ->
                    UNCHANGED <<scanning, syncs, handle, queue, closed, orderly>>
               [] main = "open" -> Open(target, ok)
               [] main \in {"stop", "giveUp"} -> Scan(FALSE)
          /\ main' = IF main = "stop" \/ (ok /\ main # "giveUp") THEN NextCall(main)
                                                            ELSE AfterFailure(main)
    BY <1>2 DEF MainReturns
  <2>4. /\ main' \in Calls \cup {"sleep", "failed"}
        /\ main' \in {"open", "stop", "giveUp"} => target # None
    BY <2>2, <2>3 DEF NextCall, AfterFailure, Calls, MainInv
  <2>5. CASE main = "open"
    <3>1. /\ queue' = queue /\ closed' = closed /\ syncs' \subseteq syncs \cup {target}
          /\ orderly' => orderly /\ syncs' \subseteq {handle'}
      BY <2>3, <2>5, OpenInv
    <3>2. Types' /\ MainInv'
      BY <2>1, <2>4, <3>1 DEF Types, MainInv
    <3>3. Pinned'
      BY <2>1, <3>1 DEF Pinned, NoneClosed
    <3>4. Ending'
      BY <2>1, <3>1 DEF Ending, Named, Closing, Ended
    <3> QED BY <3>2, <3>3, <3>4
  <2>6. CASE main # "open"
    <3>1. /\ queue' = queue /\ closed' = closed /\ syncs' = syncs
          /\ handle' = handle /\ orderly' = orderly
      BY <2>2, <2>3, <2>6 DEF Scan, Calls
    <3>2. Types' /\ MainInv'
      BY <2>1, <2>4, <3>1 DEF Types, MainInv
    <3>3. Pinned'
      BY <2>1, <3>1 DEF Pinned, NoneClosed
    <3>4. Ending'
      BY <2>1, <3>1 DEF Ending, Named, Closing, Ended
    <3> QED BY <3>2, <3>3, <3>4
  <2> QED BY <2>5, <2>6
<1> QED BY <1>1, <1>2 DEF Main

(* The watcher.                                                            *)
LEMMA WatcherStep ==
  ASSUME IInv, Watcher
  PROVE  IInv'
<1>1. CASE WatcherTake
  <2>1. /\ watcher = "idle" /\ queue # <<>> /\ queue' = Tail(queue)
        /\ target' = target /\ handle' = handle /\ main' = main /\ inMain' = inMain
        /\ handler' = handler /\ syncs' = syncs /\ closed' = closed
        /\ scanning' = scanning /\ closing' = closing /\ stopped' = stopped
        /\ orderly' = orderly /\ cancelled' = cancelled
    BY <1>1 DEF WatcherTake, mainVars, moduleVars, closeVars
  <2>2. /\ queue' \in Seq(Advertisers \cup {"closed"})
        /\ NoneClosed => NoneClosed' /\ Head(queue) # "closed"
        /\ NoReport => NoReport' /\ Head(queue) = "closed"
    BY <2>1, TakeInv DEF Types
  <2>3. \/ Head(queue) = "closed" /\ watcher' = "idle"
        \/ Head(queue) # "closed" /\ watcher' = "check" /\ specified' = specified
    BY <1>1, <2>1 DEF WatcherTake
  <2>4. Types' /\ MainInv'
    BY <2>1, <2>2, <2>3 DEF Types, MainInv, WatcherStates
  <2>5. Pinned'
    BY <2>1, <2>2, <2>3 DEF Pinned
  <2>6. Ending'
    BY <2>1, <2>2, <2>3 DEF Ending, Silence, Named, Closing, Ended
  <2> QED BY <2>4, <2>5, <2>6
<1>2. CASE WatcherChecks \/ WatcherLocks
  <2>1. /\ \/ watcher = "check" /\ watcher' = (IF ~specified THEN "open" ELSE "idle")
           \/ watcher = "open" /\ watcher' = "inOpen"
           \/ watcher = "stop" /\ watcher' = "inStop"
        /\ target' = target /\ handle' = handle /\ main' = main /\ inMain' = inMain
        /\ specified' = specified /\ queue' = queue /\ scanning' = scanning
        /\ handler' = handler /\ syncs' = syncs /\ closed' = closed
        /\ closing' = closing /\ stopped' = stopped /\ orderly' = orderly
        /\ cancelled' = cancelled
    BY <1>2 DEF WatcherChecks, WatcherLocks, Opens, mainVars, moduleVars, appVars, closeVars
  <2>2. Types' /\ MainInv' /\ Pinned'
    BY <2>1 DEF Types, MainInv, Pinned, NoneClosed, WatcherStates
  <2>3. orderly => handler = None
    BY <2>1 DEF Ending, Silence
  <2>4. Ending'
    BY <2>1, <2>3 DEF Ending, Named, Closing, Ended
  <2> QED BY <2>2, <2>4
<1>3. CASE WatcherReturns
  <2>1. /\ watcher \in {"inOpen", "inStop"}
        /\ target' = target /\ main' = main /\ inMain' = inMain
        /\ specified' = specified /\ handler' = handler
        /\ stopped' = stopped /\ cancelled' = cancelled
    BY <1>3 DEF WatcherReturns, mainVars, closeVars
  <2>2. \/ \E ok \in BOOLEAN : Open(report, ok) /\ watcher' = "stop"
        \/ Scan(FALSE) /\ watcher' = "idle"
    BY <1>3 DEF WatcherReturns
  <2>3. /\ queue' = queue /\ closed' = closed /\ watcher' \in {"stop", "idle"}
        /\ orderly' => orderly /\ Named'
    <3>1. CASE \E ok \in BOOLEAN : Open(report, ok) /\ watcher' = "stop"
      BY <3>1, OpenInv DEF Named
    <3>2. CASE Scan(FALSE) /\ watcher' = "idle"
      BY <3>2 DEF Scan, Named, Ending
    <3> QED BY <2>2, <3>1, <3>2
  <2>4. Types' /\ MainInv' /\ Pinned'
    BY <2>1, <2>3 DEF Types, MainInv, Pinned, WatcherStates
  <2>5. orderly => handler = None
    BY <2>1 DEF Ending, Silence
  <2>6. Ending'
    BY <2>1, <2>3, <2>5 DEF Ending, Closing, Ended
  <2> QED BY <2>4, <2>6
<1>4. CASE WatcherDies
  <2>1. /\ watcher \in {"idle", "inOpen", "inStop"} /\ watcher' = "dead"
        /\ target' = target /\ main' = main /\ inMain' = inMain /\ handle' = handle
        /\ specified' = specified /\ handler' = handler /\ queue' = queue
        /\ closed' = closed /\ closing' = closing /\ stopped' = stopped
        /\ orderly' = orderly /\ cancelled /\ cancelled'
        /\ watcher # "inOpen" => syncs' = syncs
        /\ ~scanning => ~scanning'
    BY <1>4 DEF WatcherDies, Dies, appVars, mainVars, closeVars
  <2>2. Types' /\ MainInv'
    BY <2>1 DEF Types, MainInv, WatcherStates
  <2>3. Pinned'
    BY <2>1 DEF Pinned, NoneClosed
  <2>4. orderly => syncs' = syncs
    BY <2>1 DEF MainInv, Ending, Silence
  <2>5. Ending'
    BY <2>1, <2>4 DEF Ending, Silence, NoReport, Named, Closing, Ended
  <2> QED BY <2>2, <2>3, <2>5
<1> QED BY <1>1, <1>2, <1>3, <1>4 DEF Watcher

(* The signal and its handler.                                             *)
LEMMA HandlerStep ==
  ASSUME IInv, Signal \/ Handler
  PROVE  IInv'
<1>1. CASE Signal
  <2>1. /\ handler = None /\ handler' = "signal" /\ target' = target /\ handle' = handle /\ main' = main
        /\ watcher' = watcher /\ queue' = queue /\ syncs' = syncs
        /\ scanning' = scanning /\ orderly' = (orderly /\ Quiet)
        /\ stopped' = stopped /\ cancelled' = cancelled
    BY <1>1 DEF Signal, mainVars, watcherVars, moduleVars, closeVars
  <2>2. Types' /\ MainInv' /\ Pinned'
    BY <2>1 DEF Types, MainInv, Pinned
  <2>3. orderly' <=> orderly /\ Quiet
    BY <2>1, Zenon
  <2>4. Quiet => Silence'
    BY <2>1 DEF Quiet, Silence, NoReport
  <2>5. Ending'
    BY <2>1, <2>3, <2>4 DEF Ending, Named, Closing, Ended
  <2> QED BY <2>2, <2>5
<1>2. CASE HandlerReads \/ HandlerLocks \/ HandlerCancels \/ HandlerExits
  <2>1. /\ \/ /\ handler = "signal" /\ handler' = "close" /\ closing' = handle
              /\ cancelled' = cancelled
           \/ /\ handler = "close" /\ handler' = "inClose" /\ closing' = closing
              /\ cancelled' = cancelled
           \/ handler = "cancel" /\ handler' = "join"
           \/ handler = "join" /\ handler' = "done"
        /\ target' = target /\ handle' = handle /\ main' \in {main, "exited"}
        /\ watcher' = watcher /\ stopped' = stopped /\ orderly' = orderly
        /\ queue' = queue /\ syncs' = syncs /\ scanning' = scanning
    BY <1>2 DEF HandlerReads, HandlerLocks, HandlerCancels, HandlerExits, appVars, mainVars,
       watcherVars, moduleVars, closeVars
  <2>2. handler # None /\ handler' # None
    BY <2>1
  <2>3. Types' /\ MainInv' /\ Pinned'
    BY <2>1, <2>2 DEF Types, MainInv, Pinned
  <2>4. Ending'
    BY <2>1, <2>2 DEF Ending, Silence, NoReport, Named, Closing, Ended
  <2> QED BY <2>3, <2>4
<1>3. CASE HandlerReturns
  <2>1. /\ handler = "inClose" /\ handler' = "cancel" /\ target' = target /\ handle' = handle
        /\ main' = main /\ watcher' = watcher /\ scanning' = scanning
        /\ orderly' = orderly /\ cancelled' = cancelled
    BY <1>3 DEF HandlerReturns, appVars, mainVars, watcherVars
  <2>2. /\ queue' = queue \/ Send("closed")
        /\ \/ stopped' = TRUE /\ syncs' = syncs \ {closing}
           \/ stopped' = stopped /\ syncs' = syncs
    BY <1>3 DEF HandlerReturns, Close, NotTaken
  <2>3. queue' \in Seq(Advertisers \cup {"closed"}) /\ (NoReport => NoReport')
    BY <2>2, SendInv DEF Types, NoReport
  <2>4. Types' /\ MainInv' /\ Pinned'
    BY <2>1, <2>3 DEF Types, MainInv, Pinned
  <2>5. ~stopped
    BY <2>1 DEF MainInv
  <2>6. orderly => Silence' /\ Named' /\ (stopped' => syncs' = {})
    BY <2>1, <2>2, <2>3, <2>5 DEF Ending, Silence, Named, Closing
  <2>7. Ending'
    BY <2>1, <2>6 DEF Ending, Closing, Ended
  <2> QED BY <2>4, <2>7
<1> QED BY <1>1, <1>2, <1>3 DEF Handler

LEMMA InvNext == IInv /\ [Next]_vars => IInv'
<1> SUFFICES ASSUME IInv, [Next]_vars PROVE IInv'
  OBVIOUS
<1>1. CASE Next
  BY <1>1, ReportStep, LoseStep, MainStep, WatcherStep, HandlerStep DEF Next
<1>2. CASE UNCHANGED vars
  <2>1. /\ target' = target /\ specified' = specified /\ handle' = handle
        /\ main' = main /\ inMain' = inMain /\ handler' = handler /\ watcher' = watcher
        /\ queue' = queue /\ syncs' = syncs /\ closed' = closed /\ scanning' = scanning
        /\ closing' = closing /\ stopped' = stopped /\ orderly' = orderly
        /\ cancelled' = cancelled
    BY <1>2 DEF vars, appVars, mainVars, watcherVars, moduleVars, closeVars
  <2>2. Types' /\ MainInv' /\ Pinned'
    BY <2>1 DEF Types, MainInv, Pinned, NoneClosed
  <2>3. Ending'
    BY <2>1 DEF Ending, Silence, NoReport, Named, Closing, Ended
  <2> QED BY <2>2, <2>3
<1> QED BY <1>1, <1>2

LEMMA Invariance == Spec => []IInv
BY InitInv, InvNext, PTL DEF Spec
-----------------------------------------------------------------------------
(* With an address on its command line, bleSynchronize is synchronized to  *)
(* no other advertiser, until its synchronization ends or it is told to    *)
(* stop.                                                                   *)
THEOREM AddressIsKept == Spec => []OnlyTheSpecified
<1>1. IInv => OnlyTheSpecified
  BY DEF Pinned, OnlyTheSpecified
<1> QED BY Invariance, <1>1, PTL

(* It leaves the module unsynchronized, if the module takes its close and  *)
(* all was in order: no open while there was a synchronization, none       *)
(* unanswered, and no signal while a report was on its way to the callback.*)
THEOREM NothingIsLeftOpen == Spec => []EndsUnsynchronized
<1>1. IInv => EndsUnsynchronized
  BY DEF Ending, Ended, EndsUnsynchronized
<1> QED BY Invariance, <1>1, PTL
=============================================================================
