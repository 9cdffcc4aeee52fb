------------------------------ MODULE SyncApp ------------------------------
(***************************************************************************)
(* bleSynchronize (demo_bleSynchronize.c) on top of the library: the main  *)
(* thread, the callback that the watcher thread runs, and the handler that *)
(* a signal runs on the main thread, wherever that is.  All three call the *)
(* library, whose calls hold _ble_mutex (gl_bleapi.c); the handler cancels *)
(* the watcher and joins it.                                               *)
(*                                                                         *)
(* The model begins when the module has booted.  Periodic advertisers are  *)
(* the only ones that matter to the callback.  A signal is delivered to    *)
(* the main thread, and once.  A command that is not answered in time may  *)
(* have been taken or not, and returns whatever the answer buffer holds.   *)
(***************************************************************************)
EXTENDS Naturals, Sequences

CONSTANTS
  Advertisers, (* devices that advertise periodically                       *)
  None,        (* no advertiser, no one                                     *)
  MsgqCap,     (* events that the message queue holds                       *)
  MaxReports   (* bound: reports of the module                              *)

(* An advertiser is not taken for something else, nor is None.             *)
ASSUME ConstantsAssumption ==
  /\ None \notin Advertisers \cup {"main", "watcher", "handler", "signal",
                                     "close", "inClose", "cancel", "join", "done"}
  /\ "closed" \notin Advertisers
  /\ MsgqCap \in Nat /\ MaxReports \in Nat

VARIABLES
  target,    (* the address on the command line, or None                    *)
  specified, (* is_specified                                                *)
  handle,    (* whose synchronization handle names, or None for 0xffff      *)
  mutex,     (* who holds _ble_mutex: "main", "watcher" or None             *)
  main,      (* the call that the main thread makes, or what it does        *)
  inMain,    (* the main thread is inside that call                         *)
  handler,   (* where the signal handler is, None before the signal         *)
  closing,   (* the handle that it closes                                   *)
  stopped,   (* the module has taken that close                             *)
  watcher,   (* where the watcher thread is                                 *)
  report,    (* the report that the callback handles                        *)
  cancelled, (* pthread_cancel of the watcher was called                    *)
  queue,     (* events for the watcher                                      *)
  scanning,  (* the module scans                                            *)
  syncs,     (* advertisers that the module is synchronized to, or trying   *)
  reports,   (* number of reports                                           *)
  closed,    (* a synchronization was lost                                  *)
  orderly    (* each open was answered in time and sent while there was no  *)
             (* synchronization, and the signal came while all was quiet    *)

appVars == <<target, specified, handle>>
mainVars == <<main, inMain>>
watcherVars == <<watcher, report, cancelled>>
moduleVars == <<scanning, syncs, reports, closed>>
closeVars == <<closing, stopped>>
vars == <<appVars, mutex, mainVars, handler, closeVars, watcherVars, queue,
          moduleVars, orderly>>

Running == main \notin {"failed", "exited"}
Lock(who) == mutex = None /\ mutex' = who
Unlock(who) == mutex = who /\ mutex' = None
-----------------------------------------------------------------------------
(* The module (external).                                                  *)

Send(event) == queue' = IF Len(queue) < MsgqCap THEN Append(queue, event)
                                                ELSE queue

Report ==
  /\ Running
  /\ scanning
  /\ reports < MaxReports
  /\ reports' = reports + 1
  /\ \E a \in Advertisers : Send(a)
  /\ UNCHANGED <<appVars, mutex, mainVars, handler, closeVars, watcherVars,
                 scanning, syncs, closed, orderly>>

Lose ==
  /\ Running
  /\ \E a \in syncs : syncs' = syncs \ {a}
  /\ Send("closed")
  /\ closed' = TRUE
  /\ UNCHANGED <<appVars, mutex, mainVars, handler, closeVars, watcherVars,
                 scanning, reports, orderly>>

(* What a command does, and whether it returns success.  The handle is     *)
(* assigned from the answer buffer whatever is in it.                      *)
OpenUnassigned(a, ok) ==                                   \* mutant of Open
  \E done, timely \in BOOLEAN :
    /\ timely => (done <=> ok)
    /\ done => a \notin syncs
    /\ syncs' = IF done THEN syncs \cup {a} ELSE syncs
    /\ orderly' = (orderly /\ timely /\ syncs = {})
    /\ UNCHANGED <<handle, scanning, queue, closed>>
Open(a, ok) ==
  \E done, timely \in BOOLEAN :
    /\ timely => (done <=> ok)
    /\ done => a \notin syncs
    /\ syncs' = IF done THEN syncs \cup {a} ELSE syncs
    /\ handle' \in IF timely /\ done THEN {a} ELSE Advertisers \cup {None}
    /\ orderly' = (orderly /\ timely /\ syncs = {})
    /\ UNCHANGED <<scanning, queue, closed>>
Scan(on) ==
  /\ scanning' \in {scanning, on}
  /\ UNCHANGED <<syncs, handle, queue, closed, orderly>>
(* A synchronization that is closed is reported, too. *)
Close(a) ==
  /\ IF a \in syncs THEN Send("closed") /\ closed' = TRUE
                    ELSE UNCHANGED <<queue, closed>>
  /\ syncs' = syncs \ {a}
  /\ stopped' = TRUE
NotTaken == UNCHANGED <<syncs, queue, closed, stopped>>
-----------------------------------------------------------------------------
(* The main thread, one call after the other.  It goes no further once the *)
(* handler runs.                                                           *)
NextCall(call) ==
  CASE call = "discover" -> "params"
    [] call = "params" -> IF target # None THEN "open" ELSE "sleep"
    [] call = "open" -> "stop"
    [] call = "stop" -> "sleep"

(* A failed start_sync is followed by a stop of the scan. *)
AfterFailure(call) == IF call = "open" THEN "giveUp" ELSE "failed"

MainLocks ==
  /\ handler = None
  /\ main \in {"discover", "params", "open", "stop", "giveUp"}
  /\ ~inMain
  /\ Lock("main")
  /\ inMain' = TRUE
  /\ UNCHANGED <<appVars, main, handler, closeVars, watcherVars, queue,
                 moduleVars, orderly>>

(* A failed call ends the program; without an address main does not open a *)
(* synchronization, and the result of stop is not looked at.               *)
MainReturns ==
  /\ handler = None
  /\ inMain
  /\ Unlock("main")
  /\ inMain' = FALSE
  /\ \E ok \in BOOLEAN :
       /\ CASE main = "discover" -> Scan(TRUE)
            [] main = "params" ->
                 UNCHANGED <<scanning, syncs, handle, queue, closed, orderly>>
            [] main = "open" -> Open(target, ok)
            [] main \in {"stop", "giveUp"} -> Scan(FALSE)
       /\ main' = IF main = "stop" \/ (ok /\ main # "giveUp") THEN NextCall(main)
                                                         ELSE AfterFailure(main)
  /\ UNCHANGED <<target, specified, handler, closeVars, watcherVars, reports>>
-----------------------------------------------------------------------------
(* The watcher: ble_gap_cb.                                                *)

Alive == watcher # "dead" /\ Running

WatcherTake ==
  /\ Alive
  /\ watcher = "idle"
  /\ ~cancelled
  /\ queue # <<>>
  /\ queue' = Tail(queue)
  /\ IF Head(queue) = "closed"
       THEN specified' = FALSE /\ UNCHANGED <<watcher, report>>
       ELSE report' = Head(queue) /\ watcher' = "check" /\ UNCHANGED specified
  /\ UNCHANGED <<target, handle, mutex, mainVars, handler, closeVars, cancelled,
                 moduleVars, orderly>>

OpensAlways == TRUE                                        \* mutant of Opens
Opens == ~specified

(* is_specified is read before, and without, the lock. *)
WatcherChecks ==
  /\ Alive
  /\ watcher = "check"
  /\ watcher' = IF Opens THEN "open" ELSE "idle"
  /\ UNCHANGED <<appVars, mutex, mainVars, handler, closeVars, report,
                 cancelled, queue, moduleVars, orderly>>

WatcherLocks ==
  /\ Alive
  /\ watcher \in {"open", "stop"}
  /\ Lock("watcher")
  /\ watcher' = IF watcher = "open" THEN "inOpen" ELSE "inStop"
  /\ UNCHANGED <<appVars, mainVars, handler, closeVars, report, cancelled,
                 queue, moduleVars, orderly>>

WatcherReturns ==
  /\ Alive
  /\ watcher \in {"inOpen", "inStop"}
  /\ Unlock("watcher")
  /\ IF watcher = "inOpen"
       THEN (\E ok \in BOOLEAN : Open(report, ok)) /\ watcher' = "stop"
       ELSE Scan(FALSE) /\ watcher' = "idle"
  /\ UNCHANGED <<target, specified, mainVars, handler, closeVars, report,
                 cancelled, reports>>

(* msgrcv and the usleep of a call are cancellation points, the lock of a  *)
(* mutex is none.  A call cancelled may have reached the module, and it    *)
(* leaves the mutex locked.                                                *)
Dies == watcher \in {"idle", "inOpen", "inStop"}

WatcherDies ==
  /\ Alive
  /\ cancelled
  /\ Dies
  /\ watcher' = "dead"
  /\ \E done \in BOOLEAN :
       /\ syncs' = IF done /\ watcher = "inOpen" THEN syncs \cup {report}
                                                 ELSE syncs
       /\ scanning' = (scanning /\ ~(done /\ watcher = "inStop"))
  /\ UNCHANGED <<appVars, mutex, mainVars, handler, closeVars, report,
                 cancelled, queue, reports, closed, orderly>>
-----------------------------------------------------------------------------
(* The handler: is_specified = false, gl_ble_stop_sync, gl_ble_unsubscribe,*)
(* gl_ble_destroy, exit.                                                   *)

(* The callback is done, and no report will come to it. *)
Quiet == ~scanning /\ watcher = "idle" /\ \A i \in DOMAIN queue : queue[i] = "closed"

Signal ==
  /\ Running
  /\ handler = None
  /\ handler' = "signal"
  /\ specified' = FALSE
  /\ orderly' = (orderly /\ Quiet)
  /\ UNCHANGED <<target, handle, mutex, mainVars, closeVars, watcherVars, queue,
                 moduleVars>>

(* The handle is read before the mutex is waited for. *)
HandlerReads ==
  /\ handler = "signal"
  /\ handler' = "close"
  /\ closing' = handle
  /\ UNCHANGED <<appVars, mutex, mainVars, stopped, watcherVars, queue,
                 moduleVars, orderly>>

(* pthread_mutex_lock waits also when it is the thread itself that holds   *)
(* the mutex.                                                              *)
HandlerLocks ==
  /\ handler = "close"
  /\ Lock("handler")
  /\ handler' = "inClose"
  /\ UNCHANGED <<appVars, mainVars, closeVars, watcherVars, queue, moduleVars,
                 orderly>>

HandlerKeepsLock ==                                \* mutant of HandlerReturns
  /\ handler = "inClose"
  /\ Close(closing) \/ NotTaken
  /\ handler' = "cancel"
  /\ UNCHANGED <<appVars, mutex, mainVars, closing, watcherVars, scanning,
                 reports, orderly>>

HandlerReturns ==
  /\ handler = "inClose"
  /\ Unlock("handler")
  /\ Close(closing) \/ NotTaken
  /\ handler' = "cancel"
  /\ UNCHANGED <<appVars, mainVars, closing, watcherVars, scanning, reports,
                 orderly>>

HandlerCancels ==
  /\ handler = "cancel"
  /\ cancelled' = TRUE
  /\ handler' = "join"
  /\ UNCHANGED <<appVars, mutex, mainVars, closeVars, watcher, report, queue,
                 moduleVars, orderly>>

(* After the join, gl_ble_destroy waits for no one. *)
HandlerExits ==
  /\ handler = "join"
  /\ watcher = "dead"
  /\ handler' = "done"
  /\ main' = "exited"
  /\ UNCHANGED <<appVars, mutex, inMain, closeVars, watcherVars, queue,
                 moduleVars, orderly>>
-----------------------------------------------------------------------------
Init ==
  /\ target \in Advertisers \cup {None}
  /\ specified = (target # None)
  /\ handle = None /\ mutex = None
  /\ main = "discover" /\ inMain = FALSE /\ handler = None
  /\ watcher = "idle" /\ report = None /\ cancelled = FALSE /\ queue = <<>>
  /\ scanning = FALSE /\ syncs = {} /\ reports = 0 /\ closed = FALSE
  /\ closing = None /\ stopped = FALSE /\ orderly = TRUE

Main == MainLocks \/ MainReturns
Watcher == WatcherTake \/ WatcherChecks \/ WatcherLocks \/ WatcherReturns
           \/ WatcherDies
Handler == HandlerReads \/ HandlerLocks \/ HandlerReturns \/ HandlerCancels
           \/ HandlerExits

Next == Report \/ Lose \/ Main \/ Watcher \/ Signal \/ Handler

Spec == Init /\ [][Next]_vars

(* The threads go on; a call returns, at the latest when rx_peek_timeout   *)
(* gives up.                                                               *)
FairSpec == Spec /\ WF_vars(Main) /\ WF_vars(Watcher) /\ WF_vars(Handler)
-----------------------------------------------------------------------------
(* Properties.                                                             *)

(* With an address on the command line the program never synchronizes to   *)
(* another advertiser, whatever reports are queued while it starts, until  *)
(* that synchronization ends or the program is told to stop.               *)
OnlyTheSpecified ==
  target # None /\ ~closed /\ handler = None => syncs \subseteq {target}

(* Once the handler has closed what handle names, and the module has taken *)
(* that, the module is synchronized to nobody and stays so, whoever opened *)
(* the synchronization and whatever was lost or refused on the way.  Three *)
(* things are excluded, because of each the program may leave the module   *)
(* synchronized: a second open while there is a synchronization, which     *)
(* overwrites its handle even if it is refused; an open that was not       *)
(* answered in time; and a signal while the module scans or the callback   *)
(* has a report before it, since the handler first lowers is_specified and *)
(* only then stops the watcher.                                            *)
EndsUnsynchronized ==
  orderly /\ stopped /\ handler \in {"cancel", "join", "done"} => syncs = {}

(* README: "You can use CTRL+C or CTRL+\ to terminate the application."    *)
(* A signal that comes while the main thread is in none of its calls ends  *)
(* the program, whatever the watcher is doing: inside a call it returns or *)
(* is cancelled, waiting for the mutex it gets it.  A signal that comes    *)
(* inside a call of the main thread never does: the handler waits for the  *)
(* mutex that its own thread holds.                                        *)
SignalEndsProgram ==
  (handler = "signal" /\ ~inMain /\ Running) ~> main = "exited"
=============================================================================
