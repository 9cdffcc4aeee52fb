---------------------------- MODULE EventStream ----------------------------
(***************************************************************************)
(* What the link promises to the watcher thread, and the watcher's         *)
(* callbacks to the application: a lossy stream of events in order.  An    *)
(* event may be lost anywhere on its way, but what is handed over keeps    *)
(* the order in which the Bluetooth module emitted it, comes at most once, *)
(* and never survives a power-cycle of the module.  Its content is its     *)
(* own; once reading an event has been interrupted, it may be that of an   *)
(* earlier event.                                                          *)
(*                                                                         *)
(* The events of the module are numbered in the order of emission; a       *)
(* queued event has its number and the number its content is of, 0 when    *)
(* it has none.                                                            *)
(***************************************************************************)
EXTENDS Naturals, Sequences

CONSTANT Capacity   (* events the queue to the consumer holds *)

VARIABLES
  emitted,  (* events emitted so far                                 *)
  born,     (* value of emitted when the module was last switched on *)
  offered,  (* highest number handed to the queue                    *)
  torn,     (* whether reading an event has been interrupted so far  *)
  queue     (* the events waiting for the consumer                   *)

vars == <<emitted, born, offered, torn, queue>>

Init == emitted = 0 /\ born = 0 /\ offered = 0 /\ torn = FALSE /\ queue = <<>>

(* The module emits its next event. *)
Emit == emitted' = emitted + 1 /\ UNCHANGED <<born, offered, torn, queue>>

(* The module is switched on: what it emitted before belongs to the past. *)
Renew == born' = emitted /\ UNCHANGED <<emitted, offered, torn, queue>>

(* The event whose content event n may come with. *)
Contents(n) == IF torn THEN 0 .. n ELSE {n}

(* An event later than every one offered before, of the present life, is   *)
(* queued, or lost when the queue is full.                                 *)
Offer ==
  \E n \in offered + 1 .. emitted :
    /\ n > born
    /\ offered' = n
    /\ \E c \in Contents(n) :
         queue' = IF Len(queue) < Capacity
                    THEN Append(queue, [no |-> n, pay |-> c]) ELSE queue
    /\ UNCHANGED <<emitted, born, torn>>

(* The consumer takes the oldest event. *)
Take ==
  /\ queue # <<>>
  /\ queue' = Tail(queue)
  /\ UNCHANGED <<emitted, born, offered, torn>>

(* A read is interrupted. *)
Tear == torn' = TRUE /\ UNCHANGED <<emitted, born, offered, queue>>

(* The stream is closed, perhaps in the middle of a read: what the         *)
(* consumer has not taken is lost.                                         *)
Close ==
  /\ queue' = <<>>
  /\ torn' \in {torn, TRUE}
  /\ UNCHANGED <<emitted, born, offered>>

Next == Emit \/ Renew \/ Offer \/ Take \/ Tear \/ Close

Spec == Init /\ [][Next]_vars
=============================================================================
