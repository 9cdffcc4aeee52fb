---------------------------- MODULE NcpLinkProofs ----------------------------
(* Proofs about the serial link, for every value of the constants.         *)
EXTENDS NcpLink, SequenceTheorems, TLAPS

(* The successor and predecessor of a slot are slots. *)
LEMMA SlotStep ==
  ASSUME NEW i \in 0 .. QueueLen - 1
  PROVE  /\ Next1(i) \in 0 .. QueueLen - 1
         /\ Prev1(i) \in 0 .. QueueLen - 1
         /\ Next1(i) # i
         /\ Prev1(Next1(i)) = i
<1>1. CASE i + 1 < QueueLen
  <2>1. Next1(i) = i + 1
    BY <1>1, QueueLenAssumption DEF Next1
  <2>2. Prev1(Next1(i)) = i
    BY <1>1, <2>1, QueueLenAssumption DEF Prev1
  <2>3. Prev1(i) \in 0 .. QueueLen - 1
    BY QueueLenAssumption DEF Prev1
  <2>4. QED BY <1>1, <2>1, <2>2, <2>3, QueueLenAssumption
<1>2. CASE i + 1 = QueueLen
  <2>1. Next1(i) = 0
    BY <1>2, QueueLenAssumption DEF Next1
  <2>2. Prev1(0) = i
    BY <1>2, QueueLenAssumption DEF Prev1
  <2>3. Prev1(i) \in 0 .. QueueLen - 1
    BY QueueLenAssumption DEF Prev1
  <2>4. QED BY <1>2, <2>1, <2>2, <2>3, QueueLenAssumption
<1>3. QED BY <1>1, <1>2, QueueLenAssumption

-----------------------------------------------------------------------------
(* Type correctness.                                                       *)

LEMMA InitType == Init => TypeOK
<1> SUFFICES ASSUME Init PROVE TypeOK
  OBVIOUS
<1>1. NoHeader \in Header
  BY DEF NoHeader, Header, Ids
<1>2. None \in Ids
  BY DEF Ids
<1>3. NoPacket \in Packet
  BY <1>2 DEF NoPacket, Packet
<1>4. [class |-> "evt", hdr |-> None, no |-> 0] \in Message
  BY <1>2 DEF Message
<1>5. ModuleType /\ rx \in Seq(Message)
  BY DEF Init, ModuleType
<1>6. DriverType
  BY <1>3, <1>4 DEF Init, DriverType, DriverStates
<1>7. RingType
  <2>1. torn \in BOOLEAN
    BY Zenon DEF Init
  <2>2. QED BY <1>3, <2>1, QueueLenAssumption DEF Init, RingType
<1>8. HandType
  BY DEF Init, HandType
<1>9. CallType
  BY <1>2 DEF Init, CallType, CallStates
<1>10. GotType
  BY DEF Init, GotType
<1>11. /\ booted \in BOOLEAN /\ flag \in BOOLEAN /\ expired \in BOOLEAN
       /\ rspOpen \in BOOLEAN
  BY Zenon DEF Init
<1>12. QED
  BY <1>1, <1>2, <1>5, <1>6, <1>7, <1>8, <1>9, <1>10, <1>11 DEF Init, TypeOK

LEMMA NextType ==
  ASSUME TypeOK, [Next]_vars
  PROVE  TypeOK'
<1> USE DEF TypeOK, moduleVars, ringVars, rspVars, handVars, driverVars,
        callVars, DriverStates, CallStates, ModuleType, DriverType, RingType,
        HandType, CallType, GotType
<1>1. ASSUME Module PROVE TypeOK'
  <2>1. CASE ModuleBoot
    BY <2>1 DEF ModuleBoot, EmitEvent, Emit, Message, Ids, EventKinds
  <2>2. CASE ModuleEvent
    BY <2>2 DEF ModuleEvent, EmitEvent, Emit, Message, Ids, EventKinds
  <2>3. CASE ModuleAnswer
    <3>1. /\ Head(pend) \in [hdr : Commands, call : Nat]
          /\ Tail(pend) \in Seq([hdr : Commands, call : Nat])
      BY <2>3, HeadTailProperties DEF ModuleAnswer
    <3>2. Emit("rsp", Head(pend).hdr, Head(pend).call)
      BY <2>3 DEF ModuleAnswer
    <3>3. [class |-> "rsp", hdr |-> Head(pend).hdr, no |-> Head(pend).call] \in Message
      BY <3>1 DEF Message, Ids
    <3>4. rx' \in Seq(Message)
      BY <3>2, <3>3, AppendProperties DEF Emit
    <3>5. QED BY <2>3, <3>1, <3>4 DEF ModuleAnswer
  <2>4. CASE ModuleFallsSilent
    BY <2>4 DEF ModuleFallsSilent
  <2>5. QED BY <1>1, <2>1, <2>2, <2>3, <2>4 DEF Module
<1>2. ASSUME Driver PROVE TypeOK'
  <2>1. CASE PopEvent
    <3>1. slots[r] \in Packet /\ Next1(r) \in 0 .. QueueLen - 1
      BY SlotStep
    <3>2. QED BY <2>1, <3>1 DEF PopEvent, SlotAfterPop
  <2>2. CASE BeginReset
    BY <2>2 DEF BeginReset
  <2>3. CASE ResetPowerOff
    BY <2>3 DEF ResetPowerOff
  <2>4. CASE ResetCleanUart
    BY <2>4 DEF ResetCleanUart, UartAfterClean
  <2>5. CASE ResetClearBooted
    <3>1. booted' \in BOOLEAN
      BY <2>5, Zenon DEF ResetClearBooted
    <3>2. QED BY <2>5, <3>1 DEF ResetClearBooted
  <2>6. CASE ResetAcknowledge
    <3>1. flag' \in BOOLEAN
      BY <2>6, Zenon DEF ResetAcknowledge, FlagAfterReset
    <3>2. QED BY <2>6, <3>1 DEF ResetAcknowledge
  <2>7. CASE BeginRead
    BY <2>7 DEF BeginRead
  <2>8. CASE SyncSkip
    BY <2>8 DEF SyncSkip
  <2>9. CASE SyncFound
    BY <2>9 DEF SyncFound
  <2>10. CASE AbandonRead
    BY <2>10 DEF AbandonRead
  <2>11. CASE HeaderError
    <3>1. rx' = rx \/ (rx # <<>> /\ rx' = Tail(rx))
      BY <2>11 DEF HeaderError
    <3>2. rx # <<>> => Tail(rx) \in Seq(Message)
      BY HeadTailProperties
    <3>3. rx' \in Seq(Message)
      BY <3>1, <3>2
    <3>4. QED BY <2>11, <3>3 DEF HeaderError
  <2>12. CASE HeaderOfEvent
    <3>1. Head(rx) \in Message /\ Tail(rx) \in Seq(Message)
      BY <2>12, HeadTailProperties DEF HeaderOfEvent
    <3>2. Head(rx).hdr \in Ids /\ Head(rx).no \in Nat
      BY <3>1 DEF Message
    <3>3. [slots EXCEPT ![w].hdr = Head(rx).hdr, ![w].no = Head(rx).no]
            \in [0 .. QueueLen - 1 -> Packet]
      BY <3>2 DEF Packet
    <3>4. RingType'
      BY <2>12, <3>3, SlotStep DEF HeaderOfEvent
    <3>5. DriverType' /\ rx' \in Seq(Message)
      BY <2>12, <3>1 DEF HeaderOfEvent
    <3>6. QED BY <2>12, <3>4, <3>5 DEF HeaderOfEvent
  <2>13. CASE HeaderOfResponse
    <3>1. Head(rx) \in Message /\ Tail(rx) \in Seq(Message)
      BY <2>13, HeadTailProperties DEF HeaderOfResponse
    <3>2. [hdr |-> Head(rx).hdr, no |-> Head(rx).no] \in Header
      BY <3>1 DEF Message, Header
    <3>3. QED BY <2>13, <3>1, <3>2 DEF HeaderOfResponse
  <2>14. CASE PayloadOfEvent
    <3>1. cur.no \in Nat
      BY DEF Message
    <3>2. [slots EXCEPT ![Prev1(w)].pay = cur.no] \in [0 .. QueueLen - 1 -> Packet]
      BY <3>1, SlotStep DEF Packet
    <3>3. QED BY <2>14, <3>2 DEF PayloadOfEvent
  <2>15. CASE PayloadOfResponse
    <3>1. cur.no \in Nat
      BY DEF Message
    <3>2. [hdr |-> rspHead.hdr, no |-> rspHead.no, pay |-> cur.no] \in Packet
      BY <3>1 DEF Packet, Header
    <3>3. rspOpen' \in BOOLEAN
      BY <2>15, Zenon DEF PayloadOfResponse
    <3>4. QED BY <2>15, <3>1, <3>2, <3>3 DEF PayloadOfResponse
  <2>16. CASE PayloadError
    <3>1. torn' \in BOOLEAN
      BY <2>16, Zenon DEF PayloadError
    <3>2. QED BY <2>16, <3>1 DEF PayloadError
  <2>17. CASE HandleForward
    <3>1. evt.no \in Nat
      BY DEF Packet
    <3>2. booted' \in BOOLEAN
      BY <2>17, Zenon DEF HandleForward
    <3>3. HandType'
      BY <2>17, <3>1, AppendProperties DEF HandleForward
    <3>4. QED BY <2>17, <3>2, <3>3 DEF HandleForward
  <2>18. CASE HandleSpecial
    BY <2>18 DEF HandleSpecial
  <2>19. CASE HandleIgnore
    BY <2>19 DEF HandleIgnore
  <2>20. QED
    BY <1>2, <2>1, <2>2, <2>3, <2>4, <2>5, <2>6, <2>7, <2>8, <2>9, <2>10, <2>11, <2>12, <2>13, <2>14, <2>15, <2>16, <2>17, <2>18, <2>19
    DEF Driver, DriverGoesOn
<1>3. CASE WatcherTake
  BY <1>3 DEF WatcherTake
<1>4. ASSUME CallStep PROVE TypeOK'
  <2>1. CASE PeekMatch
    BY <2>1 DEF PeekMatch
  <2>2. CASE PeekTimeout
    BY <2>2 DEF PeekTimeout
  <2>3. CASE CommandCollect
    BY <2>3 DEF CommandCollect, Header
  <2>4. CASE ResetRequest
    BY <2>4 DEF ResetRequest
  <2>5. CASE ResetOffSeen
    BY <2>5 DEF ResetOffSeen
  <2>6. CASE ResetOffTimeout
    BY <2>6 DEF ResetOffTimeout
  <2>7. CASE ResetPowerOn
    BY <2>7 DEF ResetPowerOn, PowerOn
  <2>8. CASE ResetBootSeen
    BY <2>8 DEF ResetBootSeen
  <2>9. CASE ResetBootTimeout
    BY <2>9 DEF ResetBootTimeout
  <2>10. CASE ResetGiveUp
    BY <2>10 DEF ResetGiveUp
  <2>11. CASE DisableSeen
    BY <2>11 DEF DisableSeen
  <2>12. QED BY <1>4, <2>1, <2>2, <2>3, <2>4, <2>5, <2>6, <2>7, <2>8, <2>9, <2>10, <2>11 DEF CallStep
<1>5. ASSUME CallStart PROVE TypeOK'
  <2>1. ASSUME NEW c \in Commands, CommandSend(c) PROVE TypeOK'
    <3> DEFINE Order == [hdr |-> c, call |-> callNo + 1]
    <3>1. Order \in [hdr : Commands, call : Nat]
      OBVIOUS
    <3>2. Append(pend, Order) \in Seq([hdr : Commands, call : Nat])
      BY <3>1, AppendProperties
    <3>3. pend' \in Seq([hdr : Commands, call : Nat])
      BY <2>1, <3>2 DEF CommandSend
    <3>4. c \in Ids /\ rspHead' \in Header
      BY <2>1 DEF CommandSend, ResponseHeaderCleared, NoHeader, Header, Ids
    <3>5. callNo' \in Nat /\ apc' \in CallStates /\ apc' = "peek"
      BY <2>1 DEF CommandSend, Call
    <3>6. QED BY <2>1, <3>3, <3>4, <3>5 DEF CommandSend
  <2>2. CASE HardReset
    BY <2>2 DEF HardReset, Call
  <2>3. CASE Disable
    BY <2>3 DEF Disable, Call
  <2>4. CASE Enable
    BY <2>4 DEF Enable, Call, PowerOn
  <2>5. QED BY <1>5, <2>1, <2>2, <2>3, <2>4 DEF CallStart
<1>6. CASE Destroy
  <2>1. booted' \in BOOLEAN /\ torn' \in BOOLEAN
    BY <1>6, Zenon DEF Destroy
  <2>2. QED BY <1>6, <2>1 DEF Destroy, Packet
<1>7. CASE Reinit
  BY <1>7 DEF Reinit
<1>8. CASE UNCHANGED vars
  BY <1>8 DEF vars
<1>9. QED BY <1>1, <1>2, <1>3, <1>4, <1>5, <1>6, <1>7, <1>8 DEF Next

(* Every reachable state is well typed: the ring indices stay inside the   *)
(* ring and no hard reset makes a fourth try.                              *)
THEOREM TypeCorrect == Spec => []TypeOK
<1>1. Init => TypeOK
  BY InitType
<1>2. TypeOK /\ [Next]_vars => TypeOK'
  BY NextType
<1>3. QED BY <1>1, <1>2, PTL DEF Spec
-----------------------------------------------------------------------------
(* A reset request outlives only a reset that gave up.                     *)

(* A reset request is outstanding while the driver serves it; outside of a *)
(* reset it is outstanding only after a reset that gave up.                *)
FlagInv ==
  /\ dpc = "dead" <=> apc = "closed"
  /\ apc \in {"off", "bootWait"} => ~flag
  /\ dpc \in {"rstOff", "rstClean", "rstUnboot", "rstAck"} => flag
  /\ flag /\ apc \in {"idle", "peek", "collect", "closed"} => lastRst = "failed"

LEMMA FlagStep ==
  ASSUME TypeOK, FlagInv, [Next]_vars
  PROVE  FlagInv'
<1> USE DEF FlagInv, moduleVars, ringVars, rspVars, handVars, driverVars, callVars
<1>1. CASE Module \/ WatcherTake
  BY <1>1 DEF Module, ModuleBoot, ModuleEvent, ModuleAnswer, ModuleFallsSilent, WatcherTake
<1>2. ASSUME Driver PROVE FlagInv'
  <2>1. CASE PopEvent
    BY <2>1 DEF PopEvent, RingEmpty, SlotAfterPop
  <2>2. CASE BeginReset
    BY <2>2 DEF BeginReset, RingEmpty
  <2>3. CASE ResetPowerOff
    BY <2>3 DEF ResetPowerOff
  <2>4. CASE ResetCleanUart
    BY <2>4 DEF ResetCleanUart, UartAfterClean
  <2>5. CASE ResetClearBooted
    BY <2>5 DEF ResetClearBooted
  <2>6. CASE ResetAcknowledge
    BY <2>6 DEF ResetAcknowledge, FlagAfterReset
  <2>7. CASE BeginRead
    BY <2>7 DEF BeginRead, RingEmpty
  <2>8. CASE SyncSkip
    BY <2>8 DEF SyncSkip
  <2>9. CASE SyncFound
    BY <2>9 DEF SyncFound
  <2>10. CASE AbandonRead
    BY <2>10 DEF AbandonRead, ReadLoopStops
  <2>11. CASE HeaderError
    BY <2>11 DEF HeaderError
  <2>12. CASE HeaderOfEvent
    BY <2>12 DEF HeaderOfEvent
  <2>13. CASE HeaderOfResponse
    BY <2>13 DEF HeaderOfResponse
  <2>14. CASE PayloadOfEvent
    BY <2>14 DEF PayloadOfEvent
  <2>15. CASE PayloadOfResponse
    BY <2>15 DEF PayloadOfResponse
  <2>16. CASE PayloadError
    BY <2>16 DEF PayloadError
  <2>17. CASE HandleForward
    BY <2>17 DEF HandleForward, Forwards
  <2>18. CASE HandleSpecial
    BY <2>18 DEF HandleSpecial
  <2>19. CASE HandleIgnore
    BY <2>19 DEF HandleIgnore, Forwards
  <2>20. QED
    BY <1>2, <2>1, <2>2, <2>3, <2>4, <2>5, <2>6, <2>7, <2>8, <2>9, <2>10, <2>11, <2>12, <2>13, <2>14, <2>15, <2>16, <2>17, <2>18, <2>19
    DEF Driver, DriverGoesOn
<1>3. ASSUME CallStep PROVE FlagInv'
  <2>1. CASE PeekMatch
    BY <2>1 DEF PeekMatch
  <2>2. CASE PeekTimeout
    BY <2>2 DEF PeekTimeout
  <2>3. CASE CommandCollect
    BY <2>3 DEF CommandCollect
  <2>4. CASE ResetRequest
    BY <2>4 DEF ResetRequest
  <2>5. CASE ResetOffSeen
    BY <2>5 DEF ResetOffSeen
  <2>6. CASE ResetOffTimeout
    BY <2>6 DEF ResetOffTimeout
  <2>7. CASE ResetPowerOn
    BY <2>7 DEF ResetPowerOn, PowerOn
  <2>8. CASE ResetBootSeen
    BY <2>8 DEF ResetBootSeen
  <2>9. CASE ResetBootTimeout
    BY <2>9 DEF ResetBootTimeout
  <2>10. CASE ResetGiveUp
    BY <2>10 DEF ResetGiveUp
  <2>11. CASE DisableSeen
    BY <2>11 DEF DisableSeen, PowerOffConfirmed
  <2>12. QED
    BY <1>3, <2>1, <2>2, <2>3, <2>4, <2>5, <2>6, <2>7, <2>8, <2>9, <2>10, <2>11
    DEF CallStep
<1>4. ASSUME CallStart PROVE FlagInv'
  <2>1. ASSUME NEW c \in Commands, CommandSend(c) PROVE FlagInv'
    BY <2>1 DEF CommandSend, Call
  <2>2. CASE HardReset \/ Disable \/ Enable
    BY <2>2 DEF HardReset, Disable, Enable, Call
  <2>3. QED BY <1>4, <2>1, <2>2 DEF CallStart
<1>5. CASE Destroy \/ Reinit
  BY <1>5 DEF Destroy, Reinit, AtCancelPoint
<1>6. CASE UNCHANGED vars
  BY <1>6 DEF vars
<1>7. QED BY <1>1, <1>2, <1>3, <1>4, <1>5, <1>6 DEF Next

(* A reset request survives only a reset that reported failure.            *)
(* Otherwise a caller that is told the module is usable can rely on the    *)
(* driver not cutting its power.                                           *)
THEOREM FlagIsServed == Spec => []FlagOnlyAfterFailure
<1>1. Init => FlagInv
  BY DEF Init, FlagInv
<1>2. TypeOK /\ FlagInv /\ [Next]_vars => FlagInv'
  BY FlagStep
<1>3. FlagInv => FlagOnlyAfterFailure
  BY DEF FlagInv, FlagOnlyAfterFailure
<1>4. QED BY <1>1, <1>2, <1>3, TypeCorrect, PTL DEF Spec
-----------------------------------------------------------------------------
(* The ring is never full.                                                 *)

(* The inductive invariant: at most one event is in the ring, and none     *)
(* while the driver reads a header, serves a reset or handles a packet.    *)
RingInv ==
  /\ dpc \in {"sync", "hdr", "rstOff", "rstClean", "rstUnboot", "rstAck",
               "handle"} => w = r
  /\ dpc = "payload" /\ cur.class = "rsp" => w = r
  /\ dpc = "payload" /\ cur.class = "evt" => w = Next1(r)
  /\ dpc \in {"get", "dead"} => w = r \/ w = Next1(r)

LEMMA RingStep ==
  ASSUME TypeOK, FlagInv, RingInv, [Next]_vars
  PROVE  RingInv'
<1> USE DEF RingInv, moduleVars, ringVars, rspVars, handVars, driverVars, callVars
<1>1. /\ w \in 0 .. QueueLen - 1 /\ r \in 0 .. QueueLen - 1
      /\ cur.class \in {"evt", "rsp"}
  BY DEF TypeOK, RingType, DriverType, Message
<1>2. Next1(r) # r /\ Next1(w) # w
  BY <1>1, SlotStep
<1>3. ASSUME Driver PROVE RingInv'
  <2>1. CASE PopEvent
    BY <2>1, <1>2 DEF PopEvent, RingEmpty, SlotAfterPop
  <2>2. CASE BeginReset
    BY <2>2 DEF BeginReset, RingEmpty
  <2>3. CASE ResetPowerOff
    BY <2>3 DEF ResetPowerOff
  <2>4. CASE ResetCleanUart
    BY <2>4 DEF ResetCleanUart, UartAfterClean
  <2>5. CASE ResetClearBooted
    BY <2>5 DEF ResetClearBooted
  <2>6. CASE ResetAcknowledge
    BY <2>6 DEF ResetAcknowledge, FlagAfterReset
  <2>7. CASE BeginRead
    BY <2>7 DEF BeginRead, RingEmpty
  <2>8. CASE SyncSkip
    BY <2>8 DEF SyncSkip
  <2>9. CASE SyncFound
    BY <2>9 DEF SyncFound
  <2>10. CASE AbandonRead
    BY <2>10 DEF AbandonRead, ReadLoopStops
  <2>11. CASE HeaderError
    BY <2>11 DEF HeaderError
  <2>12. CASE HeaderOfEvent
    <3>1. w' = Next1(w) /\ dpc' = "payload" /\ cur' = Head(rx) /\ r' = r /\ w = r
      BY <2>12, <1>2 DEF HeaderOfEvent
    <3>2. cur'.class = "evt"
      BY <2>12, <3>1 DEF HeaderOfEvent
    <3>3. QED BY <3>1, <3>2
  <2>13. CASE HeaderOfResponse
    <3>1. w' = w /\ dpc' = "payload" /\ cur' = Head(rx) /\ r' = r /\ w = r
      BY <2>13 DEF HeaderOfResponse
    <3>2. cur'.class = "rsp"
      BY <2>13, <3>1 DEF HeaderOfResponse
    <3>3. QED BY <3>1, <3>2
  <2>14. CASE PayloadOfEvent
    BY <2>14 DEF PayloadOfEvent
  <2>15. CASE PayloadOfResponse
    BY <2>15 DEF PayloadOfResponse
  <2>16. CASE PayloadError
    BY <2>16, <1>1 DEF PayloadError
  <2>17. CASE HandleForward
    BY <2>17 DEF HandleForward, Forwards
  <2>18. CASE HandleSpecial
    BY <2>18 DEF HandleSpecial
  <2>19. CASE HandleIgnore
    BY <2>19 DEF HandleIgnore, Forwards
  <2>20. QED
    BY <1>3, <2>1, <2>2, <2>3, <2>4, <2>5, <2>6, <2>7, <2>8, <2>9, <2>10, <2>11, <2>12, <2>13, <2>14, <2>15, <2>16, <2>17, <2>18, <2>19
    DEF Driver, DriverGoesOn
<1>4. CASE Module \/ WatcherTake \/ CallStep \/ CallStart
  <2>1. UNCHANGED <<dpc, cur, w, r>>
    BY <1>4 DEF Module, ModuleBoot, ModuleEvent, ModuleAnswer, ModuleFallsSilent, WatcherTake,
       CallStep, PeekMatch, PeekTimeout, CommandCollect, ResetRequest,
       ResetOffSeen, ResetOffTimeout, ResetPowerOn, ResetBootSeen,
       ResetBootTimeout, ResetGiveUp, DisableSeen,
       CallStart, CommandSend, HardReset, Disable, Enable
  <2>2. QED BY <2>1
<1>5. CASE Destroy
  BY <1>1, <1>5 DEF Destroy, AtCancelPoint
<1>6. CASE Reinit
  BY <1>6 DEF Reinit, FlagInv
<1>7. CASE UNCHANGED vars
  BY <1>7 DEF vars
<1>8. QED BY <1>3, <1>4, <1>5, <1>6, <1>7 DEF Next

(* Whatever the lengths of ring and message queue, and even with failing   *)
(* reads and re-opened links, the driver never reads a header with an      *)
(* event still queued: the branch of gecko_wait_message that throws an     *)
(* event away for want of room is dead code.                               *)
THEOREM RingHasRoom == Spec => []RingNeverFull
<1>1. Init => FlagInv /\ RingInv
  BY DEF Init, FlagInv, RingInv
<1>2. TypeOK /\ FlagInv /\ RingInv /\ [Next]_vars => FlagInv' /\ RingInv'
  BY FlagStep, RingStep
<1>3. RingInv => RingNeverFull
  BY DEF RingInv, RingNeverFull
<1>4. QED BY <1>1, <1>2, <1>3, TypeCorrect, PTL DEF Spec
-----------------------------------------------------------------------------
(* What the reset handshake guarantees.                                    *)

(* The module is off and nothing of its past life is on the way. *)
Quiet ==
  /\ power = "off" /\ pend = <<>> /\ rx = <<>>
  /\ w = r
  /\ ~booted
  /\ dpc \in {"get", "sync"}

(* As long as no reset has given up, each step of the driver leaves the    *)
(* link as the next one expects it, until the caller sees the flag down.   *)
QuietInv ==
  lastRst # "failed" =>
    /\ dpc \in {"rstClean", "rstUnboot", "rstAck"} => power = "off" /\ pend = <<>>
    /\ dpc \in {"rstUnboot", "rstAck"} => rx = <<>>
    /\ dpc = "rstAck" => ~booted
    /\ (apc = "offWait" /\ ~flag) \/ apc = "off" => Quiet

LEMMA QuietStep ==
  ASSUME TypeOK, RingInv, FlagInv, QuietInv, [Next]_vars
  PROVE  QuietInv'
<1> USE DEF FlagInv, QuietInv, Quiet, moduleVars, ringVars, rspVars, handVars,
        driverVars, callVars
<1>1. CASE Module
  BY <1>1 DEF Module, ModuleBoot, ModuleEvent, ModuleAnswer, ModuleFallsSilent, EmitEvent, Emit
<1>2. CASE WatcherTake
  BY <1>2 DEF WatcherTake
<1>3. ASSUME Driver PROVE QuietInv'
  <2>1. CASE PopEvent
    BY <2>1 DEF PopEvent, RingEmpty, SlotAfterPop
  <2>2. CASE BeginReset
    BY <2>2 DEF BeginReset, RingEmpty
  <2>3. CASE ResetPowerOff
    BY <2>3 DEF ResetPowerOff
  <2>4. CASE ResetCleanUart
    BY <2>4 DEF ResetCleanUart, UartAfterClean
  <2>5. CASE ResetClearBooted
    BY <2>5 DEF ResetClearBooted
  <2>6. CASE ResetAcknowledge
    BY <2>6 DEF ResetAcknowledge, FlagAfterReset, RingInv
  <2>7. CASE BeginRead
    BY <2>7 DEF BeginRead, RingEmpty
  <2>8. CASE SyncSkip
    BY <2>8 DEF SyncSkip
  <2>9. CASE SyncFound
    BY <2>9 DEF SyncFound
  <2>10. CASE AbandonRead
    BY <2>10 DEF AbandonRead, ReadLoopStops
  <2>11. CASE HeaderError
    BY <2>11 DEF HeaderError
  <2>12. CASE HeaderOfEvent
    BY <2>12 DEF HeaderOfEvent
  <2>13. CASE HeaderOfResponse
    BY <2>13 DEF HeaderOfResponse
  <2>14. CASE PayloadOfEvent
    BY <2>14 DEF PayloadOfEvent
  <2>15. CASE PayloadOfResponse
    BY <2>15 DEF PayloadOfResponse
  <2>16. CASE PayloadError
    BY <2>16 DEF PayloadError
  <2>17. CASE HandleForward
    BY <2>17 DEF HandleForward, Forwards
  <2>18. CASE HandleSpecial
    BY <2>18 DEF HandleSpecial
  <2>19. CASE HandleIgnore
    BY <2>19 DEF HandleIgnore, Forwards
  <2>20. QED
    BY <1>3, <2>1, <2>2, <2>3, <2>4, <2>5, <2>6, <2>7, <2>8, <2>9, <2>10, <2>11, <2>12, <2>13, <2>14, <2>15, <2>16, <2>17, <2>18, <2>19
    DEF Driver, DriverGoesOn
<1>4. ASSUME CallStep PROVE QuietInv'
  <2>1. CASE PeekMatch
    BY <2>1 DEF PeekMatch
  <2>2. CASE PeekTimeout
    BY <2>2 DEF PeekTimeout
  <2>3. CASE CommandCollect
    BY <2>3 DEF CommandCollect
  <2>4. CASE ResetRequest
    BY <2>4 DEF ResetRequest
  <2>5. CASE ResetOffSeen
    BY <2>5 DEF ResetOffSeen
  <2>6. CASE ResetOffTimeout
    BY <2>6 DEF ResetOffTimeout
  <2>7. CASE ResetPowerOn
    BY <2>7 DEF ResetPowerOn, PowerOn
  <2>8. CASE ResetBootSeen
    BY <2>8 DEF ResetBootSeen
  <2>9. CASE ResetBootTimeout
    BY <2>9 DEF ResetBootTimeout
  <2>10. CASE ResetGiveUp
    BY <2>10 DEF ResetGiveUp
  <2>11. CASE DisableSeen
    BY <2>11 DEF DisableSeen, PowerOffConfirmed
  <2>12. QED
    BY <1>4, <2>1, <2>2, <2>3, <2>4, <2>5, <2>6, <2>7, <2>8, <2>9, <2>10, <2>11
    DEF CallStep
<1>5. ASSUME CallStart PROVE QuietInv'
  <2>1. ASSUME NEW c \in Commands, CommandSend(c) PROVE QuietInv'
    BY <2>1 DEF CommandSend, Call
  <2>2. CASE HardReset
    BY <2>2 DEF HardReset, Call
  <2>3. CASE Disable
    BY <2>3 DEF Disable, Call
  <2>4. CASE Enable
    BY <2>4 DEF Enable, Call, PowerOn
  <2>5. QED BY <1>5, <2>1, <2>2, <2>3, <2>4 DEF CallStart
<1>6. CASE Destroy
  BY <1>6 DEF Destroy
<1>7. CASE Reinit
  BY <1>7 DEF Reinit
<1>8. CASE UNCHANGED vars
  BY <1>8 DEF vars
<1>9. QED BY <1>1, <1>2, <1>3, <1>4, <1>5, <1>6, <1>7, <1>8 DEF Next

(* When a hard reset sees its request served, and none before it has given *)
(* up, the module is off and nothing of its earlier life is left in the    *)
(* UART, in the ring or in the driver: what arrives next is of the new     *)
(* life.                                                                   *)
THEOREM ResetIsClean == Spec => []ResetQuiesces
<1>1. Init => RingInv /\ FlagInv /\ QuietInv
  BY DEF Init, RingInv, FlagInv, QuietInv
<1>2. TypeOK /\ RingInv /\ FlagInv /\ QuietInv /\ [Next]_vars
        => RingInv' /\ FlagInv' /\ QuietInv'
  BY RingStep, FlagStep, QuietStep
<1>3. QuietInv => ResetQuiesces
  BY DEF QuietInv, Quiet, ResetQuiesces
<1>4. QED BY <1>1, <1>2, <1>3, TypeCorrect, PTL DEF Spec
-----------------------------------------------------------------------------
(* Fresh events, in order: what is on the way through the link.            *)

IsEvent(i) == rx[i].class = "evt"
IsAnswer(i) == rx[i].class = "rsp"

(* A reset of the module is requested or about to be: until it is served,  *)
(* an appBooted of an earlier life may still be up.                        *)
ResetDue == flag \/ apc = "closed" \/ (apc = "rstTop" /\ tries = 0)

(* What is in the UART may be older than the module's present life. *)
UartIsStale == dpc \in {"rstClean", "dead"}

(* The event whose header the driver has taken from the UART and which it  *)
(* has not yet handled: in its slot of the ring, or in the handler.        *)
EventHeld ==
  \/ dpc = "handle" /\ evt.hdr \in EventKinds
  \/ dpc # "handle" /\ w # r
HeldNo == IF dpc = "handle" THEN evt.no ELSE slots[r].no

(* A module without power: the driver holds nothing, and a module that has *)
(* booted and lost its power is being reset.                               *)
OffInv ==
  /\ power = "off" => /\ dpc \notin {"payload", "handle"}
                      /\ w = r
                      /\ rx = <<>> \/ UartIsStale
                      /\ booted => ResetDue
  /\ dpc = "rstAck" => ~booted

(* Answers have the id of a command, so none is taken for an event. *)
AnswerInv ==
  /\ \A i \in 1 .. Len(rx) : IsAnswer(i) => rx[i].hdr \in Commands
  /\ rspHead.hdr \in Commands \cup {None}

(* Events in the UART are in the order of emission, of the module's        *)
(* present life, and later than all that were forwarded.                   *)
WireInv ==
  /\ lastFwd <= evtNo /\ bornAt <= evtNo
  /\ \A i \in 1 .. Len(rx) : IsEvent(i) =>
       /\ rx[i].no <= evtNo
       /\ UartIsStale \/ rx[i].no > bornAt
       /\ rx[i].no > lastFwd
  /\ \A i, j \in 1 .. Len(rx) :
       IsEvent(i) /\ IsEvent(j) /\ i < j => rx[i].no < rx[j].no

(* The event in hand is of the present life, older than those in the UART  *)
(* and later than those forwarded.                                         *)
HeldInv ==
  EventHeld =>
    /\ HeldNo > bornAt /\ HeldNo > lastFwd /\ HeldNo <= evtNo
    /\ \A i \in 1 .. Len(rx) : IsEvent(i) => HeldNo < rx[i].no

(* No payload in the ring is later than the event in hand, or than one     *)
(* still in the UART.                                                      *)
OldPayInv ==
  \A k \in 0 .. QueueLen - 1 :
    /\ slots[k].pay <= evtNo
    /\ \A i \in 1 .. Len(rx) : IsEvent(i) => slots[k].pay < rx[i].no
    /\ EventHeld => slots[k].pay <= HeldNo

(* The payload that is awaited is that of the event in hand; once read, or *)
(* as long as no read was interrupted, the event in hand has its own.      *)
HeldPayInv ==
  /\ TearsEvent => cur.no = slots[r].no
  /\ dpc = "handle" /\ evt.hdr \in EventKinds =>
       evt.pay <= evt.no /\ (torn \/ evt.pay = evt.no)
  /\ dpc # "handle" /\ w # r /\ ~TearsEvent => torn \/ slots[r].pay = slots[r].no

(* An appBooted that no reset is to clear is of the present life. *)
BootInv == booted /\ ~ResetDue => bootTag > bornAt

(* A call does not take a request back: only the driver serves it. *)
LEMMA ResetStaysDue ==
  ASSUME CallStep \/ CallStart, ResetDue
  PROVE  ResetDue'
<1> USE DEF callVars
<1>1. CASE ResetRequest
  BY <1>1 DEF ResetRequest, ResetDue
<1>2. CASE Disable
  BY <1>2 DEF Disable, ResetDue
<1>3. CASE ResetOffSeen \/ ResetOffTimeout \/ ResetPowerOn \/ ResetBootSeen
             \/ ResetBootTimeout \/ ResetGiveUp \/ DisableSeen
  BY <1>3 DEF ResetOffSeen, ResetOffTimeout, ResetPowerOn, ResetBootSeen,
     ResetBootTimeout, ResetGiveUp, DisableSeen, ResetDue
<1>4. CASE PeekMatch \/ PeekTimeout \/ CommandCollect
  BY <1>4 DEF PeekMatch, PeekTimeout, CommandCollect, ResetDue
<1>5. CASE (\E c \in Commands : CommandSend(c)) \/ HardReset \/ Enable
  BY <1>5 DEF CommandSend, HardReset, Enable, Call, ResetDue
<1>6. QED BY <1>1, <1>2, <1>3, <1>4, <1>5 DEF CallStep, CallStart

LEMMA OffStep ==
  ASSUME TypeOK, FlagInv, RingInv, OffInv, [Next]_vars
  PROVE  OffInv'
<1> USE DEF OffInv, UartIsStale, moduleVars, ringVars, rspVars, handVars,
        driverVars, callVars
<1>1. CASE Module
  BY <1>1 DEF Module, ModuleBoot, ModuleEvent, ModuleAnswer, ModuleFallsSilent, EmitEvent, Emit, ResetDue
<1>2. CASE WatcherTake
  BY <1>2 DEF WatcherTake, ResetDue
<1>3. ASSUME Driver PROVE OffInv'
  <2>1. CASE PopEvent
    BY <2>1 DEF PopEvent, RingEmpty, SlotAfterPop, ResetDue
  <2>2. CASE BeginReset
    BY <2>2 DEF BeginReset, RingEmpty, ResetDue
  <2>3. CASE ResetPowerOff
    BY <2>3 DEF ResetPowerOff, RingInv, FlagInv, ResetDue
  <2>4. CASE ResetCleanUart
    BY <2>4 DEF ResetCleanUart, UartAfterClean, ResetDue
  <2>5. CASE ResetClearBooted
    BY <2>5 DEF ResetClearBooted, ResetDue
  <2>6. CASE ResetAcknowledge
    BY <2>6 DEF ResetAcknowledge, FlagAfterReset, ResetDue
  <2>7. CASE BeginRead
    BY <2>7 DEF BeginRead, RingEmpty, ResetDue
  <2>8. CASE SyncSkip
    BY <2>8 DEF SyncSkip, ResetDue
  <2>9. CASE SyncFound
    BY <2>9 DEF SyncFound, ResetDue
  <2>10. CASE AbandonRead
    BY <2>10 DEF AbandonRead, ReadLoopStops, ResetDue
  <2>11. CASE HeaderError
    BY <2>11 DEF HeaderError, ResetDue
  <2>12. CASE HeaderOfEvent
    BY <2>12 DEF HeaderOfEvent, ResetDue
  <2>13. CASE HeaderOfResponse
    BY <2>13 DEF HeaderOfResponse, ResetDue
  <2>14. CASE PayloadOfEvent
    BY <2>14 DEF PayloadOfEvent, ResetDue
  <2>15. CASE PayloadOfResponse
    BY <2>15 DEF PayloadOfResponse, ResetDue
  <2>16. CASE PayloadError
    BY <2>16 DEF PayloadError, ResetDue
  <2>17. CASE HandleForward
    BY <2>17 DEF HandleForward, Forwards, ResetDue
  <2>18. CASE HandleSpecial
    BY <2>18 DEF HandleSpecial, ResetDue
  <2>19. CASE HandleIgnore
    BY <2>19 DEF HandleIgnore, Forwards, ResetDue
  <2>20. QED
    BY <1>3, <2>1, <2>2, <2>3, <2>4, <2>5, <2>6, <2>7, <2>8, <2>9, <2>10, <2>11, <2>12, <2>13, <2>14, <2>15, <2>16, <2>17, <2>18, <2>19
    DEF Driver, DriverGoesOn
<1>4. CASE CallStep \/ CallStart
  <2>1. UNCHANGED <<dpc, w, r, rx, booted>>
    BY <1>4 DEF CallStep, PeekMatch, PeekTimeout, CommandCollect, ResetRequest,
       ResetOffSeen, ResetOffTimeout, ResetPowerOn, ResetBootSeen,
       ResetBootTimeout, ResetGiveUp, DisableSeen,
       CallStart, CommandSend, HardReset, Disable, Enable, Call
  <2>2. power' = "off" => power = "off"
    BY <1>4 DEF CallStep, PeekMatch, PeekTimeout, CommandCollect, ResetRequest,
       ResetOffSeen, ResetOffTimeout, ResetPowerOn, ResetBootSeen,
       ResetBootTimeout, ResetGiveUp, DisableSeen,
       CallStart, CommandSend, HardReset, Disable, Enable, PowerOn
  <2>3. ResetDue => ResetDue'
    BY <1>4, ResetStaysDue
  <2>4. QED BY <2>1, <2>2, <2>3
<1>5. CASE Destroy
  BY <1>5 DEF Destroy, AtCancelPoint, ResetDue
<1>6. CASE Reinit
  BY <1>6 DEF Reinit, ResetDue
<1>7. CASE UNCHANGED vars
  BY <1>7 DEF vars, ResetDue
<1>8. QED BY <1>1, <1>2, <1>3, <1>4, <1>5, <1>6, <1>7 DEF Next

LEMMA AnswerStep ==
  ASSUME TypeOK, AnswerInv, [Next]_vars
  PROVE  AnswerInv'
<1> USE DEF AnswerInv, IsAnswer, moduleVars, ringVars, rspVars, handVars,
        driverVars, callVars
<1>0. rx \in Seq(Message)
  BY DEF TypeOK
<1>1. CASE ModuleBoot \/ ModuleEvent
  <2>1. PICK kind : EmitEvent(kind)
    BY <1>1 DEF ModuleBoot, ModuleEvent
  <2>2. rx' = Append(rx, [class |-> "evt", hdr |-> kind,
                          no |-> evtNo + 1])
    BY <2>1 DEF EmitEvent, Emit
  <2>3. UNCHANGED rspHead
    BY <1>1 DEF ModuleBoot, ModuleEvent
  <2>4. QED BY <1>0, <2>2, <2>3
<1>2. CASE ModuleAnswer
  <2>1. Emit("rsp", Head(pend).hdr, Head(pend).call)
    BY <1>2 DEF ModuleAnswer
  <2>2. Head(pend) \in [hdr : Commands, call : Nat]
    BY <1>2, HeadTailProperties DEF ModuleAnswer, TypeOK, ModuleType
  <2>3. rx' = Append(rx, [class |-> "rsp", hdr |-> Head(pend).hdr,
                          no |-> Head(pend).call])
    BY <2>1 DEF Emit
  <2>4. UNCHANGED rspHead
    BY <1>2 DEF ModuleAnswer
  <2>5. QED BY <1>0, <2>2, <2>3, <2>4
<1>3. CASE SyncSkip \/ HeaderOfEvent \/ HeaderError \/ HeaderOfResponse
  <2>1. rx' = rx \/ (rx # <<>> /\ rx' = Tail(rx))
    BY <1>3 DEF SyncSkip, HeaderOfEvent, HeaderError, HeaderOfResponse
  <2>2. \/ rspHead' = rspHead
        \/ rx # <<>> /\ Head(rx).class = "rsp" /\ rspHead'.hdr = Head(rx).hdr
    BY <1>3 DEF SyncSkip, HeaderOfEvent, HeaderError, HeaderOfResponse
  <2>3. rspHead'.hdr \in Commands \cup {None}
    BY <1>0, <2>2
  <2>4. QED BY <1>0, <2>1, <2>3
<1>4. CASE ResetCleanUart \/ Reinit
  BY <1>4 DEF ResetCleanUart, UartAfterClean, Reinit
<1>5. CASE PopEvent \/ BeginReset \/ ResetPowerOff \/ ResetClearBooted
             \/ ResetAcknowledge \/ BeginRead \/ SyncFound \/ AbandonRead
             \/ PayloadOfEvent \/ PayloadOfResponse \/ PayloadError
             \/ HandleForward \/ HandleSpecial \/ HandleIgnore
  BY <1>5 DEF PopEvent, BeginReset, ResetPowerOff, ResetClearBooted,
     ResetAcknowledge, BeginRead, SyncFound, AbandonRead, PayloadOfEvent,
     PayloadOfResponse, PayloadError, HandleForward, HandleSpecial, HandleIgnore
<1>6. ASSUME NEW c \in Commands, CommandSend(c) PROVE AnswerInv'
  <2>1. rx' = rx /\ rspHead'.hdr = None
    BY <1>6 DEF CommandSend, ResponseHeaderCleared, NoHeader
  <2>2. QED BY <2>1
<1>7. CASE WatcherTake \/ CallStep \/ HardReset \/ Disable \/ Enable \/ Destroy
             \/ ModuleFallsSilent \/ UNCHANGED vars
  BY <1>7 DEF ModuleFallsSilent, WatcherTake, CallStep, PeekMatch, PeekTimeout, CommandCollect,
     ResetRequest, ResetOffSeen, ResetOffTimeout, ResetPowerOn, ResetBootSeen,
     ResetBootTimeout, ResetGiveUp, DisableSeen, HardReset, Disable, Enable,
     Destroy, vars
<1>8. QED
  BY <1>1, <1>2, <1>3, <1>4, <1>5, <1>6, <1>7
  DEF Next, Module, Driver, DriverGoesOn, CallStart

LEMMA WireStep ==
  ASSUME TypeOK, OffInv, AnswerInv, WireInv, HeldInv, [Next]_vars
  PROVE  WireInv'
<1> USE DEF IsEvent, moduleVars, ringVars, rspVars, handVars, driverVars, callVars
<1>0. /\ rx \in Seq(Message) /\ evtNo \in Nat /\ bornAt \in Nat /\ lastFwd \in Nat
      /\ \A i \in 1 .. Len(rx) : rx[i].no \in Nat
  <2>1. rx \in Seq(Message) /\ evtNo \in Nat /\ bornAt \in Nat /\ lastFwd \in Nat
    BY DEF TypeOK, ModuleType, HandType
  <2>2. \A i \in 1 .. Len(rx) : rx[i] \in Message
    BY <2>1
  <2>3. QED BY <2>1, <2>2 DEF Message
<1>1. CASE ModuleBoot \/ ModuleEvent
  <2>1. PICK kind : EmitEvent(kind)
    BY <1>1 DEF ModuleBoot, ModuleEvent
  <2> DEFINE new == [class |-> "evt", hdr |-> kind, no |-> evtNo + 1]
  <2>2. rx' = Append(rx, new) /\ evtNo' = evtNo + 1
    BY <2>1 DEF EmitEvent, Emit
  <2>3. UNCHANGED <<bornAt, lastFwd, dpc>>
    BY <1>1 DEF ModuleBoot, ModuleEvent
  <2>4. /\ Len(rx') = Len(rx) + 1 /\ rx'[Len(rx) + 1] = new
        /\ \A i \in 1 .. Len(rx) : rx'[i] = rx[i]
    BY <1>0, <2>2, AppendProperties
  <2>5. rx'[Len(rx) + 1].no = evtNo + 1
    BY <2>4
  <2> HIDE DEF new
  <2>6. \A i \in 1 .. Len(rx') :
          (i \in 1 .. Len(rx) /\ rx'[i] = rx[i]) \/ i = Len(rx) + 1
    BY <1>0, <2>4
  <2>7. lastFwd' <= evtNo' /\ bornAt' <= evtNo'
    BY <1>0, <2>2, <2>3 DEF WireInv
  <2>8. \A i \in 1 .. Len(rx') : IsEvent(i)' =>
           /\ rx'[i].no <= evtNo'
           /\ UartIsStale' \/ rx'[i].no > bornAt'
           /\ rx'[i].no > lastFwd'
    BY <1>0, <2>2, <2>3, <2>5, <2>6, <2>7 DEF WireInv, UartIsStale
  <2>9. \A i, j \in 1 .. Len(rx') : IsEvent(i)' /\ IsEvent(j)' /\ i < j =>
          rx'[i].no < rx'[j].no
    BY <1>0, <2>2, <2>5, <2>6 DEF WireInv
  <2>10. QED BY <1>0, <2>2, <2>3, <2>7, <2>8, <2>9 DEF WireInv
<1>2. CASE ModuleAnswer
  <2>1. Emit("rsp", Head(pend).hdr, Head(pend).call)
    BY <1>2 DEF ModuleAnswer
  <2> DEFINE new == [class |-> "rsp", hdr |-> Head(pend).hdr, no |-> Head(pend).call]
  <2>2. rx' = Append(rx, new) /\ new.class = "rsp"
    BY <2>1 DEF Emit
  <2> HIDE DEF new
  <2>3. /\ Len(rx') = Len(rx) + 1 /\ rx'[Len(rx) + 1] = new
        /\ \A i \in 1 .. Len(rx) : rx'[i] = rx[i]
    BY <1>0, <2>2, AppendProperties
  <2>4. UNCHANGED <<bornAt, evtNo, lastFwd, dpc>>
    BY <1>2 DEF ModuleAnswer
  <2>5. QED BY <1>0, <2>2, <2>3, <2>4 DEF WireInv, UartIsStale
<1>3. CASE SyncSkip \/ HeaderOfEvent \/ HeaderError \/ HeaderOfResponse
  <2>1. rx' = rx \/ (rx # <<>> /\ rx' = Tail(rx))
    BY <1>3 DEF SyncSkip, HeaderOfEvent, HeaderError, HeaderOfResponse
  <2>2. UNCHANGED <<bornAt, evtNo, lastFwd>> /\ ~UartIsStale
    BY <1>3 DEF SyncSkip, HeaderOfEvent, HeaderError, HeaderOfResponse, UartIsStale
  <2>3. CASE rx' = rx
    BY <2>2, <2>3 DEF WireInv
  <2>4. CASE rx # <<>> /\ rx' = Tail(rx)
    <3>1. /\ Len(rx') = Len(rx) - 1 /\ Len(rx) \in Nat
          /\ \A i \in 1 .. Len(rx') : rx'[i] = rx[i + 1] /\ i + 1 \in 1 .. Len(rx)
      BY <1>0, <2>4
    <3>2. \A i \in 1 .. Len(rx') : IsEvent(i)' =>
             /\ rx'[i].no <= evtNo'
             /\ UartIsStale' \/ rx'[i].no > bornAt'
             /\ rx'[i].no > lastFwd'
      BY <2>2, <3>1 DEF WireInv
    <3>3. ASSUME NEW i \in 1 .. Len(rx'), NEW j \in 1 .. Len(rx'),
                 IsEvent(i)', IsEvent(j)', i < j
          PROVE  rx'[i].no < rx'[j].no
      <4>1. /\ i + 1 \in 1 .. Len(rx) /\ rx'[i] = rx[i + 1] /\ IsEvent(i + 1)
            /\ j + 1 \in 1 .. Len(rx) /\ rx'[j] = rx[j + 1] /\ IsEvent(j + 1)
        BY <3>1, <3>3 DEF IsEvent
      <4>2. i + 1 < j + 1
        BY <3>1, <3>3
      <4>3. QED BY <4>1, <4>2 DEF WireInv
    <3>4. QED BY <2>2, <3>2, <3>3 DEF WireInv
  <2>5. QED BY <2>1, <2>3, <2>4
<1>4. CASE ResetCleanUart \/ Reinit
  BY <1>0, <1>4 DEF ResetCleanUart, UartAfterClean, Reinit, WireInv
<1>5. CASE HandleForward
  <2>1. EventHeld /\ HeldNo = evt.no
    BY <1>5 DEF HandleForward, Forwards, EventHeld, HeldNo, EventKinds
  <2>2. lastFwd' = IF HeldNo > lastFwd THEN HeldNo ELSE lastFwd
    BY <1>5, <2>1 DEF HandleForward
  <2>3. UNCHANGED <<rx, bornAt, evtNo>> /\ ~UartIsStale
    BY <1>5 DEF HandleForward, UartIsStale
  <2>4. HeldNo \in Nat
    BY <2>1 DEF TypeOK, DriverType, Packet
  <2>5. QED BY <1>0, <2>1, <2>2, <2>3, <2>4 DEF WireInv, HeldInv
<1>6. CASE ResetPowerOn \/ Enable
  <2>1. PowerOn /\ UNCHANGED <<rx, lastFwd, dpc, evtNo>>
    BY <1>6 DEF ResetPowerOn, Enable, PowerOn
  <2>2. CASE power = "off"
    <3>1. bornAt' = evtNo /\ (rx = <<>> \/ UartIsStale)
      BY <2>1, <2>2 DEF PowerOn, OffInv
    <3>2. \A i \in 1 .. Len(rx) : UartIsStale
      BY <1>0, <3>1
    <3>3. UartIsStale' = UartIsStale
      BY <2>1 DEF UartIsStale
    <3>4. QED BY <1>0, <2>1, <3>1, <3>2, <3>3 DEF WireInv
  <2>3. CASE power # "off"
    BY <2>1, <2>3 DEF PowerOn, WireInv, UartIsStale
  <2>4. QED BY <2>2, <2>3
<1>7. CASE PopEvent \/ BeginReset \/ ResetPowerOff \/ ResetClearBooted
             \/ ResetAcknowledge \/ BeginRead \/ SyncFound \/ AbandonRead
             \/ PayloadOfEvent \/ PayloadOfResponse \/ PayloadError
             \/ HandleSpecial \/ HandleIgnore
  <2>1. UNCHANGED <<rx, evtNo, bornAt, lastFwd>> /\ (UartIsStale => UartIsStale')
    BY <1>7 DEF PopEvent, BeginReset, ResetPowerOff, ResetClearBooted,
       ResetAcknowledge, BeginRead, SyncFound, AbandonRead, PayloadOfEvent,
       PayloadOfResponse, PayloadError, HandleSpecial, HandleIgnore, UartIsStale
  <2>2. QED BY <2>1 DEF WireInv
<1>8. CASE WatcherTake \/ PeekMatch \/ PeekTimeout \/ CommandCollect
             \/ ResetRequest \/ ResetOffSeen \/ ResetOffTimeout \/ ResetBootSeen
             \/ ResetBootTimeout \/ ResetGiveUp \/ DisableSeen
             \/ (\E c \in Commands : CommandSend(c)) \/ HardReset \/ Disable
             \/ ModuleFallsSilent \/ UNCHANGED vars
  <2>1. UNCHANGED <<rx, evtNo, bornAt, lastFwd, dpc>>
    BY <1>8 DEF ModuleFallsSilent, WatcherTake, PeekMatch, PeekTimeout, CommandCollect,
       ResetRequest, ResetOffSeen, ResetOffTimeout, ResetBootSeen,
       ResetBootTimeout, ResetGiveUp, DisableSeen, CommandSend, HardReset,
       Disable, vars
  <2>2. QED BY <2>1 DEF WireInv, UartIsStale
<1>9. CASE Destroy
  <2>1. UNCHANGED <<rx, evtNo, bornAt, lastFwd>> /\ UartIsStale'
    BY <1>9 DEF Destroy, UartIsStale
  <2>2. QED BY <2>1 DEF WireInv
<1>10. QED
  BY <1>1, <1>2, <1>3, <1>4, <1>5, <1>6, <1>7, <1>8, <1>9
  DEF Next, Module, Driver, DriverGoesOn, CallStep, CallStart

(* The steps of the driver with nothing in hand, before and after. *)
IdleStep ==
  \/ BeginReset \/ ResetPowerOff \/ ResetCleanUart \/ ResetClearBooted
  \/ ResetAcknowledge \/ BeginRead \/ SyncSkip \/ SyncFound \/ AbandonRead
  \/ HeaderError \/ HeaderOfResponse

LEMMA IdleStepFacts ==
  ASSUME TypeOK, RingInv, IdleStep
  PROVE  /\ w = r /\ dpc' # "handle"
         /\ UNCHANGED <<w, r, slots, torn, evt, evtNo, bornAt, lastFwd>>
         /\ rx' = rx \/ rx' = <<>> \/ (rx # <<>> /\ rx' = Tail(rx))
         /\ ~EventHeld' /\ ~TearsEvent'
<1> USE DEF moduleVars, ringVars, rspVars, handVars, driverVars, callVars
<1>1. /\ w = r /\ dpc' # "handle"
      /\ UNCHANGED <<w, r, slots, torn, evt, evtNo, bornAt, lastFwd>>
      /\ dpc' = "payload" => cur'.class = "rsp"
  BY DEF IdleStep, BeginReset, ResetPowerOff, ResetCleanUart, ResetClearBooted,
     ResetAcknowledge, BeginRead, SyncSkip, SyncFound, AbandonRead,
     HeaderError, HeaderOfResponse, RingEmpty, RingInv
<1>2. rx' = rx \/ rx' = <<>> \/ (rx # <<>> /\ rx' = Tail(rx))
  BY DEF IdleStep, BeginReset, ResetPowerOff, ResetCleanUart, UartAfterClean,
     ResetClearBooted, ResetAcknowledge, BeginRead, SyncSkip, SyncFound,
     AbandonRead, HeaderError, HeaderOfResponse
<1>3. ~EventHeld' /\ ~TearsEvent'
  BY <1>1 DEF EventHeld, TearsEvent
<1>4. QED BY <1>1, <1>2, <1>3

LEMMA HeldStep ==
  ASSUME TypeOK, FlagInv, RingInv, OffInv, AnswerInv, WireInv, HeldInv,
         [Next]_vars
  PROVE  HeldInv'
<1> USE DEF moduleVars, ringVars, rspVars, handVars, driverVars, callVars
<1>0. /\ rx \in Seq(Message) /\ evtNo \in Nat /\ bornAt \in Nat /\ lastFwd \in Nat
      /\ \A i \in 1 .. Len(rx) : rx[i].no \in Nat
      /\ HeldNo \in Nat
      /\ w \in 0 .. QueueLen - 1 /\ r \in 0 .. QueueLen - 1
      /\ slots \in [0 .. QueueLen - 1 -> Packet]
  <2>1. /\ rx \in Seq(Message) /\ evtNo \in Nat /\ bornAt \in Nat /\ lastFwd \in Nat
        /\ w \in 0 .. QueueLen - 1 /\ r \in 0 .. QueueLen - 1
        /\ slots \in [0 .. QueueLen - 1 -> Packet]
    BY DEF TypeOK, ModuleType, HandType, RingType
  <2>2. \A i \in 1 .. Len(rx) : rx[i] \in Message
    BY <2>1
  <2>3. slots[r] \in Packet /\ evt \in Packet
    BY <2>1 DEF TypeOK, DriverType
  <2>4. QED BY <2>1, <2>2, <2>3 DEF Message, Packet, HeldNo
<1>1. CASE ModuleBoot \/ ModuleEvent
  <2>1. PICK kind : EmitEvent(kind)
    BY <1>1 DEF ModuleBoot, ModuleEvent
  <2>2. /\ rx' = Append(rx, [class |-> "evt", hdr |-> kind, no |-> evtNo + 1])
        /\ evtNo' = evtNo + 1
    BY <2>1 DEF EmitEvent, Emit
  <2>3. UNCHANGED <<bornAt, lastFwd, dpc, evt, w, r, slots>>
    BY <1>1 DEF ModuleBoot, ModuleEvent
  <2>4. \A i \in 1 .. Len(rx') :
          (i \in 1 .. Len(rx) /\ rx'[i] = rx[i]) \/ rx'[i].no = evtNo + 1
    BY <1>0, <2>2
  <2>5. EventHeld' = EventHeld /\ HeldNo' = HeldNo
    BY <2>3 DEF EventHeld, HeldNo
  <2>6. QED BY <1>0, <2>2, <2>3, <2>4, <2>5 DEF HeldInv, IsEvent
<1>2. CASE ModuleAnswer
  <2>1. rx' = Append(rx, [class |-> "rsp", hdr |-> Head(pend).hdr,
                          no |-> Head(pend).call])
    BY <1>2 DEF ModuleAnswer, Emit
  <2>2. \A i \in 1 .. Len(rx') :
          (i \in 1 .. Len(rx) /\ rx'[i] = rx[i]) \/ rx'[i].class = "rsp"
    BY <1>0, <2>1
  <2>3. UNCHANGED <<bornAt, evtNo, lastFwd, dpc, evt, w, r, slots>>
    BY <1>2 DEF ModuleAnswer
  <2>4. EventHeld' = EventHeld /\ HeldNo' = HeldNo
    BY <2>3 DEF EventHeld, HeldNo
  <2>5. QED BY <2>2, <2>3, <2>4 DEF HeldInv, IsEvent
<1>3. CASE HeaderOfEvent
  <2>1. /\ rx # <<>> /\ rx' = Tail(rx) /\ IsEvent(1) /\ rx[1] = Head(rx)
        /\ UNCHANGED <<evtNo, bornAt, lastFwd, r>> /\ ~UartIsStale /\ w = r
    BY <1>0, <1>3 DEF HeaderOfEvent, IsEvent, UartIsStale, RingInv
  <2>2. CASE Next1(w) = r
    <3>1. dpc' = "get" /\ w' = w
      BY <1>3, <2>2 DEF HeaderOfEvent
    <3>2. ~EventHeld'
      BY <2>1, <3>1 DEF EventHeld
    <3>3. QED BY <3>2 DEF HeldInv
  <2>3. CASE Next1(w) # r
    <3>1. /\ dpc' = "payload"
          /\ slots' = [slots EXCEPT ![w].hdr = rx[1].hdr, ![w].no = rx[1].no]
      BY <1>3, <2>1, <2>3 DEF HeaderOfEvent
    <3>2. HeldNo' = rx[1].no
      BY <1>0, <2>1, <3>1 DEF HeldNo, Packet
    <3>3. /\ Len(rx) \in Nat /\ Len(rx) >= 1
          /\ \A i \in 1 .. Len(rx') :
               rx'[i] = rx[i + 1] /\ i + 1 \in 1 .. Len(rx) /\ 1 < i + 1
      BY <1>0, <2>1
    <3>4. \A i \in 1 .. Len(rx') : IsEvent(i)' => HeldNo' < rx'[i].no
      BY <2>1, <3>2, <3>3 DEF WireInv, IsEvent
    <3>5. rx[1].no <= evtNo /\ rx[1].no > bornAt /\ rx[1].no > lastFwd
      BY <2>1, <3>3 DEF WireInv
    <3>6. QED BY <2>1, <3>2, <3>4, <3>5 DEF HeldInv
  <2>4. QED BY <2>2, <2>3
<1>4. CASE PopEvent
  <2>1. /\ dpc = "get" /\ w # r /\ evt' = slots[r] /\ dpc' = "handle"
        /\ UNCHANGED <<rx, bornAt, evtNo, lastFwd>>
    BY <1>4 DEF PopEvent, RingEmpty
  <2>2. EventHeld /\ HeldNo' = HeldNo
    BY <2>1 DEF EventHeld, HeldNo
  <2>3. QED BY <2>1, <2>2 DEF HeldInv, IsEvent
<1>5. CASE PayloadOfEvent
  <2>1. /\ dpc = "payload" /\ dpc' = "get"
        /\ slots' = [slots EXCEPT ![Prev1(w)].pay = cur.no]
        /\ UNCHANGED <<w, r, rx, bornAt, evtNo, lastFwd>>
    BY <1>5 DEF PayloadOfEvent
  <2>2. slots'[r].no = slots[r].no
    BY <1>0, <2>1, SlotStep DEF Packet
  <2>3. EventHeld' = EventHeld /\ HeldNo' = HeldNo
    BY <2>1, <2>2 DEF EventHeld, HeldNo
  <2>4. QED BY <2>1, <2>3 DEF HeldInv, IsEvent
<1>6. CASE PayloadOfResponse
  <2>1. dpc' = "handle" /\ evt'.hdr = rspHead.hdr
    BY <1>6 DEF PayloadOfResponse
  <2>2. rspHead.hdr \notin EventKinds
    BY CommandsAssumption DEF AnswerInv, EventKinds, None
  <2>3. ~EventHeld'
    BY <2>1, <2>2 DEF EventHeld
  <2>4. QED BY <2>3 DEF HeldInv
<1>7. CASE HandleForward \/ HandleSpecial \/ HandleIgnore
  <2>1. dpc' = "get" /\ w' = w /\ r' = r /\ w = r
    BY <1>7 DEF HandleForward, HandleSpecial, HandleIgnore, RingInv
  <2>2. ~EventHeld'
    BY <2>1 DEF EventHeld
  <2>3. QED BY <2>2 DEF HeldInv
<1>8. CASE IdleStep
  BY <1>8, IdleStepFacts DEF HeldInv
<1>9. CASE PayloadError \/ Destroy
  <2>1. /\ UNCHANGED <<w, r, slots, rx, bornAt, evtNo, lastFwd>>
        /\ dpc' # "handle" /\ (dpc = "handle" => w = r)
    BY <1>9 DEF PayloadError, Destroy, RingInv
  <2>2. EventHeld' => EventHeld /\ HeldNo' = HeldNo
    BY <2>1 DEF EventHeld, HeldNo
  <2>3. QED BY <2>1, <2>2 DEF HeldInv, IsEvent
<1>10. CASE CallStep \/ CallStart
  <2>1. UNCHANGED <<dpc, evt, w, r, slots, rx, evtNo, lastFwd>>
    BY <1>10 DEF CallStep, PeekMatch, PeekTimeout, CommandCollect, ResetRequest,
       ResetOffSeen, ResetOffTimeout, ResetPowerOn, PowerOn, ResetBootSeen,
       ResetBootTimeout, ResetGiveUp, DisableSeen,
       CallStart, CommandSend, HardReset, Disable, Enable
  <2>2. bornAt' = bornAt \/ power = "off"
    BY <1>10 DEF CallStep, PeekMatch, PeekTimeout, CommandCollect, ResetRequest,
       ResetOffSeen, ResetOffTimeout, ResetPowerOn, PowerOn, ResetBootSeen,
       ResetBootTimeout, ResetGiveUp, DisableSeen,
       CallStart, CommandSend, HardReset, Disable, Enable
  <2>3. EventHeld' = EventHeld /\ HeldNo' = HeldNo
    BY <2>1 DEF EventHeld, HeldNo
  <2>4. power = "off" => ~EventHeld
    BY DEF OffInv, EventHeld
  <2>5. QED BY <2>1, <2>2, <2>3, <2>4 DEF HeldInv, IsEvent
<1>11. CASE Reinit
  <2>1. /\ dpc = "dead" /\ dpc' = "get" /\ rx' = <<>>
        /\ UNCHANGED <<w, r, slots, bornAt, evtNo, lastFwd>>
    BY <1>11 DEF Reinit, FlagInv
  <2>2. EventHeld' = EventHeld /\ HeldNo' = HeldNo
    BY <2>1 DEF EventHeld, HeldNo
  <2>3. \A i \in 1 .. Len(rx') : FALSE
    BY <2>1
  <2>4. QED BY <2>1, <2>2, <2>3 DEF HeldInv
<1>12. CASE WatcherTake \/ ModuleFallsSilent \/ UNCHANGED vars
  <2>1. UNCHANGED <<dpc, evt, w, r, slots, rx, evtNo, bornAt, lastFwd>>
    BY <1>12 DEF WatcherTake, ModuleFallsSilent, vars
  <2>2. QED BY <2>1 DEF HeldInv, EventHeld, HeldNo, IsEvent
<1>13. QED
  BY <1>1, <1>2, <1>3, <1>4, <1>5, <1>6, <1>7, <1>8, <1>9, <1>10, <1>11, <1>12
  DEF Next, Module, Driver, DriverGoesOn, IdleStep

(* Where the payloads in the ring stay as they are, and the UART holds no  *)
(* event that is not new, only the event in hand matters.                  *)
LEMMA OldPayKept ==
  ASSUME TypeOK, OldPayInv,
         evtNo' \in Nat, evtNo' >= evtNo,
         \A k \in 0 .. QueueLen - 1 : slots'[k].pay = slots[k].pay,
         \A i \in 1 .. Len(rx') : IsEvent(i)' =>
           \/ \E j \in 1 .. Len(rx) : rx'[i] = rx[j]
           \/ rx'[i].no = evtNo + 1,
         EventHeld' => \A k \in 0 .. QueueLen - 1 : slots[k].pay <= HeldNo'
  PROVE  OldPayInv'
<1>1. evtNo \in Nat /\ \A k \in 0 .. QueueLen - 1 : slots[k].pay \in Nat
  <2>1. \A k \in 0 .. QueueLen - 1 : slots[k] \in Packet
    BY DEF TypeOK, RingType
  <2>2. QED BY <2>1 DEF TypeOK, ModuleType, Packet
<1> SUFFICES ASSUME NEW k \in 0 .. QueueLen - 1
             PROVE  /\ slots'[k].pay <= evtNo'
                    /\ \A i \in 1 .. Len(rx') : IsEvent(i)' => slots'[k].pay < rx'[i].no
                    /\ EventHeld' => slots'[k].pay <= HeldNo'
  BY DEF OldPayInv
<1>2. slots'[k].pay = slots[k].pay /\ slots[k].pay <= evtNo
  BY DEF OldPayInv
<1>3. ASSUME NEW i \in 1 .. Len(rx'), IsEvent(i)'
      PROVE  slots'[k].pay < rx'[i].no
  <2>1. CASE \E j \in 1 .. Len(rx) : rx'[i] = rx[j]
    <3>1. PICK j \in 1 .. Len(rx) : rx'[i] = rx[j]
      BY <2>1
    <3>2. IsEvent(j)
      BY <1>3, <3>1 DEF IsEvent
    <3>3. QED BY <1>2, <3>1, <3>2 DEF OldPayInv
  <2>2. CASE rx'[i].no = evtNo + 1
    BY <1>1, <1>2, <2>2
  <2>3. QED BY <1>3, <2>1, <2>2
<1>4. QED BY <1>1, <1>2, <1>3

LEMMA OldPayStep ==
  ASSUME TypeOK, FlagInv, RingInv, AnswerInv, WireInv, HeldInv, OldPayInv,
         HeldPayInv, [Next]_vars
  PROVE  OldPayInv'
<1> USE DEF moduleVars, ringVars, rspVars, handVars, driverVars, callVars
<1>0. /\ rx \in Seq(Message) /\ evtNo \in Nat /\ HeldNo \in Nat
      /\ w \in 0 .. QueueLen - 1 /\ r \in 0 .. QueueLen - 1
      /\ slots \in [0 .. QueueLen - 1 -> Packet]
      /\ \A k \in 0 .. QueueLen - 1 : slots[k].pay \in Nat /\ slots[k].no \in Nat
  <2>1. /\ rx \in Seq(Message) /\ evtNo \in Nat /\ evt \in Packet
        /\ w \in 0 .. QueueLen - 1 /\ r \in 0 .. QueueLen - 1
        /\ slots \in [0 .. QueueLen - 1 -> Packet]
    BY DEF TypeOK, ModuleType, RingType, DriverType
  <2>2. \A k \in 0 .. QueueLen - 1 : slots[k] \in Packet
    BY <2>1
  <2>3. QED BY <2>1, <2>2 DEF Packet, HeldNo
<1> DEFINE FromUart == \A i \in 1 .. Len(rx') : \E j \in 1 .. Len(rx) : rx'[i] = rx[j]
<1> DEFINE HeldKept == EventHeld' => EventHeld /\ HeldNo' = HeldNo
<1>a. ASSUME rx' = rx \/ rx' = <<>> \/ (rx # <<>> /\ rx' = Tail(rx))
      PROVE  FromUart
  <2>1. CASE rx # <<>> /\ rx' = Tail(rx)
    <3>1. \A i \in 1 .. Len(rx') : rx'[i] = rx[i + 1] /\ i + 1 \in 1 .. Len(rx)
      BY <1>0, <2>1
    <3>2. QED BY <3>1
  <2>2. CASE rx' = <<>>
    BY <2>2
  <2>3. CASE rx' = rx
    BY <2>3
  <2>4. QED BY <1>a, <2>1, <2>2, <2>3
<1>b. ASSUME UNCHANGED <<evtNo, slots>>, FromUart, HeldKept
      PROVE  OldPayInv'
  <2>1. EventHeld' => \A k \in 0 .. QueueLen - 1 : slots[k].pay <= HeldNo'
    BY <1>b DEF OldPayInv
  <2>2. \A k \in 0 .. QueueLen - 1 : slots'[k].pay = slots[k].pay
    BY <1>b
  <2>3. evtNo' \in Nat /\ evtNo' >= evtNo
    BY <1>0, <1>b
  <2>4. QED BY <1>b, <2>1, <2>2, <2>3, OldPayKept
<1>1. CASE Module
  <2>1. UNCHANGED <<dpc, evt, w, r, slots>>
    BY <1>1 DEF Module, ModuleBoot, ModuleEvent, ModuleAnswer, ModuleFallsSilent
  <2>2. HeldKept
    BY <2>1 DEF EventHeld, HeldNo
  <2>3. evtNo' \in Nat /\ evtNo' >= evtNo
    BY <1>0, <1>1 DEF Module, ModuleBoot, ModuleEvent, ModuleAnswer, ModuleFallsSilent, EmitEvent
  <2>4. \A i \in 1 .. Len(rx') : IsEvent(i)' =>
           \/ \E j \in 1 .. Len(rx) : rx'[i] = rx[j]
           \/ rx'[i].no = evtNo + 1
    <3>1. CASE ModuleBoot \/ ModuleEvent
      <4>1. PICK kind : EmitEvent(kind)
        BY <3>1 DEF ModuleBoot, ModuleEvent
      <4>2. rx' = Append(rx, [class |-> "evt", hdr |-> kind, no |-> evtNo + 1])
        BY <4>1 DEF EmitEvent, Emit
      <4>3. \A i \in 1 .. Len(rx') :
              (i \in 1 .. Len(rx) /\ rx'[i] = rx[i]) \/ rx'[i].no = evtNo + 1
        BY <1>0, <4>2
      <4>4. QED BY <4>3
    <3>2. CASE ModuleAnswer
      <4>1. rx' = Append(rx, [class |-> "rsp", hdr |-> Head(pend).hdr,
                              no |-> Head(pend).call])
        BY <3>2 DEF ModuleAnswer, Emit
      <4>2. \A i \in 1 .. Len(rx') :
              (i \in 1 .. Len(rx) /\ rx'[i] = rx[i]) \/ rx'[i].class = "rsp"
        BY <1>0, <4>1
      <4>3. QED BY <4>2 DEF IsEvent
    <3>3. CASE ModuleFallsSilent
      BY <3>3 DEF ModuleFallsSilent, IsEvent
    <3>4. QED BY <1>1, <3>1, <3>2, <3>3 DEF Module
  <2>5. EventHeld' => \A k \in 0 .. QueueLen - 1 : slots[k].pay <= HeldNo'
    BY <2>2 DEF OldPayInv
  <2>6. \A k \in 0 .. QueueLen - 1 : slots'[k].pay = slots[k].pay
    BY <2>1
  <2>7. QED BY <2>3, <2>4, <2>5, <2>6, OldPayKept
<1>2. CASE HeaderOfEvent
  <2>1. /\ rx # <<>> /\ rx' = Tail(rx) /\ IsEvent(1) /\ rx[1] = Head(rx)
        /\ UNCHANGED <<evtNo, r>> /\ w = r /\ 1 \in 1 .. Len(rx)
    BY <1>0, <1>2 DEF HeaderOfEvent, IsEvent, RingInv
  <2>2. FromUart
    BY <2>1, <1>a
  <2>3. CASE Next1(w) = r
    <3>1. dpc' = "get" /\ UNCHANGED <<w, slots>>
      BY <1>2, <2>3 DEF HeaderOfEvent
    <3>2. ~EventHeld'
      BY <2>1, <3>1 DEF EventHeld
    <3>3. QED BY <2>1, <2>2, <3>1, <3>2, <1>b
  <2>4. CASE Next1(w) # r
    <3>1. /\ dpc' = "payload"
          /\ slots' = [slots EXCEPT ![w].hdr = rx[1].hdr, ![w].no = rx[1].no]
      BY <1>2, <2>1, <2>4 DEF HeaderOfEvent
    <3>2. HeldNo' = rx[1].no
      BY <1>0, <2>1, <3>1 DEF HeldNo, Packet
    <3>3. rx[1].no \in Nat
      <4>1. rx[1] \in Message
        BY <1>0, <2>1
      <4>2. QED BY <4>1 DEF Message
    <3>4. \A k \in 0 .. QueueLen - 1 : slots[k].pay <= HeldNo'
      BY <1>0, <2>1, <3>2, <3>3 DEF OldPayInv
    <3>5. \A k \in 0 .. QueueLen - 1 : slots'[k].pay = slots[k].pay
      BY <1>0, <3>1 DEF Packet
    <3>6. evtNo' \in Nat /\ evtNo' >= evtNo
      BY <1>0, <2>1
    <3>7. QED BY <2>2, <3>4, <3>5, <3>6, OldPayKept
  <2>5. QED BY <2>3, <2>4
<1>3. CASE PayloadOfEvent
  <2>1. /\ dpc = "payload" /\ cur.class = "evt" /\ dpc' = "get"
        /\ slots' = [slots EXCEPT ![Prev1(w)].pay = cur.no]
        /\ UNCHANGED <<w, r, rx, evtNo>>
    BY <1>3 DEF PayloadOfEvent
  <2>2. w = Next1(r) /\ Next1(r) # r
    BY <1>0, <2>1, SlotStep DEF RingInv
  <2>3. EventHeld /\ HeldNo = slots[r].no /\ cur.no = HeldNo
    BY <2>1, <2>2 DEF EventHeld, HeldNo, TearsEvent, HeldPayInv
  <2>4. slots'[r].no = slots[r].no
    BY <1>0, <2>1, SlotStep DEF Packet
  <2>5. HeldNo' = HeldNo
    BY <2>1, <2>3, <2>4 DEF HeldNo
  <2>6. \A k \in 0 .. QueueLen - 1 :
          slots'[k].pay = slots[k].pay \/ slots'[k].pay = HeldNo
    BY <1>0, <2>1, <2>3, SlotStep DEF Packet
  <2>7. /\ HeldNo <= evtNo
        /\ \A i \in 1 .. Len(rx) : IsEvent(i) => HeldNo < rx[i].no
    BY <2>3 DEF HeldInv
  <2>8. ASSUME NEW k \in 0 .. QueueLen - 1
        PROVE  /\ slots'[k].pay <= evtNo
               /\ \A i \in 1 .. Len(rx) : IsEvent(i) => slots'[k].pay < rx[i].no
               /\ slots'[k].pay <= HeldNo
    BY <1>0, <2>3, <2>6, <2>7 DEF OldPayInv
  <2>9. QED BY <2>1, <2>5, <2>8 DEF OldPayInv, IsEvent
<1>4. CASE PopEvent
  <2>1. /\ dpc = "get" /\ w # r /\ evt' = slots[r] /\ dpc' = "handle"
        /\ UNCHANGED <<rx, evtNo, slots>>
    BY <1>4 DEF PopEvent, RingEmpty
  <2>2. EventHeld /\ HeldNo' = HeldNo
    BY <2>1 DEF EventHeld, HeldNo
  <2>3. QED BY <2>1, <2>2, <1>a, <1>b
<1>5. CASE PayloadOfResponse
  <2>1. dpc' = "handle" /\ evt'.hdr = rspHead.hdr /\ UNCHANGED <<rx, evtNo, slots>>
    BY <1>5 DEF PayloadOfResponse
  <2>2. rspHead.hdr \notin EventKinds
    BY CommandsAssumption DEF AnswerInv, EventKinds, None
  <2>3. ~EventHeld'
    BY <2>1, <2>2 DEF EventHeld
  <2>4. QED BY <2>1, <2>3, <1>a, <1>b
<1>6. CASE HandleForward \/ HandleSpecial \/ HandleIgnore \/ PayloadError \/ Destroy
  <2>1. /\ UNCHANGED <<w, r, slots, rx, evtNo>>
        /\ dpc' # "handle" /\ (dpc = "handle" => w = r)
    BY <1>6 DEF HandleForward, HandleSpecial, HandleIgnore, PayloadError,
       Destroy, RingInv
  <2>2. HeldKept
    BY <2>1 DEF EventHeld, HeldNo
  <2>3. QED BY <2>1, <2>2, <1>a, <1>b
<1>7. CASE IdleStep
  <2>1. /\ UNCHANGED <<slots, evtNo>> /\ ~EventHeld'
        /\ rx' = rx \/ rx' = <<>> \/ (rx # <<>> /\ rx' = Tail(rx))
    BY <1>7, IdleStepFacts
  <2>2. QED BY <2>1, <1>a, <1>b
<1>8. CASE CallStep \/ CallStart \/ WatcherTake \/ UNCHANGED vars
  <2>1. UNCHANGED <<dpc, evt, w, r, slots, rx, evtNo>>
    BY <1>8 DEF CallStep, PeekMatch, PeekTimeout, CommandCollect, ResetRequest,
       ResetOffSeen, ResetOffTimeout, ResetPowerOn, PowerOn, ResetBootSeen,
       ResetBootTimeout, ResetGiveUp, DisableSeen, CallStart, CommandSend,
       HardReset, Disable, Enable, WatcherTake, vars
  <2>2. HeldKept
    BY <2>1 DEF EventHeld, HeldNo
  <2>3. QED BY <2>1, <2>2, <1>a, <1>b
<1>9. CASE Reinit
  <2>1. dpc = "dead" /\ dpc' = "get" /\ rx' = <<>> /\ UNCHANGED <<w, r, slots, evtNo>>
    BY <1>9 DEF Reinit, FlagInv
  <2>2. HeldKept
    BY <2>1 DEF EventHeld, HeldNo
  <2>3. QED BY <2>1, <2>2, <1>a, <1>b
<1>10. QED
  BY <1>1, <1>2, <1>3, <1>4, <1>5, <1>6, <1>7, <1>8, <1>9
  DEF Next, Driver, DriverGoesOn, IdleStep

LEMMA HeldPayStep ==
  ASSUME TypeOK, FlagInv, RingInv, AnswerInv, OldPayInv, HeldPayInv, [Next]_vars
  PROVE  HeldPayInv'
<1> USE DEF moduleVars, ringVars, rspVars, handVars, driverVars, callVars
<1>0. /\ w \in 0 .. QueueLen - 1 /\ r \in 0 .. QueueLen - 1
      /\ slots \in [0 .. QueueLen - 1 -> Packet] /\ cur.class \in {"evt", "rsp"}
  BY DEF TypeOK, RingType, DriverType, Message
<1>1. CASE HeaderOfEvent
  <2>1. rx' = Tail(rx) /\ r' = r /\ w = r /\ dpc' # "handle"
    BY <1>1 DEF HeaderOfEvent, RingInv
  <2>2. CASE Next1(w) = r
    <3>1. dpc' = "get" /\ w' = w
      BY <1>1, <2>2 DEF HeaderOfEvent
    <3>2. QED BY <2>1, <3>1 DEF HeldPayInv, TearsEvent
  <2>3. CASE Next1(w) # r
    <3>1. /\ dpc' = "payload" /\ cur' = Head(rx) /\ Head(rx).class = "evt"
          /\ slots' = [slots EXCEPT ![w].hdr = Head(rx).hdr, ![w].no = Head(rx).no]
      BY <1>1, <2>3 DEF HeaderOfEvent
    <3>2. slots'[r].no = cur'.no
      BY <1>0, <2>1, <3>1 DEF Packet
    <3>3. QED BY <2>1, <3>1, <3>2 DEF HeldPayInv, TearsEvent
  <2>4. QED BY <2>2, <2>3
<1>2. CASE PayloadOfEvent
  <2>1. /\ dpc = "payload" /\ cur.class = "evt" /\ dpc' = "get"
        /\ slots' = [slots EXCEPT ![Prev1(w)].pay = cur.no]
        /\ UNCHANGED <<w, r>>
    BY <1>2 DEF PayloadOfEvent
  <2>2. w = Next1(r) /\ Prev1(w) = r
    BY <1>0, <2>1, SlotStep DEF RingInv
  <2>3. slots'[r].pay = cur.no /\ slots'[r].no = slots[r].no
    BY <1>0, <2>1, <2>2 DEF Packet
  <2>4. cur.no = slots[r].no
    BY <2>1 DEF HeldPayInv, TearsEvent
  <2>5. QED BY <2>1, <2>3, <2>4 DEF HeldPayInv, TearsEvent
<1>3. CASE PopEvent
  <2>1. /\ dpc = "get" /\ w # r /\ evt' = slots[r] /\ dpc' = "handle" /\ torn' = torn
    BY <1>3 DEF PopEvent, RingEmpty
  <2>2. EventHeld /\ HeldNo = slots[r].no /\ ~TearsEvent
    BY <2>1 DEF EventHeld, HeldNo, TearsEvent
  <2>3. slots[r].pay <= slots[r].no /\ (torn \/ slots[r].pay = slots[r].no)
    BY <1>0, <2>1, <2>2 DEF OldPayInv, HeldPayInv
  <2>4. QED BY <2>1, <2>3 DEF HeldPayInv, TearsEvent
<1>4. CASE PayloadOfResponse
  <2>1. dpc' = "handle" /\ evt'.hdr = rspHead.hdr
    BY <1>4 DEF PayloadOfResponse
  <2>2. rspHead.hdr \notin EventKinds
    BY CommandsAssumption DEF AnswerInv, EventKinds, None
  <2>3. QED BY <2>1, <2>2 DEF HeldPayInv, TearsEvent
<1>5. CASE HandleForward \/ HandleSpecial \/ HandleIgnore
  <2>1. dpc' = "get" /\ w' = w /\ r' = r /\ w = r
    BY <1>5 DEF HandleForward, HandleSpecial, HandleIgnore, RingInv
  <2>2. QED BY <2>1 DEF HeldPayInv, TearsEvent
<1>6. CASE IdleStep
  <2>1. w = r /\ UNCHANGED <<w, r>> /\ dpc' # "handle" /\ ~TearsEvent'
    BY <1>6, IdleStepFacts
  <2>2. QED BY <2>1 DEF HeldPayInv
<1>7. CASE PayloadError \/ Destroy
  <2>1. /\ UNCHANGED <<w, r, slots>> /\ (dpc = "handle" => w = r)
        /\ dpc' # "handle" /\ ~TearsEvent'
    BY <1>7 DEF PayloadError, Destroy, RingInv, TearsEvent
  <2>2. torn' = (torn \/ TearsEvent)
    BY <1>7 DEF PayloadError, Destroy
  <2>3. QED BY <2>1, <2>2 DEF HeldPayInv
<1>8. CASE Reinit
  <2>1. dpc = "dead" /\ dpc' = "get" /\ UNCHANGED <<w, r, slots, torn>>
    BY <1>8 DEF Reinit, FlagInv
  <2>2. QED BY <2>1 DEF HeldPayInv, TearsEvent
<1>9. CASE Module \/ CallStep \/ CallStart \/ WatcherTake \/ UNCHANGED vars
  <2>1. UNCHANGED <<dpc, cur, evt, w, r, slots, torn>>
    BY <1>9 DEF Module, ModuleBoot, ModuleEvent, ModuleAnswer, ModuleFallsSilent, CallStep,
       PeekMatch, PeekTimeout, CommandCollect, ResetRequest, ResetOffSeen,
       ResetOffTimeout, ResetPowerOn, PowerOn, ResetBootSeen,
       ResetBootTimeout, ResetGiveUp, DisableSeen, CallStart, CommandSend,
       HardReset, Disable, Enable, WatcherTake, vars
  <2>2. QED BY <2>1 DEF HeldPayInv, TearsEvent
<1>10. QED
  BY <1>1, <1>2, <1>3, <1>4, <1>5, <1>6, <1>7, <1>8, <1>9
  DEF Next, Driver, DriverGoesOn, IdleStep

LEMMA BootStep ==
  ASSUME TypeOK, OffInv, HeldInv, BootInv, [Next]_vars
  PROVE  BootInv'
<1> USE DEF moduleVars, ringVars, rspVars, handVars, driverVars, callVars
<1>1. CASE HandleForward
  <2>1. /\ EventHeld /\ HeldNo = evt.no
        /\ UNCHANGED <<bornAt, flag, apc, tries>>
    BY <1>1 DEF HandleForward, Forwards, EventHeld, HeldNo, EventKinds
  <2>2. ResetDue' = ResetDue
    BY <2>1 DEF ResetDue
  <2>3. CASE evt.hdr = "boot"
    <3>1. bootTag' = HeldNo
      BY <1>1, <2>1, <2>3 DEF HandleForward
    <3>2. QED BY <2>1, <2>2, <3>1 DEF BootInv, HeldInv
  <2>4. CASE evt.hdr # "boot"
    <3>1. bootTag' = bootTag /\ booted
      BY <1>1, <2>4 DEF HandleForward, Forwards
    <3>2. QED BY <2>1, <2>2, <3>1 DEF BootInv
  <2>5. QED BY <2>3, <2>4
<1>2. CASE ResetClearBooted
  BY <1>2 DEF ResetClearBooted, BootInv
<1>3. CASE ResetAcknowledge
  <2>1. ~booted'
    BY <1>3 DEF ResetAcknowledge, OffInv
  <2>2. QED BY <2>1 DEF BootInv
<1>4. CASE CallStep \/ CallStart
  <2>1. UNCHANGED <<booted, bootTag>>
    BY <1>4 DEF CallStep, PeekMatch, PeekTimeout, CommandCollect, ResetRequest,
       ResetOffSeen, ResetOffTimeout, ResetPowerOn, ResetBootSeen,
       ResetBootTimeout, ResetGiveUp, DisableSeen,
       CallStart, CommandSend, HardReset, Disable, Enable
  <2>2. bornAt' = bornAt \/ power = "off"
    BY <1>4 DEF CallStep, PeekMatch, PeekTimeout, CommandCollect, ResetRequest,
       ResetOffSeen, ResetOffTimeout, ResetPowerOn, PowerOn, ResetBootSeen,
       ResetBootTimeout, ResetGiveUp, DisableSeen,
       CallStart, CommandSend, HardReset, Disable, Enable
  <2>3. QED BY <1>4, <2>1, <2>2, ResetStaysDue DEF BootInv, OffInv
<1>5. CASE Destroy \/ Reinit
  BY <1>5 DEF Destroy, Reinit, BootInv, ResetDue
<1>6. CASE Module \/ WatcherTake \/ UNCHANGED vars
  <2>1. UNCHANGED <<booted, bootTag, bornAt, flag, apc, tries>>
    BY <1>6 DEF Module, ModuleBoot, ModuleEvent, ModuleAnswer, ModuleFallsSilent, WatcherTake, vars
  <2>2. QED BY <2>1 DEF BootInv, ResetDue
<1>7. CASE PopEvent \/ BeginReset \/ ResetPowerOff \/ ResetCleanUart
             \/ BeginRead \/ SyncSkip \/ SyncFound \/ AbandonRead
             \/ HeaderError \/ HeaderOfEvent \/ HeaderOfResponse
             \/ PayloadOfEvent \/ PayloadOfResponse \/ PayloadError
             \/ HandleSpecial \/ HandleIgnore
  <2>1. UNCHANGED <<booted, bootTag, bornAt, flag, apc, tries>>
    BY <1>7 DEF PopEvent, BeginReset, ResetPowerOff, ResetCleanUart, BeginRead,
       SyncSkip, SyncFound, AbandonRead, HeaderError, HeaderOfEvent,
       HeaderOfResponse, PayloadOfEvent, PayloadOfResponse, PayloadError,
       HandleSpecial, HandleIgnore
  <2>2. QED BY <2>1 DEF BootInv, ResetDue
<1>8. QED BY <1>1, <1>2, <1>3, <1>4, <1>5, <1>6, <1>7 DEF Next, Driver, DriverGoesOn

(* What the two theorems below share. *)
FreshInv ==
  /\ RingInv /\ FlagInv /\ OffInv /\ AnswerInv /\ WireInv /\ HeldInv
  /\ OldPayInv /\ HeldPayInv /\ BootInv

LEMMA FreshInit == Init => FreshInv
<1> SUFFICES ASSUME Init PROVE FreshInv
  OBVIOUS
<1>1. RingInv /\ FlagInv /\ AnswerInv /\ BootInv
  BY DEF Init, RingInv, FlagInv, AnswerInv, NoHeader, BootInv
<1>2. OffInv /\ WireInv
  BY DEF Init, OffInv, WireInv
<1>3. HeldInv /\ HeldPayInv
  BY DEF Init, HeldInv, HeldPayInv, EventHeld, TearsEvent
<1>4. OldPayInv
  BY DEF Init, OldPayInv, EventHeld, NoPacket
<1>5. QED BY <1>1, <1>2, <1>3, <1>4 DEF FreshInv

LEMMA FreshStep ==
  ASSUME TypeOK, FreshInv, [Next]_vars
  PROVE  FreshInv'
BY RingStep, FlagStep, OffStep, AnswerStep, WireStep, HeldStep, OldPayStep,
   HeldPayStep, BootStep
DEF FreshInv

(* The appBooted a hard reset waits for was raised by the present life of  *)
(* the module: neither the ring nor the UART, neither a read that failed   *)
(* half-way nor a re-opened link brings an old boot event to it.           *)
THEOREM BootEventIsFresh == Spec => []BootIsFresh
<1>1. Init => FreshInv
  BY FreshInit
<1>2. TypeOK /\ FreshInv /\ [Next]_vars => FreshInv'
  BY FreshStep
<1>3. FreshInv => BootIsFresh
  BY DEF FreshInv, FlagInv, BootInv, ResetDue, BootIsFresh
<1>4. QED BY <1>1, <1>2, <1>3, TypeCorrect, PTL DEF Spec
-----------------------------------------------------------------------------
(* The link implements the lossy ordered stream.                           *)

(* What the stream knows of a packet, and of the message queue. *)
Entry(p) == [no |-> p.no, pay |-> p.pay]
Entries == [no : Nat, pay : Nat]
Queued == [i \in 1 .. Len(msgq) |-> Entry(msgq[i])]

LEMMA QueuedType ==
  ASSUME msgq \in Seq(Packet)
  PROVE  Queued \in Seq(Entries) /\ Len(Queued) = Len(msgq)
<1>1. Len(msgq) \in Nat
  OBVIOUS
<1>2. \A i \in 1 .. Len(msgq) : msgq[i] \in Packet
  OBVIOUS
<1>3. \A i \in 1 .. Len(msgq) : Entry(msgq[i]) \in Entries
  BY <1>2 DEF Packet, Entry, Entries
<1>4. Queued \in [1 .. Len(msgq) -> Entries]
  BY <1>3 DEF Queued
<1>5. Queued \in Seq(Entries)
  BY <1>1, <1>4, SeqDef
<1>6. QED BY <1>1, <1>4, <1>5

LEMMA QueuedAppend ==
  ASSUME NEW p \in Packet, msgq \in Seq(Packet), msgq' = Append(msgq, p)
  PROVE  Queued' = Append(Queued, Entry(p))
<1>1. Len(msgq') = Len(msgq) + 1 /\ Len(msgq) \in Nat
  OBVIOUS
<1>2. Queued \in Seq(Entries) /\ Len(Queued) = Len(msgq)
  BY QueuedType
<1>3. Entry(p) \in Entries
  BY DEF Packet, Entry, Entries
<1>4. \A i \in 1 .. Len(msgq) + 1 :
        msgq'[i] = IF i = Len(msgq) + 1 THEN p ELSE msgq[i]
  OBVIOUS
<1>5. Queued' = [i \in 1 .. Len(msgq) + 1 |-> Entry(msgq'[i])]
  BY <1>1 DEF Queued
<1>6. Append(Queued, Entry(p))
        = [i \in 1 .. Len(msgq) + 1 |->
             IF i = Len(msgq) + 1 THEN Entry(p) ELSE Queued[i]]
  <2> DEFINE longer == Append(Queued, Entry(p))
  <2>1. /\ longer \in Seq(Entries) /\ Len(longer) = Len(msgq) + 1
        /\ \A i \in 1 .. Len(msgq) : longer[i] = Queued[i]
        /\ longer[Len(msgq) + 1] = Entry(p)
    BY <1>1, <1>2, <1>3, AppendProperties
  <2> HIDE DEF longer
  <2>2. longer = [i \in 1 .. Len(longer) |-> longer[i]]
    BY <2>1, SeqDef
  <2>3. \A i \in 1 .. Len(msgq) + 1 :
          longer[i] = IF i = Len(msgq) + 1 THEN Entry(p) ELSE Queued[i]
    BY <1>1, <2>1
  <2>4. longer = [i \in 1 .. Len(msgq) + 1 |->
                    IF i = Len(msgq) + 1 THEN Entry(p) ELSE Queued[i]]
    BY <2>1, <2>2, <2>3
  <2>5. QED BY <2>4 DEF longer
<1>7. \A i \in 1 .. Len(msgq) + 1 :
        Entry(msgq'[i])
          = IF i = Len(msgq) + 1 THEN Entry(p) ELSE Queued[i]
  BY <1>1, <1>4 DEF Queued
<1>8. QED BY <1>5, <1>6, <1>7

LEMMA QueuedTail ==
  ASSUME msgq \in Seq(Packet), msgq # <<>>, msgq' = Tail(msgq)
  PROVE  Queued # <<>> /\ Queued' = Tail(Queued)
<1>1. Len(msgq') = Len(msgq) - 1 /\ Len(msgq) \in Nat /\ Len(msgq) > 0
  OBVIOUS
<1>2. Queued \in Seq(Entries) /\ Len(Queued) = Len(msgq)
  BY QueuedType
<1>3. Queued # <<>>
  BY <1>1, <1>2
<1>4. /\ Tail(Queued) \in Seq(Entries) /\ Len(Tail(Queued)) = Len(msgq) - 1
      /\ \A i \in 1 .. Len(msgq) - 1 : Tail(Queued)[i] = Queued[i + 1]
  BY <1>1, <1>2, <1>3, HeadTailProperties
<1>5. \A i \in 1 .. Len(msgq) - 1 : msgq'[i] = msgq[i + 1] /\ i + 1 \in 1 .. Len(msgq)
  OBVIOUS
<1>6. Queued' = [i \in 1 .. Len(msgq) - 1 |-> Queued[i + 1]]
  <2>1. \A i \in 1 .. Len(msgq) - 1 : Entry(msgq'[i]) = Queued[i + 1]
    BY <1>5 DEF Queued
  <2>2. Queued' = [i \in 1 .. Len(msgq') |-> Entry(msgq'[i])]
    BY DEF Queued
  <2>3. QED BY <1>1, <2>1, <2>2
<1>7. Tail(Queued) = [i \in 1 .. Len(msgq) - 1 |-> Tail(Queued)[i]]
  <2>1. \A t \in Seq(Entries) : t = [i \in 1 .. Len(t) |-> t[i]]
    BY SeqDef
  <2>2. QED BY <1>4, <2>1
<1>8. QED BY <1>3, <1>4, <1>6, <1>7

LEMMA StreamInit == Init => Stream!Init
BY DEF Init, Stream!Init

(* Every step of the link is a step of the stream or leaves it as it is. *)
LEMMA StreamStep ==
  ASSUME TypeOK, FreshInv, [Next]_vars
  PROVE  [Stream!Next]_(Stream!vars)
<1> DEFINE Stutter == UNCHANGED <<evtNo, bornAt, lastFwd, torn, msgq>>
<1> USE DEF moduleVars, ringVars, rspVars, handVars, driverVars, callVars
<1>0. /\ msgq \in Seq(Packet) /\ evtNo \in Nat /\ lastFwd \in Nat
      /\ Queued = [i \in 1 .. Len(msgq) |-> [no |-> msgq[i].no, pay |-> msgq[i].pay]]
      /\ Len(Queued) = Len(msgq)
  <2>1. msgq \in Seq(Packet) /\ evtNo \in Nat /\ lastFwd \in Nat
    BY DEF TypeOK, ModuleType, HandType
  <2>2. QED BY <2>1 DEF Queued, Entry
<1>1. CASE ModuleBoot \/ ModuleEvent
  <2>1. evtNo' = evtNo + 1 /\ UNCHANGED <<bornAt, lastFwd, torn, msgq>>
    BY <1>1 DEF ModuleBoot, ModuleEvent, EmitEvent
  <2>2. Stream!Emit
    BY <2>1 DEF Stream!Emit
  <2>3. QED BY <2>2 DEF Stream!Next
<1>2. CASE ResetPowerOn \/ Enable
  <2>1. PowerOn /\ UNCHANGED <<lastFwd, torn, msgq>>
    BY <1>2 DEF ResetPowerOn, Enable
  <2>2. CASE power = "off"
    <3>1. Stream!Renew
      BY <2>1, <2>2 DEF PowerOn, Stream!Renew
    <3>2. QED BY <3>1 DEF Stream!Next
  <2>3. CASE power # "off"
    BY <2>1, <2>3 DEF PowerOn, Stream!vars
  <2>4. QED BY <2>2, <2>3
<1>3. CASE HandleForward
  <2>1. /\ EventHeld /\ HeldNo = evt.no /\ evt \in Packet
        /\ dpc = "handle" /\ evt.hdr \in EventKinds
        /\ UNCHANGED <<bornAt, evtNo, torn>>
    BY <1>3 DEF HandleForward, Forwards, EventHeld, HeldNo, EventKinds, TypeOK,
       DriverType
  <2>2. evt.no \in Nat /\ evt.pay \in Nat
    BY <2>1 DEF Packet
  <2>3. evt.no \in lastFwd + 1 .. evtNo /\ evt.no > bornAt
    BY <1>0, <2>1, <2>2 DEF FreshInv, HeldInv
  <2>4. lastFwd' = evt.no
    BY <1>0, <1>3, <2>2, <2>3 DEF HandleForward
  <2>5. evt.pay \in Stream!Contents(evt.no)
    <3>1. evt.pay <= evt.no /\ (torn \/ evt.pay = evt.no)
      BY <2>1 DEF FreshInv, HeldPayInv
    <3>2. QED BY <2>2, <3>1 DEF Stream!Contents
  <2>6. Queued' = IF Len(Queued) < MsgqCap THEN Append(Queued, Entry(evt))
                                         ELSE Queued
    <3>1. CASE Len(msgq) < MsgqCap
      <4>1. msgq' = Append(msgq, evt)
        BY <1>3, <3>1 DEF HandleForward
      <4>2. QED BY <1>0, <2>1, <3>1, <4>1, QueuedAppend
    <3>2. CASE ~(Len(msgq) < MsgqCap)
      <4>1. msgq' = msgq
        BY <1>3, <3>2 DEF HandleForward
      <4>2. QED BY <1>0, <3>2, <4>1 DEF Queued
    <3>3. QED BY <3>1, <3>2
  <2>7. Stream!Offer
    BY <2>1, <2>3, <2>4, <2>5, <2>6 DEF Stream!Offer, Queued, Entry
  <2>8. QED BY <2>7 DEF Stream!Next
<1>4. CASE WatcherTake
  <2>1. /\ msgq # <<>> /\ msgq' = Tail(msgq)
        /\ UNCHANGED <<evtNo, bornAt, lastFwd, torn>>
    BY <1>4 DEF WatcherTake
  <2>2. Queued # <<>> /\ Queued' = Tail(Queued)
    BY <1>0, <2>1, QueuedTail
  <2>3. Stream!Take
    BY <2>1, <2>2 DEF Stream!Take, Queued, Entry
  <2>4. QED BY <2>3 DEF Stream!Next
<1>5. CASE Destroy
  <2>1. /\ msgq' = <<>> /\ torn' = (torn \/ TearsEvent)
        /\ UNCHANGED <<evtNo, bornAt, lastFwd>>
    BY <1>5 DEF Destroy
  <2>2. torn' \in {torn, TRUE}
    <3>1. torn \in BOOLEAN
      BY DEF TypeOK, RingType
    <3>2. QED BY <2>1, <3>1, Zenon
  <2>3. Queued' = <<>>
    BY <2>1 DEF Queued
  <2>4. Stream!Close
    BY <2>1, <2>2, <2>3 DEF Stream!Close, Queued, Entry
  <2>5. QED BY <2>4 DEF Stream!Next
<1>6. ASSUME Stutter PROVE [Stream!Next]_(Stream!vars)
  BY <1>6 DEF Stream!vars
<1>7. CASE PayloadError
  <2>1. torn' = (torn \/ TearsEvent) /\ UNCHANGED <<evtNo, bornAt, lastFwd, msgq>>
    BY <1>7 DEF PayloadError
  <2>2. torn \in BOOLEAN
    BY DEF TypeOK, RingType
  <2>3. torn' = torn \/ torn' = TRUE
    BY <2>1, <2>2, Zenon
  <2>4. CASE torn' = TRUE
    <3>1. Stream!Tear
      BY <2>1, <2>4 DEF Stream!Tear
    <3>2. QED BY <3>1 DEF Stream!Next
  <2>5. QED BY <2>1, <2>3, <2>4, <1>6
<1>8. CASE ModuleAnswer \/ ModuleFallsSilent \/ Reinit \/ UNCHANGED vars
  <2>1. Stutter
    BY <1>8 DEF ModuleAnswer, ModuleFallsSilent, Reinit, vars
  <2>2. QED BY <2>1, <1>6
<1>9. CASE PopEvent \/ IdleStep \/ HeaderOfEvent \/ PayloadOfEvent
             \/ PayloadOfResponse \/ HandleSpecial \/ HandleIgnore
  <2>1. Stutter
    BY <1>9 DEF IdleStep, PopEvent, BeginReset, ResetPowerOff, ResetCleanUart,
       ResetClearBooted, ResetAcknowledge, BeginRead, SyncSkip, SyncFound,
       AbandonRead, HeaderError, HeaderOfEvent, HeaderOfResponse,
       PayloadOfEvent, PayloadOfResponse, HandleSpecial, HandleIgnore
  <2>2. QED BY <2>1, <1>6
<1>10. CASE PeekMatch \/ PeekTimeout \/ CommandCollect \/ ResetRequest
              \/ ResetOffSeen \/ ResetOffTimeout \/ ResetBootSeen
              \/ ResetBootTimeout \/ ResetGiveUp \/ DisableSeen
              \/ (\E c \in Commands : CommandSend(c)) \/ HardReset \/ Disable
  <2>1. Stutter
    BY <1>10 DEF PeekMatch, PeekTimeout, CommandCollect, ResetRequest,
       ResetOffSeen, ResetOffTimeout, ResetBootSeen, ResetBootTimeout,
       ResetGiveUp, DisableSeen, CommandSend, HardReset, Disable
  <2>2. QED BY <2>1, <1>6
<1>11. QED
  BY <1>1, <1>2, <1>3, <1>4, <1>5, <1>7, <1>8, <1>9, <1>10
  DEF Next, Module, Driver, DriverGoesOn, CallStep, CallStart, IdleStep

(* For any ring, queue and traffic, with failing reads and re-opened       *)
(* links: what the watcher gets are events of the module in the order of   *)
(* emission, none twice, none older than the last power-on when it was     *)
(* handed over, each with its own payload.  When the payload of an event   *)
(* is not read its slot is taken all the same, and the next PopEvent, by   *)
(* the same thread or by the one of the next gl_ble_init, hands it on: from *)
(* then on a payload may be an earlier event's, and is never a later one's. *)
THEOREM LinkIsStream == Spec => ImplementsEventStream
<1>1. Init => FreshInv /\ Stream!Init
  BY FreshInit, StreamInit
<1>2. TypeOK /\ FreshInv /\ [Next]_vars
        => FreshInv' /\ [Stream!Next]_(Stream!vars)
  BY FreshStep, StreamStep
<1>3. QED
  BY <1>1, <1>2, TypeCorrect, PTL DEF Spec, ImplementsEventStream, Stream!Spec
-----------------------------------------------------------------------------
(* A command gets its own answer.                                          *)

NoAnswerInUart == \A i \in 1 .. Len(rx) : ~IsAnswer(i)

(* The payload of an answer is awaited. *)
AnswerAwaited == dpc = "payload" /\ cur.class = "rsp"

(* The response buffer has the header of the answer to the running command *)
(* and, once it is read, its payload.                                      *)
OwnBuffer ==
  /\ rspHead.no = callNo
  /\ rspOpen \/ rspPay = callNo
  /\ AnswerAwaited => cur.no = callNo

(* As long as no command has timed out: the one answer to the running      *)
(* command is owed by the module, or in the UART, or read; outside of a    *)
(* command no answer is on the way.                                        *)
OwnInv ==
  ~expired =>
    /\ \A i \in 1 .. Len(rx) : IsAnswer(i) => rx[i].no = callNo
    /\ \A i, j \in 1 .. Len(rx) : IsAnswer(i) /\ IsAnswer(j) => i = j
    /\ pend = <<>> \/ (Len(pend) = 1 /\ pend[1].call = callNo)
    /\ pend = <<>> \/ NoAnswerInUart
    /\ (pend = <<>> /\ NoAnswerInUart) \/ (apc = "peek" /\ rspHead.hdr = None)
    /\ apc = "peek" => cmd # None
    /\ (apc = "peek" /\ rspHead.hdr # None) \/ apc = "collect" => OwnBuffer

LEMMA OwnStep ==
  ASSUME TypeOK, FlagInv, AnswerInv, OwnInv, [Next]_vars
  PROVE  OwnInv'
<1> USE DEF moduleVars, ringVars, rspVars, handVars, driverVars, callVars
<1>0. /\ rx \in Seq(Message) /\ pend \in Seq([hdr : Commands, call : Nat])
      /\ callNo \in Nat /\ None \notin Commands /\ Len(rx) \in Nat
  BY CommandsAssumption DEF TypeOK, ModuleType, CallType
<1>1. SUFFICES ASSUME ~expired' PROVE OwnInv'
  BY DEF OwnInv
<1>2. CASE ModuleBoot \/ ModuleEvent
  <2>1. PICK kind : EmitEvent(kind)
    BY <1>2 DEF ModuleBoot, ModuleEvent
  <2> DEFINE new == [class |-> "evt", hdr |-> kind, no |-> evtNo + 1]
  <2>2. rx' = Append(rx, new) /\ new.class = "evt"
    BY <2>1 DEF EmitEvent, Emit
  <2> HIDE DEF new
  <2>3. UNCHANGED <<pend, apc, rspHead, rspPay, rspOpen, callNo, cmd, dpc, cur, expired>>
    BY <1>2 DEF ModuleBoot, ModuleEvent
  <2>4. \A i \in 1 .. Len(rx') :
          (i \in 1 .. Len(rx) /\ rx'[i] = rx[i]) \/ rx'[i].class = "evt"
    BY <1>0, <2>2
  <2>5. NoAnswerInUart => NoAnswerInUart'
    BY <2>4 DEF NoAnswerInUart, IsAnswer
  <2>6. OwnBuffer' = OwnBuffer
    BY <2>3 DEF OwnBuffer, AnswerAwaited
  <2>7. QED BY <1>1, <2>3, <2>4, <2>5, <2>6 DEF OwnInv, IsAnswer
<1>3. CASE ModuleAnswer
  <2>1. Emit("rsp", Head(pend).hdr, Head(pend).call)
    BY <1>3 DEF ModuleAnswer
  <2> DEFINE new == [class |-> "rsp", hdr |-> Head(pend).hdr, no |-> Head(pend).call]
  <2>2. UNCHANGED <<apc, rspHead, rspPay, rspOpen, callNo, cmd, dpc, cur, expired>>
    BY <1>3 DEF ModuleAnswer
  <2>3. /\ pend # <<>> /\ Len(pend) = 1 /\ pend[1].call = callNo
        /\ NoAnswerInUart /\ apc = "peek" /\ rspHead.hdr = None /\ cmd # None
    BY <1>1, <1>3, <2>2 DEF ModuleAnswer, OwnInv
  <2>4. rx' = Append(rx, new) /\ new.no = callNo
    BY <1>0, <2>1, <2>3 DEF Emit
  <2> HIDE DEF new
  <2>5. pend' = <<>>
    BY <1>0, <1>3, <2>3 DEF ModuleAnswer
  <2>6. /\ \A i \in 1 .. Len(rx') :
             (i \in 1 .. Len(rx) /\ rx'[i] = rx[i])
             \/ (i = Len(rx) + 1 /\ rx'[i].no = callNo)
    BY <1>0, <2>4
  <2>7. \A i \in 1 .. Len(rx') : IsAnswer(i)' => i = Len(rx) + 1
    BY <2>3, <2>6 DEF NoAnswerInUart, IsAnswer
  <2>8. QED BY <1>1, <2>2, <2>3, <2>5, <2>6, <2>7 DEF OwnInv, OwnBuffer, AnswerAwaited
<1>4. CASE SyncSkip \/ HeaderOfEvent \/ HeaderError
  <2>1. /\ rx' = rx \/ (rx # <<>> /\ rx' = Tail(rx))
        /\ dpc # "payload"
        /\ dpc' = "payload" => cur'.class = "evt"
        /\ UNCHANGED <<pend, apc, rspHead, rspPay, rspOpen, callNo, cmd, expired>>
    BY <1>4 DEF SyncSkip, HeaderOfEvent, HeaderError
  <2>2. OwnBuffer => OwnBuffer'
    BY <2>1 DEF OwnBuffer, AnswerAwaited
  <2>3. CASE rx' = rx
    BY <1>1, <2>1, <2>2, <2>3 DEF OwnInv, IsAnswer, NoAnswerInUart
  <2>4. CASE rx # <<>> /\ rx' = Tail(rx)
    <3>1. \A i \in 1 .. Len(rx') : rx'[i] = rx[i + 1] /\ i + 1 \in 1 .. Len(rx)
      BY <1>0, <2>4
    <3>2. NoAnswerInUart => NoAnswerInUart'
      BY <3>1 DEF NoAnswerInUart, IsAnswer
    <3>3. \A i, j \in 1 .. Len(rx') : i + 1 = j + 1 => i = j
      BY <1>0
    <3>4. QED BY <1>1, <2>1, <2>2, <3>1, <3>2, <3>3 DEF OwnInv, IsAnswer
  <2>5. QED BY <2>1, <2>3, <2>4
<1>5. CASE HeaderOfResponse
  <2>1. /\ rx # <<>> /\ rx' = Tail(rx) /\ IsAnswer(1) /\ rx[1] = Head(rx)
        /\ dpc' = "payload" /\ cur' = Head(rx) /\ rspOpen'
        /\ rspHead' = [hdr |-> Head(rx).hdr, no |-> Head(rx).no]
        /\ UNCHANGED <<pend, apc, callNo, cmd, expired>>
    BY <1>0, <1>5 DEF HeaderOfResponse, IsAnswer
  <2>2. \A i \in 1 .. Len(rx') :
          rx'[i] = rx[i + 1] /\ i + 1 \in 1 .. Len(rx) /\ i + 1 # 1
    BY <1>0, <2>1
  <2>3. 1 \in 1 .. Len(rx)
    BY <1>0, <2>1
  <2>4. NoAnswerInUart'
    BY <1>1, <2>1, <2>2, <2>3 DEF OwnInv, NoAnswerInUart, IsAnswer
  <2>5. pend' = <<>> /\ cmd' = cmd /\ (apc' = "peek" => cmd' # None)
    BY <1>1, <2>1, <2>3 DEF OwnInv, NoAnswerInUart
  <2>6. OwnBuffer' /\ rspHead'.hdr # None
    BY <1>0, <1>1, <2>1, <2>3
    DEF OwnInv, OwnBuffer, AnswerAwaited, IsAnswer, AnswerInv
  <2>7. QED BY <1>1, <2>4, <2>5, <2>6 DEF OwnInv, NoAnswerInUart
<1>6. CASE ResetCleanUart \/ Reinit
  <2>1. /\ rx' = <<>> /\ dpc # "payload" /\ dpc' # "payload"
        /\ (apc' = apc \/ apc' = "rstTop") /\ (apc = "closed" \/ apc' = apc)
        /\ UNCHANGED <<pend, rspHead, rspPay, rspOpen, callNo, cmd, expired>>
    BY <1>6 DEF ResetCleanUart, UartAfterClean, Reinit, FlagInv
  <2>2. NoAnswerInUart'
    BY <2>1 DEF NoAnswerInUart
  <2>3. OwnBuffer' = OwnBuffer
    BY <2>1 DEF OwnBuffer, AnswerAwaited
  <2>4. QED BY <1>1, <2>1, <2>2, <2>3 DEF OwnInv, NoAnswerInUart
<1>7. CASE ResetPowerOff
  <2>1. /\ pend' = <<>> /\ dpc # "payload" /\ dpc' # "payload"
        /\ UNCHANGED <<rx, apc, rspHead, rspPay, rspOpen, callNo, cmd, expired>>
    BY <1>7 DEF ResetPowerOff
  <2>2. OwnBuffer' = OwnBuffer
    BY <2>1 DEF OwnBuffer, AnswerAwaited
  <2>3. QED BY <1>1, <2>1, <2>2 DEF OwnInv, NoAnswerInUart, IsAnswer
<1>8. CASE PayloadOfEvent \/ PayloadOfResponse \/ PayloadError
  <2>1. /\ dpc = "payload" /\ dpc' # "payload"
        /\ UNCHANGED <<pend, rx, apc, rspHead, callNo, cmd, expired>>
        /\ UNCHANGED <<rspPay, rspOpen>> \/ (AnswerAwaited /\ rspPay' = cur.no)
    BY <1>8 DEF PayloadOfEvent, PayloadOfResponse, PayloadError, AnswerAwaited
  <2>2. OwnBuffer => OwnBuffer'
    BY <2>1 DEF OwnBuffer, AnswerAwaited
  <2>3. QED BY <1>1, <2>1, <2>2 DEF OwnInv, NoAnswerInUart, IsAnswer
<1>9. CASE PopEvent \/ BeginReset \/ ResetClearBooted
              \/ ResetAcknowledge \/ BeginRead \/ SyncFound \/ AbandonRead
              \/ HandleForward \/ HandleSpecial \/ HandleIgnore
              \/ ModuleFallsSilent \/ WatcherTake \/ UNCHANGED vars
  <2>1. /\ (dpc # "payload" /\ dpc' # "payload") \/ dpc' = dpc
        /\ UNCHANGED <<cur, pend, rx, apc, rspHead, rspPay, rspOpen, callNo, cmd, expired>>
    BY <1>9 DEF PopEvent, BeginReset, ResetClearBooted, ResetAcknowledge,
       BeginRead, SyncFound, AbandonRead, HandleForward, HandleSpecial,
       HandleIgnore, ModuleFallsSilent, WatcherTake, vars
  <2>2. OwnBuffer' = OwnBuffer
    BY <2>1 DEF OwnBuffer, AnswerAwaited
  <2>3. QED BY <1>1, <2>1, <2>2 DEF OwnInv, NoAnswerInUart, IsAnswer
<1>10. ASSUME NEW c \in Commands, CommandSend(c) PROVE OwnInv'
  <2>1. /\ apc = "idle" /\ apc' = "peek" /\ callNo' = callNo + 1 /\ cmd' = c
        /\ rspHead'.hdr = None
        /\ UNCHANGED <<rx, expired>>
        /\ pend' = pend \/ pend' = Append(pend, [hdr |-> c, call |-> callNo + 1])
    BY <1>10 DEF CommandSend, Call, ResponseHeaderCleared, NoHeader
  <2>2. pend = <<>> /\ NoAnswerInUart
    BY <1>1, <2>1 DEF OwnInv
  <2>3. pend' = <<>> \/ (Len(pend') = 1 /\ pend'[1].call = callNo')
    BY <2>1, <2>2
  <2>4. NoAnswerInUart'
    BY <2>1, <2>2 DEF NoAnswerInUart, IsAnswer
  <2>5. QED BY <1>0, <1>1, <2>1, <2>3, <2>4 DEF OwnInv, NoAnswerInUart
<1>11. CASE HardReset \/ Disable \/ Enable \/ Destroy
  <2>1. /\ apc = "idle" /\ apc' \notin {"peek", "collect"}
        /\ UNCHANGED <<rx, pend, expired>>
    BY <1>11 DEF HardReset, Disable, Enable, Destroy, Call, PowerOn
  <2>2. pend = <<>> /\ NoAnswerInUart
    BY <1>1, <2>1 DEF OwnInv
  <2>3. NoAnswerInUart'
    BY <2>1, <2>2 DEF NoAnswerInUart, IsAnswer
  <2>4. QED BY <1>1, <2>1, <2>2, <2>3 DEF OwnInv, NoAnswerInUart
<1>12. CASE PeekMatch
  <2>1. /\ apc = "peek" /\ apc' = "collect" /\ rspHead.hdr = cmd
        /\ UNCHANGED <<cur, dpc, pend, rx, rspHead, rspPay, rspOpen, callNo, cmd, expired>>
    BY <1>12 DEF PeekMatch
  <2>2. OwnBuffer' = OwnBuffer /\ rspHead.hdr # None
    BY <1>1, <2>1 DEF OwnBuffer, AnswerAwaited, OwnInv
  <2>3. pend = <<>> /\ NoAnswerInUart /\ OwnBuffer
    BY <1>1, <2>1, <2>2 DEF OwnInv
  <2>4. NoAnswerInUart'
    BY <2>1, <2>3 DEF NoAnswerInUart, IsAnswer
  <2>5. QED BY <1>1, <2>1, <2>2, <2>3, <2>4 DEF OwnInv, NoAnswerInUart
<1>13. CASE PeekTimeout
  BY <1>1, <1>13 DEF PeekTimeout
<1>14. CASE CommandCollect \/ ResetRequest \/ ResetOffSeen \/ ResetOffTimeout
              \/ ResetPowerOn \/ ResetBootSeen \/ ResetBootTimeout
              \/ ResetGiveUp \/ DisableSeen
  <2>1. /\ apc # "peek" /\ apc' \notin {"peek", "collect"}
        /\ UNCHANGED <<rx, pend, expired>>
    BY <1>14 DEF CommandCollect, ResetRequest, ResetOffSeen, ResetOffTimeout,
       ResetPowerOn, PowerOn, ResetBootSeen, ResetBootTimeout, ResetGiveUp,
       DisableSeen
  <2>2. pend = <<>> /\ NoAnswerInUart
    BY <1>1, <2>1 DEF OwnInv
  <2>3. NoAnswerInUart'
    BY <2>1, <2>2 DEF NoAnswerInUart, IsAnswer
  <2>4. QED BY <1>1, <2>1, <2>2, <2>3 DEF OwnInv, NoAnswerInUart
<1>15. QED
  BY <1>2, <1>3, <1>4, <1>5, <1>6, <1>7, <1>8, <1>9, <1>10, <1>11, <1>12,
     <1>13, <1>14
  DEF Next, Module, Driver, DriverGoesOn, CallStep, CallStart

(* What a command hands to its caller. *)
LEMMA CollectStep ==
  ASSUME AnswerIsOwn, OwnInv, [Next]_vars
  PROVE  AnswerIsOwn'
<1> USE DEF moduleVars, ringVars, rspVars, handVars, driverVars, callVars
<1>1. CASE CommandCollect
  <2>1. /\ got' = [call |-> callNo, head |-> rspHead.no, pay |-> rspPay,
                   expired |-> expired, torn |-> rspOpen]
        /\ apc = "collect"
    BY <1>1 DEF CommandCollect
  <2>2. ~expired => rspHead.no = callNo /\ (rspOpen \/ rspPay = callNo)
    BY <2>1 DEF OwnInv, OwnBuffer
  <2>3. QED BY <2>1, <2>2 DEF AnswerIsOwn
<1>2. CASE Module \/ Driver \/ WatcherTake
  <2>1. got' = got
    BY <1>2 DEF Module, ModuleBoot, ModuleEvent, ModuleAnswer, ModuleFallsSilent, WatcherTake,
     Driver, DriverGoesOn, PopEvent, BeginReset, ResetPowerOff, ResetCleanUart,
     ResetClearBooted, ResetAcknowledge, BeginRead, SyncSkip, SyncFound,
     AbandonRead, HeaderError, HeaderOfEvent, HeaderOfResponse, PayloadOfEvent,
     PayloadOfResponse, PayloadError, HandleForward, HandleSpecial, HandleIgnore
  <2>2. QED BY <2>1 DEF AnswerIsOwn
<1>3. CASE PeekMatch \/ PeekTimeout \/ ResetRequest \/ ResetOffSeen
             \/ ResetOffTimeout \/ ResetPowerOn \/ ResetBootSeen
             \/ ResetBootTimeout \/ ResetGiveUp \/ DisableSeen
             \/ CallStart \/ Destroy \/ Reinit \/ UNCHANGED vars
  <2>1. got' = got
    BY <1>3 DEF PeekMatch, PeekTimeout, ResetRequest, ResetOffSeen,
       ResetOffTimeout, ResetPowerOn, ResetBootSeen, ResetBootTimeout,
       ResetGiveUp, DisableSeen, CallStart, CommandSend, HardReset, Disable,
       Enable, Destroy, Reinit, vars
  <2>2. QED BY <2>1 DEF AnswerIsOwn
<1>4. QED BY <1>1, <1>2, <1>3 DEF Next, CallStep

(* With any commands, traffic, resets, failing reads and re-opened links:  *)
(* a command that returns before any has timed out has seen the header of  *)
(* its own answer, and returns that answer's result unless its payload is  *)
(* still being read or its read has failed.                                *)
THEOREM CommandsGetOwnAnswer == Spec => []AnswerIsOwn
<1>1. Init => FlagInv /\ AnswerInv /\ OwnInv /\ AnswerIsOwn
  BY DEF Init, FlagInv, AnswerInv, NoHeader, OwnInv, NoAnswerInUart, AnswerIsOwn
<1>2. TypeOK /\ FlagInv /\ AnswerInv /\ OwnInv /\ AnswerIsOwn /\ [Next]_vars
        => FlagInv' /\ AnswerInv' /\ OwnInv' /\ AnswerIsOwn'
  BY FlagStep, AnswerStep, OwnStep, CollectStep
<1>3. QED BY <1>1, <1>2, TypeCorrect, PTL DEF Spec
=============================================================================
