------------------------ MODULE GattDiscoveryProofs ------------------------
(* Proofs about the waits for events of GATT procedures, for any           *)
(* connections, records, sizes and numbers of events and calls.            *)
EXTENDS GattDiscovery, SequenceTheorems, TLAPS

Procedure == [op : Ops \cup {"none"}, call : Nat, found : Nat, sent : Nat]

Types ==
  /\ proc \in [Conns -> Procedure]
  /\ queue \in Seq(Packet) /\ evt \in Packet
  /\ op.no \in Nat /\ spent \in Seq(Nat)
  /\ dpc = "response" => queue # <<>>

(* The completed event of a call is yet to be sent, in the queue, in hand  *)
(* or spent.                                                               *)
Running(c) == proc[c].op # "none"
InQueue(i) == i \in DOMAIN queue /\ queue[i].kind = "completed"
InHand == evt.kind = "completed"
IsSpent(n) == \E k \in DOMAIN spent : spent[k] = n

(* It is in one place only, except that it is still in hand after it was   *)
(* found there, until its header is cleared.                               *)
Known ==
  /\ \A c \in Conns : Running(c) => proc[c].call =< op.no
  /\ \A i \in DOMAIN queue : InQueue(i) => queue[i].call =< op.no
  /\ InHand => evt.call =< op.no
  /\ \A k \in DOMAIN spent : spent[k] =< op.no
OnceRunning ==
  \A c \in Conns : Running(c) =>
    /\ \A d \in Conns : Running(d) /\ proc[d].call = proc[c].call => d = c
    /\ \A i \in DOMAIN queue : InQueue(i) => queue[i].call # proc[c].call
    /\ InHand => evt.call # proc[c].call
    /\ ~IsSpent(proc[c].call)
OnceQueued ==
  \A i \in DOMAIN queue : InQueue(i) =>
    /\ \A j \in DOMAIN queue : InQueue(j) /\ queue[j].call = queue[i].call => j = i
    /\ InHand => evt.call # queue[i].call
    /\ ~IsSpent(queue[i].call)
OnceInHand == InHand /\ apc # "clear" => ~IsSpent(evt.call)

IInv == Types /\ Known /\ OnceRunning /\ OnceQueued /\ OnceInHand /\ CompletedUsedOnce

USE BoundsAssumption
-----------------------------------------------------------------------------
LEMMA Emitted ==
  ASSUME Types, NEW p \in Packet, Emit(p)
  PROVE  /\ queue' \in Seq(Packet) /\ queue' # <<>>
         /\ DOMAIN queue = 1 .. Len(queue) /\ Len(queue) \in Nat
         /\ DOMAIN queue' = 1 .. Len(queue) + 1
         /\ \A i \in DOMAIN queue : i \in DOMAIN queue' /\ queue'[i] = queue[i]
         /\ queue'[Len(queue) + 1] = p
         /\ \A i \in DOMAIN queue' : i \in DOMAIN queue \/ i = Len(queue) + 1
<1>1. queue \in Seq(Packet) /\ queue' = Append(queue, p)
  BY DEF Types, Emit
<1>2. /\ Len(queue) \in Nat /\ DOMAIN queue = 1 .. Len(queue)
      /\ queue' \in Seq(Packet) /\ Len(queue') = Len(queue) + 1
      /\ DOMAIN queue' = 1 .. Len(queue) + 1
      /\ queue'[Len(queue) + 1] = p
  BY <1>1
<1>3. \A i \in DOMAIN queue : i \in DOMAIN queue' /\ queue'[i] = queue[i]
  BY <1>1, <1>2
<1>4. queue' # <<>>
  BY <1>2
<1>5. \A i \in DOMAIN queue' : i \in DOMAIN queue \/ i = Len(queue) + 1
  BY <1>2
<1> QED BY <1>2, <1>3, <1>4, <1>5

(* A packet that is no completed event changes nothing of its own.         *)
LEMMA EmittedOther ==
  ASSUME IInv, NEW p \in Packet, p.kind # "completed", Emit(p),
         proc' \in [Conns -> Procedure],
         \A c \in Conns : /\ Running(c)' => Running(c)
                          /\ proc'[c].call = proc[c].call,
         evt' = evt, op' = op, spent' = spent, apc' = apc, dpc' = dpc
  PROVE  IInv'
<1>1. /\ queue' \in Seq(Packet) /\ queue' # <<>>
      /\ \A i \in DOMAIN queue' : InQueue(i)' => InQueue(i) /\ i \in DOMAIN queue
                                                /\ queue'[i] = queue[i]
  BY Emitted DEF IInv, InQueue
<1>2. Types'
  BY <1>1 DEF IInv, Types
<1>3. \A n : IsSpent(n)' <=> IsSpent(n)
  BY DEF IsSpent
<1>4. InHand' <=> InHand
  BY DEF InHand
<1>5. Known'
  BY <1>1, <1>4 DEF IInv, Known
<1>6. OnceRunning'
  BY <1>1, <1>3, <1>4 DEF IInv, OnceRunning
<1>7. OnceQueued'
  BY <1>1, <1>3, <1>4 DEF IInv, OnceQueued
<1>8. OnceInHand' /\ CompletedUsedOnce'
  BY <1>3, <1>4 DEF IInv, OnceInHand, CompletedUsedOnce
<1> QED BY <1>2, <1>5, <1>6, <1>7, <1>8 DEF IInv

LEMMA ModuleNext ==
  ASSUME IInv, Module
  PROVE  IInv'
<1>1. evt' = evt /\ op' = op /\ spent' = spent /\ apc' = apc /\ dpc' = dpc
  BY DEF Module, ReportRecord, ReportCompleted, ReportOther, driverVars, callVars
<1>2. proc \in [Conns -> Procedure]
  BY DEF IInv, Types
<1>3. ASSUME NEW c \in Conns, ReportRecord(c) PROVE IInv'
  <2> DEFINE p == Pkt(proc[c].op, c, proc[c].call, proc[c].sent + 1)
  <2>1. proc[c] \in Procedure /\ proc[c].op \in Discoveries /\ Emit(p)
        /\ proc' = [proc EXCEPT ![c].sent = @ + 1]
    BY <1>2, <1>3 DEF ReportRecord
  <2>2. p \in Packet /\ p.kind # "completed"
    BY <2>1 DEF Pkt, Packet, Kinds, Discoveries, Procedure
  <2>3. proc' \in [Conns -> Procedure]
    BY <1>2, <2>1 DEF Procedure
  <2>4. \A d \in Conns : proc'[d].op = proc[d].op /\ proc'[d].call = proc[d].call
    BY <1>2, <2>1 DEF Procedure
  <2>5. \A d \in Conns : (Running(d)' => Running(d)) /\ proc'[d].call = proc[d].call
    BY <2>4 DEF Running
  <2> HIDE DEF p
  <2> QED BY <1>1, <2>1, <2>2, <2>3, <2>5, EmittedOther
<1>4. ASSUME NEW c \in Conns, ReportCompleted(c) PROVE IInv'
  <2> DEFINE p == Pkt(IF proc[c].op = "rssi" THEN "rssi" ELSE "completed", c,
                      proc[c].call, proc[c].found)
  <2>1. /\ proc[c] \in Procedure /\ Running(c) /\ Emit(p)
        /\ proc' = [proc EXCEPT ![c] = NoProc]
    BY <1>2, <1>4 DEF ReportCompleted, Running
  <2>2. p \in Packet /\ p.call = proc[c].call
    BY <2>1 DEF Pkt, Packet, Kinds, Procedure
  <2>3. proc' \in [Conns -> Procedure]
    BY <1>2, <2>1 DEF Procedure, NoProc
  <2>4. /\ ~Running(c)'
        /\ \A d \in Conns : d # c => (Running(d)' <=> Running(d)) /\ proc'[d] = proc[d]
    BY <1>2, <2>1 DEF Running, NoProc
  <2> HIDE DEF p
  <2>5. /\ queue' \in Seq(Packet) /\ queue' # <<>>
        /\ \A i \in DOMAIN queue' :
             \/ i \in DOMAIN queue /\ queue'[i] = queue[i]
             \/ i \notin DOMAIN queue /\ i = Len(queue) + 1 /\ queue'[i] = p
    BY <2>1, <2>2, Emitted DEF IInv
  <2>6. \A i \in DOMAIN queue' : InQueue(i)' =>
          \/ InQueue(i) /\ queue'[i] = queue[i] /\ i \in DOMAIN queue
          \/ i = Len(queue) + 1 /\ queue'[i].call = proc[c].call
    BY <2>2, <2>5 DEF InQueue
  <2>7. \A n : IsSpent(n)' <=> IsSpent(n)
    BY <1>1 DEF IsSpent
  <2>8. InHand' <=> InHand
    BY <1>1 DEF InHand
  <2>9. Types'
    BY <1>1, <2>3, <2>5 DEF IInv, Types
  <2>10. Known'
    BY <1>1, <2>1, <2>4, <2>6, <2>8 DEF IInv, Known
  <2>11. OnceRunning'
    BY <1>1, <2>1, <2>4, <2>6, <2>7, <2>8 DEF IInv, OnceRunning
  <2>12. OnceQueued'
    BY <1>1, <2>1, <2>6, <2>7, <2>8 DEF IInv, OnceQueued, OnceRunning
  <2>13. OnceInHand' /\ CompletedUsedOnce'
    BY <1>1, <2>7, <2>8 DEF IInv, OnceInHand, CompletedUsedOnce
  <2> QED BY <2>9, <2>10, <2>11, <2>12, <2>13 DEF IInv
<1>5. CASE ReportOther
  <2> DEFINE p == Pkt("other", NoConn, 0, 0)
  <2>1. Emit(p) /\ proc' = proc
    BY <1>5 DEF ReportOther
  <2>2. p \in Packet /\ p.kind # "completed"
    BY DEF Pkt, Packet, Kinds
  <2>3. \A d \in Conns : (Running(d)' => Running(d)) /\ proc'[d].call = proc[d].call
    BY <2>1 DEF Running
  <2> HIDE DEF p
  <2> QED BY <1>1, <1>2, <2>1, <2>2, <2>3, EmittedOther
<1> QED BY <1>3, <1>4, <1>5 DEF Module
-----------------------------------------------------------------------------
(* The driver takes the oldest packet in hand.                             *)
LEMMA TakeNext ==
  ASSUME IInv, TakePacket
  PROVE  IInv'
<1>1. /\ evt' = Head(queue) /\ queue' = Tail(queue) /\ dpc' = "handle" /\ queue # <<>>
      /\ proc' = proc /\ op' = op /\ spent' = spent /\ apc' = apc
  BY DEF TakePacket, IInv, Types, moduleVars, callVars
<1>2. queue \in Seq(Packet) /\ Len(queue) \in Nat /\ Len(queue) > 0
      /\ DOMAIN queue = 1 .. Len(queue)
  BY <1>1 DEF IInv, Types
<1>3. /\ evt' = queue[1] /\ evt' \in Packet /\ 1 \in DOMAIN queue
      /\ queue' \in Seq(Packet) /\ Len(queue') = Len(queue) - 1
      /\ DOMAIN queue' = 1 .. Len(queue) - 1
      /\ \A i \in DOMAIN queue' : i + 1 \in DOMAIN queue /\ queue'[i] = queue[i + 1]
                                  /\ i + 1 # 1 /\ i \in Nat
  BY <1>1, <1>2
<1>4. \A i \in DOMAIN queue' : InQueue(i)' =>
        InQueue(i + 1) /\ i + 1 \in DOMAIN queue /\ queue'[i] = queue[i + 1]
  BY <1>3 DEF InQueue
<1>5. InHand' => InQueue(1) /\ evt' = queue[1] /\ 1 \in DOMAIN queue
  BY <1>3 DEF InHand, InQueue
<1>6. \A n : IsSpent(n)' <=> IsSpent(n)
  BY <1>1 DEF IsSpent
<1>7. \A c \in Conns : (Running(c)' <=> Running(c)) /\ proc'[c] = proc[c]
  BY <1>1 DEF Running
<1>8. Types'
  BY <1>1, <1>3 DEF IInv, Types
<1>9. Known'
  BY <1>1, <1>4, <1>5, <1>7 DEF IInv, Known
<1>10. OnceRunning'
  BY <1>4, <1>5, <1>6, <1>7 DEF IInv, OnceRunning
<1>11. OnceQueued'
  <2> SUFFICES ASSUME NEW i \in DOMAIN queue', InQueue(i)'
               PROVE  /\ \A j \in DOMAIN queue' :
                           InQueue(j)' /\ queue'[j].call = queue'[i].call => j = i
                      /\ InHand' => evt'.call # queue'[i].call
                      /\ ~IsSpent(queue[i].call)'
    BY DEF OnceQueued
  <2>1. InQueue(i + 1) /\ i + 1 \in DOMAIN queue /\ queue'[i] = queue[i + 1]
    BY <1>4
  <2>2. ASSUME NEW j \in DOMAIN queue', InQueue(j)', queue'[j].call = queue'[i].call
        PROVE  j = i
    <3>1. InQueue(j + 1) /\ j + 1 \in DOMAIN queue /\ queue'[j] = queue[j + 1]
      BY <1>4, <2>2
    <3>2. j + 1 = i + 1
      BY <2>1, <2>2, <3>1 DEF IInv, OnceQueued
    <3> QED BY <1>3, <3>2
  <2>3. ASSUME InHand' PROVE evt'.call # queue'[i].call
    <3>1. InQueue(1) /\ evt' = queue[1] /\ 1 \in DOMAIN queue /\ i + 1 # 1
      BY <1>3, <1>5, <2>3
    <3> QED BY <2>1, <3>1 DEF IInv, OnceQueued
  <2>4. ~IsSpent(queue[i].call)'
    <3>1. ~IsSpent(queue[i + 1].call)
      BY <2>1 DEF IInv, OnceQueued
    <3> QED BY <1>1, <2>1, <3>1 DEF IsSpent
  <2> QED BY <2>2, <2>3, <2>4
<1>12. OnceInHand' /\ CompletedUsedOnce'
  BY <1>1, <1>5, <1>6 DEF IInv, OnceInHand, OnceQueued, CompletedUsedOnce
<1> QED BY <1>8, <1>9, <1>10, <1>11, <1>12 DEF IInv

(* Steps that move no completed event.                                     *)
LEMMA StillNext ==
  ASSUME IInv, proc' = proc, queue' = queue, evt' = evt, op' = op, spent' = spent,
         apc = "clear" => apc' = "clear", dpc' = "response" => queue # <<>>
  PROVE  IInv'
<1>1. /\ \A c : Running(c)' <=> Running(c)
      /\ \A i : InQueue(i)' <=> InQueue(i)
      /\ \A n : IsSpent(n)' <=> IsSpent(n)
      /\ InHand' <=> InHand
  BY DEF Running, InQueue, IsSpent, InHand
<1>2. Types' /\ Known'
  BY <1>1 DEF IInv, Types, Known
<1>3. OnceRunning' /\ OnceQueued'
  BY <1>1 DEF IInv, OnceRunning, OnceQueued
<1>4. OnceInHand' /\ CompletedUsedOnce'
  BY <1>1 DEF IInv, OnceInHand, CompletedUsedOnce
<1> QED BY <1>2, <1>3, <1>4 DEF IInv

LEMMA DriverNext ==
  ASSUME IInv, Driver
  PROVE  IInv'
<1>1. CASE TakePacket
  BY <1>1, TakeNext
<1>2. CASE ReadResponse \/ StoreRecord \/ CountRecord \/ PassPacket
  <2>1. /\ proc' = proc /\ queue' = queue /\ evt' = evt /\ op' = op /\ spent' = spent
        /\ apc' = apc /\ (dpc' = "response" => queue # <<>>)
    BY <1>2 DEF ReadResponse, StoreRecord, CountRecord, PassPacket, moduleVars, callVars
  <2> QED BY <2>1, StillNext
<1> QED BY <1>1, <1>2 DEF Driver
-----------------------------------------------------------------------------
(* The API call.                                                           *)

LEMMA CheckSeenNext ==
  ASSUME IInv, CheckSeen
  PROVE  IInv'
<1>1. /\ apc = "check" /\ apc' = "clear" /\ InHand
      /\ spent' = Append(spent, evt.call)
      /\ proc' = proc /\ queue' = queue /\ evt' = evt /\ op' = op /\ dpc' = dpc
  BY DEF CheckSeen, InHand, moduleVars, driverVars
<1>2. spent \in Seq(Nat) /\ evt.call \in Nat /\ ~IsSpent(evt.call)
  BY <1>1 DEF IInv, Types, OnceInHand, Packet
<1>3. /\ Len(spent) \in Nat /\ DOMAIN spent = 1 .. Len(spent)
      /\ DOMAIN spent' = 1 .. Len(spent) + 1 /\ spent' \in Seq(Nat)
      /\ spent'[Len(spent) + 1] = evt.call
  BY <1>1, <1>2
<1>4. \A k \in DOMAIN spent : spent'[k] = spent[k]
  BY <1>1, <1>2, <1>3
<1>5. \A k \in DOMAIN spent' : k \in DOMAIN spent \/ k = Len(spent) + 1
  BY <1>3
<1>6. \A n : IsSpent(n)' => IsSpent(n) \/ n = evt.call
  BY <1>3, <1>4, <1>5 DEF IsSpent
<1>7. /\ \A c : Running(c)' <=> Running(c)
      /\ \A i : InQueue(i)' <=> InQueue(i)
      /\ InHand' <=> InHand
  BY <1>1 DEF Running, InQueue, InHand
<1>8. Types'
  BY <1>1, <1>3 DEF IInv, Types
<1>9. Known'
  BY <1>1, <1>3, <1>4, <1>5, <1>7 DEF IInv, Known
<1>10. OnceRunning'
  BY <1>1, <1>6, <1>7 DEF IInv, OnceRunning
<1>11. OnceQueued'
  BY <1>1, <1>6, <1>7 DEF IInv, OnceQueued
<1>12. OnceInHand'
  BY <1>1 DEF OnceInHand
<1>13. CompletedUsedOnce'
  BY <1>2, <1>3, <1>4, <1>5 DEF IInv, CompletedUsedOnce, IsSpent
<1> QED BY <1>8, <1>9, <1>10, <1>11, <1>12, <1>13 DEF IInv

LEMMA ClearHeaderNext ==
  ASSUME IInv, ClearHeader
  PROVE  IInv'
<1>1. /\ evt' = [evt EXCEPT !.kind = "none"]
      /\ proc' = proc /\ queue' = queue /\ op' = op /\ spent' = spent /\ dpc' = dpc
  BY DEF ClearHeader, HeaderAfterUse, moduleVars
<1>2. evt' \in Packet /\ ~InHand'
  BY <1>1 DEF IInv, Types, Packet, Kinds, InHand
<1>3. /\ \A c : Running(c)' <=> Running(c)
      /\ \A i : InQueue(i)' <=> InQueue(i)
      /\ \A n : IsSpent(n)' <=> IsSpent(n)
  BY <1>1 DEF Running, InQueue, IsSpent
<1>4. Types' /\ Known'
  BY <1>1, <1>2, <1>3 DEF IInv, Types, Known
<1>5. OnceRunning' /\ OnceQueued'
  BY <1>1, <1>2, <1>3 DEF IInv, OnceRunning, OnceQueued
<1>6. OnceInHand' /\ CompletedUsedOnce'
  BY <1>1, <1>2 DEF IInv, OnceInHand, CompletedUsedOnce
<1> QED BY <1>4, <1>5, <1>6 DEF IInv

LEMMA CallStepNext ==
  ASSUME IInv, CallStep
  PROVE  IInv'
<1>1. CASE CheckSeen
  BY <1>1, CheckSeenNext
<1>2. CASE ClearHeader
  BY <1>2, ClearHeaderNext
<1>3. CASE Refused \/ ReadStarted \/ BeginWait \/ RssiSeen \/ CompletedSeen \/ WaitTimeout
           \/ CopyRecords \/ CleanCount \/ CheckGone
  <2>1. /\ proc' = proc /\ queue' = queue /\ evt' = evt /\ op' = op /\ spent' = spent
        /\ dpc' = dpc /\ apc # "clear"
    BY <1>3 DEF Refused, ReadStarted, BeginWait, RssiSeen, CompletedSeen, WaitTimeout,
       CopyRecords, CleanCount, CheckGone, moduleVars, driverVars, callVars
  <2>2. dpc' = "response" => queue # <<>>
    BY <2>1 DEF IInv, Types
  <2> QED BY <2>1, <2>2, StillNext
<1> QED BY <1>1, <1>2, <1>3 DEF CallStep

LEMMA CallOpNext ==
  ASSUME IInv, NEW kind \in Ops, NEW c \in Conns, CallOp(kind, c)
  PROVE  IInv'
<1> DEFINE no == op.no + 1
           p == Pkt("response", c, no, 0)
<1>1. PICK found \in IF kind \in Discoveries THEN Founds ELSE {0} :
        LET accepted == proc[c].op = "none"
        IN  /\ op' = [op |-> kind, conn |-> c, no |-> no, found |-> found,
                      accepted |-> accepted]
            /\ proc' = IF accepted
                         THEN [proc EXCEPT ![c] = [op |-> kind, call |-> no,
                                                   found |-> found, sent |-> 0]]
                         ELSE proc
            /\ Emit(p)
  BY DEF CallOp
<1>2. /\ apc = "idle" /\ apc' = "sent" /\ evt' = evt /\ spent' = spent /\ dpc' = dpc
  BY DEF CallOp, driverVars
<1>3. op.no \in Nat /\ no \in Nat /\ op'.no = no /\ op.no =< no /\ found \in Nat
  BY <1>1 DEF IInv, Types
<1>4. p \in Packet /\ p.kind # "completed"
  BY <1>3 DEF Pkt, Packet, Kinds
<1>5. /\ queue' \in Seq(Packet) /\ queue' # <<>>
      /\ \A i \in DOMAIN queue' : InQueue(i)' => InQueue(i) /\ i \in DOMAIN queue
                                                /\ queue'[i] = queue[i]
  BY <1>1, <1>4, Emitted DEF IInv, InQueue
<1>6. proc' \in [Conns -> Procedure]
  <2>1. [op |-> kind, call |-> no, found |-> found, sent |-> 0] \in Procedure
    BY <1>3 DEF Procedure
  <2> QED BY <1>1, <2>1 DEF IInv, Types
<1>7. \A d \in Conns : \/ proc'[d] = proc[d]
                       \/ d = c /\ proc'[d].call = no
  BY <1>1 DEF IInv, Types
<1>8. \A d \in Conns : Running(d)' => \/ Running(d) /\ proc'[d] = proc[d]
                                      \/ d = c /\ proc'[d].call = no
  BY <1>7 DEF Running
<1> HIDE DEF no, p
<1>9. /\ \A n : IsSpent(n)' <=> IsSpent(n)
      /\ InHand' <=> InHand
      /\ ~IsSpent(no)
      /\ InHand => evt.call # no
      /\ \A i \in DOMAIN queue : InQueue(i) => queue[i].call # no
      /\ \A d \in Conns : Running(d) => proc[d].call # no
  <2>1. (\A n : IsSpent(n)' <=> IsSpent(n)) /\ (InHand' <=> InHand)
    BY <1>2 DEF IsSpent, InHand
  <2>2. \A n \in Nat : n =< op.no => n # no
    BY <1>3 DEF no
  <2>3. \A k \in DOMAIN spent : spent[k] \in Nat /\ spent[k] # no
    BY <2>2 DEF IInv, Types, Known
  <2>4. InHand => evt.call # no
    BY <2>2 DEF IInv, Types, Known, Packet
  <2>5. \A i \in DOMAIN queue : InQueue(i) => queue[i].call # no
    <3>1. \A i \in DOMAIN queue : queue[i] \in Packet
      BY DEF IInv, Types
    <3> QED BY <2>2, <3>1 DEF IInv, Known, Packet
  <2>6. \A d \in Conns : Running(d) => proc[d].call # no
    <3>1. \A d \in Conns : proc[d].call \in Nat
      BY DEF IInv, Types, Procedure
    <3> QED BY <2>2, <3>1 DEF IInv, Known
  <2> QED BY <2>1, <2>3, <2>4, <2>5, <2>6 DEF IsSpent
<1>10. Types'
  BY <1>2, <1>3, <1>5, <1>6 DEF IInv, Types
<1>11. Known'
  <2>1. \A n \in Nat : n =< op.no => n =< op'.no
    BY <1>3 DEF no
  <2>2. \A d \in Conns : Running(d)' => proc'[d].call =< op'.no
    <3>1. \A d \in Conns : proc[d].call \in Nat
      BY DEF IInv, Types, Procedure
    <3> QED BY <1>3, <1>8, <2>1, <3>1 DEF IInv, Known
  <2>3. \A i \in DOMAIN queue' : InQueue(i)' => queue'[i].call =< op'.no
    <3>1. \A i \in DOMAIN queue : queue[i].call \in Nat
      <4>1. \A i \in DOMAIN queue : queue[i] \in Packet
        BY DEF IInv, Types
      <4> QED BY <4>1 DEF Packet
    <3> QED BY <1>5, <2>1, <3>1 DEF IInv, Known
  <2>4. InHand' => evt'.call =< op'.no
    BY <1>2, <1>9, <2>1 DEF IInv, Known, Types, Packet
  <2>5. \A k \in DOMAIN spent' : spent'[k] =< op'.no
    BY <1>2, <2>1 DEF IInv, Known, Types
  <2> QED BY <2>2, <2>3, <2>4, <2>5 DEF Known
<1>12. OnceRunning'
  BY <1>2, <1>5, <1>8, <1>9 DEF IInv, OnceRunning
<1>13. OnceQueued'
  BY <1>2, <1>5, <1>9 DEF IInv, OnceQueued
<1>14. OnceInHand' /\ CompletedUsedOnce'
  BY <1>2, <1>9 DEF IInv, OnceInHand, CompletedUsedOnce
<1> QED BY <1>10, <1>11, <1>12, <1>13, <1>14 DEF IInv
-----------------------------------------------------------------------------
LEMMA InitInv == Init => IInv
<1> SUFFICES ASSUME Init PROVE IInv
  OBVIOUS
<1>1. Types
  BY DEF Init, Types, Procedure, Packet, Kinds, NoProc, NoPacket
<1>2. /\ \A c \in Conns : ~Running(c)
      /\ ~InHand /\ queue = <<>> /\ spent = <<>>
  BY DEF Init, Running, InHand, NoProc, NoPacket
<1>3. DOMAIN queue = {} /\ DOMAIN spent = {}
  BY <1>2
<1>4. Known /\ OnceRunning /\ OnceQueued /\ OnceInHand /\ CompletedUsedOnce
  BY <1>2, <1>3 DEF Known, OnceRunning, OnceQueued, OnceInHand, CompletedUsedOnce
<1> QED BY <1>1, <1>4 DEF IInv

LEMMA InvNext == IInv /\ [Next]_vars => IInv'
<1> SUFFICES ASSUME IInv, [Next]_vars PROVE IInv'
  OBVIOUS
<1>1. CASE UNCHANGED vars
  <2>1. /\ proc' = proc /\ queue' = queue /\ evt' = evt /\ op' = op /\ spent' = spent
        /\ apc' = apc /\ dpc' = dpc
    BY <1>1 DEF vars, moduleVars, driverVars, callVars
  <2>2. dpc' = "response" => queue # <<>>
    BY <2>1 DEF IInv, Types
  <2> QED BY <2>1, <2>2, StillNext
<1>2. CASE WriteBehind
  <2>1. /\ proc' = proc /\ queue' = queue /\ evt' = evt /\ op' = op /\ spent' = spent
        /\ apc' = apc /\ dpc' # "response"
    BY <1>2 DEF WriteBehind, moduleVars, callVars
  <2> QED BY <2>1, StillNext
<1> QED BY <1>1, <1>2, ModuleNext, DriverNext, CallStepNext, CallOpNext DEF Next

LEMMA Invariance == Spec => []IInv
BY InitInv, InvNext, PTL DEF Spec

(* Whatever other waits missed, and wherever the driver was meanwhile: one *)
(* completed event ends one successful discovery at most.                  *)
THEOREM EventEndsOneCall == Spec => []CompletedUsedOnce
<1>1. IInv => CompletedUsedOnce
  BY DEF IInv
<1> QED BY Invariance, <1>1, PTL
-----------------------------------------------------------------------------
(* A discovery returns what there is.                                      *)

(* A discovery the module has accepted and whose completed event the       *)
(* caller still waits for.                                                 *)
Active == apc \in {"sent", "wait"} /\ op.accepted /\ op.op \in Discoveries

IsRecord(i) == queue[i].kind \in Discoveries
Record(n) == Pkt(op.op, op.conn, op.no, n)
RecordInHand == dpc = "handle" /\ evt.kind \in Discoveries

(* How many of its records the module has sent, and how many of those the  *)
(* driver has taken out of the queue.                                      *)
InProgress == proc[op.conn].op = op.op
Sent == IF InProgress THEN proc[op.conn].sent ELSE op.found
Taken == IF dpc = "count" \/ RecordInHand THEN num + 1 ELSE num

(* What holds at any time. *)
CallInv ==
  /\ num \in Nat /\ index \in Nat /\ special \in [1 .. SpecialMax -> Packet]
  /\ dpc \in {"take", "response", "handle", "count", "lost"}
  /\ dpc = "response" => queue # <<>> /\ Head(queue).kind = "response"
  /\ op.found \in Nat
  /\ apc # "idle" => op.conn \in Conns
  /\ apc \in {"wait", "copy", "clean", "check", "clear"} => op.accepted
  /\ apc \in {"copy", "clean", "check", "clear"} => op.op \in Discoveries

(* Nothing of a discovery is under way. *)
Quiet ==
  /\ \A c \in Conns : proc[c].op \in {"none", "rssi"}
  /\ \A i \in DOMAIN queue : ~IsRecord(i) /\ ~InQueue(i)
  /\ dpc # "count" /\ ~RecordInHand

(* The procedure of the running discovery. *)
ProcInv ==
  /\ \A c \in Conns \ {op.conn} : proc[c].op \in {"none", "rssi"}
  /\ InProgress \/ proc[op.conn].op = "none"
  /\ InProgress => /\ proc[op.conn].call = op.no
                   /\ proc[op.conn].found = op.found
  /\ Taken =< Sent /\ Sent =< op.found

(* Its records that are on the way: each once, in order, none missing, and *)
(* the completed event behind them.                                        *)
QueueInv ==
  /\ \A i \in DOMAIN queue : IsRecord(i) =>
       /\ queue[i] = Record(queue[i].n)
       /\ Taken < queue[i].n /\ queue[i].n =< Sent
  /\ \A i, j \in DOMAIN queue :
       IsRecord(i) /\ IsRecord(j) /\ i < j => queue[i].n < queue[j].n
  /\ \A n \in Taken + 1 .. Sent :
       \E i \in DOMAIN queue : IsRecord(i) /\ queue[i].n = n
  /\ \A i \in DOMAIN queue : InQueue(i) =>
       /\ ~InProgress /\ ~InHand
       /\ \A j \in DOMAIN queue : InQueue(j) => j = i
       /\ \A j \in DOMAIN queue : IsRecord(j) => j < i

(* Those that the driver has taken are stored in their order, the last one *)
(* possibly not yet; the completed event is in hand after all of them.     *)
StoreInv ==
  /\ \A k \in 1 .. num : special[k] = Record(k)
  /\ RecordInHand => evt = Record(num + 1)
  /\ dpc = "count" => /\ index = num /\ special[num + 1] = Record(num + 1)
                      /\ evt.kind \in Discoveries
  /\ InHand => ~InProgress /\ num = op.found

(* After the completed event was seen: the list and the count. *)
CopyInv ==
  /\ apc \in {"copy", "clean", "check", "clear"} => len = op.found
  /\ apc \in {"copy", "clean"} => num = op.found
  /\ apc = "copy" => \A k \in 1 .. num : special[k] = Record(k)
  /\ apc \in {"clean", "check", "clear"} =>
       list = [k \in 1 .. op.found |-> Record(k)]
  /\ apc \in {"check", "clear"} => num = 0

CalmInv ==
  calm =>
    /\ Active => ProcInv /\ QueueInv /\ StoreInv
    /\ ~Active => Quiet
    /\ ~Active /\ apc \in {"idle", "sent", "wait"} => num = 0 /\ ~InHand
    /\ CopyInv
    /\ DiscoveryIsWhole
-----------------------------------------------------------------------------
LEMMA CallInit == Init => CallInv /\ CalmInv
<1> SUFFICES ASSUME Init PROVE CallInv /\ CalmInv
  OBVIOUS
<1>1. NoPacket \in Packet
  BY DEF NoPacket, Packet, Kinds
<1>2. CallInv
  BY <1>1 DEF Init, CallInv
<1>3. ~Active /\ ~InHand /\ num = 0 /\ CopyInv /\ DiscoveryIsWhole
  BY DEF Init, Active, InHand, NoPacket, CopyInv, DiscoveryIsWhole, Discoveries
<1>4. Quiet
  BY DEF Init, Quiet, NoProc, RecordInHand
<1> QED BY <1>2, <1>3, <1>4 DEF CalmInv

LEMMA CallInvModule ==
  ASSUME IInv, CallInv, Module
  PROVE  CallInv'
<1>1. UNCHANGED <<num, index, special, dpc, op, apc>>
  BY DEF Module, ReportRecord, ReportCompleted, ReportOther, driverVars, callVars
<1>2. PICK p \in Packet : Emit(p)
  <2>1. proc \in [Conns -> Procedure]
    BY DEF IInv, Types
  <2>2. ASSUME NEW c \in Conns, ReportRecord(c) PROVE \E p \in Packet : Emit(p)
    BY <2>1, <2>2 DEF ReportRecord, Pkt, Packet, Kinds, Procedure, Discoveries
  <2>3. ASSUME NEW c \in Conns, ReportCompleted(c) PROVE \E p \in Packet : Emit(p)
    BY <2>1, <2>3 DEF ReportCompleted, Pkt, Packet, Kinds, Procedure
  <2>4. ASSUME ReportOther PROVE \E p \in Packet : Emit(p)
    BY <2>4 DEF ReportOther, Pkt, Packet, Kinds
  <2> QED BY <2>2, <2>3, <2>4 DEF Module
<1>3. dpc' = "response" => queue' # <<>> /\ Head(queue').kind = "response"
  <2> SUFFICES ASSUME dpc = "response"
               PROVE  queue' # <<>> /\ Head(queue').kind = "response"
    BY <1>1
  <2>1. queue \in Seq(Packet) /\ queue # <<>> /\ Head(queue).kind = "response"
    BY DEF IInv, Types, CallInv
  <2>2. Head(Append(queue, p)) = Head(queue) /\ Append(queue, p) # <<>>
    BY <2>1
  <2> QED BY <1>2, <2>1, <2>2 DEF Emit
<1> QED BY <1>1, <1>3 DEF CallInv

LEMMA CallInvDriver ==
  ASSUME IInv, CallInv, Driver
  PROVE  CallInv'
<1>1. op' = op /\ apc' = apc
  BY DEF Driver, ReadResponse, TakePacket, StoreRecord, CountRecord, PassPacket, callVars
<1>2. num' \in Nat /\ index' \in Nat
  BY DEF Driver, ReadResponse, TakePacket, StoreRecord, CountRecord, PassPacket, Counted,
     CallInv
<1>3. special' \in [1 .. SpecialMax -> Packet]
  <2>1. evt \in Packet /\ special \in [1 .. SpecialMax -> Packet]
    BY DEF IInv, Types, CallInv
  <2> QED BY <2>1 DEF Driver, ReadResponse, TakePacket, StoreRecord, CountRecord, PassPacket
<1>4. /\ dpc' \in {"take", "response", "handle", "count", "lost"}
      /\ dpc' = "response" => queue' # <<>> /\ Head(queue').kind = "response"
  BY DEF Driver, ReadResponse, TakePacket, StoreRecord, CountRecord, PassPacket
<1> QED BY <1>1, <1>2, <1>3, <1>4 DEF CallInv

LEMMA CallInvCall ==
  ASSUME IInv, CallInv, CallStep
  PROVE  CallInv'
<1>1. UNCHANGED <<queue, index, special, dpc, op>> /\ num' \in Nat
  BY DEF CallStep, Refused, ReadStarted, BeginWait, RssiSeen, CompletedSeen, WaitTimeout,
     CopyRecords, CleanCount, CheckSeen, CheckGone, ClearHeader, moduleVars, driverVars,
     CallInv, CountAfterTimeout, CountAfterCopy
<1>2. apc # "idle"
  BY DEF CallStep, Refused, ReadStarted, BeginWait, RssiSeen, CompletedSeen, WaitTimeout,
     CopyRecords, CleanCount, CheckSeen, CheckGone, ClearHeader
<1>3. /\ apc' \in {"wait", "copy", "clean", "check", "clear"} => op.accepted
      /\ apc' \in {"copy", "clean", "check", "clear"} => op.op \in Discoveries
  BY DEF CallStep, Refused, ReadStarted, BeginWait, RssiSeen, CompletedSeen, WaitTimeout,
     CopyRecords, CleanCount, CheckSeen, CheckGone, ClearHeader, Return, CallInv
<1> QED BY <1>1, <1>2, <1>3 DEF CallInv


LEMMA CallInvOp ==
  ASSUME IInv, CallInv, NEW kind \in Ops, NEW c \in Conns, CallOp(kind, c)
  PROVE  CallInv'
<1>1. /\ UNCHANGED <<num, index, special, dpc>> /\ apc' = "sent"
      /\ op.no \in Nat /\ op.no < MaxCalls
  BY DEF CallOp, driverVars, IInv, Types
<1>2. PICK found \in IF kind \in Discoveries THEN Founds ELSE {0} :
        op'.conn = c /\ op'.found = found
  BY DEF CallOp
<1>3. op'.conn \in Conns /\ op'.found \in Nat
  BY <1>2
<1>4. dpc' = "response" => queue' # <<>> /\ Head(queue').kind = "response"
  <2> SUFFICES ASSUME dpc = "response"
               PROVE  queue' # <<>> /\ Head(queue').kind = "response"
    BY <1>1
  <2>1. queue \in Seq(Packet) /\ queue # <<>> /\ Head(queue).kind = "response"
    BY DEF IInv, Types, CallInv
  <2>2. PICK p \in Packet : queue' = Append(queue, p)
    <3> DEFINE response == Pkt("response", c, op.no + 1, 0)
    <3>1. response \in Packet
      BY <1>1 DEF Pkt, Packet, Kinds
    <3>2. queue' = Append(queue, response)
      BY DEF CallOp, Emit
    <3> QED BY <3>1, <3>2
  <2>3. Head(Append(queue, p)) = Head(queue) /\ Append(queue, p) # <<>>
    BY <2>1
  <2> QED BY <2>1, <2>2, <2>3
<1> QED BY <1>1, <1>3, <1>4 DEF CallInv

LEMMA CallInvNext == IInv /\ CallInv /\ [Next]_vars => CallInv'
<1> SUFFICES ASSUME IInv, CallInv, [Next]_vars PROVE CallInv'
  OBVIOUS
<1>1. ASSUME UNCHANGED vars PROVE CallInv'
  BY <1>1 DEF vars, moduleVars, driverVars, callVars, CallInv
<1>2. ASSUME WriteBehind PROVE CallInv'
  BY <1>2 DEF WriteBehind, moduleVars, callVars, CallInv
<1> QED BY <1>1, <1>2, CallInvModule, CallInvDriver, CallInvCall, CallInvOp DEF Next
-----------------------------------------------------------------------------
(* The module's steps.                                                     *)

(* What the driver and the caller look at stays when the module sends.     *)
LEMMA SendFrame ==
  ASSUME Module
  PROVE  /\ UNCHANGED <<dpc, evt, index, special, num, apc, op, len, list, result, calm>>
         /\ (Active' <=> Active) /\ (RecordInHand' <=> RecordInHand)
         /\ (InHand' <=> InHand) /\ Taken' = Taken
         /\ \A n : Record(n)' = Record(n)
         /\ (CopyInv' <=> CopyInv) /\ (DiscoveryIsWhole' <=> DiscoveryIsWhole)
<1>1. UNCHANGED <<dpc, evt, index, special, num, apc, op, len, list, result, calm>>
  BY DEF Module, ReportRecord, ReportCompleted, ReportOther, driverVars, callVars
<1>2. /\ (Active' <=> Active) /\ (RecordInHand' <=> RecordInHand) /\ (InHand' <=> InHand)
      /\ \A n : Record(n)' = Record(n)
  BY <1>1 DEF Active, RecordInHand, InHand, Record
<1>3. Taken' = Taken
  BY <1>1, <1>2 DEF Taken
<1>4. CopyInv' <=> CopyInv
  BY <1>1, <1>2 DEF CopyInv
<1>5. DiscoveryIsWhole' <=> DiscoveryIsWhole
  BY <1>1 DEF DiscoveryIsWhole
<1> QED BY <1>1, <1>2, <1>3, <1>4, <1>5

(* The queue of a discovery after a packet that is not of it.              *)
LEMMA QueueOther ==
  ASSUME IInv, NEW p \in Packet, p.kind \notin Discoveries \cup {"completed"}, Emit(p)
  PROVE  /\ \A i \in DOMAIN queue' : IsRecord(i)' \/ InQueue(i)' => i \in DOMAIN queue
         /\ \A i \in DOMAIN queue :
              /\ i \in DOMAIN queue' /\ queue'[i] = queue[i]
              /\ (IsRecord(i)' <=> IsRecord(i)) /\ (InQueue(i)' <=> InQueue(i))
<1>1. /\ \A i \in DOMAIN queue : i \in DOMAIN queue' /\ queue'[i] = queue[i]
      /\ queue'[Len(queue) + 1] = p
      /\ \A i \in DOMAIN queue' : i \in DOMAIN queue \/ i = Len(queue) + 1
  BY Emitted DEF IInv
<1>2. \A i \in DOMAIN queue : (IsRecord(i)' <=> IsRecord(i)) /\ (InQueue(i)' <=> InQueue(i))
  BY <1>1 DEF IsRecord, InQueue
<1>3. \A i \in DOMAIN queue' : IsRecord(i)' \/ InQueue(i)' => i \in DOMAIN queue
  BY <1>1 DEF IsRecord, InQueue
<1> QED BY <1>1, <1>2, <1>3

(* Such a packet leaves the discovery, or its absence, as it is.           *)
LEMMA FlowOther ==
  ASSUME IInv, NEW p \in Packet, p.kind \notin Discoveries \cup {"completed"}, Emit(p),
         UNCHANGED <<dpc, evt, index, special, num>>, op' = op,
         \A c \in Conns : \/ proc'[c] = proc[c]
                          \/ proc[c].op = "rssi" /\ proc'[c].op = "none",
         op.conn \in Conns, op.op \in Discoveries,
         ProcInv, QueueInv, StoreInv
  PROVE  ProcInv' /\ QueueInv' /\ StoreInv'
<1>1. /\ (RecordInHand' <=> RecordInHand) /\ (InHand' <=> InHand)
      /\ \A n : Record(n)' = Record(n)
  BY DEF RecordInHand, InHand, Record
<1>2. proc'[op.conn] = proc[op.conn]
  BY DEF ProcInv, InProgress, Discoveries
<1>3. (InProgress' <=> InProgress) /\ Sent' = Sent /\ Taken' = Taken
  BY <1>1, <1>2 DEF InProgress, Sent, Taken
<1>4. ProcInv'
  BY <1>2, <1>3 DEF ProcInv
<1>5. QueueInv'
  <2>1. \A i \in DOMAIN queue' : IsRecord(i)' =>
          /\ queue'[i] = Record(queue'[i].n)
          /\ Taken < queue'[i].n /\ queue'[i].n =< Sent
    BY QueueOther DEF QueueInv
  <2>2. \A i, j \in DOMAIN queue' :
          IsRecord(i)' /\ IsRecord(j)' /\ i < j => queue'[i].n < queue'[j].n
    BY QueueOther DEF QueueInv
  <2>3. \A n \in Taken + 1 .. Sent :
          \E i \in DOMAIN queue' : IsRecord(i)' /\ queue'[i].n = n
    BY QueueOther DEF QueueInv
  <2>4. \A i \in DOMAIN queue' : InQueue(i)' =>
          /\ ~InProgress /\ ~InHand
          /\ \A j \in DOMAIN queue' : InQueue(j)' => j = i
          /\ \A j \in DOMAIN queue' : IsRecord(j)' => j < i
    BY QueueOther DEF QueueInv
  <2> QED BY <1>1, <1>3, <2>1, <2>2, <2>3, <2>4 DEF QueueInv
<1>6. StoreInv'
  BY <1>1, <1>3 DEF StoreInv
<1> QED BY <1>4, <1>5, <1>6

LEMMA QuietOther ==
  ASSUME IInv, NEW p \in Packet, p.kind \notin Discoveries \cup {"completed"}, Emit(p),
         UNCHANGED <<dpc, evt>>,
         \A c \in Conns : proc'[c].op \in {proc[c].op, "none", "rssi"},
         Quiet
  PROVE  Quiet'
BY QueueOther DEF Quiet, RecordInHand

(* The next record of the discovery goes to the end of the queue.          *)
LEMMA FlowRecord ==
  ASSUME IInv, CallInv, Active, NEW c \in Conns, ReportRecord(c),
         ProcInv, QueueInv, StoreInv
  PROVE  ProcInv' /\ QueueInv' /\ StoreInv'
<1> DEFINE s == proc[op.conn].sent + 1
<1>1. c = op.conn /\ InProgress /\ op.conn \in Conns
  BY DEF ReportRecord, ProcInv, Active, CallInv, Discoveries
<1>2. /\ proc \in [Conns -> Procedure] /\ proc[op.conn] \in Procedure
      /\ proc[op.conn].op = op.op /\ proc[op.conn].call = op.no
      /\ proc[op.conn].found = op.found /\ op.op \in Discoveries
  BY <1>1 DEF IInv, Types, ProcInv, InProgress, Active
<1>3. /\ s \in Nat /\ s =< op.found /\ Sent = s - 1 /\ Sent \in Nat /\ Taken =< Sent
      /\ Taken \in Nat
  <2>1. proc[op.conn].sent \in Nat /\ proc[op.conn].sent < op.found /\ op.found \in Nat
    BY <1>1, <1>2 DEF ReportRecord, Procedure, CallInv
  <2>2. Sent = proc[op.conn].sent /\ Taken =< Sent
    BY <1>1 DEF Sent, ProcInv
  <2>3. Taken \in Nat
    BY DEF Taken, CallInv
  <2> QED BY <2>1, <2>2, <2>3
<1>4. proc' = [proc EXCEPT ![op.conn].sent = @ + 1]
  BY <1>1 DEF ReportRecord
<1>5. /\ proc'[op.conn].op = op.op /\ proc'[op.conn].call = op.no
      /\ proc'[op.conn].found = op.found /\ proc'[op.conn].sent = s
      /\ \A d \in Conns : d # op.conn => proc'[d] = proc[d]
  BY <1>1, <1>2, <1>4 DEF Procedure
<1>6. Record(s) \in Packet /\ Emit(Record(s)) /\ Record(s).n = s
      /\ Record(s).kind \in Discoveries /\ Record(s).kind # "completed"
  BY <1>1, <1>2, <1>3 DEF ReportRecord, Record, Pkt, Packet, Kinds, Discoveries, IInv, Types
<1> HIDE DEF s
<1>7. /\ UNCHANGED <<dpc, evt, index, special, num, apc, op>>
      /\ (RecordInHand' <=> RecordInHand)
      /\ (InHand' <=> InHand) /\ Taken' = Taken
      /\ \A n : Record(n)' = Record(n)
  BY SendFrame DEF Module
<1>8. InProgress' /\ Sent' = s
  BY <1>5, <1>7 DEF InProgress, Sent
<1>9. ProcInv'
  BY <1>3, <1>5, <1>7, <1>8 DEF ProcInv
<1>10. /\ Len(queue) \in Nat /\ DOMAIN queue = 1 .. Len(queue)
       /\ \A i \in DOMAIN queue : /\ i \in DOMAIN queue' /\ queue'[i] = queue[i]
                                  /\ (IsRecord(i)' <=> IsRecord(i))
                                  /\ ~InQueue(i)
       /\ Len(queue) + 1 \in DOMAIN queue' /\ queue'[Len(queue) + 1] = Record(s)
       /\ queue'[Len(queue) + 1].kind \in Discoveries
       /\ \A i \in DOMAIN queue' : i \in DOMAIN queue \/ i = Len(queue) + 1
  <2>1. /\ Len(queue) \in Nat /\ DOMAIN queue = 1 .. Len(queue)
        /\ \A i \in DOMAIN queue : i \in DOMAIN queue' /\ queue'[i] = queue[i]
        /\ Len(queue) + 1 \in DOMAIN queue' /\ queue'[Len(queue) + 1] = Record(s)
        /\ \A i \in DOMAIN queue' : i \in DOMAIN queue \/ i = Len(queue) + 1
    BY <1>6, Emitted DEF IInv
  <2>2. \A i \in DOMAIN queue : IsRecord(i)' <=> IsRecord(i)
    BY <2>1 DEF IsRecord
  <2>3. \A i \in DOMAIN queue : ~InQueue(i)
    BY <1>1 DEF QueueInv
  <2>4. queue'[Len(queue) + 1].kind \in Discoveries
    BY <1>6, <2>1 DEF IsRecord
  <2> QED BY <2>1, <2>2, <2>3, <2>4
<1>11. QueueInv'
  <2>1. \A i \in DOMAIN queue' : IsRecord(i)' =>
          /\ queue'[i] = Record(queue'[i].n)
          /\ Taken < queue'[i].n /\ queue'[i].n =< s
    <3>1. \A i \in DOMAIN queue : IsRecord(i) =>
            /\ queue[i] = Record(queue[i].n)
            /\ Taken < queue[i].n /\ queue[i].n \in Nat /\ queue[i].n =< s
      <4>1. \A i \in DOMAIN queue : queue[i].n \in Nat
        <5>1. \A i \in DOMAIN queue : queue[i] \in Packet
          BY DEF IInv, Types
        <5> QED BY <5>1 DEF Packet
      <4> QED BY <1>3, <4>1 DEF QueueInv
    <3> QED BY <1>3, <1>6, <1>10, <3>1
  <2>2. \A i, j \in DOMAIN queue' :
          IsRecord(i)' /\ IsRecord(j)' /\ i < j => queue'[i].n < queue'[j].n
    <3> SUFFICES ASSUME NEW i \in DOMAIN queue', NEW j \in DOMAIN queue',
                        IsRecord(i)', IsRecord(j)', i < j
                 PROVE  queue'[i].n < queue'[j].n
      OBVIOUS
    <3>1. i \in DOMAIN queue
      BY <1>10
    <3>2. CASE j \in DOMAIN queue
      BY <1>10, <3>1, <3>2 DEF QueueInv
    <3>3. CASE j = Len(queue) + 1
      <4>1. IsRecord(i) /\ queue'[i] = queue[i] /\ queue'[j].n = s
        BY <1>6, <1>10, <3>1, <3>3
      <4>2. queue[i].n =< Sent /\ queue[i] \in Packet
        BY <3>1, <4>1 DEF QueueInv, IInv, Types
      <4> QED BY <1>3, <4>1, <4>2 DEF Packet
    <3> QED BY <1>10, <3>2, <3>3
  <2>3. \A n \in Taken + 1 .. s :
          \E i \in DOMAIN queue' : IsRecord(i)' /\ queue'[i].n = n
    <3> SUFFICES ASSUME NEW n \in Taken + 1 .. s
                 PROVE  \E i \in DOMAIN queue' : IsRecord(i)' /\ queue'[i].n = n
      OBVIOUS
    <3>1. n = s \/ n \in Taken + 1 .. Sent
      BY <1>3
    <3>2. CASE n = s
      <4>1. queue'[Len(queue) + 1].n = n
        BY <1>6, <1>10, <3>2
      <4> QED BY <1>10, <4>1 DEF IsRecord
    <3>3. CASE n \in Taken + 1 .. Sent
      BY <1>10, <3>3 DEF QueueInv
    <3> QED BY <3>1, <3>2, <3>3
  <2>4. \A i \in DOMAIN queue' : ~InQueue(i)'
    BY <1>6, <1>10 DEF InQueue
  <2> QED BY <1>7, <1>8, <2>1, <2>2, <2>3, <2>4 DEF QueueInv
<1>12. StoreInv'
  <2>1. ~InHand
    BY <1>1 DEF StoreInv
  <2> QED BY <1>7, <2>1 DEF StoreInv
<1> QED BY <1>9, <1>11, <1>12

(* Its completed event follows the last record.                            *)
LEMMA FlowCompleted ==
  ASSUME IInv, CallInv, Active, ReportCompleted(op.conn), InProgress,
         ProcInv, QueueInv, StoreInv
  PROVE  ProcInv' /\ QueueInv' /\ StoreInv'
<1> DEFINE p == Pkt("completed", op.conn, op.no, op.found)
<1>1. op.conn \in Conns /\ op.op \in Discoveries
  BY DEF Active, CallInv
<1>2. /\ proc \in [Conns -> Procedure] /\ proc[op.conn] \in Procedure
      /\ proc[op.conn].op = op.op /\ proc[op.conn].call = op.no
      /\ proc[op.conn].found = op.found /\ proc[op.conn].sent = op.found
      /\ op.no \in Nat /\ op.found \in Nat
  BY <1>1 DEF IInv, Types, ProcInv, InProgress, ReportCompleted, CallInv
<1>3. Sent = op.found /\ Taken =< Sent /\ Taken \in Nat
  BY <1>2 DEF Sent, ProcInv, Taken, CallInv
<1>4. /\ proc'[op.conn].op = "none"
      /\ \A d \in Conns : d # op.conn => proc'[d] = proc[d]
  BY <1>1, <1>2 DEF ReportCompleted, NoProc
<1>5. p \in Packet /\ Emit(p) /\ p.kind = "completed"
  BY <1>1, <1>2 DEF ReportCompleted, Pkt, Packet, Kinds, Discoveries
<1> HIDE DEF p
<1>6. /\ UNCHANGED <<dpc, evt, index, special, num, apc, op>>
      /\ (RecordInHand' <=> RecordInHand)
      /\ (InHand' <=> InHand) /\ Taken' = Taken
      /\ \A n : Record(n)' = Record(n)
  BY <1>1, SendFrame DEF Module
<1>7. ~InProgress' /\ Sent' = Sent
  BY <1>1, <1>3, <1>4, <1>6 DEF InProgress, Sent, Discoveries
<1>8. ProcInv'
  BY <1>3, <1>4, <1>6, <1>7 DEF ProcInv
<1>9. /\ Len(queue) \in Nat /\ DOMAIN queue = 1 .. Len(queue)
      /\ \A i \in DOMAIN queue : /\ i \in DOMAIN queue' /\ queue'[i] = queue[i]
                                 /\ (IsRecord(i)' <=> IsRecord(i)) /\ ~InQueue(i)'
      /\ \A i \in DOMAIN queue' : IsRecord(i)' =>
           i \in DOMAIN queue /\ IsRecord(i) /\ queue'[i] = queue[i]
      /\ \A i \in DOMAIN queue' : i \in DOMAIN queue \/ i = Len(queue) + 1
  <2>1. /\ Len(queue) \in Nat /\ DOMAIN queue = 1 .. Len(queue)
        /\ \A i \in DOMAIN queue : i \in DOMAIN queue' /\ queue'[i] = queue[i]
        /\ queue'[Len(queue) + 1] = p
        /\ \A i \in DOMAIN queue' : i \in DOMAIN queue \/ i = Len(queue) + 1
    BY <1>5, Emitted DEF IInv
  <2>2. \A i \in DOMAIN queue : IsRecord(i)' <=> IsRecord(i)
    BY <2>1 DEF IsRecord
  <2>3. \A i \in DOMAIN queue : ~InQueue(i)
    BY DEF QueueInv
  <2>4. \A i \in DOMAIN queue : ~InQueue(i)'
    BY <2>1, <2>3 DEF InQueue
  <2>5. queue'[Len(queue) + 1].kind \notin Discoveries
    BY <1>5, <2>1 DEF IsRecord, Discoveries
  <2>6. \A i \in DOMAIN queue' : IsRecord(i)' =>
          i \in DOMAIN queue /\ IsRecord(i) /\ queue'[i] = queue[i]
    BY <2>1, <2>2, <2>5 DEF IsRecord
  <2> QED BY <2>1, <2>2, <2>4, <2>5, <2>6
<1>10. QueueInv'
  <2>1. \A i \in DOMAIN queue' : IsRecord(i)' =>
          /\ queue'[i] = Record(queue'[i].n)
          /\ Taken < queue'[i].n /\ queue'[i].n =< Sent
    BY <1>9 DEF QueueInv
  <2>2. \A i, j \in DOMAIN queue' :
          IsRecord(i)' /\ IsRecord(j)' /\ i < j => queue'[i].n < queue'[j].n
    BY <1>9 DEF QueueInv
  <2>3. \A n \in Taken + 1 .. Sent :
          \E i \in DOMAIN queue' : IsRecord(i)' /\ queue'[i].n = n
    BY <1>9 DEF QueueInv
  <2>4. \A i \in DOMAIN queue' : InQueue(i)' =>
          /\ ~InProgress' /\ ~InHand'
          /\ \A j \in DOMAIN queue' : InQueue(j)' => j = i
          /\ \A j \in DOMAIN queue' : IsRecord(j)' => j < i
    <3>1. ~InHand'
      BY <1>6 DEF StoreInv
    <3>2. \A i \in DOMAIN queue' : InQueue(i)' => i = Len(queue) + 1
      BY <1>9
    <3>3. \A j \in DOMAIN queue' : IsRecord(j)' => j < Len(queue) + 1
      BY <1>9
    <3> QED BY <1>7, <3>1, <3>2, <3>3
  <2> QED BY <1>6, <1>7, <2>1, <2>2, <2>3, <2>4 DEF QueueInv
<1>11. StoreInv'
  <2>1. ~InHand'
    BY <1>6 DEF StoreInv
  <2> QED BY <1>6, <2>1 DEF StoreInv
<1> QED BY <1>8, <1>10, <1>11

LEMMA CalmModule ==
  ASSUME IInv, CallInv, CalmInv, Module
  PROVE  CalmInv'
<1> SUFFICES ASSUME calm PROVE CalmInv'
  BY SendFrame DEF CalmInv
<1>1. /\ UNCHANGED <<dpc, evt, index, special, num, apc, op, calm>>
      /\ (Active' <=> Active) /\ (InHand' <=> InHand)
      /\ CopyInv' /\ DiscoveryIsWhole'
  BY SendFrame DEF CalmInv
<1>2. proc \in [Conns -> Procedure]
  BY DEF IInv, Types
<1>3. \/ \E p \in Packet :
           /\ p.kind \notin Discoveries \cup {"completed"} /\ Emit(p)
           /\ \A c \in Conns : \/ proc'[c] = proc[c]
                               \/ proc[c].op = "rssi" /\ proc'[c].op = "none"
      \/ \E c \in Conns : proc[c].op \notin {"none", "rssi"}
                          /\ (ReportRecord(c) \/ ReportCompleted(c))
  <2>1. ASSUME ReportOther
        PROVE  \E p \in Packet :
                 /\ p.kind \notin Discoveries \cup {"completed"} /\ Emit(p)
                 /\ \A c \in Conns : proc'[c] = proc[c]
    BY <2>1 DEF ReportOther, Pkt, Packet, Kinds, Discoveries
  <2>2. ASSUME NEW c \in Conns, ReportCompleted(c), proc[c].op = "rssi"
        PROVE  \E p \in Packet :
                 /\ p.kind \notin Discoveries \cup {"completed"} /\ Emit(p)
                 /\ \A d \in Conns : \/ proc'[d] = proc[d]
                                     \/ proc[d].op = "rssi" /\ proc'[d].op = "none"
    <3>1. Pkt("rssi", c, proc[c].call, proc[c].found) \in Packet
      BY <1>2 DEF Pkt, Packet, Kinds, Procedure
    <3>2. \A d \in Conns : \/ proc'[d] = proc[d]
                           \/ proc[d].op = "rssi" /\ proc'[d].op = "none"
      BY <1>2, <2>2 DEF ReportCompleted, NoProc
    <3> QED BY <2>2, <3>1, <3>2 DEF ReportCompleted, Pkt, Discoveries
  <2>3. ASSUME NEW c \in Conns, ReportRecord(c) PROVE proc[c].op \notin {"none", "rssi"}
    BY <2>3 DEF ReportRecord, Discoveries
  <2> QED BY <2>1, <2>2, <2>3 DEF Module, ReportCompleted
<1>4. ASSUME Active PROVE ProcInv' /\ QueueInv' /\ StoreInv'
  <2>1. ProcInv /\ QueueInv /\ StoreInv /\ op.conn \in Conns /\ op.op \in Discoveries
    BY <1>4 DEF CalmInv, Active, CallInv
  <2>2. ASSUME NEW p \in Packet, p.kind \notin Discoveries \cup {"completed"}, Emit(p),
               \A c \in Conns : \/ proc'[c] = proc[c]
                                \/ proc[c].op = "rssi" /\ proc'[c].op = "none"
        PROVE  ProcInv' /\ QueueInv' /\ StoreInv'
    BY <1>1, <2>1, <2>2, FlowOther
  <2>3. ASSUME NEW c \in Conns, proc[c].op \notin {"none", "rssi"},
               ReportRecord(c) \/ ReportCompleted(c)
        PROVE  ProcInv' /\ QueueInv' /\ StoreInv'
    <3>1. c = op.conn /\ InProgress
      BY <2>1, <2>3 DEF ProcInv
    <3> QED BY <1>4, <2>1, <2>3, <3>1, FlowRecord, FlowCompleted
  <2> QED BY <1>3, <2>2, <2>3
<1>5. ASSUME ~Active PROVE Quiet'
  <2>1. Quiet
    BY <1>5 DEF CalmInv
  <2>2. \A c \in Conns : proc[c].op \in {"none", "rssi"}
    BY <2>1 DEF Quiet
  <2>3. PICK p \in Packet :
          /\ p.kind \notin Discoveries \cup {"completed"} /\ Emit(p)
          /\ \A c \in Conns : \/ proc'[c] = proc[c]
                              \/ proc[c].op = "rssi" /\ proc'[c].op = "none"
    BY <1>3, <2>2
  <2> QED BY <1>1, <2>1, <2>3, QuietOther
<1>6. ~Active /\ apc \in {"idle", "sent", "wait"} => num = 0 /\ ~InHand
  BY DEF CalmInv
<1> QED BY <1>1, <1>4, <1>5, <1>6 DEF CalmInv
-----------------------------------------------------------------------------
(* The driver's steps.                                                     *)

LEMMA DriverFrame ==
  ASSUME Driver
  PROVE  /\ UNCHANGED <<proc, apc, op, len, list, result, calm>>
         /\ (Active' <=> Active) /\ (InProgress' <=> InProgress) /\ Sent' = Sent
         /\ \A n : Record(n)' = Record(n)
         /\ (DiscoveryIsWhole' <=> DiscoveryIsWhole)
<1>1. UNCHANGED <<proc, apc, op, len, list, result, calm>>
  BY DEF Driver, ReadResponse, TakePacket, StoreRecord, CountRecord, PassPacket,
     moduleVars, callVars
<1>2. (Active' <=> Active) /\ (InProgress' <=> InProgress) /\ \A n : Record(n)' = Record(n)
  BY <1>1 DEF Active, InProgress, Record
<1>3. Sent' = Sent
  BY <1>1, <1>2 DEF Sent
<1>4. DiscoveryIsWhole' <=> DiscoveryIsWhole
  BY <1>1 DEF DiscoveryIsWhole
<1> QED BY <1>1, <1>2, <1>3, <1>4

(* The oldest packet comes in hand, the others move up.                    *)
LEMMA TakeFrame ==
  ASSUME IInv, TakePacket
  PROVE  /\ 1 \in DOMAIN queue /\ evt' = queue[1] /\ queue[1] \in Packet
         /\ queue' \in Seq(Packet) /\ DOMAIN queue' \subseteq Nat
         /\ \A i \in DOMAIN queue' :
              /\ i + 1 \in DOMAIN queue /\ i + 1 > 1 /\ queue'[i] = queue[i + 1]
              /\ (IsRecord(i)' <=> IsRecord(i + 1)) /\ (InQueue(i)' <=> InQueue(i + 1))
         /\ \A i \in DOMAIN queue :
              i # 1 => \E j \in DOMAIN queue' : queue'[j] = queue[i] /\ i = j + 1
<1>1. /\ evt' = Head(queue) /\ queue' = Tail(queue) /\ queue # <<>>
      /\ queue \in Seq(Packet)
  BY DEF TakePacket, IInv, Types
<1>2. Len(queue) \in Nat /\ Len(queue) > 0 /\ DOMAIN queue = 1 .. Len(queue)
  BY <1>1
<1>3. /\ evt' = queue[1] /\ 1 \in DOMAIN queue /\ queue[1] \in Packet
      /\ queue' \in Seq(Packet) /\ DOMAIN queue' = 1 .. Len(queue) - 1
      /\ \A i \in DOMAIN queue' : i + 1 \in DOMAIN queue /\ i + 1 > 1
                                  /\ queue'[i] = queue[i + 1]
  BY <1>1, <1>2
<1>4. \A i \in DOMAIN queue' :
        (IsRecord(i)' <=> IsRecord(i + 1)) /\ (InQueue(i)' <=> InQueue(i + 1))
  BY <1>3 DEF IsRecord, InQueue
<1>5. ASSUME NEW i \in DOMAIN queue, i # 1
      PROVE  \E j \in DOMAIN queue' : queue'[j] = queue[i] /\ i = j + 1
  <2>1. i - 1 \in DOMAIN queue' /\ i = (i - 1) + 1
    BY <1>2, <1>3, <1>5
  <2> QED BY <1>3, <2>1
<1>6. DOMAIN queue' \subseteq Nat
  BY <1>2, <1>3
<1> QED BY <1>3, <1>4, <1>5, <1>6

LEMMA SentType ==
  ASSUME IInv, CallInv, Active
  PROVE  Sent \in Nat
<1>1. proc[op.conn] \in Procedure
  BY DEF IInv, Types, Active, CallInv
<1> QED BY <1>1 DEF Sent, Procedure, CallInv

(* The record taken is the next one: none is missing before it.            *)
LEMMA NextTaken ==
  ASSUME IInv, CallInv, Active, ProcInv, QueueInv, TakePacket
  PROVE  /\ Taken = num /\ ~RecordInHand /\ dpc' = "handle"
         /\ evt'.kind \in Discoveries =>
              evt' = Record(num + 1) /\ evt'.n = num + 1 /\ num + 1 =< Sent
         /\ evt'.kind \in Discoveries => Taken' = num + 1
         /\ evt'.kind \notin Discoveries => Taken' = num
<1>1. dpc \in {"take", "response"} /\ dpc' = "handle" /\ num' = num
  BY DEF TakePacket
<1>2. ~RecordInHand /\ Taken = num /\ num \in Nat
  BY <1>1 DEF RecordInHand, Taken, CallInv
<1>3. ASSUME evt'.kind \in Discoveries
      PROVE  evt' = Record(num + 1) /\ evt'.n = num + 1 /\ num + 1 =< Sent
  <2>1. 1 \in DOMAIN queue /\ evt' = queue[1] /\ IsRecord(1) /\ queue[1].n \in Nat
        /\ DOMAIN queue \subseteq Nat \ {0}
    BY <1>3, TakeFrame DEF IsRecord, Packet, IInv, Types
  <2>2. evt' = Record(evt'.n) /\ num < evt'.n /\ evt'.n =< Sent
    BY <1>2, <2>1 DEF QueueInv
  <2>3. Sent \in Nat
    BY SentType
  <2>4. num + 1 \in Taken + 1 .. Sent
    BY <1>2, <2>1, <2>2, <2>3
  <2>5. PICK i \in DOMAIN queue : IsRecord(i) /\ queue[i].n = num + 1
    BY <2>4 DEF QueueInv
  <2>6. i = 1
    <3> SUFFICES ASSUME i # 1 PROVE FALSE
      OBVIOUS
    <3>1. 1 < i
      BY <2>1
    <3>2. queue[1].n < num + 1
      BY <2>1, <2>5, <3>1 DEF QueueInv
    <3> QED BY <1>2, <2>1, <2>2, <3>2
  <2> QED BY <2>1, <2>2, <2>4, <2>5, <2>6, <1>2, <2>3
<1>4. /\ evt'.kind \in Discoveries => Taken' = num + 1
      /\ evt'.kind \notin Discoveries => Taken' = num
  BY <1>1 DEF Taken, RecordInHand
<1> QED BY <1>1, <1>2, <1>3, <1>4

LEMMA FlowTake ==
  ASSUME IInv, CallInv, Active, TakePacket, ProcInv, QueueInv, StoreInv
  PROVE  ProcInv' /\ QueueInv' /\ StoreInv'
<1>1. /\ UNCHANGED <<proc, op, num, special>>
      /\ (InProgress' <=> InProgress) /\ Sent' = Sent /\ \A n : Record(n)' = Record(n)
  BY DriverFrame DEF Driver, TakePacket
<1>2. /\ num \in Nat /\ Sent \in Nat /\ op.found \in Nat /\ Taken = num
      /\ Taken' \in {num, num + 1} /\ num =< Taken' /\ dpc' = "handle"
      /\ Taken' =< Sent
  BY NextTaken, SentType DEF CallInv, ProcInv
<1>3. ProcInv'
  BY <1>1, <1>2 DEF ProcInv
<1>4. ASSUME IsRecord(1)
      PROVE  Taken' = num + 1 /\ queue[1].n = num + 1
  BY <1>4, TakeFrame, NextTaken DEF IsRecord
<1>5. ASSUME ~IsRecord(1) PROVE Taken' = num
  BY <1>5, TakeFrame, NextTaken DEF IsRecord
<1>6. \A i \in DOMAIN queue : queue[i].n \in Nat
  <2>1. \A i \in DOMAIN queue : queue[i] \in Packet
    BY DEF IInv, Types
  <2> QED BY <2>1 DEF Packet
<1>7. InHand' => InQueue(1) /\ 1 \in DOMAIN queue
  BY TakeFrame DEF InHand, InQueue
<1>8. QueueInv'
  <2>1. \A i \in DOMAIN queue' : IsRecord(i)' =>
          /\ queue'[i] = Record(queue'[i].n)
          /\ Taken' < queue'[i].n /\ queue'[i].n =< Sent
    <3> SUFFICES ASSUME NEW i \in DOMAIN queue', IsRecord(i)'
                 PROVE  /\ queue'[i] = Record(queue'[i].n)
                        /\ Taken' < queue'[i].n /\ queue'[i].n =< Sent
      OBVIOUS
    <3>1. /\ i + 1 \in DOMAIN queue /\ 1 < i + 1 /\ queue'[i] = queue[i + 1]
          /\ IsRecord(i + 1) /\ 1 \in DOMAIN queue
      BY TakeFrame
    <3>2. /\ queue'[i] = Record(queue'[i].n)
          /\ Taken < queue'[i].n /\ queue'[i].n =< Sent
      BY <3>1 DEF QueueInv
    <3>3. IsRecord(1) => queue[1].n < queue[i + 1].n
      BY <3>1 DEF QueueInv
    <3> QED BY <1>2, <1>4, <1>5, <3>1, <3>2, <3>3
  <2>2. \A i, j \in DOMAIN queue' :
          IsRecord(i)' /\ IsRecord(j)' /\ i < j => queue'[i].n < queue'[j].n
    <3> SUFFICES ASSUME NEW i \in DOMAIN queue', NEW j \in DOMAIN queue',
                        IsRecord(i)', IsRecord(j)', i < j
                 PROVE  queue'[i].n < queue'[j].n
      OBVIOUS
    <3>1. /\ i + 1 \in DOMAIN queue /\ j + 1 \in DOMAIN queue
          /\ IsRecord(i + 1) /\ IsRecord(j + 1) /\ i \in Nat /\ j \in Nat
          /\ queue'[i] = queue[i + 1] /\ queue'[j] = queue[j + 1]
      BY TakeFrame
    <3>2. i + 1 < j + 1
      BY <3>1
    <3> QED BY <3>1, <3>2 DEF QueueInv
  <2>3. \A n \in Taken' + 1 .. Sent :
          \E i \in DOMAIN queue' : IsRecord(i)' /\ queue'[i].n = n
    <3> SUFFICES ASSUME NEW n \in Taken' + 1 .. Sent
                 PROVE  \E i \in DOMAIN queue' : IsRecord(i)' /\ queue'[i].n = n
      OBVIOUS
    <3>1. n \in Taken + 1 .. Sent /\ n > Taken'
      <4> DEFINE taken == Taken'
      <4>0. Taken' \in Nat
        BY <1>2
      <4>1. n \in taken + 1 .. Sent /\ taken \in Nat /\ num =< taken
        BY <1>2, <4>0
      <4> HIDE DEF taken
      <4>2. n \in num + 1 .. Sent /\ n > taken
        BY <1>2, <4>1
      <4> QED BY <1>2, <4>2 DEF taken
    <3>2. PICK i \in DOMAIN queue : IsRecord(i) /\ queue[i].n = n
      BY <3>1 DEF QueueInv
    <3>3. i # 1
      BY <1>2, <1>4, <3>1, <3>2
    <3>4. PICK j \in DOMAIN queue' : queue'[j] = queue[i] /\ i = j + 1
      BY <3>3, TakeFrame
    <3> QED BY <3>2, <3>4 DEF IsRecord
  <2>4. ASSUME NEW i \in DOMAIN queue', InQueue(i)'
        PROVE  /\ ~InProgress /\ ~InHand'
               /\ \A j \in DOMAIN queue' : InQueue(j)' => j = i
               /\ \A j \in DOMAIN queue' : IsRecord(j)' => j < i
    <3>1. i + 1 \in DOMAIN queue /\ InQueue(i + 1) /\ i + 1 > 1 /\ i \in Nat
      BY <2>4, TakeFrame
    <3>2. ~InProgress
      BY <3>1 DEF QueueInv
    <3>3. ~InHand'
      BY <1>7, <3>1 DEF QueueInv
    <3>4. ASSUME NEW j \in DOMAIN queue', InQueue(j)' PROVE j = i
      <4>1. j + 1 \in DOMAIN queue /\ InQueue(j + 1) /\ j \in Nat
        BY <3>4, TakeFrame
      <4>2. j + 1 = i + 1
        BY <3>1, <4>1 DEF QueueInv
      <4> QED BY <3>1, <4>1, <4>2
    <3>5. ASSUME NEW j \in DOMAIN queue', IsRecord(j)' PROVE j < i
      <4>1. j + 1 \in DOMAIN queue /\ IsRecord(j + 1) /\ j \in Nat
        BY <3>5, TakeFrame
      <4>2. j + 1 < i + 1
        BY <3>1, <4>1 DEF QueueInv
      <4> QED BY <3>1, <4>1, <4>2
    <3> QED BY <3>2, <3>3, <3>4, <3>5
  <2> QED BY <1>1, <2>1, <2>2, <2>3, <2>4 DEF QueueInv
<1>9. InHand' => ~InProgress /\ num = op.found
  <2> SUFFICES ASSUME InHand' PROVE ~InProgress /\ num = op.found
    OBVIOUS
  <2>1. InQueue(1) /\ 1 \in DOMAIN queue /\ DOMAIN queue \subseteq Nat \ {0}
    BY <1>7 DEF IInv, Types
  <2>2. ~InProgress /\ \A j \in DOMAIN queue : ~IsRecord(j)
    BY <2>1 DEF QueueInv
  <2>3. ~(num < Sent)
    <3> SUFFICES ASSUME num < Sent PROVE FALSE
      OBVIOUS
    <3>1. num + 1 \in Taken + 1 .. Sent
      BY <1>2
    <3> QED BY <2>2, <3>1 DEF QueueInv
  <2> QED BY <1>2, <2>2, <2>3 DEF Sent
<1>10. StoreInv'
  <2>1. RecordInHand' => evt' = Record(num + 1)
    BY NextTaken DEF RecordInHand
  <2> QED BY <1>1, <1>2, <1>9, <2>1 DEF StoreInv
<1> QED BY <1>3, <1>8, <1>10

(* The queue and what is taken of it stay.                                 *)
LEMMA FlowStays ==
  ASSUME QueueInv, ProcInv, UNCHANGED <<proc, op, queue>>, Taken' = Taken,
         InHand' <=> InHand
  PROVE  QueueInv' /\ ProcInv'
<1>1. /\ (InProgress' <=> InProgress) /\ \A n : Record(n)' = Record(n)
      /\ \A i : (IsRecord(i)' <=> IsRecord(i)) /\ (InQueue(i)' <=> InQueue(i))
  BY DEF InProgress, Record, IsRecord, InQueue
<1>2. Sent' = Sent
  BY <1>1 DEF Sent
<1>3. QueueInv'
  BY <1>1, <1>2 DEF QueueInv
<1>4. ProcInv'
  BY <1>1, <1>2 DEF ProcInv
<1> QED BY <1>3, <1>4

LEMMA FlowStore ==
  ASSUME IInv, CallInv, Active, StoreRecord, ProcInv, QueueInv, StoreInv
  PROVE  ProcInv' /\ QueueInv' /\ StoreInv'
<1>1. /\ UNCHANGED <<proc, op, queue, evt, num>> /\ dpc' = "count" /\ dpc = "handle"
      /\ RecordInHand /\ index' = num
      /\ special' = [special EXCEPT ![num + 1] = evt]
  BY DEF StoreRecord, moduleVars, callVars, RecordInHand, Slot
<1>2. /\ (InProgress' <=> InProgress) /\ (InHand' <=> InHand) /\ ~RecordInHand'
      /\ \A n : Record(n)' = Record(n)
  BY <1>1 DEF InProgress, InHand, RecordInHand, Record
<1>3. Taken = num + 1 /\ Taken' = num + 1
  BY <1>1 DEF Taken
<1>4. num + 1 \in 1 .. SpecialMax
  BY DEF StoreRecord, Slot, CallInv
<1>5. /\ special'[num + 1] = Record(num + 1)
      /\ \A k \in 1 .. num : special'[k] = Record(k)
  <2>1. special \in [1 .. SpecialMax -> Packet] /\ num \in Nat /\ evt = Record(num + 1)
        /\ \A k \in 1 .. num : special[k] = Record(k)
    BY <1>1 DEF CallInv, StoreInv
  <2> QED BY <1>1, <1>4, <2>1
<1>6. ~InHand /\ evt.kind \in Discoveries
  BY <1>1 DEF RecordInHand, InHand, Discoveries
<1>7. StoreInv'
  BY <1>1, <1>2, <1>5, <1>6 DEF StoreInv
<1> QED BY <1>1, <1>2, <1>3, <1>7, FlowStays

LEMMA FlowCount ==
  ASSUME IInv, CallInv, Active, CountRecord, ProcInv, QueueInv, StoreInv
  PROVE  ProcInv' /\ QueueInv' /\ StoreInv'
<1>1. /\ UNCHANGED <<proc, op, queue, evt, special>> /\ dpc = "count" /\ dpc' = "take"
      /\ index = num /\ num' = num + 1 /\ num \in Nat
  BY DEF CountRecord, moduleVars, callVars, StoreInv, CallInv, Counted
<1>2. /\ (InProgress' <=> InProgress) /\ (InHand' <=> InHand) /\ ~RecordInHand'
      /\ \A n : Record(n)' = Record(n)
  BY <1>1 DEF InProgress, InHand, RecordInHand, Record
<1>3. Taken = num + 1 /\ Taken' = num + 1
  BY <1>1, <1>2 DEF Taken
<1>4. ~InHand
  BY <1>1 DEF StoreInv, InHand, Discoveries
<1>5. \A k \in 1 .. num + 1 : special[k] = Record(k)
  BY <1>1 DEF StoreInv
<1>6. StoreInv'
  BY <1>1, <1>2, <1>4, <1>5 DEF StoreInv
<1> QED BY <1>1, <1>2, <1>3, <1>6, FlowStays

LEMMA FlowPass ==
  ASSUME IInv, CallInv, PassPacket \/ ReadResponse, ProcInv, QueueInv, StoreInv
  PROVE  ProcInv' /\ QueueInv' /\ StoreInv'
<1>1. /\ UNCHANGED <<proc, op, queue, evt, special, num, index>>
      /\ dpc # "count" /\ dpc' \in {"take", "response"} /\ ~RecordInHand
  BY DEF PassPacket, ReadResponse, moduleVars, callVars, RecordInHand
<1>2. /\ (InProgress' <=> InProgress) /\ (InHand' <=> InHand) /\ ~RecordInHand'
      /\ \A n : Record(n)' = Record(n)
  BY <1>1 DEF InProgress, InHand, RecordInHand, Record
<1>3. Taken = num /\ Taken' = num
  BY <1>1, <1>2 DEF Taken
<1>4. StoreInv'
  BY <1>1, <1>2 DEF StoreInv
<1> QED BY <1>1, <1>2, <1>3, <1>4, FlowStays

LEMMA CalmDriver ==
  ASSUME IInv, CallInv, CalmInv, Driver
  PROVE  CalmInv'
<1> SUFFICES ASSUME calm PROVE CalmInv'
  BY DriverFrame DEF CalmInv
<1>1. /\ UNCHANGED <<proc, apc, op, len, list, result, calm>>
      /\ (Active' <=> Active) /\ DiscoveryIsWhole'
      /\ \A n : Record(n)' = Record(n)
  BY DriverFrame DEF CalmInv
<1>2. ASSUME Active PROVE ProcInv' /\ QueueInv' /\ StoreInv' /\ CopyInv'
  <2>1. ProcInv /\ QueueInv /\ StoreInv
    BY <1>2 DEF CalmInv
  <2>2. CopyInv'
    BY <1>1, <1>2 DEF Active, CopyInv
  <2> QED BY <1>2, <2>1, <2>2, FlowTake, FlowStore, FlowCount, FlowPass DEF Driver
<1>3. ASSUME ~Active
      PROVE  /\ Quiet' /\ CopyInv' /\ num' = num /\ (InHand' => InHand)
  <2>1. Quiet /\ CopyInv
    BY <1>3 DEF CalmInv
  <2>2. ReadResponse \/ TakePacket \/ PassPacket
    BY <2>1 DEF Driver, StoreRecord, CountRecord, Quiet, RecordInHand
  <2>3. UNCHANGED <<num, special>> /\ dpc' # "count"
    BY <2>2 DEF ReadResponse, TakePacket, PassPacket
  <2>4. CopyInv'
    BY <1>1, <2>1, <2>3 DEF CopyInv
  <2>5. ASSUME TakePacket PROVE Quiet' /\ ~InHand'
    <3>1. /\ evt' = queue[1] /\ 1 \in DOMAIN queue /\ ~IsRecord(1) /\ ~InQueue(1)
          /\ \A i \in DOMAIN queue' : ~IsRecord(i)' /\ ~InQueue(i)'
      BY <2>1, <2>5, TakeFrame DEF Quiet
    <3>2. ~RecordInHand' /\ ~InHand'
      BY <3>1 DEF RecordInHand, InHand, IsRecord, InQueue
    <3> QED BY <1>1, <2>1, <2>3, <3>1, <3>2 DEF Quiet
  <2>6. ASSUME ReadResponse \/ PassPacket PROVE Quiet' /\ (InHand' <=> InHand)
    <3>1. UNCHANGED <<queue, evt>> /\ dpc' \in {"take", "response"}
      BY <2>6 DEF ReadResponse, PassPacket
    <3> QED BY <1>1, <2>1, <3>1 DEF Quiet, IsRecord, InQueue, RecordInHand, InHand
  <2> QED BY <2>2, <2>3, <2>4, <2>5, <2>6
<1>4. ~Active /\ apc \in {"idle", "sent", "wait"} => num = 0 /\ ~InHand
  BY DEF CalmInv
<1> QED BY <1>1, <1>2, <1>3, <1>4 DEF CalmInv
-----------------------------------------------------------------------------
(* The caller's steps.                                                     *)

(* What is not under way does not start by a step of a running call.       *)
LEMMA QuietCall ==
  ASSUME Quiet, UNCHANGED <<proc, queue, dpc>>,
         evt' = evt \/ evt'.kind = "none"
  PROVE  Quiet'
<1>1. RecordInHand' => RecordInHand
  BY DEF RecordInHand, Discoveries
<1> QED BY <1>1 DEF Quiet, IsRecord, InQueue

(* Calls that end without having waited for a discovery.                   *)
LEMMA CalmReturn ==
  ASSUME IInv, CallInv, CalmInv, calm, Refused \/ ReadStarted \/ RssiSeen
  PROVE  CalmInv'
<1>1. /\ UNCHANGED <<proc, queue, dpc, evt, num>> /\ apc' = "idle"
      /\ apc \in {"sent", "wait"} /\ ~Active
      /\ result'.op \notin Discoveries \/ result'.outcome # "success"
  <2>1. /\ UNCHANGED <<proc, queue, dpc, evt, num>> /\ apc' = "idle"
        /\ apc \in {"sent", "wait"}
    BY DEF Refused, ReadStarted, RssiSeen, Return, moduleVars, driverVars
  <2>2. ~op.accepted \/ op.op \in {"read", "rssi"}
    BY DEF Refused, ReadStarted, RssiSeen
  <2>3. ~Active
    BY <2>2 DEF Active, Discoveries
  <2>4. /\ result'.op = op.op
        /\ op.op \in Discoveries => result'.outcome = "unknown"
    <3>1. CASE Refused
      BY <3>1 DEF Refused, Return
    <3>2. CASE ReadStarted
      BY <3>2 DEF ReadStarted, Return, Discoveries
    <3>3. CASE RssiSeen
      BY <3>3 DEF RssiSeen, Return, Discoveries
    <3> QED BY <3>1, <3>2, <3>3
  <2> QED BY <2>1, <2>3, <2>4
<1>2. Quiet /\ num = 0 /\ ~InHand
  BY <1>1 DEF CalmInv
<1>3. Quiet'
  BY <1>1, <1>2, QuietCall
<1>4. ~Active' /\ ~InHand' /\ CopyInv' /\ DiscoveryIsWhole'
  BY <1>1, <1>2 DEF Active, InHand, CopyInv, DiscoveryIsWhole
<1> QED BY <1>1, <1>2, <1>3, <1>4 DEF CalmInv

LEMMA CalmBegin ==
  ASSUME IInv, CallInv, CalmInv, calm, BeginWait
  PROVE  CalmInv'
<1>1. /\ UNCHANGED <<proc, queue, dpc, evt, index, special, num, op>>
      /\ apc' = "wait" /\ apc = "sent"
  BY DEF BeginWait, moduleVars, driverVars
<1>2. /\ (Active' <=> Active) /\ (InHand' <=> InHand) /\ (InProgress' <=> InProgress)
      /\ (RecordInHand' <=> RecordInHand) /\ \A n : Record(n)' = Record(n)
  BY <1>1 DEF Active, InHand, InProgress, RecordInHand, Record
<1>3. Taken' = Taken
  BY <1>1, <1>2 DEF Taken
<1>4. ASSUME Active PROVE ProcInv' /\ QueueInv' /\ StoreInv'
  <2>1. ProcInv /\ QueueInv /\ StoreInv
    BY <1>4 DEF CalmInv
  <2>2. StoreInv'
    BY <1>1, <1>2, <2>1 DEF StoreInv
  <2> QED BY <1>1, <1>2, <1>3, <2>1, <2>2, FlowStays
<1>5. ASSUME ~Active PROVE Quiet' /\ num = 0 /\ ~InHand
  BY <1>1, <1>5, QuietCall DEF CalmInv
<1>6. CopyInv' /\ DiscoveryIsWhole'
  BY <1>1 DEF CopyInv, DiscoveryIsWhole
<1> QED BY <1>1, <1>2, <1>4, <1>5, <1>6 DEF CalmInv

(* The completed event in hand: all the records are stored and the driver  *)
(* has none left to take.                                                  *)
LEMMA CalmCompleted ==
  ASSUME IInv, CallInv, CalmInv, calm, CompletedSeen
  PROVE  CalmInv'
<1>1. /\ UNCHANGED <<proc, queue, dpc, evt, special, num, op>>
      /\ apc' = "copy" /\ apc = "wait" /\ len' = num
      /\ InHand /\ Active
  BY DEF CompletedSeen, moduleVars, driverVars, InHand, Active, CallInv
<1>2. ProcInv /\ QueueInv /\ StoreInv
  BY <1>1 DEF CalmInv
<1>3. ~InProgress /\ num = op.found /\ op.found \in Nat
  BY <1>1, <1>2 DEF StoreInv, CallInv
<1>4. Sent = num /\ Taken = num /\ dpc # "count" /\ ~RecordInHand
  <2>1. Sent = num
    BY <1>3 DEF Sent
  <2> QED BY <1>2, <1>3, <2>1 DEF ProcInv, Taken
<1>5. Quiet
  <2>1. \A c \in Conns : proc[c].op \in {"none", "rssi"}
    BY <1>2, <1>3 DEF ProcInv
  <2>2. \A i \in DOMAIN queue : ~InQueue(i)
    BY <1>1, <1>2 DEF QueueInv
  <2>3. \A i \in DOMAIN queue : ~IsRecord(i)
    <3> SUFFICES ASSUME NEW i \in DOMAIN queue, IsRecord(i) PROVE FALSE
      OBVIOUS
    <3>1. num < queue[i].n /\ queue[i].n =< num /\ queue[i].n \in Nat
      <4>1. queue[i] \in Packet
        BY DEF IInv, Types
      <4> QED BY <1>2, <1>4, <4>1 DEF QueueInv, Packet
    <3> QED BY <1>3, <3>1
  <2> QED BY <1>4, <2>1, <2>2, <2>3 DEF Quiet
<1>6. Quiet'
  BY <1>1, <1>5, QuietCall
<1>7. CopyInv'
  <2>1. \A k \in 1 .. num : special[k] = Record(k)
    BY <1>2 DEF StoreInv
  <2>2. \A n : Record(n)' = Record(n)
    BY <1>1 DEF Record
  <2> QED BY <1>1, <1>3, <2>1, <2>2 DEF CopyInv
<1>8. ~Active' /\ DiscoveryIsWhole'
  BY <1>1 DEF Active, DiscoveryIsWhole
<1> QED BY <1>1, <1>6, <1>7, <1>8 DEF CalmInv

LEMMA CalmCopy ==
  ASSUME IInv, CallInv, CalmInv, calm, CopyRecords
  PROVE  CalmInv'
<1>1. /\ UNCHANGED <<proc, queue, dpc, evt, special, num, op, len>>
      /\ apc' = "clean" /\ apc = "copy"
      /\ list' = [i \in 1 .. num |-> IF Wanted(special[i]) THEN special[i] ELSE Hole]
  BY DEF CopyRecords, moduleVars, driverVars
<1>2. Quiet' /\ ~Active' /\ DiscoveryIsWhole'
  <2>1. Quiet
    BY <1>1 DEF CalmInv, Active
  <2> QED BY <1>1, <2>1, QuietCall DEF Active, DiscoveryIsWhole
<1>3. /\ len = op.found /\ num = op.found
      /\ \A k \in 1 .. num : special[k] = Record(k)
  BY <1>1 DEF CalmInv, CopyInv
<1>4. list' = [k \in 1 .. op.found |-> Record(k)]
  <2>1. \A k \in 1 .. num :
          (IF Wanted(special[k]) THEN special[k] ELSE Hole) = Record(k)
    BY <1>3 DEF Wanted, Record, Pkt
  <2> QED BY <1>1, <1>3, <2>1
<1>5. \A n : Record(n)' = Record(n)
  BY <1>1 DEF Record
<1>6. CopyInv'
  BY <1>1, <1>3, <1>4, <1>5 DEF CopyInv
<1> QED BY <1>1, <1>2, <1>6 DEF CalmInv

LEMMA CalmCleanCheck ==
  ASSUME IInv, CallInv, CalmInv, calm, CleanCount \/ CheckSeen
  PROVE  CalmInv'
<1>1. /\ UNCHANGED <<proc, queue, dpc, evt, op, len, list>> /\ num' = 0
      /\ apc \in {"clean", "check"} /\ apc' \in {"check", "clear"}
  BY DEF CleanCount, CheckSeen, CountAfterCopy, moduleVars, driverVars, CalmInv, CopyInv
<1>2. Quiet' /\ ~Active' /\ DiscoveryIsWhole'
  <2>1. Quiet
    BY <1>1 DEF CalmInv, Active
  <2> QED BY <1>1, <2>1, QuietCall DEF Active, DiscoveryIsWhole
<1>3. len = op.found /\ list = [k \in 1 .. op.found |-> Record(k)]
  BY <1>1 DEF CalmInv, CopyInv
<1>4. \A n : Record(n)' = Record(n)
  BY <1>1 DEF Record
<1>5. CopyInv'
  BY <1>1, <1>3, <1>4 DEF CopyInv
<1> QED BY <1>1, <1>2, <1>5 DEF CalmInv

(* The discovery is done: its list is whole, nothing of it stays.          *)
LEMMA CalmClear ==
  ASSUME IInv, CallInv, CalmInv, calm, ClearHeader
  PROVE  CalmInv'
<1>1. /\ UNCHANGED <<proc, queue, dpc, num, op, len, list>>
      /\ apc = "clear" /\ apc' = "idle"
      /\ evt' = [evt EXCEPT !.kind = "none"]
      /\ result' = [no |-> op.no, op |-> op.op, outcome |-> "success",
                    found |-> op.found]
  BY DEF ClearHeader, HeaderAfterUse, Return, moduleVars
<1>2. evt'.kind = "none"
  BY <1>1 DEF IInv, Types, Packet
<1>3. Quiet' /\ ~Active' /\ ~InHand'
  <2>1. Quiet
    BY <1>1 DEF CalmInv, Active
  <2> QED BY <1>1, <1>2, <2>1, QuietCall DEF Active, InHand
<1>4. num = 0 /\ len = op.found /\ list = [k \in 1 .. op.found |-> Record(k)]
  BY <1>1 DEF CalmInv, CopyInv
<1>5. CopyInv'
  BY <1>1 DEF CopyInv
<1>6. DiscoveryIsWhole'
  BY <1>1, <1>4 DEF DiscoveryIsWhole, Record
<1> QED BY <1>1, <1>3, <1>4, <1>5, <1>6 DEF CalmInv

LEMMA CalmCall ==
  ASSUME IInv, CallInv, CalmInv, CallStep
  PROVE  CalmInv'
<1>1. CASE calm' = FALSE
  BY <1>1 DEF CalmInv
<1>2. CASE calm' # FALSE
  <2>1. /\ Refused \/ ReadStarted \/ RssiSeen \/ BeginWait \/ CompletedSeen
           \/ CopyRecords \/ CleanCount \/ CheckSeen \/ ClearHeader
        /\ calm' = calm
    BY <1>2 DEF CallStep, WaitTimeout, CheckGone, Refused, ReadStarted, RssiSeen, BeginWait,
       CompletedSeen, CopyRecords, CleanCount, CheckSeen, ClearHeader
  <2>2. CASE calm
    BY <2>1, <2>2, CalmReturn, CalmBegin, CalmCompleted, CalmCopy, CalmCleanCheck, CalmClear
  <2>3. CASE ~calm
    BY <2>1, <2>3 DEF CalmInv
  <2> QED BY <2>2, <2>3
<1> QED BY <1>1, <1>2

(* A new call finds nothing of the calls before it.                        *)
LEMMA CalmOp ==
  ASSUME IInv, CallInv, CalmInv, NEW kind \in Ops, NEW c \in Conns, CallOp(kind, c)
  PROVE  CalmInv'
<1> SUFFICES ASSUME calm' PROVE CalmInv'
  BY DEF CalmInv
<1> DEFINE no == op.no + 1
           p == Pkt("response", c, no, 0)
           fresh == [op |-> kind, call |-> no, found |-> op'.found, sent |-> 0]
           accepted == proc[c].op = "none"
<1>1. /\ op'.op = kind /\ op'.conn = c /\ op'.no = no /\ op'.accepted = accepted
      /\ proc' = (IF accepted THEN [proc EXCEPT ![c] = fresh] ELSE proc)
      /\ Emit(p)
  BY DEF CallOp
<1>2. /\ UNCHANGED <<dpc, evt, index, special, num>> /\ calm /\ kind # "read"
      /\ apc = "idle" /\ apc' = "sent"
  BY DEF CallOp, driverVars
<1>3. op.no \in Nat /\ p \in Packet /\ p.kind \notin Discoveries \cup {"completed"}
  BY DEF IInv, Types, Pkt, Packet, Kinds, Discoveries
<1>4. ~Active /\ Quiet /\ num = 0 /\ ~InHand
  BY <1>2 DEF CalmInv, Active
<1>5. proc \in [Conns -> Procedure] /\ op'.found \in Nat
  BY CallInvOp DEF IInv, Types, CallInv
<1>6. \A d \in Conns \ {c} : proc'[d] = proc[d]
  BY <1>1, <1>5
<1>7. accepted => proc'[c] = fresh
  BY <1>1, <1>5
<1>8. ~accepted => proc' = proc
  BY <1>1
<1> HIDE DEF p, no
<1>9. \A i \in DOMAIN queue' : ~IsRecord(i)' /\ ~InQueue(i)'
  BY <1>1, <1>3, <1>4, QueueOther DEF Quiet
<1>10. ~RecordInHand' /\ ~InHand' /\ dpc' # "count" /\ num' = 0
  BY <1>2, <1>4 DEF Quiet, RecordInHand, InHand
<1>11. ASSUME Active' PROVE ProcInv' /\ QueueInv' /\ StoreInv'
  <2>1. accepted /\ kind \in Discoveries
    BY <1>1, <1>11 DEF Active
  <2>2. InProgress' /\ Sent' = 0 /\ Taken' = 0
    BY <1>1, <1>7, <1>10, <2>1 DEF InProgress, Sent, Taken
  <2>3. ProcInv'
    <3>1. \A d \in Conns \ {c} : proc'[d].op \in {"none", "rssi"}
      BY <1>4, <1>6 DEF Quiet
    <3>2. proc'[c].call = op'.no /\ proc'[c].found = op'.found
      BY <1>1, <1>7, <2>1
    <3> QED BY <1>1, <1>5, <2>2, <3>1, <3>2 DEF ProcInv
  <2>4. QueueInv'
    BY <1>9, <2>2 DEF QueueInv
  <2>5. StoreInv'
    BY <1>10 DEF StoreInv
  <2> QED BY <2>3, <2>4, <2>5
<1>12. ASSUME ~Active' PROVE Quiet'
  <2>1. accepted => kind = "rssi"
    BY <1>1, <1>2, <1>12 DEF Active, Ops
  <2>2. \A d \in Conns : proc'[d].op \in {"none", "rssi"}
    BY <1>4, <1>6, <1>7, <1>8, <2>1 DEF Quiet
  <2> QED BY <1>9, <1>10, <2>2 DEF Quiet
<1>13. CopyInv' /\ DiscoveryIsWhole'
  BY <1>2 DEF CopyInv, DiscoveryIsWhole
<1> QED BY <1>10, <1>11, <1>12, <1>13 DEF CalmInv

LEMMA CalmNext == IInv /\ CallInv /\ CalmInv /\ [Next]_vars => CalmInv'
<1> SUFFICES ASSUME IInv, CallInv, CalmInv, [Next]_vars PROVE CalmInv'
  OBVIOUS
<1>1. ASSUME UNCHANGED vars PROVE CalmInv'
  BY <1>1 DEF vars, moduleVars, driverVars, callVars, CalmInv, Active, InProgress, Sent,
     Taken, RecordInHand, InHand, InQueue, IsRecord, Record, Quiet, ProcInv, QueueInv,
     StoreInv, CopyInv, DiscoveryIsWhole
<1>2. ASSUME WriteBehind PROVE CalmInv'
  BY <1>2 DEF WriteBehind, CalmInv
<1> QED BY <1>1, <1>2, CalmModule, CalmDriver, CalmCall, CalmOp DEF Next

LEMMA CalmInvariance == Spec => [](IInv /\ CallInv /\ CalmInv)
BY InitInv, CallInit, InvNext, CallInvNext, CalmNext, PTL DEF Spec

(* A discovery that succeeds returns exactly what the remote device has, in *)
(* order and without holes, although the driver goes on while the list is  *)
(* taken: as long as no wait has ended without its event, no procedure     *)
(* runs that nobody waits for, and special_evt and the caller's list hold  *)
(* what was put into them.                                                 *)
THEOREM DiscoveryReturnsAll == Spec => []DiscoveryIsWhole
<1>1. CalmInv => DiscoveryIsWhole
  BY DEF CalmInv, DiscoveryIsWhole
<1> QED BY CalmInvariance, <1>1, PTL

(* Under the same conditions every call leaves the count of stored records *)
(* and the packet in hand as the next one must find them.                  *)
THEOREM NothingIsLeft == Spec => []NothingLeftBehind
<1>1. CalmInv => NothingLeftBehind
  BY DEF CalmInv, NothingLeftBehind, Active, InHand
<1> QED BY CalmInvariance, <1>1, PTL
=============================================================================
