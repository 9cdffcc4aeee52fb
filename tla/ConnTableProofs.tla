--------------------------- MODULE ConnTableProofs ---------------------------
(* Proofs about the table of connected devices, for any addresses, handles *)
(* and queue capacity, and any number of events, calls and resets.         *)
EXTENDS ConnTable, Integers, SequenceTheorems, WellFoundedInduction, TLAPS

ModuleType ==
  /\ peer \in [Handles -> Addrs \cup {None}]
  /\ up \subseteq Handles /\ closing \subseteq Handles
  /\ evtNo \in Nat /\ callNo \in Nat /\ resets \in Nat /\ calm \in BOOLEAN
MsgqType == msgq \in Seq(Event)
WatcherType ==
  /\ wpc \in {"recv", "del", "exited"}
  /\ wevt \in Event \cup {NoEvent}
  /\ wpc = "del" => wevt \in Event /\ wevt.kind = "closed"
  /\ waddr \in Addrs \cup {None}
  /\ told \subseteq Addrs
  /\ lastCb \in [kind : {None, "connect", "disconnect", "data"},
                 addr : Addrs \cup {None}, truth : Addrs \cup {None}]
CallType ==
  /\ apc \in {"idle", "add", "close"}
  /\ acall \in [addr : Addrs \cup {None}, conn : Handles \cup {None}]
  /\ apc # "idle" => acall \in Node

(* An established connection is a connection.                              *)
UpIsUsed == \A h \in up : peer[h] # None

(* A table without an address twice.                                       *)
IsMap(l) ==
  /\ l \in Seq(Node)
  /\ \A i, j \in DOMAIN l : l[i].addr = l[j].addr => i = j

IInv == ModuleType /\ MsgqType /\ WatcherType /\ CallType /\ UpIsUsed /\ IsMap(list)

USE NamesAssumption, BoundsAssumption
-----------------------------------------------------------------------------
(* A non-empty set of natural numbers has a least element.                 *)
LEMMA Least ==
  ASSUME NEW T, T \subseteq Nat, T # {}
  PROVE  \E x \in T : \A y \in T : x =< y
<1> DEFINE R == {ss \in Nat \X Nat : ss[1] < ss[2]}
<1>1. IsWellFoundedOn(R, Nat)
  BY NatLessThanWellFounded, Zenon DEF OpToRel
<1>2. PICK x \in T : \A y \in T : ~(<<y, x>> \in R)
  BY <1>1, WFMin
<1>3. \A y \in T : y \in Nat /\ x \in Nat /\ ~(y < x)
  BY <1>2
<1> QED BY <1>3

(* A search finds what is there.                                           *)
LEMMA FirstAddrFound ==
  ASSUME NEW l, IsMap(l), NEW a, HasAddr(l, a)
  PROVE  FirstAddr(l, a) \in DOMAIN l /\ l[FirstAddr(l, a)].addr = a
<1>1. PICK i \in DOMAIN l : l[i].addr = a
  BY DEF HasAddr
<1>2. \A j \in DOMAIN l : j < i => l[j].addr # a
  <2> SUFFICES ASSUME NEW j \in DOMAIN l, j < i, l[j].addr = a PROVE FALSE
    OBVIOUS
  <2>1. j = i
    BY <1>1 DEF IsMap
  <2>2. i \in Nat
    BY DEF IsMap
  <2> QED BY <2>1, <2>2
<1> QED BY <1>1, <1>2 DEF FirstAddr

LEMMA FirstConnFound ==
  ASSUME NEW l \in Seq(Node), NEW c, HasConn(l, c)
  PROVE  FirstConn(l, c) \in DOMAIN l /\ l[FirstConn(l, c)].conn = c
<1> DEFINE T == {i \in DOMAIN l : l[i].conn = c}
<1>1. T \subseteq Nat /\ T # {}
  BY DEF HasConn
<1>2. PICK i \in T : \A j \in T : i =< j
  BY <1>1, Least
<1>3. \A j \in DOMAIN l : j < i => l[j].conn # c
  BY <1>1, <1>2
<1> QED BY <1>2, <1>3 DEF FirstConn

(* ble_dev_mgr_add, ble_dev_mgr_get_connection, ble_dev_mgr_get_address    *)
(* and ble_dev_mgr_del on a table without an address twice.                *)
LEMMA DevAddIsMap ==
  ASSUME NEW l, IsMap(l), NEW a \in Addrs, NEW c \in Handles
  PROVE  IsMap(DevAdd(l, a, c))
<1> DEFINE n == [addr |-> a, conn |-> c]
<1>0. n \in Node /\ n.addr = a
  BY DEF Node
<1>1. CASE HasAddr(l, a)
  <2> DEFINE k == FirstAddr(l, a)
             m == [l EXCEPT ![k].conn = c]
  <2>1. k \in DOMAIN l /\ l[k].addr = a /\ l \in Seq(Node)
    BY <1>1, FirstAddrFound DEF IsMap
  <2>2. m = [l EXCEPT ![k] = [l[k] EXCEPT !.conn = c]]
    OBVIOUS
  <2>3. [l[k] EXCEPT !.conn = c] = n
    <3>1. l[k] \in Node
      BY <2>1
    <3>2. \A r \in Node : r.addr = a => [r EXCEPT !.conn = c] = n
      BY DEF Node
    <3> HIDE DEF k, n
    <3> QED BY <2>1, <3>1, <3>2
  <2>4. m \in Seq(Node) /\ DOMAIN m = DOMAIN l
    BY <1>0, <2>1, <2>2, <2>3, ExceptSeq
  <2>5. \A i \in DOMAIN l : m[i].addr = l[i].addr
    <3>1. m = [l EXCEPT ![k] = n]
      BY <2>2, <2>3
    <3>2. \A i \in DOMAIN l : m[i] = IF i = k THEN n ELSE l[i]
      BY <2>1, <3>1
    <3> HIDE DEF m
    <3> QED BY <1>0, <2>1, <3>2
  <2>6. IsMap(m)
    BY <2>4, <2>5 DEF IsMap
  <2> QED BY <1>1, <2>6 DEF DevAdd
<1>2. CASE ~HasAddr(l, a)
  <2> DEFINE m == Append(l, n)
  <2>1. l \in Seq(Node)
    BY DEF IsMap
  <2>2. /\ m \in Seq(Node) /\ Len(m) = Len(l) + 1
        /\ \A i \in 1 .. Len(l) : m[i] = l[i]
        /\ m[Len(l) + 1] = n
    BY <1>0, <2>1, AppendProperties
  <2>3. \A i \in DOMAIN l : l[i].addr # a
    BY <1>2 DEF HasAddr
  <2>4. DOMAIN l = 1 .. Len(l) /\ DOMAIN m = 1 .. Len(l) + 1 /\ Len(l) \in Nat
    BY <2>1, <2>2
  <2>5. ASSUME NEW i \in DOMAIN m, NEW j \in DOMAIN m, m[i].addr = m[j].addr
        PROVE  i = j
    <3>1. CASE i \in DOMAIN l /\ j \in DOMAIN l
      <4>1. l[i].addr = l[j].addr
        BY <2>2, <2>4, <2>5, <3>1
      <4> QED BY <3>1, <4>1 DEF IsMap
    <3>2. CASE i \notin DOMAIN l
      BY <1>0, <2>2, <2>3, <2>4, <2>5, <3>2
    <3>3. CASE j \notin DOMAIN l
      BY <1>0, <2>2, <2>3, <2>4, <2>5, <3>3
    <3> QED BY <3>1, <3>2, <3>3
  <2>6. IsMap(m)
    BY <2>2, <2>5 DEF IsMap
  <2> QED BY <1>2, <2>6 DEF DevAdd
<1> QED BY <1>1, <1>2

LEMMA DevLookup ==
  ASSUME NEW l, IsMap(l)
  PROVE  /\ \A a : HasAddr(l, a) => [addr |-> a, conn |-> DevConnection(l, a)] \in Node
         /\ \A c : HasConn(l, c) => DevAddress(l, c) \in Addrs
<1>1. ASSUME NEW a, HasAddr(l, a)
      PROVE  [addr |-> a, conn |-> DevConnection(l, a)] \in Node
  <2>1. FirstAddr(l, a) \in DOMAIN l /\ l[FirstAddr(l, a)].addr = a
    BY <1>1, FirstAddrFound
  <2>2. l[FirstAddr(l, a)] \in Node
    BY <2>1 DEF IsMap
  <2> QED BY <2>1, <2>2 DEF DevConnection, Node
<1>2. ASSUME NEW c, HasConn(l, c)
      PROVE  DevAddress(l, c) \in Addrs
  <2>1. FirstConn(l, c) \in DOMAIN l /\ l \in Seq(Node)
    BY <1>2, FirstConnFound DEF IsMap
  <2>2. l[FirstConn(l, c)] \in Node
    BY <2>1
  <2> QED BY <2>2 DEF DevAddress, Node
<1> QED BY <1>1, <1>2

(* ble_dev_mgr_del of a connection that is there takes one node out.       *)
LEMMA DevDelItems ==
  ASSUME NEW l \in Seq(Node), NEW c, HasConn(l, c)
  PROVE  /\ DevDel(l, c) \in Seq(Node) /\ Len(DevDel(l, c)) = Len(l) - 1
         /\ \A i \in 1 .. Len(l) - 1 :
              DevDel(l, c)[i]
                = IF i < FirstConn(l, c) THEN l[i] ELSE l[i + 1]
<1> DEFINE k == FirstConn(l, c)
           before == SubSeq(l, 1, k - 1)
           after == SubSeq(l, k + 1, Len(l))
           m == before \o after
<1>1. l \in Seq(Node) /\ k \in 1 .. Len(l) /\ Len(l) \in Nat /\ k \in Nat
  <2>1. k \in DOMAIN l /\ l \in Seq(Node)
    BY FirstConnFound
  <2> QED BY <2>1
<1> HIDE DEF k
<1>2. /\ before \in Seq(Node) /\ Len(before) = k - 1
      /\ \A i \in 1 .. k - 1 : before[i] = l[i]
  <2>1. before \in Seq(Node)
    BY <1>1, SubSeqProperties
  <2> QED BY <1>1, <2>1
<1>3. /\ after \in Seq(Node) /\ Len(after) = Len(l) - k
      /\ \A i \in 1 .. Len(l) - k : after[i] = l[i + k]
  <2>1. after \in Seq(Node)
    BY <1>1, SubSeqProperties
  <2> QED BY <1>1, <2>1
<1> HIDE DEF before, after
<1>4. m \in Seq(Node) /\ Len(m) = Len(l) - 1
  <2>1. m \in Seq(Node) /\ Len(m) = Len(before) + Len(after)
    BY <1>2, <1>3, ConcatProperties
  <2> HIDE DEF m
  <2> QED BY <1>1, <1>2, <1>3, <2>1
<1>5. \A i \in 1 .. Len(l) - 1 : m[i] = IF i < k THEN l[i] ELSE l[i + 1]
  <2> SUFFICES ASSUME NEW i \in 1 .. Len(l) - 1
               PROVE  m[i] = IF i < k THEN l[i] ELSE l[i + 1]
    OBVIOUS
  <2>1. CASE i < k
    BY <1>1, <1>2, <1>3, <2>1, ConcatProperties
  <2>2. CASE ~(i < k)
    <3>1. m[i] = after[i - (k - 1)] /\ i - (k - 1) \in 1 .. Len(l) - k
      BY <1>1, <1>2, <1>3, <2>2, ConcatProperties
    <3>2. after[i - (k - 1)] = l[i - (k - 1) + k]
      BY <1>3, <3>1
    <3>3. i - (k - 1) + k = i + 1
      BY <1>1
    <3> QED BY <2>2, <3>1, <3>2, <3>3
  <2> QED BY <2>1, <2>2
<1> HIDE DEF m
<1>6. DevDel(l, c) = m
  BY DEF DevDel, RemoveAt, k, m, before, after
<1> QED BY <1>4, <1>5, <1>6 DEF k

LEMMA DevDelIsMap ==
  ASSUME NEW l, IsMap(l), NEW c
  PROVE  IsMap(DevDel(l, c))
<1>1. CASE ~HasConn(l, c)
  BY <1>1 DEF DevDel
<1>2. CASE HasConn(l, c)
  <2> DEFINE k == FirstConn(l, c)
             m == DevDel(l, c)
  <2>1. l \in Seq(Node) /\ k \in 1 .. Len(l) /\ Len(l) \in Nat
    <3>1. k \in DOMAIN l /\ l \in Seq(Node)
      BY <1>2, FirstConnFound DEF IsMap
    <3> QED BY <3>1
  <2>2. /\ m \in Seq(Node) /\ Len(m) = Len(l) - 1
        /\ \A i \in 1 .. Len(l) - 1 : m[i] = IF i < k THEN l[i] ELSE l[i + 1]
    BY <1>2, <2>1, DevDelItems
  <2> HIDE DEF k, m
  <2>3. ASSUME NEW i \in DOMAIN m, NEW j \in DOMAIN m, m[i].addr = m[j].addr
        PROVE  i = j
    <3> DEFINE at(x) == IF x < k THEN x ELSE x + 1
    <3>1. i \in 1 .. Len(l) - 1 /\ j \in 1 .. Len(l) - 1
      BY <2>2
    <3>2. at(i) \in DOMAIN l /\ at(j) \in DOMAIN l
      BY <2>1, <3>1
    <3>3. m[i] = l[at(i)] /\ m[j] = l[at(j)]
      BY <2>2, <3>1
    <3>4. at(i) = at(j)
      BY <2>3, <3>2, <3>3 DEF IsMap
    <3> QED BY <2>1, <3>1, <3>4
  <2>4. IsMap(m)
    BY <2>2, <2>3 DEF IsMap
  <2> QED BY <2>4 DEF m
<1> QED BY <1>1, <1>2
-----------------------------------------------------------------------------
LEMMA InitInv == Init => IInv
<1> SUFFICES ASSUME Init PROVE IInv
  OBVIOUS
<1>1. ModuleType /\ MsgqType /\ UpIsUsed
  BY DEF Init, ModuleType, MsgqType, UpIsUsed
<1>2. WatcherType
  BY DEF Init, WatcherType, NoEvent
<1>3. CallType
  BY DEF Init, CallType
<1>4. IsMap(list)
  BY DEF Init, IsMap
<1> QED BY <1>1, <1>2, <1>3, <1>4 DEF IInv

(* The module and its events: every step.                                  *)
LEMMA EmitInv ==
  ASSUME MsgqType, ModuleType, NEW kind \in {"opened", "closed", "data"},
         NEW h \in Handles, NEW a \in Addrs, Emit(kind, h, a)
  PROVE  MsgqType' /\ evtNo' \in Nat /\ calm' \in BOOLEAN
<1> DEFINE e == [kind |-> kind, conn |-> h, peer |-> a]
<1>1. e \in Event
  BY DEF Event
<1>2. CASE Len(msgq) < MsgqCap
  <2>1. msgq' = Append(msgq, e) /\ calm' = calm /\ evtNo' = evtNo + 1
    BY <1>2 DEF Emit
  <2> QED BY <1>1, <2>1 DEF MsgqType, ModuleType
<1>3. CASE ~(Len(msgq) < MsgqCap)
  <2>1. msgq' = msgq /\ calm' = FALSE /\ evtNo' = evtNo + 1
    BY <1>3 DEF Emit
  <2>2. calm' \in BOOLEAN
    BY <2>1, Zenon
  <2> QED BY <2>1, <2>2 DEF MsgqType, ModuleType
<1> QED BY <1>2, <1>3

LEMMA WatcherMessage ==
  ASSUME MsgqType, msgq # <<>>
  PROVE  Head(msgq) \in Event /\ Tail(msgq) \in Seq(Event)
BY DEF MsgqType

LEMMA ModuleStep ==
  ASSUME IInv,
         NEW a \in Addrs, NEW h \in Handles,
         RemoteOpens(a, h) \/ RequestedOpens(h) \/ Closes(h) \/ Sends(h)
  PROVE  IInv'
<1> USE DEF IInv
<1>1. UNCHANGED <<list, watcherVars, appVars, resets>>
  BY DEF RemoteOpens, RequestedOpens, Closes, Sends
<1>2. WatcherType' /\ CallType' /\ IsMap(list)'
  BY <1>1 DEF watcherVars, appVars, WatcherType, CallType
<1>3. callNo' \in Nat /\ resets' \in Nat
  BY <1>1 DEF appVars, ModuleType
<1>4. CASE RemoteOpens(a, h)
  <2>1. MsgqType' /\ evtNo' \in Nat /\ calm' \in BOOLEAN
    BY <1>4, EmitInv DEF RemoteOpens
  <2>2. peer' \in [Handles -> Addrs \cup {None}] /\ up' \subseteq Handles /\ closing' \subseteq Handles
    BY <1>4 DEF RemoteOpens, ModuleType
  <2>3. UpIsUsed'
    BY <1>4 DEF RemoteOpens, ModuleType, UpIsUsed
  <2> QED BY <1>2, <1>3, <2>1, <2>2, <2>3 DEF ModuleType
<1>5. CASE RequestedOpens(h)
  <2>1. peer[h] \in Addrs
    BY <1>5 DEF RequestedOpens, Free, ModuleType
  <2>2. MsgqType' /\ evtNo' \in Nat /\ calm' \in BOOLEAN
    BY <1>5, <2>1, EmitInv DEF RequestedOpens
  <2>3. peer' \in [Handles -> Addrs \cup {None}] /\ up' \subseteq Handles /\ closing' \subseteq Handles
    BY <1>5 DEF RequestedOpens, ModuleType
  <2>4. UpIsUsed'
    BY <1>5 DEF RequestedOpens, Free, UpIsUsed
  <2> QED BY <1>2, <1>3, <2>2, <2>3, <2>4 DEF ModuleType
<1>6. CASE Closes(h)
  <2>1. peer[h] \in Addrs
    BY <1>6 DEF Closes, Free, ModuleType
  <2>2. MsgqType' /\ evtNo' \in Nat /\ calm' \in BOOLEAN
    BY <1>6, <2>1, EmitInv DEF Closes
  <2>3. peer' \in [Handles -> Addrs \cup {None}] /\ up' \subseteq Handles /\ closing' \subseteq Handles
    BY <1>6 DEF Closes, ModuleType
  <2>4. UpIsUsed'
    BY <1>6 DEF Closes, ModuleType, UpIsUsed
  <2> QED BY <1>2, <1>3, <2>2, <2>3, <2>4 DEF ModuleType
<1>7. CASE Sends(h)
  <2>1. peer[h] \in Addrs
    BY <1>7 DEF Sends, ModuleType, UpIsUsed
  <2>2. MsgqType' /\ evtNo' \in Nat /\ calm' \in BOOLEAN
    BY <1>7, <2>1, EmitInv DEF Sends
  <2>3. peer' = peer /\ up' = up /\ closing' = closing
    BY <1>7 DEF Sends
  <2> QED BY <1>2, <1>3, <2>2, <2>3 DEF ModuleType, UpIsUsed
<1> QED BY <1>4, <1>5, <1>6, <1>7

LEMMA ResetStep ==
  ASSUME IInv, Reset
  PROVE  IInv'
<1> USE DEF IInv
<1>1. WatcherType' /\ CallType' /\ MsgqType'
  BY DEF Reset, watcherVars, appVars, WatcherType, CallType, MsgqType
<1>2. IsMap(list)'
  BY DEF Reset, IsMap
<1>3. calm' \in BOOLEAN
  BY Zenon DEF Reset
<1>4. ModuleType' /\ UpIsUsed'
  BY <1>3 DEF Reset, appVars, ModuleType, UpIsUsed
<1> QED BY <1>1, <1>2, <1>4

(* The watcher: every step.                                                *)
LEMMA WatcherStep ==
  ASSUME IInv, Watcher
  PROVE  IInv'
<1> USE DEF IInv
<1>1. ModuleType' /\ CallType' /\ UpIsUsed'
  BY DEF Watcher, WatchOpened, WatchUnknown, WatchData, WatchClosed, WatchDelete,
     moduleVars, appVars, ModuleType, CallType, UpIsUsed
<1>2. CASE WatchOpened
  <2> DEFINE e == Head(msgq)
  <2>1. e \in Event /\ Tail(msgq) \in Seq(Event)
    BY <1>2, WatcherMessage DEF WatchOpened
  <2>2. e.peer \in Addrs /\ e.conn \in Handles
    BY <2>1 DEF Event
  <2>3. IsMap(list')
    BY <1>2, <2>2, DevAddIsMap DEF WatchOpened
  <2>4. WatcherType'
    BY <1>2, <2>2 DEF WatchOpened, WatcherType, Callback
  <2>5. MsgqType'
    BY <1>2, <2>1 DEF WatchOpened, MsgqType
  <2> QED BY <1>1, <2>3, <2>4, <2>5
<1>3. CASE WatchUnknown
  <2>1. Tail(msgq) \in Seq(Event)
    BY <1>3, WatcherMessage DEF WatchUnknown
  <2>2. WatcherType' /\ MsgqType' /\ IsMap(list)'
    BY <1>3, <2>1 DEF WatchUnknown, WatcherType, MsgqType
  <2> QED BY <1>1, <2>2
<1>4. CASE WatchData
  <2> DEFINE e == Head(msgq)
  <2>1. e \in Event /\ Tail(msgq) \in Seq(Event)
    BY <1>4, WatcherMessage DEF WatchData
  <2>2. DevAddress(list, e.conn) \in Addrs /\ e.peer \in Addrs
    BY <1>4, <2>1, DevLookup DEF WatchData, Event
  <2>3. WatcherType'
    BY <1>4, <2>2 DEF WatchData, WatcherType, Callback
  <2>4. MsgqType' /\ IsMap(list)'
    BY <1>4, <2>1 DEF WatchData, MsgqType
  <2> QED BY <1>1, <2>3, <2>4
<1>5. CASE WatchClosed
  <2> DEFINE e == Head(msgq)
  <2>1. e \in Event /\ Tail(msgq) \in Seq(Event)
    BY <1>5, WatcherMessage DEF WatchClosed
  <2>2. DevAddress(list, e.conn) \in Addrs
    BY <1>5, <2>1, DevLookup DEF WatchClosed
  <2>3. WatcherType'
    BY <1>5, <2>1, <2>2 DEF WatchClosed, WatcherType
  <2>4. MsgqType' /\ IsMap(list)'
    BY <1>5, <2>1 DEF WatchClosed, MsgqType
  <2> QED BY <1>1, <2>3, <2>4
<1>6. CASE WatchDelete
  <2>1. wevt \in Event /\ waddr \in Addrs \cup {None}
    BY <1>6 DEF WatchDelete, WatcherType
  <2>2. wevt.peer \in Addrs
    BY <2>1 DEF Event
  <2>3. IsMap(list')
    BY <1>6, DevDelIsMap DEF WatchDelete
  <2>4. WatcherType'
    BY <1>6, <2>1, <2>2 DEF WatchDelete, WatcherType, Callback, NoEvent
  <2>5. MsgqType'
    BY <1>6 DEF WatchDelete, MsgqType
  <2> QED BY <1>1, <2>3, <2>4, <2>5
<1> QED BY <1>2, <1>3, <1>4, <1>5, <1>6 DEF Watcher

(* The API calls: every step.                                              *)
LEMMA ConnectStep ==
  ASSUME IInv, NEW a \in Addrs, NEW h \in Handles, Connect(a, h)
  PROVE  IInv'
<1> USE DEF IInv, Connect
<1>0. calm' \in BOOLEAN
  BY Zenon
<1>1. ModuleType' /\ UpIsUsed'
  BY <1>0 DEF ModuleType, UpIsUsed
<1>2. WatcherType' /\ MsgqType' /\ IsMap(list)'
  BY DEF watcherVars, WatcherType, MsgqType
<1>3. CallType'
  BY DEF CallType, Node
<1> QED BY <1>1, <1>2, <1>3

LEMMA ConnectAddStep ==
  ASSUME IInv, ConnectAdd
  PROVE  IInv'
<1> USE DEF IInv, ConnectAdd
<1>1. ModuleType' /\ UpIsUsed' /\ WatcherType' /\ MsgqType' /\ CallType'
  BY DEF moduleVars, watcherVars, ModuleType, UpIsUsed, WatcherType, MsgqType, CallType
<1>2. acall.addr \in Addrs /\ acall.conn \in Handles
  BY DEF CallType, Node
<1>3. IsMap(list')
  BY <1>2, DevAddIsMap
<1> QED BY <1>1, <1>3

LEMMA DisconnectStep ==
  ASSUME IInv, NEW a \in Addrs, Disconnect(a) \/ DisconnectClose
  PROVE  IInv'
<1> USE DEF IInv
<1>1. WatcherType' /\ MsgqType' /\ IsMap(list)'
  BY DEF Disconnect, DisconnectClose, watcherVars, WatcherType, MsgqType
<1>2. CASE Disconnect(a)
  <2>1. acall' \in Node
    BY <1>2, DevLookup DEF Disconnect
  <2>2. CallType'
    BY <1>2, <2>1 DEF Disconnect, CallType, Node
  <2>3. ModuleType' /\ UpIsUsed'
    BY <1>2 DEF Disconnect, moduleVars, ModuleType, UpIsUsed
  <2> QED BY <1>1, <2>2, <2>3
<1>3. CASE DisconnectClose
  <2>1. CallType'
    BY <1>3 DEF DisconnectClose, CallType
  <2>2. acall.conn \in Handles
    BY <1>3 DEF DisconnectClose, CallType, Node
  <2>3. ModuleType' /\ UpIsUsed'
    BY <1>3, <2>2 DEF DisconnectClose, ModuleType, UpIsUsed
  <2> QED BY <1>1, <2>1, <2>3
<1> QED BY <1>2, <1>3

LEMMA InvNext == IInv /\ [Next]_vars => IInv'
<1> SUFFICES ASSUME IInv, [Next]_vars PROVE IInv'
  OBVIOUS
<1>1. CASE Next
  <2>1. ASSUME NEW a \in Addrs, NEW h \in Handles, RemoteOpens(a, h) \/ Connect(a, h)
        PROVE  IInv'
    BY <2>1, ModuleStep, ConnectStep
  <2>2. ASSUME NEW h \in Handles, RequestedOpens(h) \/ Closes(h) \/ Sends(h)
        PROVE  IInv'
    <3>1. PICK a : a \in Addrs
      BY <2>2 DEF RequestedOpens, Closes, Sends, Free, IInv, ModuleType, UpIsUsed
    <3> QED BY <2>2, <3>1, ModuleStep
  <2>3. ASSUME NEW a \in Addrs, Disconnect(a)
        PROVE  IInv'
    BY <2>3, DisconnectStep
  <2>4. CASE DisconnectClose
    <3>1. acall.addr \in Addrs
      BY <2>4 DEF DisconnectClose, IInv, CallType, Node
    <3> QED BY <2>4, <3>1, DisconnectStep
  <2> QED BY <1>1, <2>1, <2>2, <2>3, <2>4, ResetStep, WatcherStep, ConnectAddStep DEF Next
<1>2. CASE UNCHANGED vars
  BY <1>2 DEF IInv, vars, moduleVars, watcherVars, appVars, ModuleType, MsgqType,
     WatcherType, CallType, UpIsUsed
<1> QED BY <1>1, <1>2

LEMMA Invariance == Spec => []IInv
BY InitInv, InvNext, PTL DEF Spec
-----------------------------------------------------------------------------
(* The table, the message queue and the threads keep their types.          *)
THEOREM TypeCorrect == Spec => []TypeOK
<1>1. IInv => TypeOK
  BY DEF IInv, TypeOK, ModuleType, MsgqType, WatcherType, CallType, IsMap
<1> QED BY Invariance, <1>1, PTL

(* However the watcher, the application's calls and the resets interleave, *)
(* the table of gl_dev_mgr.c has no address twice.                         *)
THEOREM TableIsMap == Spec => []NoDuplicateAddress
<1>1. IInv => NoDuplicateAddress
  BY DEF IInv, IsMap, NoDuplicateAddress
<1> QED BY Invariance, <1>1, PTL
-----------------------------------------------------------------------------
(* The table follows the module.                                           *)

(* Any sequence of tables in which each is the one before it with the next *)
(* unhandled event applied ends with TableAfterUnhandled.                  *)
LEMMA HistoryIsFold ==
  ASSUME Unhandled \in Seq(Event),
         NEW T, T \in [0 .. Len(Unhandled) -> SUBSET Node],
         T[0] = Nodes(list),
         \A i \in 1 .. Len(Unhandled) : T[i] = Apply(T[i - 1], Unhandled[i])
  PROVE  TableAfterUnhandled = T[Len(Unhandled)]
<1> DEFINE D == 0 .. Len(Unhandled)
           Next1(f, i) == IF i = 0 THEN Nodes(list) ELSE Apply(f[i - 1], Unhandled[i])
<1>1. Len(Unhandled) \in Nat
  OBVIOUS
<1>2. \A i \in D : T[i] = Next1(T, i)
  BY <1>1
<1>3. T = [i \in D |-> Next1(T, i)]
  BY <1>2
<1>4. TableAfter = CHOOSE f : f = [i \in D |-> Next1(f, i)]
  BY DEF TableAfter
<1> HIDE DEF Next1
<1>5. TableAfter = [i \in D |-> Next1(TableAfter, i)]
  BY <1>3, <1>4, Zenon
<1>6. \A i \in D : TableAfter[i] = T[i]
  <2> DEFINE Wrong == {i \in D : TableAfter[i] # T[i]}
  <2> SUFFICES ASSUME Wrong # {} PROVE FALSE
    OBVIOUS
  <2>1. Wrong \subseteq Nat
    BY <1>1
  <2>2. PICK i \in Wrong : \A j \in Wrong : i =< j
    BY <2>1, Least
  <2>3. i \in D /\ TableAfter[i] = Next1(TableAfter, i) /\ T[i] = Next1(T, i)
    BY <1>2, <1>5
  <2>4. CASE i = 0
    BY <2>2, <2>3, <2>4 DEF Next1
  <2>5. CASE i # 0
    <3>1. i - 1 \in D /\ ~(i =< i - 1)
      BY <1>1, <2>3, <2>5
    <3>2. TableAfter[i - 1] = T[i - 1]
      BY <2>2, <3>1
    <3>3. QED BY <2>2, <2>3, <2>5, <3>2 DEF Next1
  <2>6. QED BY <2>4, <2>5
<1>7. QED BY <1>1, <1>6 DEF TableAfterUnhandled

(* What an event says of a table it comes to: a device that is opened is   *)
(* not in it, any other is.                                                *)
Fits(t, e) ==
  IF e.kind = "opened"
    THEN \A n \in t : n.addr # e.peer /\ n.conn # e.conn
    ELSE [addr |-> e.peer, conn |-> e.conn] \in t

OnePerHandle(t) == \A m, n \in t : m.conn = n.conn => m = n

(* The tables the watcher will go through, from the one there is to the    *)
(* module's connections.                                                   *)
IsHistory(T, l, q, links) ==
  /\ T \in [0 .. Len(q) -> SUBSET Node]
  /\ T[0] = Nodes(l)
  /\ \A i \in 1 .. Len(q) : T[i] = Apply(T[i - 1], q[i]) /\ Fits(T[i - 1], q[i])
  /\ \A i \in 0 .. Len(q) : OnePerHandle(T[i])
  /\ T[Len(q)] = links

(* As long as it is calm: the watcher's tables lead to the module's        *)
(* connections, every connection is established, of one device each, and   *)
(* the address the watcher looked up is that of its event.                 *)
CalmInv ==
  calm =>
    /\ wpc # "exited"
    /\ apc # "add"
    /\ lastCb.addr = lastCb.truth
    /\ wpc = "del" => waddr = wevt.peer
    /\ \A h \in Handles : peer[h] # None => h \in up
    /\ \A h, k \in Handles : peer[h] = peer[k] /\ peer[h] # None => h = k
    /\ \E T : IsHistory(T, list, Unhandled, Links)

LEMMA UnhandledType ==
  ASSUME MsgqType, WatcherType
  PROVE  Unhandled \in Seq(Event)
<1>1. CASE wpc = "del"
  <2>1. <<wevt>> \in Seq(Event) /\ msgq \in Seq(Event)
    BY <1>1 DEF WatcherType, MsgqType
  <2>2. QED BY <1>1, <2>1, ConcatProperties DEF Unhandled
<1>2. CASE wpc # "del"
  BY <1>2 DEF Unhandled, MsgqType
<1>3. QED BY <1>1, <1>2

(* The next event is emitted: one more table. *)
LEMMA HistoryGrows ==
  ASSUME NEW q \in Seq(Event), NEW e \in Event, NEW l, NEW T, NEW links,
         NEW more \in SUBSET Node,
         IsHistory(T, l, q, links),
         Fits(links, e), more = Apply(links, e), OnePerHandle(more)
  PROVE  \E H : IsHistory(H, l, Append(q, e), more)
<1> DEFINE n == Len(q)
           H == [i \in 0 .. n + 1 |-> IF i = n + 1 THEN more ELSE T[i]]
<1>1. /\ n \in Nat /\ Len(Append(q, e)) = n + 1
      /\ \A i \in 1 .. n : Append(q, e)[i] = q[i]
      /\ Append(q, e)[n + 1] = e
  BY AppendProperties
<1>2. H \in [0 .. n + 1 -> SUBSET Node]
  BY <1>1 DEF IsHistory
<1>3. H[0] = T[0] /\ H[n + 1] = more /\ \A i \in 0 .. n : H[i] = T[i]
  BY <1>1
<1> HIDE DEF H
<1>4. ASSUME NEW i \in 1 .. n + 1
      PROVE  H[i] = Apply(H[i - 1], Append(q, e)[i]) /\ Fits(H[i - 1], Append(q, e)[i])
  <2>1. CASE i = n + 1
    <3>1. H[i - 1] = links
      BY <1>1, <1>3, <2>1 DEF IsHistory
    <3>2. QED BY <1>1, <1>3, <2>1, <3>1
  <2>2. CASE i # n + 1
    <3>1. i \in 1 .. n /\ i - 1 \in 0 .. n /\ i \in 0 .. n
      BY <1>1, <2>2
    <3>2. QED BY <1>1, <1>3, <3>1 DEF IsHistory
  <2>3. QED BY <2>1, <2>2
<1>5. \A i \in 0 .. n + 1 : OnePerHandle(H[i])
  <2>1. \A i \in 0 .. n + 1 : i \in 0 .. n \/ i = n + 1
    BY <1>1
  <2>2. QED BY <1>3, <2>1 DEF IsHistory
<1>6. QED BY <1>1, <1>2, <1>3, <1>4, <1>5 DEF IsHistory

(* The oldest event is handled: the second table is the one there is. *)
LEMMA HistoryShrinks ==
  ASSUME NEW q \in Seq(Event), NEW s \in Seq(Event), NEW e \in Event,
         Len(q) = Len(s) + 1, q[1] = e,
         \A i \in 1 .. Len(s) : s[i] = q[i + 1],
         NEW l, NEW T, NEW links, NEW k,
         IsHistory(T, l, q, links), Nodes(k) = Apply(Nodes(l), e)
  PROVE  \E H : IsHistory(H, k, s, links)
<1> DEFINE n == Len(s)
           H == [i \in 0 .. n |-> T[i + 1]]
<1>1. n \in Nat /\ Len(q) = n + 1
  OBVIOUS
<1>2. \A i \in 0 .. n : i + 1 \in 0 .. n + 1 /\ i + 1 \in 1 .. n + 1
  BY <1>1
<1>3. H \in [0 .. n -> SUBSET Node]
  BY <1>1, <1>2 DEF IsHistory
<1>4. \A i \in 0 .. n : H[i] = T[i + 1]
  OBVIOUS
<1> HIDE DEF H
<1>5. H[0] = Nodes(k)
  <2>1. T[1] = Apply(T[0], q[1]) /\ H[0] = T[1]
    BY <1>1, <1>4 DEF IsHistory
  <2>2. QED BY <2>1 DEF IsHistory
<1>6. ASSUME NEW i \in 1 .. n
      PROVE  H[i] = Apply(H[i - 1], s[i]) /\ Fits(H[i - 1], s[i])
  <2>1. /\ i + 1 \in 1 .. Len(q) /\ (i + 1) - 1 = i
        /\ i - 1 \in 0 .. n /\ (i - 1) + 1 = i /\ i \in 0 .. n
    BY <1>1
  <2>2. T[i + 1] = Apply(T[i], q[i + 1]) /\ Fits(T[i], q[i + 1])
    BY <2>1 DEF IsHistory
  <2>3. H[i] = T[i + 1] /\ H[i - 1] = T[i] /\ s[i] = q[i + 1]
    BY <1>4, <2>1
  <2>4. QED BY <2>2, <2>3
<1>7. \A i \in 0 .. n : OnePerHandle(H[i])
  BY <1>1, <1>2, <1>4 DEF IsHistory
<1>8. H[n] = links
  BY <1>1, <1>4 DEF IsHistory
<1>9. QED BY <1>3, <1>5, <1>6, <1>7, <1>8 DEF IsHistory

(* ble_dev_mgr_add of a device that is not in the table, and               *)
(* ble_dev_mgr_del and ble_dev_mgr_get_address of one that is.             *)
LEMMA DevAddNodes ==
  ASSUME NEW l \in Seq(Node), NEW a \in Addrs, NEW c \in Handles, ~HasAddr(l, a)
  PROVE  Nodes(DevAdd(l, a, c)) = Nodes(l) \cup {[addr |-> a, conn |-> c]}
<1> DEFINE n == [addr |-> a, conn |-> c]
<1>1. n \in Node
  BY DEF Node
<1>2. DevAdd(l, a, c) = Append(l, n)
  BY DEF DevAdd
<1> HIDE DEF n
<1>3. /\ Len(Append(l, n)) = Len(l) + 1 /\ Len(l) \in Nat
      /\ \A i \in 1 .. Len(l) : Append(l, n)[i] = l[i]
      /\ Append(l, n)[Len(l) + 1] = n
      /\ DOMAIN l = 1 .. Len(l) /\ DOMAIN Append(l, n) = 1 .. Len(l) + 1
  BY <1>1, AppendProperties
<1>4. \A x : x \in Nodes(Append(l, n)) <=> x \in Nodes(l) \/ x = n
  <2>1. 1 .. Len(l) + 1 = 1 .. Len(l) \cup {Len(l) + 1}
    BY <1>3
  <2>2. QED BY <1>3, <2>1 DEF Nodes
<1>5. QED BY <1>2, <1>4 DEF n

LEMMA DevDelNodes ==
  ASSUME NEW l, IsMap(l), NEW c, OnePerHandle(Nodes(l))
  PROVE  Nodes(DevDel(l, c)) = {n \in Nodes(l) : n.conn # c}
<1>0. l \in Seq(Node) /\ DOMAIN l = 1 .. Len(l) /\ Len(l) \in Nat
  BY DEF IsMap
<1>1. CASE ~HasConn(l, c)
  BY <1>1 DEF DevDel, HasConn, Nodes
<1>2. CASE HasConn(l, c)
  <2> DEFINE k == FirstConn(l, c)
             m == DevDel(l, c)
  <2>1. k \in 1 .. Len(l) /\ l[k].conn = c
    BY <1>0, <1>2, FirstConnFound
  <2>2. m \in Seq(Node) /\ Len(m) = Len(l) - 1
        /\ \A i \in 1 .. Len(l) - 1 : m[i] = IF i < k THEN l[i] ELSE l[i + 1]
    BY <1>0, <1>2, DevDelItems
  <2>3. DOMAIN m = 1 .. Len(l) - 1
    BY <2>2
  <2> HIDE DEF k, m
  <2>4. ASSUME NEW i \in 1 .. Len(l), i # k PROVE l[i].conn # c
    <3>1. l[i] \in Nodes(l) /\ l[k] \in Nodes(l)
      BY <1>0, <2>1 DEF Nodes
    <3>2. ASSUME l[i].conn = c PROVE FALSE
      <4>1. l[i] = l[k]
        BY <2>1, <3>1, <3>2 DEF OnePerHandle
      <4>2. QED BY <1>0, <2>1, <2>4, <4>1 DEF IsMap
    <3>3. QED BY <3>2
  <2>5. ASSUME NEW x \in Nodes(m) PROVE x \in Nodes(l) /\ x.conn # c
    <3>1. PICK i \in 1 .. Len(l) - 1 : x = m[i]
      BY <2>3 DEF Nodes
    <3>2. PICK j \in 1 .. Len(l) : x = l[j] /\ j # k
      <4>1. CASE i < k
        BY <1>0, <2>2, <3>1, <4>1
      <4>2. CASE ~(i < k)
        <5>1. i + 1 \in 1 .. Len(l) /\ i + 1 # k /\ x = l[i + 1]
          BY <1>0, <2>1, <2>2, <3>1, <4>2
        <5>2. QED BY <5>1
      <4>3. QED BY <4>1, <4>2
    <3>3. QED BY <1>0, <2>4, <3>2 DEF Nodes
  <2>6. ASSUME NEW x \in Nodes(l), x.conn # c PROVE x \in Nodes(m)
    <3>1. PICK j \in 1 .. Len(l) : x = l[j]
      BY <1>0 DEF Nodes
    <3>2. j # k
      BY <2>1, <2>6, <3>1
    <3>3. CASE j < k
      <4>1. j \in 1 .. Len(l) - 1 /\ m[j] = l[j]
        BY <1>0, <2>1, <2>2, <3>3
      <4>2. QED BY <2>3, <3>1, <4>1 DEF Nodes
    <3>4. CASE ~(j < k)
      <4>1. j - 1 \in 1 .. Len(l) - 1 /\ ~(j - 1 < k) /\ (j - 1) + 1 = j
        BY <1>0, <2>1, <3>2, <3>4
      <4>2. m[j - 1] = l[j]
        BY <2>2, <4>1
      <4>3. QED BY <2>3, <3>1, <4>1, <4>2 DEF Nodes
    <3>5. QED BY <3>3, <3>4
  <2>7. QED BY <2>5, <2>6 DEF m
<1>3. QED BY <1>1, <1>2

LEMMA DevAddressOf ==
  ASSUME NEW l \in Seq(Node), NEW a, NEW c, OnePerHandle(Nodes(l)),
         [addr |-> a, conn |-> c] \in Nodes(l)
  PROVE  HasConn(l, c) /\ DevAddress(l, c) = a
<1> DEFINE n == [addr |-> a, conn |-> c]
           k == FirstConn(l, c)
<1>1. PICK i \in DOMAIN l : l[i] = n
  BY DEF Nodes
<1>2. HasConn(l, c)
  BY <1>1 DEF HasConn
<1>3. k \in DOMAIN l /\ l[k].conn = c
  BY <1>2, FirstConnFound
<1>4. l[k] = n
  BY <1>1, <1>3 DEF OnePerHandle, Nodes
<1>5. QED BY <1>2, <1>4 DEF DevAddress

(* The module: an event is queued, or it is no longer calm. *)
LEMMA CalmModule ==
  ASSUME IInv, CalmInv, NEW a \in Addrs, NEW h \in Handles,
         RemoteOpens(a, h) \/ RequestedOpens(h) \/ Closes(h) \/ Sends(h)
  PROVE  CalmInv'
<1>1. SUFFICES ASSUME calm' PROVE CalmInv'
  BY DEF CalmInv
<1>2. UNCHANGED <<list, wpc, wevt, waddr, lastCb, apc>>
  BY DEF RemoteOpens, RequestedOpens, Closes, Sends, watcherVars, appVars
<1>3. /\ peer \in [Handles -> Addrs \cup {None}] /\ up \subseteq Handles
      /\ \A k \in up : peer[k] \in Addrs
      /\ Unhandled \in Seq(Event)
  BY UnhandledType DEF IInv, ModuleType, UpIsUsed
<1>4. ASSUME NEW kind \in {"opened", "closed", "data"}, NEW b \in Addrs,
             Emit(kind, h, b)
      PROVE  /\ calm
             /\ [kind |-> kind, conn |-> h, peer |-> b] \in Event
             /\ Unhandled' = Append(Unhandled, [kind |-> kind, conn |-> h, peer |-> b])
  <2> DEFINE e == [kind |-> kind, conn |-> h, peer |-> b]
  <2>1. e \in Event
    BY DEF Event
  <2>2. calm /\ msgq' = Append(msgq, e)
    BY <1>1, <1>4 DEF Emit
  <2>3. CASE wpc = "del"
    <3>1. <<wevt>> \in Seq(Event) /\ msgq \in Seq(Event)
      BY <2>3 DEF IInv, WatcherType, MsgqType
    <3>2. <<wevt>> \o Append(msgq, e) = Append(<<wevt>> \o msgq, e)
      BY <2>1, <3>1
    <3>3. QED BY <1>2, <2>1, <2>2, <2>3, <3>2 DEF Unhandled
  <2>4. CASE wpc # "del"
    BY <1>2, <2>1, <2>2, <2>4 DEF Unhandled
  <2>5. QED BY <2>3, <2>4
<1>5. Links \in SUBSET Node /\ OnePerHandle(Links)
  BY <1>3 DEF Links, Node, OnePerHandle
<1>6. ASSUME NEW kind \in {"opened", "closed", "data"}, NEW b \in Addrs,
             Emit(kind, h, b),
             LET e == [kind |-> kind, conn |-> h, peer |-> b]
             IN  Fits(Links, e) /\ Links' = Apply(Links, e),
             Links' \in SUBSET Node, OnePerHandle(Links')
      PROVE  \E T : IsHistory(T, list', Unhandled', Links')
  <2> DEFINE e == [kind |-> kind, conn |-> h, peer |-> b]
  <2>1. calm /\ e \in Event /\ Unhandled' = Append(Unhandled, e)
    BY <1>4, <1>6
  <2>2. PICK T : IsHistory(T, list, Unhandled, Links)
    BY <2>1 DEF CalmInv
  <2>3. Fits(Links, e) /\ Links' = Apply(Links, e)
    BY <1>6
  <2> HIDE DEF e
  <2>4. \E T1 : IsHistory(T1, list, Append(Unhandled, e), Links')
    BY <1>3, <1>6, <2>1, <2>2, <2>3, HistoryGrows
  <2>5. QED BY <1>2, <2>1, <2>4
<1>7. CASE RemoteOpens(a, h)
  <2> DEFINE e == [kind |-> "opened", conn |-> h, peer |-> a]
  <2>1. /\ \A k \in Handles : peer[k] # a
        /\ peer[h] = None
        /\ peer' = [peer EXCEPT ![h] = a] /\ up' = up \cup {h}
        /\ Emit("opened", h, a)
    BY <1>7 DEF RemoteOpens, Linked, Free
  <2>2. calm
    BY <1>4, <2>1
  <2>3. h \notin up
    BY <1>3, <2>1, NamesAssumption
  <2>4. Links' = Links \cup {[addr |-> a, conn |-> h]}
    BY <1>3, <2>1, <2>3 DEF Links
  <2>5. Fits(Links, e)
    BY <1>3, <2>1, <2>3 DEF Links, Fits
  <2>6. Links' = Apply(Links, e)
    <3>1. {n \in Links : n.addr # a} = Links
      BY <1>3, <2>1 DEF Links
    <3>2. QED BY <2>4, <3>1 DEF Apply
  <2>7. Links' \in SUBSET Node /\ OnePerHandle(Links')
    <3>1. \A k \in up' : peer'[k] \in Addrs /\ k \in Handles
      BY <1>3, <2>1
    <3>2. QED BY <3>1 DEF Links, Node, OnePerHandle
  <2>8. \E T : IsHistory(T, list', Unhandled', Links')
    BY <1>6, <2>1, <2>5, <2>6, <2>7
  <2>9. /\ \A k \in Handles : peer'[k] # None => k \in up'
        /\ \A j, k \in Handles : peer'[j] = peer'[k] /\ peer'[j] # None => j = k
    BY <1>3, <2>1, <2>2 DEF CalmInv
  <2>10. QED BY <1>2, <2>2, <2>8, <2>9 DEF CalmInv
<1>8. CASE RequestedOpens(h)
  <2>1. peer[h] \in Addrs /\ peer[h] # None /\ h \notin up /\ Emit("opened", h, peer[h])
    BY <1>3, <1>8 DEF RequestedOpens, Free
  <2>2. calm
    BY <1>4, <2>1
  <2>3. QED BY <2>1, <2>2 DEF CalmInv
<1>9. CASE Closes(h)
  <2> DEFINE b == peer[h]
             e == [kind |-> "closed", conn |-> h, peer |-> b]
  <2>1. /\ b \in Addrs /\ peer' = [peer EXCEPT ![h] = None] /\ up' = up \ {h}
        /\ Emit("closed", h, b)
    BY <1>3, <1>9 DEF Closes, Free
  <2>2. calm
    BY <1>4, <2>1
  <2>3. h \in up
    BY <1>9, <2>2 DEF CalmInv, Closes, Free
  <2>4. Links' = {n \in Links : n.conn # h}
    BY <1>3, <2>1 DEF Links
  <2>5. Fits(Links, e) /\ Links' = Apply(Links, e)
    BY <1>3, <2>3, <2>4 DEF Links, Fits, Apply
  <2>6. Links' \in SUBSET Node /\ OnePerHandle(Links')
    BY <1>5, <2>4 DEF OnePerHandle
  <2>7. \E T : IsHistory(T, list', Unhandled', Links')
    BY <1>6, <2>1, <2>5, <2>6
  <2>8. /\ \A k \in Handles : peer'[k] # None => k \in up'
        /\ \A j, k \in Handles : peer'[j] = peer'[k] /\ peer'[j] # None => j = k
    BY <1>3, <2>1, <2>2 DEF CalmInv
  <2>9. QED BY <1>2, <2>2, <2>7, <2>8 DEF CalmInv
<1>10. CASE Sends(h)
  <2> DEFINE b == peer[h]
             e == [kind |-> "data", conn |-> h, peer |-> b]
  <2>1. b \in Addrs /\ h \in up /\ UNCHANGED <<peer, up>> /\ Emit("data", h, b)
    BY <1>3, <1>10 DEF Sends
  <2>2. calm
    BY <1>4, <2>1
  <2>3. Links' = Links /\ Fits(Links, e) /\ Apply(Links, e) = Links
    BY <1>3, <2>1 DEF Links, Fits, Apply
  <2>4. \E T : IsHistory(T, list', Unhandled', Links')
    BY <1>5, <1>6, <2>1, <2>3
  <2>5. QED BY <1>2, <2>1, <2>2, <2>4 DEF CalmInv
<1>11. QED BY <1>7, <1>8, <1>9, <1>10

(* The watcher: it finds what the next event names. *)
LEMMA CalmWatcher ==
  ASSUME IInv, CalmInv, Watcher
  PROVE  CalmInv'
<1>1. UNCHANGED <<peer, up, apc, calm>>
  BY DEF Watcher, WatchOpened, WatchUnknown, WatchData, WatchClosed,
     WatchDelete, moduleVars, appVars
<1>2. SUFFICES ASSUME calm, calm' PROVE CalmInv'
  BY <1>1 DEF CalmInv
<1>3. PICK T : IsHistory(T, list, Unhandled, Links)
  BY <1>2 DEF CalmInv
<1>4. /\ IsMap(list) /\ list \in Seq(Node) /\ msgq \in Seq(Event)
      /\ OnePerHandle(Nodes(list)) /\ Unhandled \in Seq(Event)
  BY <1>3, UnhandledType DEF IInv, IsMap, MsgqType, IsHistory
<1>5. Links' = Links
  BY <1>1 DEF Links
<1>6. ASSUME wpc = "recv", msgq # <<>>
      PROVE  /\ Unhandled = msgq /\ Head(msgq) \in Event
             /\ Fits(Nodes(list), Head(msgq))
             /\ \A k : Nodes(k) = Apply(Nodes(list), Head(msgq))
                         => \E H : IsHistory(H, k, Tail(msgq), Links)
  <2>1. /\ Unhandled = msgq /\ Head(msgq) \in Event /\ Head(msgq) = msgq[1]
        /\ Tail(msgq) \in Seq(Event) /\ Len(msgq) = Len(Tail(msgq)) + 1
        /\ \A i \in 1 .. Len(Tail(msgq)) : Tail(msgq)[i] = msgq[i + 1]
        /\ 1 \in 1 .. Len(msgq)
    BY <1>4, <1>6 DEF Unhandled
  <2>2. Fits(T[0], msgq[1])
    BY <1>3, <2>1 DEF IsHistory
  <2>3. Fits(Nodes(list), Head(msgq))
    BY <1>3, <2>1, <2>2 DEF IsHistory
  <2>4. ASSUME NEW k, Nodes(k) = Apply(Nodes(list), Head(msgq))
        PROVE  \E H : IsHistory(H, k, Tail(msgq), Links)
    <3>1. IsHistory(T, list, msgq, Links) /\ msgq[1] = Head(msgq)
      BY <1>3, <2>1
    <3> DEFINE rest == Tail(msgq)
               e == Head(msgq)
    <3>2. /\ rest \in Seq(Event) /\ e \in Event /\ Len(msgq) = Len(rest) + 1
          /\ \A i \in 1 .. Len(rest) : rest[i] = msgq[i + 1]
          /\ Nodes(k) = Apply(Nodes(list), e) /\ msgq[1] = e
      BY <2>1, <2>4
    <3> HIDE DEF rest, e
    <3>3. \E H : IsHistory(H, k, rest, Links)
      BY <1>4, <3>1, <3>2, HistoryShrinks
    <3>4. QED BY <3>3 DEF rest
  <2>5. QED BY <2>1, <2>3, <2>4
<1>7. CASE WatchOpened
  <2> DEFINE e == Head(msgq)
  <2>1. /\ wpc = "recv" /\ msgq # <<>> /\ e.kind = "opened"
        /\ list' = DevAdd(list, e.peer, e.conn) /\ msgq' = Tail(msgq)
        /\ lastCb'.addr = e.peer /\ lastCb'.truth = e.peer
        /\ wpc' = "recv"
    BY <1>7 DEF WatchOpened, Callback
  <2>2. e \in Event /\ Fits(Nodes(list), e)
    BY <1>6, <2>1
  <2>3. e.peer \in Addrs /\ e.conn \in Handles
    BY <2>2 DEF Event
  <2>4. ~HasAddr(list, e.peer)
    BY <2>1, <2>2 DEF Fits, HasAddr, Nodes
  <2>5. Nodes(list') = Nodes(list) \cup {[addr |-> e.peer, conn |-> e.conn]}
    BY <1>4, <2>1, <2>3, <2>4, DevAddNodes
  <2>6. {n \in Nodes(list) : n.addr # e.peer} = Nodes(list)
    BY <2>1, <2>2 DEF Fits
  <2>7. Nodes(list') = Apply(Nodes(list), e)
    BY <2>1, <2>5, <2>6 DEF Apply
  <2>8. \E H : IsHistory(H, list', Tail(msgq), Links)
    BY <1>6, <2>1, <2>7
  <2>9. Unhandled' = Tail(msgq)
    BY <2>1 DEF Unhandled
  <2>10. QED BY <1>1, <1>2, <1>5, <2>1, <2>8, <2>9 DEF CalmInv
<1>8. CASE WatchUnknown
  <2>1. /\ wpc = "recv" /\ msgq # <<>> /\ Head(msgq).kind # "opened"
        /\ ~HasConn(list, Head(msgq).conn)
    BY <1>8 DEF WatchUnknown
  <2>2. [addr |-> Head(msgq).peer, conn |-> Head(msgq).conn] \in Nodes(list)
    BY <1>6, <2>1 DEF Fits
  <2>3. QED BY <1>4, <2>1, <2>2, DevAddressOf
<1>9. CASE WatchData
  <2> DEFINE e == Head(msgq)
  <2>1. /\ wpc = "recv" /\ msgq # <<>> /\ e.kind = "data"
        /\ lastCb'.addr = DevAddress(list, e.conn) /\ lastCb'.truth = e.peer
        /\ list' = list /\ msgq' = Tail(msgq) /\ wpc' = "recv"
    BY <1>9 DEF WatchData, Callback
  <2>2. [addr |-> e.peer, conn |-> e.conn] \in Nodes(list)
    BY <1>6, <2>1 DEF Fits
  <2>3. DevAddress(list, e.conn) = e.peer
    BY <1>4, <2>2, DevAddressOf
  <2>4. Nodes(list') = Apply(Nodes(list), e)
    BY <2>1 DEF Apply
  <2>5. \E H : IsHistory(H, list', Tail(msgq), Links)
    BY <1>6, <2>1, <2>4
  <2>6. Unhandled' = Tail(msgq)
    BY <2>1 DEF Unhandled
  <2>7. QED BY <1>1, <1>2, <1>5, <2>1, <2>3, <2>5, <2>6 DEF CalmInv
<1>10. CASE WatchClosed
  <2> DEFINE e == Head(msgq)
  <2>1. /\ wpc = "recv" /\ msgq # <<>> /\ e.kind = "closed"
        /\ waddr' = DevAddress(list, e.conn) /\ wevt' = e /\ wpc' = "del"
        /\ UNCHANGED <<list, lastCb>> /\ msgq' = Tail(msgq)
    BY <1>10 DEF WatchClosed
  <2>2. [addr |-> e.peer, conn |-> e.conn] \in Nodes(list)
    BY <1>6, <2>1 DEF Fits
  <2>3. waddr' = e.peer
    BY <1>4, <2>1, <2>2, DevAddressOf
  <2>4. <<e>> \o Tail(msgq) = msgq
    BY <1>4, <2>1
  <2>5. Unhandled' = Unhandled
    BY <1>6, <2>1, <2>4 DEF Unhandled
  <2>6. QED BY <1>1, <1>2, <1>3, <1>5, <2>1, <2>3, <2>5 DEF CalmInv
<1>11. CASE WatchDelete
  <2>1. /\ wpc = "del" /\ list' = DevDel(list, wevt.conn) /\ msgq' = msgq
        /\ lastCb'.addr = waddr /\ lastCb'.truth = wevt.peer /\ wpc' = "recv"
    BY <1>11 DEF WatchDelete, Callback
  <2>2. wevt \in Event /\ wevt.kind = "closed"
    BY <2>1 DEF IInv, WatcherType
  <2>3. waddr = wevt.peer
    BY <1>2, <2>1 DEF CalmInv
  <2>4. Nodes(list') = Apply(Nodes(list), wevt)
    BY <1>4, <2>1, <2>2, DevDelNodes DEF Apply
  <2>5. /\ Unhandled[1] = wevt /\ Len(Unhandled) = Len(msgq) + 1
        /\ \A i \in 1 .. Len(msgq) : msgq[i] = Unhandled[i + 1]
    <3>1. Unhandled = <<wevt>> \o msgq
      BY <2>1 DEF Unhandled
    <3>2. <<wevt>> \in Seq(Event) /\ Len(<<wevt>>) = 1 /\ <<wevt>>[1] = wevt
      BY <2>2
    <3>3. /\ Len(<<wevt>> \o msgq) = 1 + Len(msgq) /\ Len(msgq) \in Nat
          /\ \A i \in 1 .. 1 + Len(msgq) :
               (<<wevt>> \o msgq)[i] = IF i =< 1 THEN <<wevt>>[i] ELSE msgq[i - 1]
      BY <1>4, <3>2, ConcatProperties
    <3>4. 1 \in 1 .. 1 + Len(msgq) /\ 1 =< 1
      BY <3>3
    <3>5. \A i \in 1 .. Len(msgq) :
            i + 1 \in 1 .. 1 + Len(msgq) /\ ~(i + 1 =< 1) /\ (i + 1) - 1 = i
      BY <3>3
    <3>6. (<<wevt>> \o msgq)[1] = wevt
      BY <3>2, <3>3, <3>4
    <3>7. QED BY <3>1, <3>3, <3>5, <3>6
  <2>6. \E H : IsHistory(H, list', msgq, Links)
    BY <1>3, <1>4, <2>2, <2>4, <2>5, HistoryShrinks
  <2>7. Unhandled' = msgq
    BY <2>1 DEF Unhandled
  <2>8. QED BY <1>1, <1>2, <1>5, <2>1, <2>3, <2>6, <2>7 DEF CalmInv
<1>12. QED BY <1>7, <1>8, <1>9, <1>10, <1>11 DEF Watcher

LEMMA CalmStep ==
  ASSUME IInv, CalmInv, [Next]_vars
  PROVE  CalmInv'
<1>1. ASSUME NEW a \in Addrs, NEW h \in Handles, RemoteOpens(a, h)
      PROVE  CalmInv'
  BY <1>1, CalmModule
<1>2. ASSUME NEW h \in Handles, RequestedOpens(h) \/ Closes(h) \/ Sends(h)
      PROVE  CalmInv'
  <2>1. PICK a : a \in Addrs
    BY <1>2 DEF RequestedOpens, Closes, Sends, Free, IInv, ModuleType, UpIsUsed
  <2>2. QED BY <1>2, <2>1, CalmModule
<1>3. ASSUME NEW a \in Addrs, NEW h \in Handles, Connect(a, h)
      PROVE  CalmInv'
  BY <1>3 DEF Connect, CalmInv
<1>4. CASE Reset
  BY <1>4 DEF Reset, CalmInv
<1>5. CASE ConnectAdd
  BY <1>5 DEF ConnectAdd, CalmInv
<1>6. CASE (\E a \in Addrs : Disconnect(a)) \/ DisconnectClose \/ UNCHANGED vars
  <2>1. /\ UNCHANGED <<calm, peer, up, list, msgq, wpc, wevt, waddr, lastCb>>
        /\ apc' = apc \/ apc' # "add"
    BY <1>6 DEF Disconnect, DisconnectClose, vars, moduleVars, watcherVars, appVars
  <2>2. Unhandled' = Unhandled /\ Links' = Links
    BY <2>1 DEF Unhandled, Links
  <2>3. QED BY <2>1, <2>2 DEF CalmInv
<1>7. QED BY <1>1, <1>2, <1>3, <1>4, <1>5, <1>6, CalmWatcher DEF Next

LEMMA CalmInit == Init => CalmInv
<1> SUFFICES ASSUME Init PROVE CalmInv
  OBVIOUS
<1> DEFINE T == [i \in 0 .. 0 |-> {}]
<1>1. Unhandled = <<>> /\ Links = {} /\ Nodes(list) = {}
  BY DEF Init, Unhandled, Links, Nodes
<1>2. /\ T \in [0 .. Len(Unhandled) -> SUBSET Node]
      /\ T[0] = {} /\ T[Len(Unhandled)] = {}
      /\ 1 .. Len(Unhandled) = {} /\ \A i \in 0 .. Len(Unhandled) : T[i] = {}
  BY <1>1
<1>3. IsHistory(T, list, Unhandled, Links)
  BY <1>1, <1>2 DEF IsHistory, OnePerHandle
<1>4. QED BY <1>3 DEF Init, CalmInv

LEMMA CalmInvariance == Spec => []CalmInv
BY Invariance, CalmInit, CalmStep, PTL DEF Spec

(* For any devices, handles and capacity: as long as no event is lost, the *)
(* module is not reset and only the remote side opens connections, the     *)
(* table with the unhandled events applied is the module's list of         *)
(* connections.                                                            *)
THEOREM TableIsCurrent == Spec => []TableFollowsModule
<1>1. IInv /\ CalmInv => TableFollowsModule
  <2> SUFFICES ASSUME IInv, CalmInv, calm PROVE TableAfterUnhandled = Links
    BY DEF TableFollowsModule
  <2>1. PICK T : IsHistory(T, list, Unhandled, Links)
    BY DEF CalmInv
  <2>2. Unhandled \in Seq(Event)
    BY UnhandledType DEF IInv
  <2>3. QED BY <2>1, <2>2, HistoryIsFold DEF IsHistory
<1>2. QED BY Invariance, CalmInvariance, <1>1, PTL

(* Under the same conditions a callback names the device of its event,     *)
(* although its address is looked up by a handle that the module uses      *)
(* again ...                                                               *)
THEOREM CallbackIsRight == Spec => []CallbackNamesDevice
<1>1. CalmInv => CallbackNamesDevice
  BY DEF CalmInv, CallbackNamesDevice
<1>2. QED BY CalmInvariance, <1>1, PTL

(* ... and the watcher always finds the connection, so it does not end.    *)
THEOREM WatcherStays == Spec => []CalmWatcherAlive
<1>1. CalmInv => CalmWatcherAlive
  BY DEF CalmInv, CalmWatcherAlive, WatcherAlive
<1>2. QED BY CalmInvariance, <1>1, PTL
=============================================================================
