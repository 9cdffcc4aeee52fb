--------------------------- MODULE AdvSetsProofs ---------------------------
(* Proofs about advertising sets, for any length of a command and of data, *)
(* any limits of the module and of bletool, and any number of calls.       *)
EXTENDS AdvSets, SequenceTheorems, FiniteSetTheorems,
        WellFoundedInduction, TLAPS

Byte == (Nat \X Nat) \cup {"generated"}

(* Types of what the properties are about, and the name of the call that   *)
(* each command belongs to.                                                *)
Types ==
  /\ sets \subseteq Handles
  /\ DOMAIN air = Handles /\ DOMAIN train = Handles
  /\ data \in [Handles -> Seq(Byte)] /\ trainData \in [Handles -> Seq(Byte)]
  /\ buffer \in Seq(Byte) /\ asked \in Seq(Byte) /\ remnant \in Seq(Byte)
  /\ list \in Seq(Handles)
  /\ written \in Nat /\ calls \in Nat
Calls ==
  /\ pc \in {"configure", "generate", "start"} => op.name = "start"
  /\ pc \in {"stopAir", "stopTrain"} => op.name = "stop"
  /\ pc \in {"setData", "writeOnly", "clear", "write", "setLong"} => op.name = "set"

(* Between its two commands a stop has silenced the first advertising.     *)
HalfStopped == pc = "stopTrain" => op.handle \in Handles /\ air[op.handle] = Off
Stops == HalfStopped /\ StopSilences

(* What the buffer holds at each command of a call that sets data.         *)
Collected ==
  /\ pc = "setData" => Len(asked) # Chunk
  /\ pc = "writeOnly" => Len(asked) = Chunk /\ buffer = remnant
  /\ pc = "clear" => Len(asked) # Chunk /\ written = 0
  /\ pc = "write" => /\ Len(asked) # Chunk /\ written =< Len(asked)
                     /\ buffer = SubSeq(asked, 1, written)
  /\ pc = "setLong" =>
       buffer = (IF Len(asked) = Chunk THEN remnant ELSE <<>>) \o asked

(* The list names each set of the module once.                             *)
Tracked ==
  /\ \A h \in Handles : h \in sets <=> \E n \in 1 .. Len(list) : list[n] = h
  /\ \A m, n \in 1 .. Len(list) : list[m] = list[n] => m = n
Named ==
  ~restarted =>
    /\ pc # "lost" => Tracked
    /\ pc = "lost" => MAX_ADV_HANDLE =< Cardinality(sets)

IInv == Types /\ Calls /\ Stops /\ Collected /\ DataAreWhole /\ Named

USE SizesAssumption
-----------------------------------------------------------------------------
(* Types: every step.                                                      *)

(* A non-empty set of natural numbers has a least element.                 *)
LEMMA Least ==
  ASSUME NEW T, T \subseteq Nat, T # {}
  PROVE  \E x \in T : \A y \in T : x =< y
<1> DEFINE R == {ss \in Nat \X Nat : ss[1] < ss[2]}
<1>1. IsWellFoundedOn(R, Nat)
  BY NatLessThanWellFounded, Zenon DEF OpToRel
<1>2. PICK x \in T : \A y \in T : ~(<<y, x>> \in R)
  BY <1>1, WFMin
<1>3. \A y \in T : y \in Nat /\ x \in Nat /\ ~(y < x)
  BY <1>2
<1> QED BY <1>3

LEMMA BytesType ==
  ASSUME NEW call \in Nat, NEW len \in Nat
  PROVE  Bytes(call, len) \in Seq(Byte) /\ Len(Bytes(call, len)) = len
<1> DEFINE b == [n \in 1 .. len |-> <<call, n>>]
<1>1. \A n \in 1 .. len : b[n] \in Byte
  BY DEF Byte
<1>2. b \in [1 .. len -> Byte]
  BY <1>1
<1>3. b \in Seq(Byte) /\ Len(b) = len
  BY <1>2
<1> QED BY <1>3 DEF Bytes

LEMMA Beginning ==
  ASSUME Types, NEW name, NEW kind, NEW h, NEW d, NEW len \in Nat, NEW first,
         Begin(name, kind, h, d, len, first)
  PROVE  /\ Types' /\ pc = "idle" /\ pc' = first /\ op'.name = name
         /\ Len(asked') = len /\ written' = 0
         /\ remnant' = buffer /\ buffer' = buffer /\ sets' = sets /\ list' = list
        /\ (restarted' <=> restarted)
<1>1. asked' = Bytes(calls + 1, len) /\ calls + 1 \in Nat
  BY DEF Begin, Types
<1>2. asked' \in Seq(Byte) /\ Len(asked') = len
  BY <1>1, BytesType
<1>3. /\ sets' = sets /\ air' = air /\ train' = train /\ data' = data
      /\ trainData' = trainData /\ buffer' = buffer /\ list' = list
      /\ written' = 0 /\ remnant' = buffer /\ calls' = calls + 1
      /\ pc = "idle" /\ pc' = first /\ (restarted' <=> restarted)
      /\ op' = [name |-> name, kind |-> kind, handle |-> h, discover |-> d]
  BY DEF Begin, setVars, dataVars
<1> QED BY <1>1, <1>2, <1>3 DEF Types

LEMMA WithoutProps ==
  ASSUME NEW s \in Seq(Handles), NEW i \in 1 .. Len(s)
  PROVE  /\ Without(s, i) \in Seq(Handles) /\ Len(Without(s, i)) = Len(s) - 1
         /\ \A n \in 1 .. Len(s) - 1 :
              Without(s, i)[n] = IF n < i THEN s[n] ELSE s[n + 1]
<1> DEFINE w == [n \in 1 .. Len(s) - 1 |-> IF n < i THEN s[n] ELSE s[n + 1]]
<1>1. \A n \in 1 .. Len(s) - 1 : w[n] \in Handles
  OBVIOUS
<1>2. Len(s) - 1 \in Nat
  OBVIOUS
<1>3. w \in [1 .. Len(s) - 1 -> Handles]
  BY <1>1
<1>4. w \in Seq(Handles) /\ Len(w) = Len(s) - 1
  BY <1>2, <1>3
<1> QED BY <1>4 DEF Without

(* A new call: its first command, and nothing else, is next.               *)
FirstCommand(first, name, len) ==
  /\ first \in {"configure", "stopAir", "setData", "writeOnly", "clear", "refused"}
  /\ first = "configure" => name = "start"
  /\ first = "stopAir" => name = "stop"
  /\ first \in {"setData", "writeOnly", "clear"} => name = "set"
  /\ first \in {"setData", "clear"} => len # Chunk
  /\ first = "writeOnly" => len = Chunk

LEMMA NewCall ==
  ASSUME Types, Calls, Stops, Collected, DataAreWhole, Named,
         Start \/ Stop \/ SetLegacyData \/ SetData \/ SetTooLong
  PROVE  IInv'
<1>1. ASSUME NEW name, NEW kind, NEW h, NEW d, NEW len \in Nat, NEW first,
             Begin(name, kind, h, d, len, first),
             FirstCommand(first, name, len)
      PROVE  IInv'
  <2>1. /\ Types' /\ pc = "idle" /\ pc' = first /\ op'.name = name
        /\ Len(asked') = len /\ written' = 0
        /\ remnant' = buffer /\ buffer' = buffer /\ sets' = sets /\ list' = list
        /\ (restarted' <=> restarted)
    BY <1>1, Beginning
  <2>2. Calls'
    BY <1>1, <2>1 DEF Calls, FirstCommand
  <2>3. Stops' /\ DataAreWhole'
    BY <1>1, <2>1 DEF FirstCommand, Stops, HalfStopped, StopSilences, DataAreWhole
  <2>4. Collected'
    BY <1>1, <2>1 DEF FirstCommand, Collected
  <2>5. Named'
    BY <1>1, <2>1 DEF Named, Tracked, FirstCommand
  <2> QED BY <2>1, <2>2, <2>3, <2>4, <2>5 DEF IInv
<1>2. CASE Start
  <2>1. PICK kind \in Kinds, h \in Handles, d \in BOOLEAN :
          Begin("start", kind, h, d, 0, "configure")
    BY <1>2 DEF Start
  <2>2. FirstCommand("configure", "start", 0) /\ 0 \in Nat
    BY DEF FirstCommand
  <2> QED BY <1>1, <2>1, <2>2, Zenon
<1>3. CASE Stop
  <2>1. PICK h \in Handles : Begin("stop", "any", h, FALSE, 0, "stopAir")
    BY <1>3 DEF Stop
  <2>2. FirstCommand("stopAir", "stop", 0) /\ 0 \in Nat
    BY DEF FirstCommand
  <2> QED BY <1>1, <2>1, <2>2, Zenon
<1>4. CASE SetLegacyData
  <2>1. PICK h \in Handles, len \in Lengths :
          len <= LegacyLen /\ Begin("set", "legacy", h, FALSE, len, "setData")
    BY <1>4 DEF SetLegacyData
  <2>2. len \in Nat /\ FirstCommand("setData", "set", len)
    BY <2>1 DEF FirstCommand
  <2> QED BY <1>1, <2>1, <2>2, Zenon
<1>5. CASE SetData
  <2>1. PICK kind \in Kinds \ {"legacy"}, h \in Handles, len \in Lengths :
          Begin("set", kind, h, FALSE, len, FirstOfSet(len))
    BY <1>5 DEF SetData
  <2>2. len \in Nat /\ FirstCommand(FirstOfSet(len), "set", len)
    BY DEF FirstCommand, FirstOfSet, LongerThanCommand
  <2> QED BY <1>1, <2>1, <2>2, Zenon
<1>6. CASE SetTooLong
  <2>1. PICK kind \in Kinds, h \in Handles, len \in Lengths :
          Begin("set", kind, h, FALSE, len, "refused")
    BY <1>6 DEF SetTooLong
  <2>2. len \in Nat /\ FirstCommand("refused", "set", len)
    BY DEF FirstCommand
  <2> QED BY <1>1, <2>1, <2>2, Zenon
<1> QED BY <1>2, <1>3, <1>4, <1>5, <1>6
-----------------------------------------------------------------------------
(* Creation, deletion and restart.                                         *)

(* A call of a single command ends at once, with none of the names that the   *)
(* properties of stopping and of setting data are about.                   *)
LEMMA SingleCall ==
  ASSUME Types, Calls, Stops, Collected, DataAreWhole, Named,
         NEW name, Command(name), pc' \in {"idle", "lost"}, name \notin {"stop", "set"}
  PROVE  Calls' /\ Stops' /\ Collected' /\ DataAreWhole'
<1>1. op' = [name |-> name, kind |-> "any", handle |-> NoHandle, discover |-> FALSE]
  BY DEF Command
<1>2. op'.name = name
  BY <1>1
<1> QED BY <1>1, <1>2 DEF Calls, Stops, HalfStopped, StopSilences, Collected, DataAreWhole

LEMMA SingleKeeps ==
  ASSUME NEW name, Command(name)
  PROVE  /\ pc = "idle" /\ calls' = calls + 1 /\ buffer' = buffer /\ asked' = asked
         /\ remnant' = remnant /\ written' = written /\ (restarted' <=> restarted)
BY DEF Command

LEMMA CreateNext ==
  ASSUME Types, Calls, Stops, Collected, DataAreWhole, Named,
         Create
  PROVE  IInv'
<1>1. PICK h \in Handles \ sets :
        /\ sets' = sets \cup {h}
        /\ list' = Append(list, h)
        /\ data' = [data EXCEPT ![h] = <<>>]
        /\ trainData' = [trainData EXCEPT ![h] = <<>>]
  BY DEF Create, NewSet
<1>2. Command("create") /\ pc = "idle" /\ pc' = "idle" /\ air' = air /\ train' = train
  BY DEF Create, Single, Command
<1>3. Calls' /\ Stops' /\ Collected' /\ DataAreWhole'
  BY <1>2, SingleCall
<1>4. /\ list \in Seq(Handles) /\ Len(list) \in Nat
      /\ list' \in Seq(Handles) /\ Len(list') = Len(list) + 1
      /\ \A n \in 1 .. Len(list) : list'[n] = list[n]
      /\ list'[Len(list) + 1] = h
  BY <1>1 DEF Types
<1>5. Types'
  <2>0. /\ calls' = calls + 1 /\ buffer' = buffer /\ asked' = asked
        /\ remnant' = remnant /\ written' = written
    BY <1>2, SingleKeeps
  <2>1. data' \in [Handles -> Seq(Byte)] /\ trainData' \in [Handles -> Seq(Byte)]
    BY <1>1 DEF Types
  <2>2. sets' \subseteq Handles
    BY <1>1 DEF Types
  <2> QED BY <1>2, <1>4, <2>0, <2>1, <2>2, SMTT(30) DEF Types
<1>6. Named'
  <2> SUFFICES ASSUME ~restarted' PROVE Named'
    BY DEF Named
  <2>1. /\ \A g \in Handles : g \in sets <=> \E n \in 1 .. Len(list) : list[n] = g
        /\ \A m, n \in 1 .. Len(list) : list[m] = list[n] => m = n
    BY <1>2, SingleKeeps DEF Named, Tracked
  <2>2. \A n \in 1 .. Len(list) : list[n] # h
    BY <1>1, <2>1
  <2>3. \A g \in Handles : g \in sets' <=> \E n \in 1 .. Len(list') : list'[n] = g
    <3> SUFFICES ASSUME NEW g \in Handles
                 PROVE  g \in sets' <=> \E n \in 1 .. Len(list') : list'[n] = g
      OBVIOUS
    <3>1. CASE g = h
      BY <1>1, <1>4, <3>1
    <3>2. CASE g # h
      <4>1. g \in sets' <=> g \in sets
        BY <1>1, <3>2
      <4>2. (\E n \in 1 .. Len(list') : list'[n] = g) => \E n \in 1 .. Len(list) : list[n] = g
        BY <1>4, <3>2
      <4>3. (\E n \in 1 .. Len(list) : list[n] = g) => \E n \in 1 .. Len(list') : list'[n] = g
        BY <1>4
      <4> QED BY <2>1, <4>1, <4>2, <4>3
    <3> QED BY <3>1, <3>2
  <2>4. \A m, n \in 1 .. Len(list') : list'[m] = list'[n] => m = n
    BY <1>4, <2>1, <2>2
  <2> QED BY <1>2, <2>3, <2>4 DEF Named, Tracked
<1> QED BY <1>3, <1>5, <1>6 DEF IInv

(* A list without doubles is no longer than what it names is large.       *)
LEMMA ListIsShort ==
  ASSUME Types, Tracked
  PROVE  /\ Len(list) =< Cardinality(sets) /\ Cardinality(sets) \in Nat
         /\ IsFiniteSet(sets)
<1>1. Len(list) \in Nat /\ list \in [1 .. Len(list) -> Handles]
  BY DEF Types
<1>2. list \in [1 .. Len(list) -> sets]
  BY <1>1 DEF Tracked
<1>3. IsFiniteSet(1 .. Len(list)) /\ Cardinality(1 .. Len(list)) = Len(list)
  <2>1. 1 \in Int /\ Len(list) \in Int
    BY <1>1
  <2>2. /\ IsFiniteSet(1 .. Len(list))
        /\ Cardinality(1 .. Len(list)) = IF 1 > Len(list) THEN 0 ELSE Len(list) - 1 + 1
    BY <2>1, FS_Interval, Zenon
  <2> QED BY <1>1, <2>2
<1>4. IsFiniteSet(sets)
  <2>1. 0 \in Int /\ SetLimit - 1 \in Int
    OBVIOUS
  <2>2. IsFiniteSet(Handles)
    BY <2>1, FS_Interval, Zenon DEF Handles
  <2> QED BY <2>2, FS_Subset DEF Types
<1>5. Cardinality(sets) \in Nat
  BY <1>4, FS_CardinalityType
<1>6. ~(Cardinality(sets) < Cardinality(1 .. Len(list)))
  BY <1>2, <1>3, <1>4, FS_PigeonHole DEF Tracked
<1> QED BY <1>1, <1>3, <1>4, <1>5, <1>6

LEMMA BehindNext ==
  ASSUME Types, Calls, Stops, Collected, DataAreWhole, Named,
         CreateBehind
  PROVE  IInv'
<1>1. /\ Command("create") /\ pc = "idle" /\ pc' = "lost" /\ ~HasPlace
      /\ air' = air /\ train' = train /\ list' = list
  BY DEF CreateBehind, Command
<1>2. Calls' /\ Stops' /\ Collected' /\ DataAreWhole'
  BY <1>1, SingleCall
<1>3. /\ sets \subseteq sets' /\ sets' \subseteq Handles
      /\ data' \in [Handles -> Seq(Byte)] /\ trainData' \in [Handles -> Seq(Byte)]
  <2>1. CASE \E h \in Handles \ sets : NewSet(h)
    <3>1. PICK h \in Handles \ sets : NewSet(h)
      BY <2>1
    <3>2. /\ sets' = sets \cup {h}
          /\ data' = [data EXCEPT ![h] = <<>>]
          /\ trainData' = [trainData EXCEPT ![h] = <<>>]
      BY <3>1 DEF NewSet
    <3>3. <<>> \in Seq(Byte)
      OBVIOUS
    <3> QED BY <3>1, <3>2, <3>3 DEF Types
  <2>2. CASE UNCHANGED <<sets, dataVars>>
    BY <2>2 DEF Types, dataVars
  <2> QED BY <2>1, <2>2 DEF CreateBehind
<1>4. Types'
  <2>1. /\ calls' = calls + 1 /\ buffer' = buffer /\ asked' = asked
        /\ remnant' = remnant /\ written' = written
    BY <1>1, SingleKeeps
  <2> QED BY <1>1, <1>3, <2>1, SMTT(30) DEF Types
<1>5. Named'
  <2> SUFFICES ASSUME ~restarted' PROVE MAX_ADV_HANDLE =< Cardinality(sets')
    BY <1>1 DEF Named
  <2>1. Tracked
    BY <1>1, SingleKeeps DEF Named
  <2>2. /\ Len(list) =< Cardinality(sets) /\ Cardinality(sets) \in Nat
        /\ Len(list) \in Nat
    BY <2>1, ListIsShort DEF Types
  <2>3. IsFiniteSet(sets')
    <3>1. 0 \in Int /\ SetLimit - 1 \in Int
      OBVIOUS
    <3>2. IsFiniteSet(Handles)
      BY <3>1, FS_Interval, Zenon DEF Handles
    <3> QED BY <1>3, <3>2, FS_Subset
  <2>4. Cardinality(sets) =< Cardinality(sets') /\ Cardinality(sets') \in Nat
    BY <1>3, <2>3, FS_Subset, FS_CardinalityType
  <2>5. MAX_ADV_HANDLE =< Len(list)
    BY <1>1, <2>2 DEF HasPlace
  <2> QED BY <2>2, <2>4, <2>5
<1> QED BY <1>2, <1>4, <1>5 DEF IInv

LEMMA DeleteNext ==
  ASSUME Types, Calls, Stops, Collected, DataAreWhole, Named,
         Delete
  PROVE  IInv'
<1>1. PICK h \in sets :
        /\ \E i \in 1 .. Len(list) : list[i] = h
        /\ sets' = sets \ {h}
        /\ air' = [air EXCEPT ![h] = Off]
        /\ train' = [train EXCEPT ![h] = FALSE]
        /\ list' = Without(list, FirstPlace(h))
  BY DEF Delete
<1>2. /\ Command("delete") /\ pc = "idle" /\ pc' = "idle"
      /\ data' = data /\ trainData' = trainData
  BY DEF Delete, Single, Command, dataVars
<1>3. Calls' /\ Stops' /\ Collected' /\ DataAreWhole'
  BY <1>2, SingleCall
<1>4. /\ FirstPlace(h) \in 1 .. Len(list) /\ list[FirstPlace(h)] = h
  <2> DEFINE T == {i \in 1 .. Len(list) : list[i] = h}
  <2>1. T \subseteq Nat /\ T # {}
    BY <1>1
  <2>2. PICK x \in T : \A y \in T : x =< y
    BY <2>1, Least
  <2>3. x \in 1 .. Len(list) /\ list[x] = h /\ \A n \in 1 .. x - 1 : list[n] # h
    BY <2>2, SMTT(30) DEF Types
  <2> QED BY <2>3 DEF FirstPlace
<1> DEFINE p == FirstPlace(h)
<1>8. p \in 1 .. Len(list) /\ list[p] = h /\ list' = Without(list, p)
  BY <1>1, <1>4
<1> HIDE DEF p
<1>5. /\ list \in Seq(Handles) /\ Len(list) \in Nat /\ p \in 1 .. Len(list) /\ list[p] = h
      /\ list' \in Seq(Handles) /\ Len(list') = Len(list) - 1
      /\ \A n \in 1 .. Len(list) - 1 : list'[n] = IF n < p THEN list[n] ELSE list[n + 1]
  <2>1. list \in Seq(Handles) /\ Len(list) \in Nat
    BY DEF Types
  <2>2. /\ Without(list, p) \in Seq(Handles) /\ Len(Without(list, p)) = Len(list) - 1
        /\ \A n \in 1 .. Len(list) - 1 :
             Without(list, p)[n] = IF n < p THEN list[n] ELSE list[n + 1]
    BY <1>8, <2>1, WithoutProps
  <2> QED BY <1>8, <2>1, <2>2
<1>6. Types'
  <2>0. /\ calls' = calls + 1 /\ buffer' = buffer /\ asked' = asked
        /\ remnant' = remnant /\ written' = written
    BY <1>2, SingleKeeps
  <2>1. DOMAIN air' = Handles /\ DOMAIN train' = Handles /\ sets' \subseteq Handles
    BY <1>1 DEF Types
  <2> QED BY <1>2, <1>5, <2>0, <2>1, SMTT(30) DEF Types
<1>7. Named'
  <2> SUFFICES ASSUME ~restarted' PROVE Named'
    BY DEF Named
  <2>1. /\ \A g \in Handles : g \in sets <=> \E n \in 1 .. Len(list) : list[n] = g
        /\ \A m, n \in 1 .. Len(list) : list[m] = list[n] => m = n
    BY <1>2, SingleKeeps DEF Named, Tracked
  <2>2. \A n \in 1 .. Len(list') : \E k \in 1 .. Len(list) :
          k # p /\ list'[n] = list[k] /\ k = IF n < p THEN n ELSE n + 1
    BY <1>5
  <2>3. \A k \in 1 .. Len(list) : k # p =>
          \E n \in 1 .. Len(list') : list'[n] = list[k]
    <3> SUFFICES ASSUME NEW k \in 1 .. Len(list), k # p
                 PROVE  \E n \in 1 .. Len(list') : list'[n] = list[k]
      OBVIOUS
    <3>1. CASE k < p
      <4>1. k \in 1 .. Len(list') /\ list'[k] = list[k]
        BY <1>5, <3>1
      <4> QED BY <4>1
    <3>2. CASE k > p
      <4>1. k - 1 \in 1 .. Len(list') /\ list'[k - 1] = list[k]
        BY <1>5, <3>2
      <4> QED BY <4>1
    <3> QED BY <1>5, <3>1, <3>2
  <2>4. \A g \in Handles : g \in sets' <=> \E n \in 1 .. Len(list') : list'[n] = g
    <3> SUFFICES ASSUME NEW g \in Handles
                 PROVE  g \in sets' <=> \E n \in 1 .. Len(list') : list'[n] = g
      OBVIOUS
    <3>1. ASSUME g \in sets' PROVE \E n \in 1 .. Len(list') : list'[n] = g
      <4>1. g # h /\ g \in sets
        BY <1>1, <3>1
      <4>2. PICK k \in 1 .. Len(list) : list[k] = g
        BY <2>1, <4>1
      <4> QED BY <1>5, <2>3, <4>1, <4>2
    <3>2. ASSUME NEW n \in 1 .. Len(list'), list'[n] = g PROVE g \in sets'
      <4>1. PICK k \in 1 .. Len(list) : k # p /\ list[k] = g
        BY <2>2, <3>2
      <4>2. g \in sets /\ g # h
        BY <1>5, <2>1, <4>1
      <4> QED BY <1>1, <4>2
    <3> QED BY <3>1, <3>2
  <2>5. \A m, n \in 1 .. Len(list') : list'[m] = list'[n] => m = n
    <3> SUFFICES ASSUME NEW m \in 1 .. Len(list'), NEW n \in 1 .. Len(list'),
                        list'[m] = list'[n]
                 PROVE  m = n
      OBVIOUS
    <3>1. PICK k \in 1 .. Len(list) : list'[m] = list[k] /\ k = IF m < p THEN m ELSE m + 1
      BY <2>2
    <3>2. PICK l \in 1 .. Len(list) : list'[n] = list[l] /\ l = IF n < p THEN n ELSE n + 1
      BY <2>2
    <3>3. k = l
      BY <2>1, <3>1, <3>2
    <3> QED BY <1>5, <3>1, <3>2, <3>3
  <2> QED BY <1>2, <2>4, <2>5 DEF Named, Tracked
<1> QED BY <1>3, <1>6, <1>7 DEF IInv

LEMMA IdleNext ==
  ASSUME Types, Calls, Stops, Collected, DataAreWhole, Named,
         SingleFails \/ StopNone \/ Restart
  PROVE  IInv'
<1>1. ASSUME NEW name, Single(name), name \notin {"stop", "set"},
             UNCHANGED <<setVars, dataVars, list>>
      PROVE  IInv'
  <2>0. Command(name) /\ pc = "idle" /\ pc' = "idle"
    BY <1>1 DEF Single, Command
  <2>1. Calls' /\ Stops' /\ Collected' /\ DataAreWhole'
    BY <1>1, <2>0, SingleCall
  <2>2. /\ sets' = sets /\ air' = air /\ train' = train /\ data' = data
        /\ trainData' = trainData /\ list' = list
    BY <1>1 DEF setVars, dataVars
  <2>3. Types' /\ Named'
    BY <2>0, <2>2, SingleKeeps, SMTT(30) DEF Types, Named, Tracked
  <2> QED BY <2>1, <2>3 DEF IInv
<1>2. CASE SingleFails
  BY <1>1, <1>2 DEF SingleFails
<1>3. CASE StopNone
  BY <1>1, <1>3 DEF StopNone
<1>4. CASE Restart
  <2>1. /\ pc = "idle" /\ pc' = "idle" /\ ret' = "none" /\ restarted' = TRUE
        /\ sets' = {} /\ buffer' = <<>> /\ data' = data /\ trainData' = trainData
        /\ air' = [h \in Handles |-> Off] /\ train' = [h \in Handles |-> FALSE]
        /\ list' = list /\ asked' = asked /\ remnant' = remnant /\ written' = written
        /\ calls' = calls
    BY <1>4 DEF Restart, dataVars
  <2>2. Types'
    BY <2>1 DEF Types
  <2>3. Calls' /\ Stops' /\ Collected' /\ DataAreWhole' /\ Named'
    BY <2>1 DEF Calls, Stops, HalfStopped, StopSilences, Collected, DataAreWhole, Named
  <2> QED BY <2>2, <2>3 DEF IInv
<1> QED BY <1>2, <1>3, <1>4
-----------------------------------------------------------------------------
(* The commands of a call.                                                 *)

LEMMA CommandKeeps ==
  ASSUME Types, Named, UNCHANGED <<sets, list, callVars>>, pc # "lost", pc' # "lost"
  PROVE  /\ Named' /\ op' = op /\ asked' = asked /\ remnant' = remnant /\ calls' = calls
         /\ sets' = sets /\ list' = list /\ op.handle \in sets => op.handle \in Handles
<1>1. /\ sets' = sets /\ list' = list /\ op' = op /\ asked' = asked /\ remnant' = remnant
      /\ calls' = calls /\ (restarted' <=> restarted)
  BY DEF callVars
<1> QED BY <1>1 DEF Named, Tracked, Types

LEMMA StartNext ==
  ASSUME Types, Calls, Stops, Collected, DataAreWhole, Named,
         Configure \/ Generate \/ StartAir
  PROVE  IInv'
<1>1. /\ UNCHANGED <<sets, list, callVars>> /\ buffer' = buffer /\ written' = written
      /\ trainData' = trainData
      /\ pc # "lost" /\ pc' # "lost"
  BY DEF Configure, Generate, StartAir, setVars, dataVars, Return
<1>2. /\ Named' /\ op' = op /\ asked' = asked /\ remnant' = remnant /\ calls' = calls
      /\ sets' = sets /\ list' = list
  BY <1>1, CommandKeeps
<1>3. /\ op.name = "start" /\ pc' \in {"generate", "start", "idle"}
  BY DEF Configure, Generate, StartAir, Calls, Return
<1>4. Types'
  <2>1. data' \in [Handles -> Seq(Byte)]
    <3>1. Generated \in Seq(Byte)
      BY DEF Generated, Byte
    <3> QED BY <3>1 DEF Types, Configure, Generate, StartAir, dataVars
  <2>2. DOMAIN air' = Handles /\ DOMAIN train' = Handles
    BY DEF Types, Configure, Generate, StartAir, setVars
  <2> QED BY <1>1, <1>2, <2>1, <2>2 DEF Types
<1>5. Calls' /\ Stops' /\ Collected' /\ DataAreWhole'
  BY <1>2, <1>3 DEF Calls, Stops, HalfStopped, StopSilences, Collected, DataAreWhole
<1> QED BY <1>2, <1>4, <1>5 DEF IInv

LEMMA StopNext ==
  ASSUME Types, Calls, Stops, Collected, DataAreWhole, Named, StopAir \/ StopTrain
  PROVE  IInv'
<1>1. /\ UNCHANGED <<sets, list, callVars>> /\ buffer' = buffer /\ written' = written
      /\ data' = data /\ trainData' = trainData
      /\ pc # "lost" /\ pc' # "lost"
  BY DEF StopAir, StopTrain, dataVars, Return
<1>2. /\ Named' /\ op' = op /\ asked' = asked /\ remnant' = remnant /\ calls' = calls
      /\ sets' = sets /\ list' = list
  BY <1>1, CommandKeeps
<1>3. op.name = "stop" /\ pc' \in {"stopTrain", "idle"}
  BY DEF StopAir, StopTrain, Calls, Return
<1>4. Types'
  <2>1. DOMAIN air' = Handles /\ DOMAIN train' = Handles
    BY DEF Types, StopAir, StopTrain
  <2> QED BY <1>1, <1>2, <2>1 DEF Types
<1>5. Calls' /\ Collected' /\ DataAreWhole'
  BY <1>2, <1>3 DEF Calls, Collected, DataAreWhole
<1>6. CASE StopAir
  <2>1. op.handle \in Handles /\ air' = [air EXCEPT ![op.handle] = Off] /\ pc' = "stopTrain"
    BY <1>6 DEF StopAir, Types
  <2>2. air'[op.handle] = Off
    BY <2>1 DEF Types
  <2> QED BY <1>2, <1>4, <1>5, <2>1, <2>2 DEF IInv, Stops, HalfStopped, StopSilences
<1>7. CASE StopTrain
  <2>1. /\ op.handle \in Handles /\ air[op.handle] = Off /\ air' = air
        /\ train' = [train EXCEPT ![op.handle] = FALSE] /\ pc' = "idle"
    BY <1>7 DEF StopTrain, Stops, HalfStopped, Return
  <2>2. train'[op.handle] = FALSE
    BY <2>1 DEF Types
  <2> QED BY <1>2, <1>4, <1>5, <2>1, <2>2 DEF IInv, Stops, HalfStopped, StopSilences
<1> QED BY <1>6, <1>7

(* What is written to the buffer continues what it holds.                  *)
LEMMA Extended ==
  ASSUME NEW a \in Seq(Byte), NEW w \in 0 .. Len(a), NEW to \in w .. Len(a)
  PROVE  /\ SubSeq(a, 1, w) \o SubSeq(a, w + 1, to) = SubSeq(a, 1, to)
         /\ SubSeq(a, 1, to) \in Seq(Byte)
<1>1. 1 \in 1 .. Len(a) + 1 /\ w \in 1 - 1 .. Len(a)
  OBVIOUS
<1>2. SubSeq(a, 1, w) \o SubSeq(a, w + 1, to) = SubSeq(a, 1, to)
  BY <1>1, ConcatAdjacentSubSeq
<1>3. \A n \in 1 .. to : a[n] \in Byte
  OBVIOUS
<1>4. SubSeq(a, 1, to) \in Seq(Byte)
  BY <1>3, SubSeqProperties
<1> QED BY <1>2, <1>4

(* The commands that only fill the buffer.                                 *)
LEMMA WriteNext ==
  ASSUME Types, Calls, Stops, Collected, DataAreWhole, Named,
         Clear \/ WriteChunk \/ WriteRest \/ WriteOnly
  PROVE  IInv'
<1>1. /\ UNCHANGED <<sets, list, callVars>> /\ air' = air /\ train' = train
      /\ data' = data /\ trainData' = trainData
      /\ pc # "lost" /\ pc' # "lost"
  BY DEF Clear, WriteChunk, WriteRest, WriteOnly, setVars, dataVars
<1>2. /\ Named' /\ op' = op /\ asked' = asked /\ remnant' = remnant /\ calls' = calls
      /\ sets' = sets /\ list' = list
  BY <1>1, CommandKeeps
<1>3. op.name = "set" /\ pc' \in {"write", "setLong"}
  BY DEF Clear, WriteChunk, WriteRest, WriteOnly, Calls
<1>4. Calls' /\ Stops' /\ DataAreWhole'
  BY <1>2, <1>3 DEF Calls, Stops, HalfStopped, StopSilences, DataAreWhole
<1>5. /\ asked \in Seq(Byte) /\ Len(asked) \in Nat /\ written \in Nat /\ buffer \in Seq(Byte)
  BY DEF Types
<1>6. CASE Clear
  <2>1. /\ pc = "clear" /\ buffer' = <<>> /\ pc' = "write" /\ written' = written
    BY <1>6 DEF Clear
  <2>2. written = 0 /\ Len(asked) # Chunk
    BY <2>1 DEF Collected
  <2>3. SubSeq(asked, 1, 0) = <<>>
    BY SubSeqEmpty
  <2>4. Collected'
    BY <1>2, <1>5, <2>1, <2>2, <2>3 DEF Collected
  <2>5. Types'
    BY <1>1, <1>2, <2>1 DEF Types
  <2> QED BY <1>2, <1>4, <2>4, <2>5 DEF IInv
<1>7. CASE WriteChunk \/ WriteRest
  <2>1. /\ pc = "write" /\ Len(asked) # Chunk /\ written =< Len(asked)
        /\ buffer = SubSeq(asked, 1, written)
    BY <1>7 DEF WriteChunk, WriteRest, Collected
  <2>2. ASSUME NEW to \in written .. Len(asked), written' = to,
               buffer' = buffer \o SubSeq(asked, written + 1, to)
        PROVE  Types' /\ buffer' = SubSeq(asked, 1, to)
    <3>1. buffer' = SubSeq(asked, 1, to) /\ buffer' \in Seq(Byte)
      BY <1>5, <2>1, <2>2, Extended
    <3>2. written' \in Nat
      BY <1>5, <2>2
    <3>3. DOMAIN air' = Handles /\ DOMAIN train' = Handles /\ sets' \subseteq Handles
      BY <1>1, <1>2 DEF Types
    <3>4. /\ data' \in [Handles -> Seq(Byte)] /\ trainData' \in [Handles -> Seq(Byte)]
          /\ asked' \in Seq(Byte) /\ remnant' \in Seq(Byte) /\ list' \in Seq(Handles)
          /\ calls' \in Nat
      BY <1>1, <1>2 DEF Types
    <3> QED BY <3>1, <3>2, <3>3, <3>4 DEF Types
  <2>3. CASE WriteChunk
    <3> DEFINE to == written + Chunk
    <3>1. to \in written .. Len(asked)
      BY <1>5, <2>3 DEF WriteChunk
    <3>2. /\ written' = to /\ buffer' = buffer \o SubSeq(asked, written + 1, to)
          /\ pc' = "write"
      BY <2>3 DEF WriteChunk
    <3> HIDE DEF to
    <3>3. Types' /\ buffer' = SubSeq(asked, 1, to)
      BY <2>2, <3>1, <3>2
    <3>4. buffer' = SubSeq(asked', 1, written') /\ written' =< Len(asked') /\ Len(asked') # Chunk
      <4>1. written' = to /\ to =< Len(asked)
        BY <1>5, <3>1, <3>2
      <4>2. asked' = asked
        BY <1>2
      <4> QED BY <2>1, <3>3, <4>1, <4>2
    <3>5. Collected'
      BY <3>2, <3>4 DEF Collected
    <3> QED BY <1>2, <1>4, <3>3, <3>5 DEF IInv
  <2>4. CASE WriteRest
    <3>1. /\ written' = Len(asked) /\ pc' = "setLong"
          /\ buffer' = buffer \o SubSeq(asked, written + 1, Len(asked))
      BY <2>4 DEF WriteRest
    <3>2. Types' /\ buffer' = SubSeq(asked, 1, Len(asked))
      <4>1. Len(asked) \in written .. Len(asked)
        BY <1>5, <2>1
      <4> QED BY <2>2, <3>1, <4>1
    <3>3. buffer' = <<>> \o asked'
      BY <1>2, <1>5, <3>2, SubSeqFull, ConcatEmptySeq
    <3>4. Collected'
      BY <1>2, <2>1, <3>1, <3>3 DEF Collected
    <3> QED BY <1>2, <1>4, <3>2, <3>4 DEF IInv
  <2> QED BY <1>7, <2>3, <2>4
<1>8. CASE WriteOnly
  <2>1. /\ Len(asked) = Chunk /\ buffer = remnant /\ buffer' = buffer \o asked
        /\ pc' = "setLong" /\ written' = Len(asked)
    BY <1>8 DEF WriteOnly, Collected
  <2>2. Collected'
    BY <1>2, <2>1 DEF Collected
  <2>3. buffer' \in Seq(Byte)
    BY <1>5, <2>1
  <2>4. Types'
    BY <1>1, <1>2, <1>5, <2>1, <2>3 DEF Types
  <2> QED BY <1>2, <1>4, <2>2, <2>4 DEF IInv
<1> QED BY <1>6, <1>7, <1>8

LEMMA Stored ==
  ASSUME Types, NEW bytes \in Seq(Byte), Store(bytes), op' = op, op.handle \in Handles
  PROVE  /\ data' \in [Handles -> Seq(Byte)] /\ trainData' \in [Handles -> Seq(Byte)]
         /\ Holds(op.handle, op.kind)' = bytes
<1>1. CASE op.kind = "periodic"
  <2>1. data' = data /\ trainData' = [trainData EXCEPT ![op.handle] = bytes]
    BY <1>1 DEF Store
  <2> QED BY <1>1, <2>1 DEF Types, Holds
<1>2. CASE op.kind # "periodic"
  <2>1. trainData' = trainData /\ data' = [data EXCEPT ![op.handle] = bytes]
    BY <1>2 DEF Store
  <2> QED BY <1>2, <2>1 DEF Types, Holds
<1> QED BY <1>1, <1>2

LEMMA SetNext ==
  ASSUME Types, Calls, Stops, Collected, DataAreWhole, Named, SetShort \/ SetLong
  PROVE  IInv'
<1>1. /\ UNCHANGED <<sets, list, callVars>> /\ air' = air /\ train' = train
      /\ written' = written /\ pc # "lost" /\ pc' = "idle" /\ ret' = "ok"
  BY DEF SetShort, SetLong, setVars, Return
<1>2. /\ Named' /\ op' = op /\ asked' = asked /\ remnant' = remnant /\ calls' = calls
      /\ sets' = sets /\ list' = list /\ op.handle \in Handles
  BY <1>1, CommandKeeps DEF SetShort, SetLong, Types
<1>3. op.name = "set"
  BY DEF SetShort, SetLong, Calls
<1> DEFINE whole == (IF Len(asked) = Chunk THEN remnant ELSE <<>>) \o asked
<1>4. whole \in Seq(Byte) /\ Store(whole) /\ buffer' \in Seq(Byte)
  <2>1. asked \in Seq(Byte) /\ remnant \in Seq(Byte) /\ whole \in Seq(Byte)
    BY DEF Types
  <2>2. CASE SetShort
    <3>1. Len(asked) # Chunk /\ Store(asked) /\ buffer' = buffer
      BY <2>2 DEF SetShort, Collected
    <3>2. whole = asked
      BY <2>1, <3>1, ConcatEmptySeq
    <3> QED BY <2>1, <3>1, <3>2 DEF Types
  <2>3. CASE SetLong
    <3>1. buffer = whole /\ Store(buffer) /\ buffer' = <<>>
      BY <2>3 DEF SetLong, Collected
    <3>2. buffer' \in Seq(Byte)
      BY <3>1
    <3> QED BY <2>1, <3>1, <3>2
  <2> QED BY <2>2, <2>3
<1> HIDE DEF whole
<1>5. /\ data' \in [Handles -> Seq(Byte)] /\ trainData' \in [Handles -> Seq(Byte)]
      /\ Holds(op.handle, op.kind)' = whole
  BY <1>2, <1>4, Stored
<1>6. Types'
  BY <1>1, <1>2, <1>4, <1>5 DEF Types
<1>7. DataAreWhole'
  BY <1>2, <1>5 DEF DataAreWhole, whole
<1>8. Calls' /\ Stops' /\ Collected'
  BY <1>1, <1>2, <1>3 DEF Calls, Stops, HalfStopped, StopSilences, Collected
<1> QED BY <1>2, <1>6, <1>7, <1>8 DEF IInv

(* A command that fails, and a step that changes nothing.                  *)
LEMMA FailureNext ==
  ASSUME Types, Calls, Stops, Collected, DataAreWhole, Named,
         CommandFails \/ SetLongFails
  PROVE  IInv'
<1>1. /\ UNCHANGED <<sets, list, callVars>> /\ air' = air /\ train' = train
      /\ data' = data /\ trainData' = trainData /\ buffer' \in {buffer, <<>>}
      /\ written' = written /\ pc # "lost" /\ pc' = "idle" /\ ret' = "failed"
  BY DEF CommandFails, SetLongFails, setVars, dataVars, Return
<1>2. /\ Named' /\ op' = op /\ asked' = asked /\ remnant' = remnant /\ calls' = calls
      /\ sets' = sets /\ list' = list
  BY <1>1, CommandKeeps
<1>3. Types'
  <2>1. buffer' \in Seq(Byte)
    <3>1. buffer \in Seq(Byte) /\ <<>> \in Seq(Byte)
      BY DEF Types
    <3> QED BY <1>1, <3>1
  <2> QED BY <1>1, <1>2, <2>1 DEF Types
<1>4. Calls' /\ Stops' /\ Collected' /\ DataAreWhole'
  BY <1>1, <1>2 DEF Calls, Stops, HalfStopped, StopSilences, Collected, DataAreWhole
<1> QED BY <1>2, <1>3, <1>4 DEF IInv

LEMMA StutterNext ==
  ASSUME Types, Calls, Stops, Collected, DataAreWhole, Named, UNCHANGED vars
  PROVE  IInv'
<1>1. /\ UNCHANGED <<sets, list, callVars>> /\ air' = air /\ train' = train
      /\ data' = data /\ trainData' = trainData /\ buffer' = buffer
      /\ written' = written /\ pc' = pc /\ ret' = ret
  BY DEF vars, setVars, dataVars
<1>2. /\ op' = op /\ asked' = asked /\ remnant' = remnant /\ calls' = calls
      /\ sets' = sets /\ list' = list /\ (restarted' <=> restarted)
  BY <1>1 DEF callVars
<1>3. Types' /\ Calls' /\ Stops' /\ Collected' /\ DataAreWhole' /\ Named'
  BY <1>1, <1>2 DEF Types, Calls, Stops, HalfStopped, StopSilences, Collected,
     DataAreWhole, Holds, Named, Tracked
<1> QED BY <1>2, <1>3 DEF IInv
-----------------------------------------------------------------------------
LEMMA InitInv == Init => IInv
<1> SUFFICES ASSUME Init PROVE IInv
  OBVIOUS
<1>1. Types
  BY DEF Init, Types
<1>2. Calls /\ Stops /\ Collected /\ DataAreWhole
  BY DEF Init, Calls, Stops, HalfStopped, StopSilences, Collected, DataAreWhole
<1>3. Named
  BY DEF Init, Named, Tracked
<1> QED BY <1>1, <1>2, <1>3 DEF IInv

LEMMA InvNext == IInv /\ [Next]_vars => IInv'
<1> SUFFICES ASSUME IInv, [Next]_vars PROVE IInv'
  OBVIOUS
<1>1. Types /\ Calls /\ Stops /\ Collected /\ DataAreWhole /\ Named
  BY DEF IInv
<1> QED BY <1>1, CreateNext, BehindNext, DeleteNext, IdleNext, NewCall, StartNext, StopNext, WriteNext,
           SetNext, FailureNext, StutterNext DEF Next

LEMMA Invariance == Spec => []IInv
BY InitInv, InvNext, PTL DEF Spec

-----------------------------------------------------------------------------
(* As long as the module is not restarted, bletool's list names exactly    *)
(* the module's sets, each once; and what bletool writes behind its array  *)
(* it writes when the module has as many sets as the array has places.     *)
THEOREM ListIsTrue == Spec => []ListNamesSets
<1>1. IInv => ListNamesSets
  BY DEF IInv, Named, Tracked, ListNamesSets
<1> QED BY Invariance, <1>1, PTL

(* A stop that succeeds silences both advertisings of the set.             *)
THEOREM StoppedIsSilent == Spec => []StopSilences
<1>1. IInv => StopSilences
  BY DEF IInv, Stops
<1> QED BY Invariance, <1>1, PTL

(* Data of any length but one chunk are set exactly as the call gave them. *)
THEOREM DataAreSet == Spec => []DataAreWhole
<1>1. IInv => DataAreWhole
  BY DEF IInv
<1> QED BY Invariance, <1>1, PTL
=============================================================================
