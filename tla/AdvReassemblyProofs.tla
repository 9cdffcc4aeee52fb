------------------------ MODULE AdvReassemblyProofs ------------------------
(* Proofs about long advertisements, for any sources, any lengths of       *)
(* fragments and of the buffer, and any number of advertisements.          *)
EXTENDS AdvReassembly, TLAPS

Fragment == [src : Sources, adv : Nat, off : Nat, len : FragLens]

(* What the steps compute with; the sums stay below the counter's end.     *)
Types ==
  /\ sent \in [Sources -> Seq(Fragment)] /\ DOMAIN bytes = Sources
  /\ advNo \in [Sources -> Nat]
  /\ \A s \in Sources : bytes[s] \in 0 .. LenMod - 1
  /\ \A s \in Sources : sent[s] = <<>> => bytes[s] = 0
  /\ fill \in Nat /\ completed \in Nat /\ results \in Nat
  /\ recording \in BOOLEAN

(* While reports come in order, one advertisement is under way at most,    *)
(* and it is the one recorded: all of it is counted, and all of it is in   *)
(* the buffer as long as the count has not reached the end.                *)
OneUnderWay ==
  \A s, t \in Sources : sent[s] # <<>> /\ sent[t] # <<>> => s = t
RecordedIsSent ==
  \A s \in Sources : sent[s] # <<>> =>
    /\ recording /\ recorded = s
    /\ fill = bytes[s]
    /\ fill < MaxLen => buffer = sent[s]
NothingRecorded == (\A s \in Sources : sent[s] = <<>>) => ~recording /\ fill = 0
Follows == orderly => OneUnderWay /\ RecordedIsSent /\ NothingRecorded

IInv == Types /\ Follows /\ CopiedInPlace /\ PublishedIsWhole /\ EveryCompleteIsPublished

USE LengthsAssumption
-----------------------------------------------------------------------------
LEMMA Small ==
  ASSUME NEW n \in 0 .. LenMod - 1
  PROVE  n % LenMod = n
OBVIOUS

(* What the module does.                                                   *)
LEMMA Sending ==
  ASSUME Types, NEW s \in Sources, NEW len \in FragLens, NEW status \in Statuses,
         Report(s, len, status)
  PROVE  LET f == [src |-> s, adv |-> advNo[s], off |-> bytes[s], len |-> len]
             total == bytes[s] + len
             last == status # "incomplete"
         IN  /\ len \in Nat /\ total \in 0 .. LenMod - 1 /\ f.len = len /\ f.src = s
             /\ f.off = bytes[s]
             /\ sent' \in [Sources -> Seq(Fragment)] /\ DOMAIN bytes' = Sources
             /\ advNo' \in [Sources -> Nat]
             /\ sent[s] \in Seq(Fragment) /\ f \in Fragment
             /\ sent'[s] = IF last THEN <<>> ELSE Append(sent[s], f)
             /\ bytes'[s] = IF last THEN 0 ELSE total
             /\ \A t \in Sources \ {s} : sent'[t] = sent[t] /\ bytes'[t] = bytes[t]
             /\ completed' = IF status = "complete" /\ total =< MaxLen
                               THEN completed + 1 ELSE completed
             /\ \/ /\ Receive(f, status, Append(sent[s], f), total)
                   /\ orderly' => orderly /\ ~Alternates(s)
                \/ /\ ~orderly'
                   /\ UNCHANGED <<recording, recorded, fill, buffer, copied, published, results>>
<1> DEFINE f == [src |-> s, adv |-> advNo[s], off |-> bytes[s], len |-> len]
           total == bytes[s] + len
           last == status # "incomplete"
<1>1. /\ total < LenMod
      /\ sent' = [sent EXCEPT ![s] = IF last THEN <<>> ELSE Append(@, f)]
      /\ bytes' = [bytes EXCEPT ![s] = IF last THEN 0 ELSE total]
      /\ advNo' = [advNo EXCEPT ![s] = IF last THEN @ + 1 ELSE @]
      /\ completed' = IF status = "complete" /\ total <= MaxLen
                        THEN completed + 1 ELSE completed
      /\ \/ /\ Receive(f, status, Append(sent[s], f), total)
            /\ orderly' = (orderly /\ ~Alternates(s))
         \/ /\ orderly' = FALSE
            /\ UNCHANGED <<recording, recorded, fill, buffer, copied, published, results>>
  BY DEF Report
<1>2. len \in Nat /\ bytes[s] \in 0 .. LenMod - 1
  BY DEF Types
<1>3. total \in 0 .. LenMod - 1
  BY <1>1, <1>2
<1>4. /\ f.len = len /\ f.src = s /\ f.off = bytes[s] /\ f \in Fragment /\ sent[s] \in Seq(Fragment)
      /\ advNo[s] \in Nat
  <2>1. bytes[s] \in Nat /\ advNo[s] \in Nat /\ sent[s] \in Seq(Fragment)
    BY <1>2 DEF Types
  <2>2. f \in Fragment
    BY <2>1 DEF Fragment
  <2> QED BY <2>1, <2>2
<1>6. Append(sent[s], f) \in Seq(Fragment) /\ <<>> \in Seq(Fragment) /\ advNo[s] + 1 \in Nat
  BY <1>4
<1> HIDE DEF f
<1>7. sent' \in [Sources -> Seq(Fragment)] /\ advNo' \in [Sources -> Nat]
  BY <1>1, <1>6 DEF Types
<1>5. /\ DOMAIN bytes' = Sources
      /\ sent'[s] = IF last THEN <<>> ELSE Append(sent[s], f)
      /\ bytes'[s] = IF last THEN 0 ELSE total
      /\ \A t \in Sources \ {s} : sent'[t] = sent[t] /\ bytes'[t] = bytes[t]
  BY <1>1 DEF Types
<1> QED BY <1>1, <1>2, <1>3, <1>4, <1>5, <1>7 DEF f

(* The watcher's copy stays a number.                                      *)
LEMMA ReceiveType ==
  ASSUME Types, NEW f, f.len \in Nat, NEW status, NEW whole, NEW total,
         Receive(f, status, whole, total)
  PROVE  fill' \in Nat /\ recording' \in BOOLEAN /\ results' \in Nat
<1>1. \A n \in Nat : n % LenMod \in Nat
  OBVIOUS
<1>2. fill + f.len \in Nat
  BY DEF Types
<1>3. CASE status = "truncated" /\ Truncated
  BY <1>3 DEF Truncated, Types
<1>4. CASE FirstFragment(f)
  BY <1>1, <1>4 DEF FirstFragment, Types
<1>5. CASE ForeignFragment(f)
  BY <1>5 DEF ForeignFragment, Types
<1>6. CASE NextFragment(f)
  BY <1>1, <1>2, <1>6 DEF NextFragment, Grow, Types
<1>7. CASE Complete(f, whole, total)
  <2>1. fill' = 0 /\ recording' = FALSE /\ (results' = results \/ results' = results + 1)
    BY <1>7 DEF Complete, FillAfterComplete
  <2>2. results' \in Nat
    BY <2>1 DEF Types
  <2>3. fill' \in Nat /\ recording' \in BOOLEAN
    BY <2>1
  <2> QED BY <2>2, <2>3
<1> QED BY <1>3, <1>4, <1>5, <1>6, <1>7 DEF Receive
-----------------------------------------------------------------------------
(* A report of an orderly sequence.                                        *)

(* Either the source continues the advertisement recorded, or none is.     *)
LEMMA OrderlyCases ==
  ASSUME Types, Follows, orderly, NEW s \in Sources, ~Alternates(s)
  PROVE  /\ \A t \in Sources \ {s} : sent[t] = <<>>
         /\ \/ /\ sent[s] # <<>> /\ recording /\ recorded = s /\ fill = bytes[s]
               /\ fill < MaxLen => buffer = sent[s]
            \/ sent[s] = <<>> /\ ~recording /\ fill = 0 /\ bytes[s] = 0
<1>1. \A t \in Sources \ {s} : sent[t] = <<>>
  BY DEF Alternates
<1>2. RecordedIsSent /\ NothingRecorded
  BY DEF Follows
<1>3. CASE sent[s] # <<>>
  BY <1>1, <1>2, <1>3 DEF RecordedIsSent
<1>4. CASE sent[s] = <<>>
  <2>1. \A t \in Sources : sent[t] = <<>>
    BY <1>1, <1>4
  <2> QED BY <1>1, <1>2, <1>4, <2>1 DEF NothingRecorded, Types
<1> QED BY <1>3, <1>4

(* What is held of an advertisement that is published in order.            *)
LEMMA HeldIsSent ==
  ASSUME Types, Follows, orderly, NEW s \in Sources, ~Alternates(s),
         NEW len \in Nat, bytes[s] + len =< MaxLen,
         ~(bytes[s] + len = MaxLen /\ len = 0)
  PROVE  Held = sent[s]
<1>1. bytes[s] \in Nat /\ fill \in Nat
  BY DEF Types
<1>2. bytes[s] < MaxLen
  BY <1>1
<1> QED BY <1>2, OrderlyCases DEF Held

LEMMA FollowsReceive ==
  ASSUME IInv, orderly, NEW s \in Sources, NEW len \in FragLens, NEW status \in Statuses,
         ~Alternates(s),
         NEW f \in Fragment, sent[s] \in Seq(Fragment), f.len = len, f.src = s, f.off = bytes[s],
         len \in Nat,
         bytes[s] + len \in 0 .. LenMod - 1,
         Receive(f, status, Append(sent[s], f), bytes[s] + len),
         sent'[s] = IF status # "incomplete" THEN <<>> ELSE Append(sent[s], f),
         bytes'[s] = IF status # "incomplete" THEN 0 ELSE bytes[s] + len,
         \A t \in Sources \ {s} : sent'[t] = sent[t] /\ bytes'[t] = bytes[t],
         completed' = IF status = "complete" /\ bytes[s] + len =< MaxLen
                        THEN completed + 1 ELSE completed
  PROVE  Follows' /\ CopiedInPlace' /\ PublishedIsWhole' /\ EveryCompleteIsPublished'
<1> DEFINE total == bytes[s] + len
<1>1. /\ Types /\ Follows /\ PublishedIsWhole /\ results = completed
      /\ copied.end = copied.adv
  BY DEF IInv, CopiedInPlace, EveryCompleteIsPublished
<1>2. /\ \A t \in Sources \ {s} : sent[t] = <<>>
      /\ \/ /\ sent[s] # <<>> /\ recording /\ recorded = s /\ fill = bytes[s]
            /\ fill < MaxLen => buffer = sent[s]
         \/ sent[s] = <<>> /\ ~recording /\ fill = 0 /\ bytes[s] = 0
  BY <1>1, OrderlyCases
<1>3. /\ \A t \in Sources \ {s} : sent'[t] = <<>>
      /\ OneUnderWay'
  BY <1>2 DEF OneUnderWay
<1>4. fill + len = total /\ total \in Nat /\ bytes[s] \in Nat /\ total % LenMod = total
      /\ fill \in Nat
  BY <1>1, <1>2, Small, SMTT(30) DEF Types
<1>5. Grow(f.len) = total
  BY <1>4 DEF Grow
<1>9. copied' = copied \/ Copy(f, fill) => CopiedInPlace'
  <2>1. fill = f.off
    BY <1>2
  <2>2. Copy(f, fill) => copied'.end = fill + f.len /\ copied'.adv = f.off + f.len
    BY DEF Copy
  <2> QED BY <1>1, <2>1, <2>2 DEF CopiedInPlace
<1>6. CASE status = "truncated"
  <2>1. Truncated /\ completed' = completed /\ sent'[s] = <<>>
    BY <1>6 DEF Receive, FirstFragment
  <2>2. /\ ~recording' /\ fill' = 0 /\ published' = published /\ results' = results
    BY <2>1 DEF Truncated
  <2>5. CopiedInPlace'
    BY <1>9, <2>1 DEF Truncated
  <2>3. \A t \in Sources : sent'[t] = <<>>
    BY <1>3, <2>1
  <2>4. Follows'
    BY <1>3, <2>2, <2>3 DEF Follows, RecordedIsSent, NothingRecorded
  <2> QED BY <1>1, <2>1, <2>2, <2>4, <2>5 DEF PublishedIsWhole, CompleteIsWhole, EndsEmpty,
             EveryCompleteIsPublished
<1>7. CASE status = "incomplete"
  <2>1. /\ completed' = completed /\ sent'[s] = Append(sent[s], f) /\ bytes'[s] = total
        /\ FirstFragment(f) \/ ForeignFragment(f) \/ NextFragment(f)
    BY <1>7 DEF Receive
  <2>2. sent'[s] # <<>>
    BY <2>1
  <2>3. /\ recording' /\ recorded' = s /\ fill' = total
        /\ fill' < MaxLen => buffer' = Append(sent[s], f)
        /\ published' = published /\ results' = results
    <3>1. CASE FirstFragment(f)
      <4>1. /\ ~recording /\ recording' /\ recorded' = s /\ buffer' = <<f>>
            /\ fill' = len % LenMod /\ published' = published /\ results' = results
        BY <3>1 DEF FirstFragment
      <4>2. sent[s] = <<>> /\ bytes[s] = 0
        BY <1>2, <4>1
      <4>5. total = len
        BY <4>2
      <4>3. Append(<<>>, f) = <<f>>
        OBVIOUS
      <4> QED BY <1>4, <4>1, <4>2, <4>3, <4>5
    <3>2. CASE ForeignFragment(f)
      BY <1>2, <3>2 DEF ForeignFragment
    <3>3. CASE NextFragment(f)
      <4>1. /\ recording /\ recorded = s /\ fill' = total
            /\ ~ReachesEnd(f) => buffer' = Append(buffer, f)
            /\ recorded' = recorded /\ (recording' <=> recording)
            /\ published' = published /\ results' = results
        BY <1>5, <3>3 DEF NextFragment
      <4>2. fill < MaxLen => buffer = sent[s]
        BY <1>2, <4>1
      <4>3. total < MaxLen => ~ReachesEnd(f) /\ fill < MaxLen
        <5>1. fill + f.len = total /\ fill \in Nat /\ f.len \in Nat /\ total \in Nat
          BY <1>4
        <5> HIDE DEF total
        <5> QED BY <5>1 DEF ReachesEnd
      <4> QED BY <4>1, <4>2, <4>3
    <3> QED BY <2>1, <3>1, <3>2, <3>3
  <2>4. RecordedIsSent'
    BY <1>3, <2>1, <2>3 DEF RecordedIsSent
  <2>5. NothingRecorded'
    BY <2>2 DEF NothingRecorded
  <2>6. Follows'
    BY <1>3, <2>4, <2>5 DEF Follows
  <2>7. CopiedInPlace'
    <3>1. FirstFragment(f) => Copy(f, 0) /\ fill = 0
      BY <1>2 DEF FirstFragment
    <3>2. ForeignFragment(f) \/ NextFragment(f) => copied' = copied \/ Copy(f, fill)
      BY DEF ForeignFragment, NextFragment
    <3> QED BY <1>9, <2>1, <3>1, <3>2
  <2> QED BY <1>1, <2>1, <2>3, <2>6, <2>7 DEF PublishedIsWhole, CompleteIsWhole, EndsEmpty,
             EveryCompleteIsPublished
<1>8. CASE status = "complete"
  <2>1. /\ Complete(f, Append(sent[s], f), total) /\ sent'[s] = <<>>
        /\ completed' = IF total =< MaxLen THEN completed + 1 ELSE completed
    BY <1>8 DEF Receive
  <2>2. ~recording' /\ fill' = 0
    BY <2>1 DEF Complete, FillAfterComplete
  <2>7. CopiedInPlace'
    BY <1>9, <2>1 DEF Complete
  <2>3. \A t \in Sources : sent'[t] = <<>>
    BY <1>3, <2>1
  <2>4. Follows'
    BY <1>3, <2>2, <2>3 DEF Follows, RecordedIsSent, NothingRecorded
  <2>5. CASE total =< MaxLen
    <3>1. /\ published' = [len |-> total, last |-> len,
                           exact |-> Append(Held, f) = Append(sent[s], f) /\ total = total]
          /\ results' = results + 1
      BY <1>5, <2>1, <2>5 DEF Complete, Fits
    <3>2. /\ published'.len = total /\ published'.last = len
          /\ published'.exact <=> Append(Held, f) = Append(sent[s], f)
      BY <3>1
    <3>3. ~EndsEmpty' => Held = sent[s]
      BY <1>1, <2>5, <3>2, HeldIsSent DEF EndsEmpty
    <3>4. PublishedIsWhole'
      BY <3>2, <3>3 DEF PublishedIsWhole, CompleteIsWhole
    <3> QED BY <1>1, <2>1, <2>4, <2>5, <2>7, <3>1, <3>4 DEF EveryCompleteIsPublished
  <2>6. CASE ~(total =< MaxLen)
    <3>1. published' = published /\ results' = results
      BY <1>5, <2>1, <2>6 DEF Complete, Fits
    <3> QED BY <1>1, <2>1, <2>4, <2>6, <2>7, <3>1 DEF PublishedIsWhole, CompleteIsWhole,
               EndsEmpty, EveryCompleteIsPublished
  <2> QED BY <2>5, <2>6
<1> QED BY <1>6, <1>7, <1>8 DEF Statuses

LEMMA ReportNext ==
  ASSUME IInv, NEW s \in Sources, NEW len \in FragLens, NEW status \in Statuses,
         Report(s, len, status)
  PROVE  IInv'
<1> DEFINE f == [src |-> s, adv |-> advNo[s], off |-> bytes[s], len |-> len]
           total == bytes[s] + len
           last == status # "incomplete"
<1>1. Types /\ Follows
  BY DEF IInv
<1>2. /\ len \in Nat /\ total \in 0 .. LenMod - 1 /\ f.len = len /\ f.src = s
      /\ f.off = bytes[s]
      /\ sent' \in [Sources -> Seq(Fragment)] /\ DOMAIN bytes' = Sources
      /\ advNo' \in [Sources -> Nat] /\ sent[s] \in Seq(Fragment) /\ f \in Fragment
      /\ sent'[s] = IF last THEN <<>> ELSE Append(sent[s], f)
      /\ bytes'[s] = IF last THEN 0 ELSE total
      /\ \A t \in Sources \ {s} : sent'[t] = sent[t] /\ bytes'[t] = bytes[t]
      /\ completed' = IF status = "complete" /\ total =< MaxLen
                        THEN completed + 1 ELSE completed
      /\ \/ /\ Receive(f, status, Append(sent[s], f), total)
            /\ orderly' => orderly /\ ~Alternates(s)
         \/ /\ ~orderly'
            /\ UNCHANGED <<recording, recorded, fill, buffer, copied, published, results>>
  BY <1>1, Sending
<1> HIDE DEF f
<1>3. /\ \A t \in Sources : bytes'[t] \in 0 .. LenMod - 1
      /\ \A t \in Sources : sent'[t] = <<>> => bytes'[t] = 0
  <2> SUFFICES ASSUME NEW t \in Sources
               PROVE  bytes'[t] \in 0 .. LenMod - 1 /\ (sent'[t] = <<>> => bytes'[t] = 0)
    OBVIOUS
  <2>1. CASE t # s
    BY <1>1, <1>2, <2>1 DEF Types
  <2>2. CASE t = s /\ last
    BY <1>2, <2>2
  <2>3. CASE t = s /\ ~last
    <3>1. sent[s] \in Seq(Fragment) /\ f \in Fragment
      BY <1>2
    <3>2. Append(sent[s], f) # <<>>
      BY <3>1
    <3> QED BY <1>2, <2>3, <3>2
  <2> QED BY <2>1, <2>2, <2>3
<1>4. completed' \in Nat
  BY <1>1, <1>2 DEF Types
<1>5. CASE Receive(f, status, Append(sent[s], f), total) /\ (orderly' => orderly /\ ~Alternates(s))
  <2>1. fill' \in Nat /\ recording' \in BOOLEAN /\ results' \in Nat
    BY <1>1, <1>2, <1>5, ReceiveType
  <2>2. Types'
    BY <1>2, <1>3, <1>4, <2>1 DEF Types
  <2>4. CASE orderly'
    <3>1. Follows' /\ CopiedInPlace' /\ PublishedIsWhole' /\ EveryCompleteIsPublished'
      BY <1>2, <1>5, <2>4, FollowsReceive
    <3> QED BY <2>2, <3>1 DEF IInv
  <2>5. CASE ~orderly'
    BY <2>2, <2>5 DEF IInv, Follows, CopiedInPlace, PublishedIsWhole, EveryCompleteIsPublished
  <2> QED BY <2>4, <2>5
<1>6. CASE ~orderly' /\ UNCHANGED <<recording, recorded, fill, buffer, copied, published, results>>
  <2>1. fill' = fill /\ recording' = recording /\ results' = results /\ published' = published
    BY <1>6
  <2>2. fill' \in Nat /\ recording' \in BOOLEAN /\ results' \in Nat
    BY <1>1, <2>1 DEF Types
  <2>3. Types'
    BY <1>2, <1>3, <1>4, <2>2 DEF Types
  <2> QED BY <1>1, <1>6, <2>1, <2>3 DEF IInv, Follows, CopiedInPlace, PublishedIsWhole,
             EveryCompleteIsPublished
<1> QED BY <1>2, <1>5, <1>6
-----------------------------------------------------------------------------
LEMMA InitInv == Init => IInv
<1> SUFFICES ASSUME Init PROVE IInv
  OBVIOUS
<1>1. Types
  <2>1. /\ sent \in [Sources -> Seq(Fragment)] /\ DOMAIN bytes = Sources
        /\ advNo \in [Sources -> Nat]
    BY DEF Init
  <2>2. \A s \in Sources : bytes[s] = 0
    BY DEF Init
  <2>3. 0 \in 0 .. LenMod - 1
    OBVIOUS
  <2>4. fill \in Nat /\ completed \in Nat /\ results \in Nat /\ recording \in BOOLEAN
    BY DEF Init
  <2> QED BY <2>1, <2>2, <2>3, <2>4 DEF Types
<1>2. \A s \in Sources : sent[s] = <<>>
  BY DEF Init
<1>3. Follows
  BY <1>2 DEF Init, Follows, OneUnderWay, RecordedIsSent, NothingRecorded
<1>4. CopiedInPlace /\ PublishedIsWhole /\ EveryCompleteIsPublished
  BY DEF Init, NoResult, CopiedInPlace, PublishedIsWhole, CompleteIsWhole,
     EveryCompleteIsPublished
<1> QED BY <1>1, <1>3, <1>4 DEF IInv

LEMMA InvNext == IInv /\ [Next]_vars => IInv'
<1> SUFFICES ASSUME IInv, [Next]_vars PROVE IInv'
  OBVIOUS
<1>1. CASE Next
  BY <1>1, ReportNext DEF Next
<1>2. CASE UNCHANGED vars
  <2>1. /\ sent' = sent /\ bytes' = bytes /\ advNo' = advNo /\ completed' = completed
        /\ recording' = recording /\ recorded' = recorded /\ fill' = fill
        /\ buffer' = buffer /\ copied' = copied /\ published' = published
        /\ results' = results /\ (orderly' <=> orderly)
    BY <1>2 DEF vars, senderVars
  <2>2. Types'
    BY <2>1 DEF IInv, Types
  <2>3. Follows'
    BY <2>1 DEF IInv, Follows, OneUnderWay, RecordedIsSent, NothingRecorded
  <2>4. CopiedInPlace' /\ PublishedIsWhole' /\ EveryCompleteIsPublished'
    BY <2>1 DEF IInv, CopiedInPlace, PublishedIsWhole, CompleteIsWhole, EndsEmpty,
       EveryCompleteIsPublished
  <2> QED BY <2>2, <2>3, <2>4 DEF IInv
<1> QED BY <1>1, <1>2

LEMMA Invariance == Spec => []IInv
BY InitInv, InvNext, PTL DEF Spec

(* A report of an orderly advertisement is copied to its own place in the  *)
(* buffer: only an advertisement longer than the buffer is copied past it. *)
THEOREM CopyIsInPlace == Spec => []CopiedInPlace
<1>1. IInv => CopiedInPlace
  BY DEF IInv
<1> QED BY Invariance, <1>1, PTL

(* Reports that come in order give the advertisement, all of it and        *)
(* nothing else, but for an empty last report at the end of the buffer.    *)
THEOREM ResultIsWhole == Spec => []PublishedIsWhole
<1>1. IInv => PublishedIsWhole
  BY DEF IInv
<1> QED BY Invariance, <1>1, PTL

(* They give a result for every advertisement within the limit.            *)
THEOREM NoneIsMissed == Spec => []EveryCompleteIsPublished
<1>1. IInv => EveryCompleteIsPublished
  BY DEF IInv
<1> QED BY Invariance, <1>1, PTL
=============================================================================
