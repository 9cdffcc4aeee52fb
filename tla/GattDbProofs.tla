----------------------------- MODULE GattDbProofs -----------------------------
(* Proofs about the calls that build and delete the local GATT database,   *)
(* for any configuration files, any firmware and any number of calls.      *)
EXTENDS GattDb, SequenceTheorems, TLAPS

ItemSet == [kind : Kinds, uuid : Uuids, len : Nat, flaw : Flaws]
States == {"idle", "delSession", "find", "remove", "delAbort", "setSession", "root",
           "items", "exit", "lost"}

Types ==
  /\ db \in Seq(Attribute) /\ draft \in Seq(Attribute) /\ Rooted(db)
  /\ file \in Files /\ pos \in 1 .. Len(file.items) + 1
  /\ pc \in States
  /\ service \in Nat /\ char \in Nat

(* What is allocated is pointed to, once.                                  *)
Heap ==
  /\ held \in [Buffers -> Int] /\ ptr \subseteq Buffers
  /\ \A b \in Buffers : held[b] = IF b \in ptr THEN 1 ELSE 0
  /\ pc \notin {"items", "exit"} => ptr = {}
  /\ pc = "items" => ptr = {"root"}

(* What a call that fails here leaves, and why it fails.                   *)
Undo ==
  /\ pc \in {"idle", "delSession", "setSession"} /\ session => stuck
  /\ pc \in {"delSession", "find", "remove", "delAbort"} => db = before
  /\ pc \in {"setSession", "root", "items", "exit"} => db = <<>> /\ setting
  /\ pc = "idle" /\ ret = "failed" => db \in {before, <<>>}
Cause ==
  /\ pc = "delAbort" => fault
  /\ pc = "exit" => fault \/ ~Sound(file)
  /\ pc = "idle" /\ ret = "failed" => fault \/ stuck \/ ~Sound(file)

(* The deletion: the handles found are the services of what is left, in    *)
(* ascending order, and what is left is the beginning of the database.     *)
Ascending(fs) ==
  /\ fs \in Seq(Nat)
  /\ \A i, j \in DOMAIN fs : i < j => fs[i] < fs[j]
Lists(fs, d) ==
  /\ Ascending(fs)
  /\ \A i \in DOMAIN fs : IsService(d, fs[i])
Beginning(d) == Len(d) =< Len(db) /\ \A n \in 1 .. Len(d) : d[n] = db[n]
Search ==
  /\ pc = "delSession" => found = <<>> /\ start = 1
  /\ pc = "find" =>
       /\ start \in Nat /\ start > 0 /\ Lists(found, db) /\ draft = db
       /\ \A i \in DOMAIN found : found[i] < start
       /\ \A h \in 1 .. start - 1 : IsService(db, h) => \E i \in DOMAIN found : found[i] = h
  /\ pc = "remove" =>
       /\ Lists(found, draft) /\ Beginning(draft)
       /\ \A h \in 1 .. Len(draft) :
            IsService(draft, h) => \E i \in DOMAIN found : found[i] = h
  /\ pc = "lost" => Crowded

(* The construction: what has been read of a sound file is in the draft.   *)
IsLast(m, kind, n) ==
  /\ m \in 1 .. n - 1 /\ file.items[m].kind = kind
  /\ \A k \in m + 1 .. n - 1 : file.items[k].kind # kind
Matches(a, n) ==
  /\ a.kind = file.items[n].kind
  /\ a.uuid = file.items[n].uuid
  /\ a.order = "le" <=> big
  /\ a.under = CASE a.kind = "service" -> 0
                 [] a.kind = "char" -> LastOf(file.items, "service", n)
                 [] a.kind = "descriptor" -> LastOf(file.items, "char", n)
Content ==
  /\ Len(draft) = pos - 1
  /\ \A n \in 1 .. pos - 1 :
       /\ Matches(draft[n], n)
       /\ draft[n].kind = "service" => draft[n].started \/ (open /\ n = service)
  /\ service > 0 => IsLast(service, "service", pos)
  /\ char > 0 => IsLast(char, "char", pos)
Build ==
  /\ pc \in {"delSession", "find", "remove", "setSession", "root"}
       => pos = 1 /\ service = 0 /\ char = 0 /\ ~open
  /\ pc = "root" => draft = <<>>
  /\ pc = "items" =>
       /\ Rooted(draft)
       /\ draft = <<>> => service = 0 /\ char = 0
       /\ Sound(file) => Content

IInv == Types /\ Heap /\ Undo /\ Cause /\ Search /\ Build /\ SuccessMeansServed

USE FilesAssumption, FirmwareAssumption
-----------------------------------------------------------------------------
(* The deletion.                                                           *)

LEMMA WithoutLast ==
  ASSUME NEW d \in Seq(Attribute), NEW h \in 1 .. Len(d),
         \A n \in h + 1 .. Len(d) : d[n].kind # "service"
  PROVE  /\ Without(d, h) \in Seq(Attribute) /\ Len(Without(d, h)) = h - 1
         /\ \A n \in 1 .. h - 1 : Without(d, h)[n] = d[n]
<1>1. NextService(d, h) = Len(d) + 1
  <2>1. Len(d) + 1 \in h + 1 .. Len(d) + 1 /\ \A m \in h + 1 .. Len(d) : d[m].kind # "service"
    OBVIOUS
  <2>2. \A n \in h + 1 .. Len(d) + 1 : n = Len(d) + 1 \/ d[n].kind = "service" => n = Len(d) + 1
    OBVIOUS
  <2> QED BY <2>1, <2>2 DEF NextService
<1>2. SubSeq(d, Len(d) + 1, Len(d)) = <<>>
  OBVIOUS
<1>3. SubSeq(d, 1, h - 1) \in Seq(Attribute)
  BY SubSeqProperties
<1>4. Without(d, h) = SubSeq(d, 1, h - 1)
  BY <1>1, <1>2, <1>3, ConcatEmptySeq DEF Without
<1> QED BY <1>3, <1>4

LEMMA AppendAscending ==
  ASSUME NEW fs, Ascending(fs), NEW h \in Nat, \A i \in DOMAIN fs : fs[i] < h
  PROVE  /\ Ascending(Append(fs, h))
         /\ DOMAIN Append(fs, h) = 1 .. Len(fs) + 1 /\ DOMAIN fs = 1 .. Len(fs)
         /\ Len(fs) \in Nat
         /\ \A i \in DOMAIN fs : Append(fs, h)[i] = fs[i]
         /\ Append(fs, h)[Len(fs) + 1] = h
<1>1. fs \in Seq(Nat)
  BY DEF Ascending
<1>2. /\ Append(fs, h) \in Seq(Nat)
      /\ DOMAIN Append(fs, h) = 1 .. Len(fs) + 1 /\ DOMAIN fs = 1 .. Len(fs)
      /\ Len(fs) \in Nat
      /\ \A i \in DOMAIN fs : Append(fs, h)[i] = fs[i]
      /\ Append(fs, h)[Len(fs) + 1] = h
  BY <1>1, AppendProperties
<1> DEFINE gs == Append(fs, h)
<1> HIDE DEF gs
<1>3. ASSUME NEW i \in DOMAIN gs, NEW j \in DOMAIN gs, i < j PROVE gs[i] < gs[j]
  <2>1. i \in DOMAIN fs
    BY <1>2, <1>3 DEF gs
  <2>2. CASE j \in DOMAIN fs
    BY <1>2, <1>3, <2>1, <2>2 DEF gs, Ascending
  <2>3. CASE j \notin DOMAIN fs
    <3>1. j = Len(fs) + 1
      BY <1>2, <2>3 DEF gs
    <3> QED BY <1>2, <2>1, <3>1 DEF gs
  <2> QED BY <2>2, <2>3
<1> QED BY <1>2, <1>3 DEF Ascending, gs

LEMMA OthersAscending ==
  ASSUME NEW fs, Ascending(fs), fs # <<>>
  PROVE  /\ Ascending(Others(fs)) /\ Len(fs) \in DOMAIN fs
         /\ \A i \in DOMAIN Others(fs) : /\ i \in DOMAIN fs /\ Others(fs)[i] = fs[i]
                                         /\ fs[i] < fs[Len(fs)]
         /\ \A i \in DOMAIN fs : i # Len(fs) => i \in DOMAIN Others(fs)
         /\ \A i \in DOMAIN fs : fs[i] =< fs[Len(fs)]
<1>1. fs \in Seq(Nat) /\ Len(fs) \in Nat /\ Len(fs) > 0 /\ DOMAIN fs = 1 .. Len(fs)
  BY DEF Ascending
<1> DEFINE gs == SubSeq(fs, 1, Len(fs) - 1)
<1>2. gs \in Seq(Nat)
  BY <1>1, SubSeqProperties
<1>3. Len(gs) = Len(fs) - 1 /\ DOMAIN gs = 1 .. Len(fs) - 1
      /\ \A i \in 1 .. Len(fs) - 1 : gs[i] = fs[i]
  BY <1>1, <1>2
<1>4. SubSeq(fs, Len(fs) + 1, Len(fs)) = <<>>
  BY <1>1
<1>5. Others(fs) = gs
  BY <1>2, <1>4, ConcatEmptySeq DEF Others, Victim
<1> HIDE DEF gs
<1>6. Ascending(gs)
  <2>1. ASSUME NEW i \in DOMAIN gs, NEW j \in DOMAIN gs, i < j PROVE gs[i] < gs[j]
    <3>0. i \in 1 .. Len(fs) - 1 /\ j \in 1 .. Len(fs) - 1
      BY <1>3
    <3>1. i \in DOMAIN fs /\ j \in DOMAIN fs
      BY <1>1, <3>0
    <3>2. fs[i] < fs[j]
      BY <2>1, <3>1 DEF Ascending
    <3>3. gs[i] = fs[i] /\ gs[j] = fs[j]
      BY <1>3, <3>0
    <3> QED BY <3>2, <3>3
  <2> QED BY <1>2, <2>1 DEF Ascending
<1>7. \A i \in DOMAIN fs : i # Len(fs) => fs[i] < fs[Len(fs)]
  <2>1. Len(fs) \in DOMAIN fs /\ \A i \in DOMAIN fs : i # Len(fs) => i < Len(fs)
    BY <1>1
  <2> QED BY <2>1 DEF Ascending
<1>8. \A i \in DOMAIN fs : fs[i] =< fs[Len(fs)]
  BY <1>1, <1>7
<1> QED BY <1>1, <1>3, <1>5, <1>6, <1>7, <1>8
-----------------------------------------------------------------------------
LEMMA InitInv == Init => IInv
<1> SUFFICES ASSUME Init PROVE IInv
  OBVIOUS
<1>1. Types
  BY DEF Init, Types, States
<1>2. Heap
  BY DEF Init, Heap
<1>3. Undo /\ Cause
  BY DEF Init, Undo, Cause
<1>4. Search /\ Build /\ SuccessMeansServed
  BY DEF Init, Search, Build, SuccessMeansServed, Idle
<1> QED BY <1>1, <1>2, <1>3, <1>4 DEF IInv

(* The buffers: every step.                                                *)
LEMMA HeapNext ==
  ASSUME Heap, [Next]_vars
  PROVE  Heap'
<1> USE DEF Heap, Buffers
<1>1. CASE UNCHANGED heapVars /\ (pc' \in {"items", "exit"} => pc = pc')
           /\ (pc \in {"items", "exit"} => pc' = pc \/ pc' = "exit")
  BY <1>1 DEF heapVars
<1>2. CASE \E set \in BOOLEAN, f \in Files : Start(set, f)
  BY <1>1, <1>2 DEF Start
<1>3. CASE SessionRefused \/ Deletion
  BY <1>1, <1>3 DEF SessionRefused, Deletion, DelSession, FindService, FindTooMany, FindNothing,
     RemoveService, DelCommit, DelFails, DelAbort, Return
<1>4. CASE SetSession \/ RootUnreadable \/ StartService \/ HardReset
  BY <1>1, <1>4 DEF SetSession, RootUnreadable, StartService, HardReset, Return
<1>5. CASE RootRead
  <2>1. /\ ptr = {} /\ ptr' = {"root"} /\ pc' \in {"items", "exit"}
        /\ held' = [b \in Buffers |-> IF b \in {"root"} THEN held[b] + 1 ELSE held[b]]
    BY <1>5 DEF RootRead, Take
  <2> QED BY <2>1
<1>6. CASE ItemFlawed \/ ItemRefused
  BY <1>6 DEF ItemFlawed, ItemRefused, Take, Needs
<1>7. CASE AddItem \/ SkipItem
  BY <1>7 DEF AddItem, SkipItem, TakeAndFree, PtrAfterFree, Needs, AfterItem
<1>8. CASE SetCommit
  BY <1>8 DEF SetCommit, Return
<1>9. CASE SetFails
  BY <1>9 DEF SetFails, heapVars
<1>10. CASE Exit
  BY <1>10 DEF Exit, FreeAll, Return
<1>11. CASE UNCHANGED vars
  BY <1>1, <1>11 DEF vars
<1> QED BY <1>2, <1>3, <1>4, <1>5, <1>6, <1>7, <1>8, <1>9, <1>10, <1>11 DEF Next, Setting

(* When every handle found is removed, nothing is left.                    *)
LEMMA NothingLeft ==
  ASSUME Types, Search, pc = "remove", found = <<>>
  PROVE  draft = <<>>
<1> SUFFICES ASSUME Len(draft) > 0 PROVE FALSE
  BY DEF Types
<1>1. draft[1] = db[1] /\ db # <<>> /\ Len(draft) \in Nat
  BY DEF Search, Beginning, Types
<1>2. IsService(draft, 1)
  BY <1>1 DEF Types, Rooted, IsService
<1>3. \E i \in DOMAIN found : found[i] = 1
  BY <1>1, <1>2 DEF Search
<1> QED BY <1>3

(* The service removed is the last one there is: it is there, and without  *)
(* it the rest is still the beginning of the database.                     *)
LEMMA LastVictim ==
  ASSUME Types, Search, pc = "remove", found # <<>>
  PROVE  LET h == found[Victim(found)]
             d == Without(draft, h)
         IN  /\ IsService(draft, h)
             /\ d \in Seq(Attribute) /\ Beginning(d)
             /\ Lists(Others(found), d)
             /\ \A n \in 1 .. Len(d) :
                  IsService(d, n) => \E i \in DOMAIN Others(found) : Others(found)[i] = n
<1> DEFINE k == Len(found)
           h == found[k]
           gs == Others(found)
           d == Without(draft, h)
<1>1. Lists(found, draft) /\ Beginning(draft) /\ draft \in Seq(Attribute)
  BY DEF Search, Types
<1>2. /\ Ascending(gs) /\ k \in DOMAIN found
      /\ \A i \in DOMAIN gs : i \in DOMAIN found /\ gs[i] = found[i] /\ found[i] < h
      /\ \A i \in DOMAIN found : i # k => i \in DOMAIN gs
      /\ \A i \in DOMAIN found : found[i] =< h
  BY <1>1, OthersAscending DEF Lists
<1> HIDE DEF gs, k
<1>3. IsService(draft, h)
  BY <1>1, <1>2 DEF Lists
<1>4. h \in 1 .. Len(draft) /\ Len(draft) \in Nat
  BY <1>1, <1>3 DEF IsService
<1>5. \A n \in h + 1 .. Len(draft) : draft[n].kind # "service"
  <2> SUFFICES ASSUME NEW n \in h + 1 .. Len(draft), draft[n].kind = "service" PROVE FALSE
    OBVIOUS
  <2>1. IsService(draft, n) /\ n \in 1 .. Len(draft)
    BY <1>4 DEF IsService
  <2>2. PICK i \in DOMAIN found : found[i] = n
    BY <2>1 DEF Search
  <2>3. n =< h
    BY <1>2, <2>2
  <2> QED BY <1>4, <2>3
<1>6. /\ d \in Seq(Attribute) /\ Len(d) = h - 1
      /\ \A n \in 1 .. h - 1 : d[n] = draft[n]
  BY <1>1, <1>4, <1>5, WithoutLast
<1> HIDE DEF h, d
<1>7. Beginning(d)
  BY <1>1, <1>4, <1>6 DEF Beginning, Types
<1>8. \A n \in 1 .. Len(d) : IsService(d, n) <=> IsService(draft, n)
  BY <1>4, <1>6 DEF IsService
<1>9. Lists(gs, d)
  <2> SUFFICES ASSUME NEW i \in DOMAIN gs PROVE IsService(d, gs[i])
    BY <1>2 DEF Lists
  <2>1. IsService(draft, gs[i]) /\ gs[i] < h
    BY <1>1, <1>2 DEF Lists
  <2>2. gs[i] \in 1 .. Len(d)
    BY <1>4, <1>6, <2>1 DEF IsService
  <2> QED BY <1>8, <2>1, <2>2
<1>10. ASSUME NEW n \in 1 .. Len(d), IsService(d, n)
       PROVE  \E i \in DOMAIN gs : gs[i] = n
  <2>1. IsService(draft, n) /\ n \in 1 .. Len(draft) /\ n < h
    BY <1>4, <1>6, <1>8, <1>10
  <2>2. PICK i \in DOMAIN found : found[i] = n
    BY <2>1 DEF Search
  <2>3. i # k
    BY <1>4, <2>1, <2>2 DEF h
  <2> QED BY <1>2, <2>2, <2>3
<1> QED BY <1>3, <1>6, <1>7, <1>9, <1>10 DEF Victim, d, h, k, gs

(* What is read next is an attribute of the file, or its end.              *)
LEMMA ItemType ==
  ASSUME Types
  PROVE  /\ pos =< Len(file.items) => Item \in ItemSet /\ Item = file.items[pos]
         /\ Item.kind = "end" => pos = Len(file.items) + 1
         /\ file.items \in Seq(ItemSet) /\ Len(file.items) \in Nat
<1>1. file.items \in Seq(ItemSet)
  BY DEF Types, ItemSet
<1>2. CASE pos =< Len(file.items)
  <2>1. Item = file.items[pos]
    BY <1>2 DEF Item
  <2>2. Item \in ItemSet
    BY <1>1, <1>2, <2>1 DEF Types
  <2> QED BY <1>1, <1>2, <2>1, <2>2 DEF ItemSet, Kinds
<1>3. CASE ~(pos =< Len(file.items))
  BY <1>1, <1>3 DEF Types
<1> QED BY <1>2, <1>3

(* Types: every step.                                                      *)
LEMMA AddItemDraft ==
  ASSUME Types, AddItem
  PROVE  LET a == [kind |-> Item.kind, uuid |-> Item.uuid, order |-> UuidOrder,
                   under |-> Parent(Item.kind), started |-> FALSE]
         IN  /\ a \in Attribute /\ draft' = Append(draft, a)
             /\ draft' \in Seq(Attribute) /\ Len(draft') = Len(draft) + 1
             /\ \A n \in 1 .. Len(draft) : draft'[n] = draft[n]
             /\ draft'[Len(draft) + 1] = a
             /\ Len(draft) \in Nat
<1> DEFINE a == [kind |-> Item.kind, uuid |-> Item.uuid, order |-> UuidOrder,
                 under |-> Parent(Item.kind), started |-> FALSE]
<1>1. Item \in ItemSet /\ draft' = Append(draft, a)
  BY ItemType DEF AddItem
<1>2. Parent(Item.kind) \in Nat
  BY <1>1 DEF Parent, ItemSet, Kinds, Types
<1>3. UuidOrder \in {"le", "be"}
  BY DEF UuidOrder
<1>4. a \in Attribute
  BY <1>1, <1>2, <1>3 DEF Attribute, ItemSet
<1> HIDE DEF a
<1> QED BY <1>1, <1>4, AppendProperties DEF Types, a

LEMMA StartServiceDraft ==
  ASSUME Types, StartService
  PROVE  /\ draft' \in Seq(Attribute) /\ Len(draft') = Len(draft)
         /\ \A n \in 1 .. Len(draft) :
              draft'[n] = IF n = service THEN [draft[n] EXCEPT !.started = TRUE]
                                         ELSE draft[n]
<1>1. draft' = [draft EXCEPT ![service].started = TRUE]
  BY DEF StartService
<1>2. draft \in Seq(Attribute) /\ service \in Nat
  BY DEF Types
<1>3. \A a \in Attribute : [a EXCEPT !.started = TRUE] \in Attribute
  BY DEF Attribute
<1>4. CASE service \in DOMAIN draft
  <2>1. draft[service] \in Attribute
    BY <1>2, <1>4
  <2> DEFINE a == [draft[service] EXCEPT !.started = TRUE]
  <2>2. draft' = [draft EXCEPT ![service] = a]
    BY <1>1
  <2>3. a \in Attribute
    BY <1>3, <2>1
  <2> HIDE DEF a
  <2>4. draft' \in Seq(Attribute) /\ Len(draft') = Len(draft)
    BY <1>2, <1>4, <2>2, <2>3, ExceptSeq
  <2>5. \A n \in 1 .. Len(draft) : draft'[n] = IF n = service THEN a ELSE draft[n]
    BY <1>2, <1>4, <2>2
  <2> QED BY <2>4, <2>5 DEF a
<1>5. CASE service \notin DOMAIN draft
  <2>1. draft' = draft
    BY <1>1, <1>2, <1>5
  <2> QED BY <1>2, <1>5, <2>1
<1> QED BY <1>4, <1>5

LEMMA TypesNext ==
  ASSUME Types, Search, Build, [Next]_vars
  PROVE  Types'
<1> USE DEF Types, States
<1>1. CASE UNCHANGED <<db, draft, file, pos, service, char>> /\ pc' \in States
  BY <1>1
<1>2. CASE \E set \in BOOLEAN, f \in Files : Start(set, f)
  <2>1. PICK f \in Files : file' = f
    BY <1>2 DEF Start
  <2>2. 1 \in 1 .. Len(f.items) + 1
    BY <2>1
  <2> QED BY <1>2, <2>1, <2>2 DEF Start, moduleVars
<1>3. CASE SessionRefused
  BY <1>1, <1>3 DEF SessionRefused, Refuse, Return, buildVars, callVars, moduleVars
<1>4. CASE DelSession \/ SetSession
  BY <1>4 DEF DelSession, SetSession, NewSession, buildVars, callVars
<1>5. CASE FindService \/ FindTooMany \/ FindNothing
  BY <1>1, <1>5 DEF FindService, FindTooMany, FindNothing, buildVars, callVars, moduleVars
<1>6. CASE DelFails
  BY <1>1, <1>6 DEF DelFails, Refuse, buildVars, callVars, moduleVars
<1>7. CASE DelAbort \/ RootUnreadable \/ Exit
  BY <1>1, <1>7 DEF DelAbort, RootUnreadable, Exit, Abort, Return, buildVars, callVars,
     moduleVars
<1>8. CASE RemoveService
  <2>1. draft' \in Seq(Attribute)
    BY <1>8, LastVictim DEF RemoveService
  <2> QED BY <1>8, <2>1 DEF RemoveService, buildVars, callVars
<1>9. CASE DelCommit
  <2>1. draft = <<>>
    BY <1>9, NothingLeft DEF DelCommit
  <2> QED BY <1>9, <2>1 DEF DelCommit, Commit, Return, Rooted, buildVars, callVars
<1>10. CASE RootRead \/ ItemFlawed \/ ItemRefused \/ SetFails
  BY <1>1, <1>10 DEF RootRead, ItemFlawed, ItemRefused, SetFails, Refuse, buildVars,
     callVars, moduleVars
<1>11. CASE AddItem
  <2>1. draft' \in Seq(Attribute) /\ Len(draft) \in Nat
    BY <1>11, AddItemDraft
  <2> QED BY <1>11, <2>1 DEF AddItem, AfterItem, callVars
<1>12. CASE SkipItem
  BY <1>12 DEF SkipItem, AfterItem, callVars, moduleVars
<1>13. CASE StartService
  BY <1>13, StartServiceDraft DEF StartService, callVars
<1>14. CASE SetCommit
  BY <1>14 DEF SetCommit, Commit, Return, Build, buildVars, callVars
<1>15. CASE HardReset
  BY <1>15 DEF HardReset, buildVars, callVars
<1>16. CASE UNCHANGED vars
  BY <1>1, <1>16 DEF vars, moduleVars, buildVars, callVars
<1> QED BY <1>2, <1>3, <1>4, <1>5, <1>6, <1>7, <1>8, <1>9, <1>10, <1>11, <1>12, <1>13,
        <1>14, <1>15, <1>16 DEF Next, Deletion, Setting

(* What a failure leaves: every step.                                      *)
LEMMA UndoNext ==
  ASSUME Types, Search, Undo, Build, [Next]_vars
  PROVE  Undo'
<1> USE DEF Undo
<1>1. CASE \E set \in BOOLEAN, f \in Files : Start(set, f)
  BY <1>1 DEF Start, moduleVars
<1>2. CASE SessionRefused
  BY <1>2 DEF SessionRefused, Refuse, Return, callVars, moduleVars
<1>3. CASE DelSession \/ SetSession
  BY <1>3 DEF DelSession, SetSession, NewSession, callVars
<1>4. CASE FindService \/ FindTooMany \/ FindNothing
  BY <1>4 DEF FindService, FindTooMany, FindNothing, callVars, moduleVars
<1>5. CASE DelFails
  BY <1>5 DEF DelFails, Refuse, callVars, moduleVars
<1>6. CASE DelAbort \/ RootUnreadable \/ Exit
  <2>1. /\ (~session' \/ stuck') /\ db' = db /\ before' = before /\ pc' = "idle"
        /\ pc \in {"delAbort", "root", "exit"}
    BY <1>6 DEF DelAbort, RootUnreadable, Exit, Abort, Return, callVars, moduleVars
  <2> QED BY <2>1
<1>7. CASE RemoveService
  BY <1>7 DEF RemoveService, callVars
<1>8. CASE DelCommit
  <2>1. db' = <<>>
    BY <1>8, NothingLeft DEF DelCommit, Commit
  <2>2. ~session' /\ ((pc' = "setSession" /\ setting) \/ (pc' = "idle" /\ ret' = "ok"))
    BY <1>8, Zenon DEF DelCommit, Commit, Return
  <2>3. setting' = setting
    BY <1>8 DEF DelCommit, callVars
  <2> QED BY <2>1, <2>2, <2>3
<1>9. CASE RootRead \/ ItemFlawed \/ ItemRefused \/ SetFails \/ SkipItem
  <2>1. /\ db' = db /\ pc \in {"root", "items"} /\ pc' \in {"items", "exit"}
        /\ setting' = setting
    BY <1>9 DEF RootRead, ItemFlawed, ItemRefused, SetFails, SkipItem, AfterItem, Refuse,
       moduleVars, callVars
  <2> QED BY <2>1
<1>10. CASE AddItem \/ StartService
  <2>1. /\ db' = db /\ pc = "items" /\ pc' \in {"items", "exit"} /\ setting' = setting
    BY <1>10 DEF AddItem, StartService, AfterItem, callVars
  <2> QED BY <2>1
<1>11. CASE SetCommit
  <2>1. ~session' /\ pc' = "idle" /\ ret' = "ok"
    BY <1>11, Zenon DEF SetCommit, Commit, Return
  <2> QED BY <2>1
<1>12. CASE HardReset
  <2>1. ~session' /\ pc' = "idle" /\ ret' = "none"
    BY <1>12 DEF HardReset
  <2> QED BY <2>1
<1>13. CASE UNCHANGED vars
  BY <1>13 DEF vars, moduleVars, callVars
<1> QED BY <1>1, <1>2, <1>3, <1>4, <1>5, <1>6, <1>7, <1>8, <1>9, <1>10, <1>11, <1>12, <1>13
        DEF Next, Deletion, Setting

(* Why a call fails: every step.                                           *)
LEMMA CauseNext ==
  ASSUME Types, Search, Undo, Cause, [Next]_vars
  PROVE  Cause'
<1> USE DEF Cause
<1>0. file' = file => (Sound(file) <=> Sound(file'))
  OBVIOUS
<1>1. CASE \E set \in BOOLEAN, f \in Files : Start(set, f)
  BY <1>1 DEF Start
<1>2. CASE SessionRefused
  <2>1. pc' = "idle" /\ (fault' \/ stuck')
    BY <1>2 DEF SessionRefused, Refuse, Return, Undo
  <2> QED BY <2>1
<1>3. CASE DelSession \/ SetSession \/ FindService \/ FindTooMany \/ FindNothing \/ RemoveService
  BY <1>3 DEF DelSession, SetSession, FindService, FindTooMany, FindNothing, RemoveService
<1>4. CASE DelFails
  <2>1. pc' = "delAbort" /\ fault'
    BY <1>4, LastVictim DEF DelFails, Refuse
  <2> QED BY <2>1
<1>5. CASE DelAbort
  BY <1>5 DEF DelAbort, Return
<1>6. CASE DelCommit \/ SetCommit
  <2>1. pc' = "setSession" \/ (pc' = "idle" /\ ret' = "ok")
    BY <1>6, Zenon DEF DelCommit, SetCommit, Return
  <2> QED BY <2>1
<1>7. CASE RootUnreadable
  <2>1. pc' = "idle" /\ file' = file /\ ~Sound(file)
    BY <1>7 DEF RootUnreadable, Return, Sound, callVars
  <2> QED BY <2>1
<1>8. CASE RootRead
  <2>1. pc' \in {"items", "exit"} /\ file' = file /\ (pc' = "exit" => ~Sound(file))
    BY <1>8 DEF RootRead, Sound, callVars
  <2> QED BY <2>1
<1>9. CASE ItemFlawed
  <2>1. pos \in 1 .. Len(file.items) /\ file.items[pos].flaw # "none"
    BY <1>9, ItemType DEF ItemFlawed, Types
  <2>2. ~Sound(file)
    BY <2>1 DEF Sound
  <2> QED BY <1>9, <2>2 DEF ItemFlawed, callVars
<1>10. CASE AddItem \/ SkipItem
  <2>1. pc' = AfterItem(Item) /\ file' = file /\ pos =< Len(file.items)
    BY <1>10 DEF AddItem, SkipItem, callVars
  <2>2. Item.flaw = "list" => ~Sound(file)
    BY <2>1, ItemType DEF Sound, Types
  <2> QED BY <2>1, <2>2 DEF AfterItem
<1>11. CASE ItemRefused \/ SetFails
  <2>1. pc' = "exit" /\ fault'
    BY <1>11 DEF ItemRefused, SetFails, Refuse
  <2> QED BY <2>1
<1>12. CASE StartService \/ HardReset
  BY <1>12 DEF StartService, HardReset
<1>13. CASE Exit
  <2>1. pc = "exit" /\ pc' = "idle" /\ fault' = fault /\ file' = file
    BY <1>13 DEF Exit, Return, callVars
  <2> QED BY <2>1
<1>14. CASE UNCHANGED vars
  BY <1>14 DEF vars, callVars
<1> QED BY <1>1, <1>2, <1>3, <1>4, <1>5, <1>6, <1>7, <1>8, <1>9, <1>10, <1>11, <1>12, <1>13,
        <1>14 DEF Next, Deletion, Setting

(* The deletion: every step.                                               *)
LEMMA SearchNext ==
  ASSUME Types, Search, [Next]_vars
  PROVE  Search'
<1>1. CASE \E set \in BOOLEAN, f \in Files : Start(set, f)
  <2>1. pc' = "delSession" /\ found' = <<>> /\ start' = 1
    BY <1>1 DEF Start
  <2> QED BY <2>1 DEF Search
<1>2. CASE DelSession
  <2>1. /\ pc' = "find" /\ found' = <<>> /\ start' = 1 /\ draft' = db' /\ db' = db
    BY <1>2 DEF DelSession, NewSession, Search, searchVars
  <2>2. Lists(<<>>, db)
    BY DEF Lists, Ascending
  <2> QED BY <2>1, <2>2 DEF Search, Lists, Ascending, IsService
<1>3. CASE FindService
  <2>1. /\ pc = "find" /\ pc' = "find" /\ db' = db /\ draft' = draft /\ draft = db
    BY <1>3 DEF FindService, moduleVars, Search
  <2>2. /\ start \in Nat /\ start > 0 /\ Lists(found, db)
        /\ \A i \in DOMAIN found : found[i] < start
        /\ \A h \in 1 .. start - 1 : IsService(db, h) => \E i \in DOMAIN found : found[i] = h
    BY <2>1 DEF Search
  <2>3. PICK h \in start .. Len(db) :
          /\ IsService(db, h)
          /\ \A n \in start .. h - 1 : ~IsService(db, n)
          /\ found' = Append(found, h)
          /\ start' = h + 1
    BY <1>3 DEF FindService
  <2>4. h \in Nat /\ h >= start /\ Len(db) \in Nat
    BY <2>2, <2>3 DEF Types
  <2>5. \A i \in DOMAIN found : found[i] < h
    <3>1. \A i \in DOMAIN found : found[i] \in Nat
      BY <2>2 DEF Lists, Ascending
    <3> QED BY <2>2, <2>4, <3>1
  <2> DEFINE gs == Append(found, h)
  <2>6. /\ Ascending(gs)
        /\ DOMAIN gs = 1 .. Len(found) + 1 /\ DOMAIN found = 1 .. Len(found)
        /\ Len(found) \in Nat
        /\ \A i \in DOMAIN found : gs[i] = found[i]
        /\ gs[Len(found) + 1] = h
    BY <2>2, <2>4, <2>5, AppendAscending DEF Lists
  <2>7. found' = gs
    BY <2>3
  <2> HIDE DEF gs
  <2>8. \A i \in DOMAIN gs : i = Len(found) + 1 \/ i \in DOMAIN found
    BY <2>6
  <2>9. Lists(gs, db)
    BY <2>2, <2>3, <2>6, <2>8 DEF Lists
  <2>10. \A i \in DOMAIN gs : gs[i] < h + 1
    <3>1. \A i \in DOMAIN found : gs[i] < h
      BY <2>5, <2>6
    <3>2. \A i \in DOMAIN gs : gs[i] \in Nat
      BY <2>6 DEF Ascending
    <3> QED BY <2>4, <2>6, <2>8, <3>1, <3>2
  <2>11. ASSUME NEW n \in 1 .. h, IsService(db, n)
         PROVE  \E i \in DOMAIN gs : gs[i] = n
    <3>1. CASE n = h
      <4>1. Len(found) + 1 \in DOMAIN gs
        BY <2>6
      <4> QED BY <2>6, <3>1, <4>1
    <3>2. CASE n # h
      <4>1. n \in 1 .. start - 1
        BY <2>2, <2>3, <2>4, <2>11, <3>2
      <4>2. PICK i \in DOMAIN found : found[i] = n
        BY <2>2, <2>11, <4>1
      <4> QED BY <2>6, <4>2
    <3> QED BY <3>1, <3>2
  <2>12. start' - 1 = h /\ start' \in Nat /\ start' > 0
    BY <2>3, <2>4
  <2> QED BY <2>1, <2>3, <2>7, <2>9, <2>10, <2>11, <2>12 DEF Search
<1>4. CASE FindNothing
  <2>1. /\ pc = "find" /\ pc' \in {"find", "remove"} /\ db' = db /\ draft' = draft
        /\ found' = found /\ start' = start
        /\ \A h \in start .. Len(db) : ~IsService(db, h)
    BY <1>4 DEF FindNothing, moduleVars
  <2>2. /\ start \in Nat /\ start > 0 /\ Lists(found, db) /\ draft = db
        /\ \A i \in DOMAIN found : found[i] < start
        /\ \A h \in 1 .. start - 1 : IsService(db, h) => \E i \in DOMAIN found : found[i] = h
    BY <2>1 DEF Search
  <2>3. CASE pc' = "find"
    BY <2>1, <2>2, <2>3 DEF Search
  <2>4. CASE pc' = "remove"
    <3>1. Beginning(db)
      BY DEF Beginning, Types
    <3>2. ASSUME NEW h \in 1 .. Len(db), IsService(db, h)
          PROVE  \E i \in DOMAIN found : found[i] = h
      <4>1. h \in 1 .. start - 1
        BY <2>1, <2>2, <3>2 DEF Types
      <4> QED BY <2>2, <3>2, <4>1
    <3>3. /\ Lists(found', draft') /\ Beginning(draft')
          /\ \A h \in 1 .. Len(draft') :
               IsService(draft', h) => \E i \in DOMAIN found' : found'[i] = h
      BY <2>1, <2>2, <3>1, <3>2
    <3>4. Beginning(draft)'
      BY <2>1, <3>3 DEF Beginning
    <3> QED BY <2>4, <3>3, <3>4 DEF Search
  <2> QED BY <2>1, <2>3, <2>4
<1>5. CASE RemoveService
  <2> DEFINE h == found[Victim(found)]
             d == Without(draft, h)
             gs == Others(found)
  <2>1. /\ pc = "remove" /\ pc' = "remove" /\ found # <<>>
        /\ db' = db /\ draft' = d /\ found' = gs
    BY <1>5 DEF RemoveService
  <2>2. /\ Beginning(d) /\ Lists(gs, d)
        /\ \A n \in 1 .. Len(d) : IsService(d, n) => \E i \in DOMAIN gs : gs[i] = n
    BY <2>1, LastVictim
  <2> HIDE DEF d, gs
  <2>3. Beginning(draft)'
    BY <2>1, <2>2 DEF Beginning
  <2> QED BY <2>1, <2>2, <2>3 DEF Search
<1>6. CASE SessionRefused \/ DelCommit \/ DelFails \/ DelAbort \/ Setting \/ HardReset
  <2>1. pc' \notin {"delSession", "find", "remove", "lost"}
    BY <1>6 DEF SessionRefused, DelCommit, DelFails, DelAbort, Setting, HardReset, Return,
       SetSession, RootUnreadable, RootRead, ItemFlawed, AddItem, SkipItem, ItemRefused,
       StartService, SetCommit, SetFails, Exit, AfterItem
  <2> QED BY <2>1 DEF Search
<1>7. CASE UNCHANGED vars
  <2>1. /\ pc' = pc /\ db' = db /\ draft' = draft /\ found' = found /\ start' = start
    BY <1>7 DEF vars, moduleVars, searchVars
  <2> QED BY <2>1 DEF Search, Beginning, Crowded
<1>8. CASE FindTooMany
  <2>1. /\ pc = "find" /\ pc' = "lost" /\ db' = db /\ found' = found
        /\ Len(found) >= HandleSlots
    BY <1>8 DEF FindTooMany, moduleVars, searchVars
  <2>2. PICK h \in start .. Len(db) : IsService(db, h)
    BY <1>8 DEF FindTooMany
  <2>3. /\ start \in Nat /\ start > 0 /\ Lists(found, db)
        /\ \A i \in DOMAIN found : found[i] < start
    BY <2>1 DEF Search
  <2>4. h \in 1 .. Len(db) /\ h \in Nat /\ h >= start
    BY <2>2, <2>3 DEF Types
  <2>5. \A i \in DOMAIN found : found[i] < h /\ IsService(db, found[i])
    <3>1. \A i \in DOMAIN found : found[i] \in Nat
      BY <2>3 DEF Lists, Ascending
    <3> QED BY <2>3, <2>4, <3>1 DEF Lists
  <2>6. Crowded
    BY <2>1, <2>2, <2>3, <2>4, <2>5 DEF Crowded, Lists, Ascending
  <2>7. Crowded'
    BY <2>1, <2>6 DEF Crowded
  <2> QED BY <2>1, <2>7 DEF Search
<1> QED BY <1>1, <1>2, <1>3, <1>4, <1>5, <1>6, <1>7, <1>8 DEF Next, Deletion
-----------------------------------------------------------------------------
(* The construction: every step.                                           *)

LEMMA LastIsLast ==
  ASSUME NEW m, NEW kind, NEW n \in Nat, IsLast(m, kind, n)
  PROVE  LastOf(file.items, kind, n) = m
<1> DEFINE P(x) == /\ file.items[x].kind = kind
                   /\ \A k \in x + 1 .. n - 1 : file.items[k].kind # kind
<1>1. m \in 1 .. n - 1 /\ P(m)
  BY DEF IsLast
<1>2. ASSUME NEW x \in 1 .. n - 1, P(x) PROVE x = m
  <2>1. CASE x < m
    <3>1. m \in x + 1 .. n - 1
      BY <1>1, <2>1
    <3> QED BY <1>1, <1>2, <3>1
  <2>2. CASE m < x
    <3>1. x \in m + 1 .. n - 1
      BY <1>1, <2>2
    <3> QED BY <1>1, <1>2, <3>1
  <2> QED BY <1>1, <2>1, <2>2
<1> QED BY <1>1, <1>2 DEF LastOf

LEMMA AddItemBuild ==
  ASSUME Types, Build, AddItem
  PROVE  /\ Rooted(draft') /\ draft' # <<>>
         /\ pc = "items" /\ Sound(file) => Content'
<1> DEFINE a == [kind |-> Item.kind, uuid |-> Item.uuid, order |-> UuidOrder,
                 under |-> Parent(Item.kind), started |-> FALSE]
<1>1. /\ draft' \in Seq(Attribute) /\ Len(draft') = Len(draft) + 1 /\ Len(draft) \in Nat
      /\ \A n \in 1 .. Len(draft) : draft'[n] = draft[n]
      /\ draft'[Len(draft) + 1] = a
      /\ draft \in Seq(Attribute)
  BY AddItemDraft DEF Types
<1>2. /\ pc = "items" /\ pos \in 1 .. Len(file.items) /\ pos \in Nat /\ Len(file.items) \in Nat
      /\ Item = file.items[pos] /\ Item \in ItemSet
      /\ Item.kind # "service" => Parent(Item.kind) > 0
      /\ pos' = pos + 1 /\ file' = file /\ (big' <=> big)
      /\ service' = (IF Item.kind = "service" THEN Len(draft) + 1 ELSE service)
      /\ char' = (IF Item.kind = "char" THEN Len(draft) + 1 ELSE char)
      /\ Item.kind = "service" => ~open
      /\ (open' <=> open \/ Item.kind = "service")
  <2>1. pos =< Len(file.items) /\ pos \in 1 .. Len(file.items) + 1 /\ Len(file.items) \in Nat
    BY ItemType DEF AddItem, Types
  <2>2. pos \in 1 .. Len(file.items) /\ pos \in Nat
    BY <2>1
  <2>3. Item = file.items[pos] /\ Item \in ItemSet
    BY <2>1, ItemType
  <2>4. /\ open' <=> open \/ Item.kind = "service"
        /\ Item.kind = "service" => ~open
    BY Zenon DEF AddItem
  <2> QED BY <2>1, <2>2, <2>3, <2>4 DEF AddItem, callVars
<1>3. Item.kind \in Kinds /\ a.kind = Item.kind /\ a.uuid = Item.uuid
      /\ a.order = UuidOrder /\ a.under = Parent(Item.kind)
  BY <1>2 DEF ItemSet
<1> HIDE DEF a
<1>4. draft = <<>> => Item.kind = "service"
  BY <1>2, <1>3 DEF Build, Parent, Kinds
<1>5. Rooted(draft') /\ draft' # <<>>
  <2>1. Len(draft') > 0
    BY <1>1
  <2>2. draft' # <<>>
    BY <1>1, <2>1
  <2>3. CASE draft = <<>>
    <3>1. Len(draft) = 0 /\ draft'[1] = a /\ a.kind = "service"
      BY <1>1, <1>3, <1>4, <2>3
    <3>2. Rooted(draft')
      BY <3>1 DEF Rooted
    <3> QED BY <2>2, <3>2
  <2>4. CASE draft # <<>>
    <3>1. 1 \in 1 .. Len(draft)
      BY <1>1, <2>4
    <3>2. draft[1].kind = "service"
      BY <1>2, <2>4 DEF Build, Rooted
    <3>3. draft'[1].kind = "service"
      BY <1>1, <3>1, <3>2
    <3>4. Rooted(draft')
      BY <3>3 DEF Rooted
    <3> QED BY <2>2, <3>4
  <2> QED BY <2>3, <2>4
<1>6. ASSUME Sound(file) PROVE Content'
  <2>1. Content
    BY <1>2, <1>6 DEF Build
  <2>2. Len(draft) = pos - 1
    BY <2>1 DEF Content
  <2>3. Len(draft') = pos' - 1 /\ draft'[pos] = a /\ \A n \in 1 .. pos - 1 : draft'[n] = draft[n]
    BY <1>1, <1>2, <2>2
  <2>4. \A n \in 1 .. pos' - 1 : n = pos \/ n \in 1 .. pos - 1
    BY <1>2
  <2>5. Matches(a, pos)
    <3>1. UuidOrder = "le" <=> big
      BY DEF UuidOrder
    <3>2. Item.kind = "char" => Parent(Item.kind) = LastOf(file.items, "service", pos)
      BY <1>2, <2>1, LastIsLast DEF Content, Parent
    <3>3. Item.kind = "descriptor" => Parent(Item.kind) = LastOf(file.items, "char", pos)
      BY <1>2, <2>1, LastIsLast DEF Content, Parent
    <3>4. Item.kind = "service" => Parent(Item.kind) = 0
      BY DEF Parent
    <3>5. a.under = CASE a.kind = "service" -> 0
                      [] a.kind = "char" -> LastOf(file.items, "service", pos)
                      [] a.kind = "descriptor" -> LastOf(file.items, "char", pos)
      BY <1>3, <3>2, <3>3, <3>4 DEF Kinds
    <3> QED BY <1>2, <1>3, <3>1, <3>5 DEF Matches
  <2>6. \A n \in 1 .. pos - 1 : Matches(draft[n], n)
    BY <2>1 DEF Content
  <2>7. \A n \in 1 .. pos' - 1 : Matches(draft'[n], n)
    BY <2>3, <2>4, <2>5, <2>6
  <2>8. \A n \in 1 .. pos' - 1 : Matches(draft[n], n)'
    BY <1>2, <2>7 DEF Matches
  <2>9. ASSUME NEW n \in 1 .. pos' - 1, draft'[n].kind = "service"
        PROVE  draft'[n].started \/ (open' /\ n = service')
    <3>1. CASE n = pos
      <4>1. Item.kind = "service"
        BY <1>3, <2>3, <2>9, <3>1
      <4> QED BY <1>2, <2>2, <3>1, <4>1
    <3>2. CASE n \in 1 .. pos - 1
      <4>1. draft[n].started \/ (open /\ n = service)
        BY <2>1, <2>3, <2>9, <3>2 DEF Content
      <4>2. CASE draft[n].started
        BY <2>3, <3>2, <4>2
      <4>3. CASE open /\ n = service
        BY <1>2, <4>3
      <4> QED BY <4>1, <4>2, <4>3
    <3> QED BY <2>4, <3>1, <3>2
  <2>10. ASSUME NEW m, NEW kind, IsLast(m, kind, pos), Item.kind # kind
         PROVE  IsLast(m, kind, pos + 1)
    BY <1>2, <2>10, SMTT(30) DEF IsLast
  <2>11. ASSUME NEW kind, Item.kind = kind
         PROVE  IsLast(pos, kind, pos + 1)
    BY <1>2, <2>11 DEF IsLast
  <2>12. service' > 0 => IsLast(service', "service", pos')
    BY <1>2, <2>1, <2>2, <2>10, <2>11 DEF Content
  <2>13. char' > 0 => IsLast(char', "char", pos')
    BY <1>2, <2>1, <2>2, <2>10, <2>11 DEF Content
  <2>14. /\ service' > 0 => IsLast(service, "service", pos)'
         /\ char' > 0 => IsLast(char, "char", pos)'
    BY <1>2, <2>12, <2>13 DEF IsLast
  <2> QED BY <2>3, <2>8, <2>9, <2>14 DEF Content
<1> QED BY <1>5, <1>6

LEMMA StartServiceBuild ==
  ASSUME Types, Build, StartService
  PROVE  /\ Rooted(draft') /\ (draft' = <<>> => draft = <<>>)
         /\ Sound(file) => Content'
<1>1. /\ draft' \in Seq(Attribute) /\ Len(draft') = Len(draft) /\ Len(draft) \in Nat
      /\ draft \in Seq(Attribute)
      /\ \A n \in 1 .. Len(draft) :
           draft'[n] = IF n = service THEN [draft[n] EXCEPT !.started = TRUE]
                                      ELSE draft[n]
  BY StartServiceDraft, SMTT(30) DEF Types
<1>2. \A a \in Attribute : LET b == [a EXCEPT !.started = TRUE]
                           IN  /\ b.kind = a.kind /\ b.uuid = a.uuid /\ b.order = a.order
                               /\ b.under = a.under /\ b.started
  BY DEF Attribute
<1>3. \A n \in 1 .. Len(draft) : draft[n] \in Attribute
  BY <1>1
<1>4. \A n \in 1 .. Len(draft) :
        /\ draft'[n].kind = draft[n].kind /\ draft'[n].uuid = draft[n].uuid
        /\ draft'[n].order = draft[n].order /\ draft'[n].under = draft[n].under
        /\ n = service => draft'[n].started
        /\ n # service => draft'[n] = draft[n]
  BY <1>1, <1>2, <1>3
<1>5. /\ pc = "items" /\ pos' = pos /\ service' = service /\ char' = char
      /\ file' = file /\ (big' <=> big) /\ ~open'
  BY DEF StartService, callVars
<1>6. draft' = <<>> => draft = <<>>
  BY <1>1
<1>7. Rooted(draft')
  <2>1. CASE draft = <<>>
    BY <1>1, <2>1 DEF Rooted
  <2>2. CASE draft # <<>>
    <3>1. 1 \in 1 .. Len(draft)
      BY <1>1, <2>2
    <3> QED BY <1>4, <1>5, <2>2, <3>1 DEF Build, Rooted
  <2> QED BY <2>1, <2>2
<1>8. ASSUME Sound(file) PROVE Content'
  <2>1. Content
    BY <1>5, <1>8 DEF Build
  <2>2. Len(draft) = pos - 1 /\ Len(draft') = pos' - 1
    BY <1>1, <1>5, <2>1 DEF Content
  <2>3. \A n \in 1 .. pos - 1 : Matches(draft[n], n)'
    <3> SUFFICES ASSUME NEW n \in 1 .. pos - 1 PROVE Matches(draft[n], n)'
      OBVIOUS
    <3>1. Matches(draft[n], n)
      BY <2>1 DEF Content
    <3>2. /\ draft'[n].kind = draft[n].kind /\ draft'[n].uuid = draft[n].uuid
          /\ draft'[n].order = draft[n].order /\ draft'[n].under = draft[n].under
      BY <1>4, <2>2
    <3> QED BY <1>5, <3>1, <3>2 DEF Matches
  <2>4. \A n \in 1 .. pos - 1 : draft'[n].kind = "service" => draft'[n].started
    <3> SUFFICES ASSUME NEW n \in 1 .. pos - 1, draft'[n].kind = "service"
                 PROVE  draft'[n].started
      OBVIOUS
    <3>1. n \in 1 .. Len(draft) /\ draft[n].kind = "service"
      BY <1>4, <2>2
    <3>2. draft[n].started \/ n = service
      BY <2>1, <3>1 DEF Content
    <3> QED BY <1>4, <3>1, <3>2
  <2>5. /\ service' > 0 => IsLast(service, "service", pos)'
        /\ char' > 0 => IsLast(char, "char", pos)'
    BY <1>5, <2>1 DEF Content, IsLast
  <2> QED BY <1>5, <2>2, <2>3, <2>4, <2>5 DEF Content
<1> QED BY <1>6, <1>7, <1>8

LEMMA BuildNext ==
  ASSUME Types, Undo, Build, [Next]_vars
  PROVE  Build'
<1>1. CASE \E set \in BOOLEAN, f \in Files : Start(set, f)
  <2>1. pc' = "delSession" /\ pos' = 1 /\ service' = 0 /\ char' = 0 /\ ~open'
    BY <1>1 DEF Start
  <2> QED BY <2>1 DEF Build
<1>2. CASE DelSession \/ FindService \/ FindTooMany \/ FindNothing \/ RemoveService \/ DelCommit
  <2>1. /\ pc \in {"delSession", "find", "remove"}
        /\ pc' \in {"find", "remove", "setSession", "idle", "lost"}
        /\ pos' = pos /\ service' = service /\ char' = char /\ (open' <=> open)
    BY <1>2 DEF DelSession, FindService, FindTooMany, FindNothing, RemoveService, DelCommit, Return,
       buildVars
  <2> QED BY <2>1 DEF Build
<1>3. CASE SetSession
  <2>1. /\ pc = "setSession" /\ pc' = "root" /\ draft' = <<>>
        /\ pos' = pos /\ service' = service /\ char' = char /\ (open' <=> open)
    BY <1>3 DEF SetSession, NewSession, Undo, buildVars
  <2> QED BY <2>1 DEF Build
<1>4. CASE RootRead
  <2>1. /\ pc = "root" /\ pc' \in {"items", "exit"} /\ draft' = <<>>
        /\ pos' = 1 /\ service' = 0 /\ char' = 0 /\ ~open'
    BY <1>4 DEF RootRead, Build, moduleVars, buildVars
  <2>2. Rooted(draft') /\ Content'
    BY <2>1 DEF Rooted, Content
  <2> QED BY <2>1, <2>2 DEF Build, Rooted
<1>5. CASE AddItem
  <2>1. /\ pc = "items" /\ pc' \in {"items", "exit"} /\ file' = file
    BY <1>5 DEF AddItem, AfterItem, callVars
  <2>2. Rooted(draft') /\ draft' # <<>> /\ (Sound(file) => Content')
    BY <1>5, <2>1, AddItemBuild
  <2> QED BY <2>1, <2>2 DEF Build, Rooted
<1>6. CASE SkipItem
  <2>1. /\ pc = "items" /\ pc' \in {"items", "exit"} /\ file' = file /\ draft' = draft
        /\ service' = service /\ char' = char /\ pos =< Len(file.items) /\ ~HasCommand(Item)
    BY <1>6 DEF SkipItem, AfterItem, callVars, moduleVars
  <2>2. pos \in 1 .. Len(file.items) /\ Item = file.items[pos]
    BY <2>1, ItemType DEF Types
  <2>3. ~Sound(file)
    BY <2>1, <2>2 DEF Sound
  <2> QED BY <2>1, <2>3 DEF Build, Rooted
<1>7. CASE StartService
  <2>1. pc = "items" /\ pc' = "items" /\ file' = file /\ service' = service /\ char' = char
    BY <1>7 DEF StartService, callVars
  <2>2. Rooted(draft') /\ (draft' = <<>> => draft = <<>>) /\ (Sound(file) => Content')
    BY <1>7, StartServiceBuild
  <2> QED BY <2>1, <2>2 DEF Build, Rooted
<1>8. CASE SessionRefused \/ DelFails \/ DelAbort \/ RootUnreadable \/ ItemFlawed
           \/ ItemRefused \/ SetCommit \/ SetFails \/ Exit \/ HardReset
  <2>1. pc' \in {"idle", "delAbort", "exit"}
    BY <1>8 DEF SessionRefused, DelFails, DelAbort, RootUnreadable, ItemFlawed,
       ItemRefused, SetCommit, SetFails, Exit, HardReset, Return
  <2> QED BY <2>1 DEF Build
<1>9. CASE UNCHANGED vars
  <2>1. /\ pc' = pc /\ draft' = draft /\ pos' = pos /\ service' = service /\ char' = char
        /\ (open' <=> open) /\ file' = file /\ (big' <=> big)
    BY <1>9 DEF vars, moduleVars, buildVars, callVars
  <2>2. Content => Content'
    BY <2>1, ZenonT(30) DEF Content, Matches, IsLast
  <2> QED BY <2>1, <2>2 DEF Build, Rooted
<1> QED BY <1>1, <1>2, <1>3, <1>4, <1>5, <1>6, <1>7, <1>8, <1>9 DEF Next, Deletion, Setting

(* What a successful call leaves: every step.                              *)
LEMMA SuccessNext ==
  ASSUME Types, Search, Undo, Build, SuccessMeansServed, [Next]_vars
  PROVE  SuccessMeansServed'
<1>1. CASE DelCommit
  <2>1. /\ db' = <<>> /\ (pc' = "idle" => ~setting) /\ (setting' <=> setting)
    BY <1>1, NothingLeft DEF DelCommit, Commit, callVars
  <2> QED BY <2>1 DEF SuccessMeansServed, Idle
<1>2. CASE SetCommit
  <2>1. /\ pc = "items" /\ ~open /\ Item.kind = "end" /\ db' = draft /\ setting'
        /\ file' = file /\ (big' <=> big)
    BY <1>2 DEF SetCommit, Commit, callVars, Undo
  <2>2. pos = Len(file.items) + 1 /\ Len(file.items) \in Nat
    BY <2>1, ItemType
  <2>3. ASSUME Sound(file)
        PROVE  /\ Len(draft) = Len(file.items)
               /\ \A n \in 1 .. Len(draft) : Served(draft[n], file.items, n)
    <3>1. Content
      BY <2>1, <2>3 DEF Build
    <3>2. Len(draft) = Len(file.items)
      BY <2>2, <3>1 DEF Content
    <3>3. ASSUME NEW n \in 1 .. Len(draft)
          PROVE  Served(draft[n], file.items, n)
      <4>1. n \in 1 .. pos - 1
        BY <2>2, <3>2
      <4>2. Matches(draft[n], n) /\ (draft[n].kind = "service" => draft[n].started)
        BY <2>1, <3>1, <4>1 DEF Content
      <4> QED BY <4>2 DEF Matches, Served
    <3> QED BY <3>2, <3>3
  <2>4. Sound(file') => /\ Len(db') = Len(file'.items)
                        /\ \A n \in 1 .. Len(db') : Served(db[n], file.items, n)'
    BY <2>1, <2>3 DEF Served
  <2> QED BY <2>1, <2>4 DEF SuccessMeansServed, Idle
<1>3. CASE UNCHANGED vars
  <2>1. /\ pc' = pc /\ ret' = ret /\ db' = db /\ (setting' <=> setting) /\ file' = file
        /\ (big' <=> big)
    BY <1>3 DEF vars, moduleVars, callVars
  <2> QED BY <2>1 DEF SuccessMeansServed, Idle, Served
<1>4. CASE Next /\ ~DelCommit /\ ~SetCommit
  <2>1. ~(pc' = "idle" /\ ret' = "ok")
    BY <1>4 DEF Next, Deletion, Setting, Start, SessionRefused, DelSession, FindService,
       FindTooMany, FindNothing, RemoveService, DelFails, DelAbort, SetSession, RootUnreadable, RootRead,
       ItemFlawed, AddItem, SkipItem, ItemRefused, StartService, SetFails, Exit, HardReset,
       Return, AfterItem
  <2> QED BY <2>1 DEF SuccessMeansServed, Idle
<1> QED BY <1>1, <1>2, <1>3, <1>4

LEMMA InvNext == IInv /\ [Next]_vars => IInv'
BY TypesNext, HeapNext, UndoNext, CauseNext, SearchNext, BuildNext, SuccessNext DEF IInv

LEMMA Invariance == Spec => []IInv
BY InitInv, InvNext, PTL DEF Spec
-----------------------------------------------------------------------------
(* Whatever a file lacks and whichever command fails, silabs_ble_set_gattdb*)
(* has freed what it allocated when it returns, and freed nothing twice.   *)
THEOREM BuffersAreFreed == Spec => []BuffersReturned
<1>1. IInv => BuffersReturned
  BY DEF IInv, Heap, BuffersReturned, Idle
<1> QED BY Invariance, <1>1, PTL

(* A call that fails leaves the old database or an empty one, and no       *)
(* session but one the module refused to abort.                            *)
THEOREM NothingHalfDone == Spec => []FailureIsUndone
<1>1. IInv => FailureIsUndone
  BY DEF IInv, Undo, FailureIsUndone, SessionClosed, Idle
<1> QED BY Invariance, <1>1, PTL

(* A call that succeeds serves the attributes of its file and no other, for *)
(* every sound file: all started, all in their places, with the uuids of   *)
(* the file on big-endian hosts and each of them reversed on the others.   *)
THEOREM FileIsServed == Spec => []SuccessMeansServed
<1>1. IInv => SuccessMeansServed
  BY DEF IInv
<1> QED BY Invariance, <1>1, PTL

(* The handles that the deletion has found stay valid while it removes     *)
(* them: a call fails only for a reason outside of the program, and runs   *)
(* past its array only in a database of more services than it has places.  *)
THEOREM FailureIsExplained == Spec => []FailureHasCause
<1>1. IInv => FailureHasCause
  BY DEF IInv, Cause, Search, FailureHasCause, Idle
<1> QED BY Invariance, <1>1, PTL
=============================================================================
