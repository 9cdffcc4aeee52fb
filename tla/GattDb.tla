------------------------------- MODULE GattDb -------------------------------
(***************************************************************************)
(* The local GATT database: silabs_ble_set_gattdb and silabs_ble_del_gattdb*)
(* (silabs_bleapi.c).  Each is a session of many commands, any of which    *)
(* the module may refuse, read from a JSON file any key of which may be    *)
(* missing, with buffers that are allocated and freed on the way.          *)
(*                                                                         *)
(* A configuration file is the sequence of its attributes in file order: a *)
(* service, its characteristics, each followed by its descriptors.  The    *)
(* database is a sequence of the same form; a handle is a position in it.  *)
(* Answers come in time; what a command returns when they do not is the    *)
(* subject of NcpLink.                                                     *)
(***************************************************************************)
EXTENDS Integers, Sequences

CONSTANTS
  Files,     (* configuration files, each a record of a flaw and attributes *)
  Firmware,  (* the database the module starts with                         *)
  Uuids,     (* uuids of attributes                                         *)
  HandleSlots, (* places of service_handle[]                              *)
  MaxCalls   (* bound: calls of the application                             *)

Kinds == {"service", "char", "descriptor"}
(* Where a key is missing: before the uuid is read, between uuid and value, *)
(* or the list of what is under the attribute.                             *)
Flaws == {"none", "early", "middle", "list"}
Buffers == {"root", "uuid", "value"}

ASSUME BoundsAssumption == MaxCalls \in Nat /\ HandleSlots \in Nat
ASSUME FilesAssumption ==
  \A f \in Files :
    /\ f.flaw \in {"none", "unreadable", "list"}
    /\ f.items \in Seq([kind : Kinds, uuid : Uuids, len : Nat, flaw : Flaws])

(* An attribute of the database: the order its uuid is in, and the service *)
(* or characteristic it is under, 0 for none.                              *)
Attribute == [kind : Kinds, uuid : Uuids, order : {"le", "be"}, under : Nat,
              started : BOOLEAN]
(* An attribute that is not a service is under one.                        *)
Rooted(d) == d = <<>> \/ d[1].kind = "service"

ASSUME FirmwareAssumption == Firmware \in Seq(Attribute) /\ Rooted(Firmware)

VARIABLES
  db,        (* the database that remote devices see                        *)
  session,   (* whether a session is open in the module                     *)
  draft,     (* the database as changed in the session                      *)
  big,       (* ENDIAN                                                      *)
  pc,        (* where the call is                                           *)
  setting,   (* whether the call is set_gattdb, that begins with a deletion *)
  file,      (* the configuration file                                      *)
  pos,       (* the attribute of the file that is read next                 *)
  start,     (* where the search for services goes on                       *)
  count,     (* searches in a row that found none                           *)
  found,     (* service_handle[], the services to remove                    *)
  service,   (* service_handle, 0 for 0xffff                                *)
  char,      (* characteristic_handle, 0 for 0xffff                         *)
  open,      (* whether the service has yet to be started                   *)
  held,      (* buffers allocated and not freed                             *)
  ptr,       (* pointers that are not NULL                                  *)
  fault,     (* whether the module refused a command of this call           *)
  stuck,     (* whether the module refused to abort a session               *)
  before,    (* the database when the call began                            *)
  ret,       (* what the last call returned                                 *)
  callNo     (* number of calls so far                                      *)

moduleVars == <<db, session, draft>>
searchVars == <<start, count, found>>
buildVars  == <<pos, service, char, open>>
heapVars   == <<held, ptr>>
callVars   == <<setting, file, before, callNo, big>>
vars == <<moduleVars, searchVars, buildVars, heapVars, callVars, pc, fault,
          stuck, ret>>

Item == IF pos <= Len(file.items) THEN file.items[pos]
                                  ELSE [kind |-> "end", flaw |-> "none"]
-----------------------------------------------------------------------------
(* The module (external).                                                  *)

IsService(d, h) == h \in 1 .. Len(d) /\ d[h].kind = "service"

(* The service that follows position h, or the end. *)
NextService(d, h) ==
  CHOOSE n \in h + 1 .. Len(d) + 1 :
    /\ n = Len(d) + 1 \/ d[n].kind = "service"
    /\ \A m \in h + 1 .. n - 1 : d[m].kind # "service"

(* Removing a service invalidates the handles after it. *)
Without(d, h) == SubSeq(d, 1, h - 1) \o SubSeq(d, NextService(d, h), Len(d))

(* A command is refused, for a reason of the module's own. *)
Refuse == fault' = TRUE /\ UNCHANGED moduleVars
Accept == UNCHANGED fault

NewSession ==
  /\ ~session
  /\ session' = TRUE
  /\ draft' = db
  /\ UNCHANGED db
Commit == db' = draft /\ session' = FALSE /\ UNCHANGED draft
(* The result of an abort is not looked at; a module that refuses it keeps *)
(* the session.                                                            *)
Abort ==
  \/ session' = FALSE /\ UNCHANGED <<db, draft, stuck>>
  \/ stuck' = TRUE /\ UNCHANGED moduleVars
-----------------------------------------------------------------------------
(* Buffers of the call.  A free is written with the assignment of NULL     *)
(* that follows it.                                                        *)

Take(bs) == /\ held' = [b \in Buffers |-> IF b \in bs THEN held[b] + 1
                                                      ELSE held[b]]
            /\ ptr' = ptr \cup bs

PtrAfterFreeKept(bs) == ptr \cup bs                   \* mutant of PtrAfterFree
PtrAfterFree(bs) == ptr \ bs

(* Allocated, used by a command and freed. *)
TakeAndFree(bs) == held' = held /\ ptr' = PtrAfterFree(bs)
-----------------------------------------------------------------------------
Return(result) ==
  /\ pc' = "idle"
  /\ ret' = result

(* gl_ble_set_gattdb(file), gl_ble_del_gattdb(). *)
Start(set, f) ==
  /\ pc = "idle"
  /\ callNo < MaxCalls
  /\ callNo' = callNo + 1
  /\ setting' = set
  /\ file' = f
  /\ before' = db
  /\ fault' = FALSE
  /\ pc' = "delSession"
  /\ start' = 1 /\ count' = 0 /\ found' = <<>>
  /\ pos' = 1 /\ service' = 0 /\ char' = 0 /\ open' = FALSE
  /\ UNCHANGED <<moduleVars, heapVars, big, stuck, ret>>

(* A refused new_session ends both calls, with nothing to undo. *)
SessionRefused ==
  /\ pc \in {"delSession", "setSession"}
  /\ \/ session /\ Accept /\ UNCHANGED moduleVars
     \/ Refuse
  /\ Return("failed")
  /\ UNCHANGED <<searchVars, buildVars, heapVars, callVars, stuck>>

DelSession ==
  /\ pc = "delSession"
  /\ NewSession /\ Accept
  /\ pc' = "find"
  /\ UNCHANGED <<searchVars, buildVars, heapVars, callVars, stuck, ret>>

(* sl_bt_gatt_server_find_attribute looks at the committed database.       *)
FindService ==
  /\ pc = "find"
  /\ Len(found) < HandleSlots
  /\ \E h \in start .. Len(db) :
       /\ IsService(db, h)
       /\ \A n \in start .. h - 1 : ~IsService(db, n)
       /\ found' = Append(found, h)
       /\ start' = h + 1
  /\ UNCHANGED <<moduleVars, buildVars, heapVars, callVars, count, pc, fault,
                 stuck, ret>>

(* The handle is written to the next place whether there is one or not.    *)
(* What lies behind service_handle[] is not modelled: the model ends here. *)
FindTooMany ==
  /\ pc = "find"
  /\ Len(found) >= HandleSlots
  /\ \E h \in start .. Len(db) : IsService(db, h)
  /\ pc' = "lost"
  /\ UNCHANGED <<moduleVars, searchVars, buildVars, heapVars, callVars, fault,
                 stuck, ret>>

(* ATT_NOT_FOUND ends the search when it comes a second time. *)
SearchEnds(n) == n = 2

FindNothing ==
  /\ pc = "find"
  /\ \A h \in start .. Len(db) : ~IsService(db, h)
  /\ count' = count + 1
  /\ pc' = IF SearchEnds(count + 1) THEN "remove" ELSE "find"
  /\ UNCHANGED <<moduleVars, buildVars, heapVars, callVars, start, found,
                 fault, stuck, ret>>

(* The handle to remove next, by its place, and what is left to remove.    *)
VictimOldest(fs) == 1                                       \* mutant of Victim
Victim(fs) == Len(fs)
Others(fs) == SubSeq(fs, 1, Victim(fs) - 1) \o SubSeq(fs, Victim(fs) + 1, Len(fs))

RemoveService ==
  /\ pc = "remove"
  /\ found # <<>>
  /\ IsService(draft, found[Victim(found)])
  /\ draft' = Without(draft, found[Victim(found)])
  /\ found' = Others(found)
  /\ Accept
  /\ UNCHANGED <<db, session, buildVars, heapVars, callVars, start, count, pc,
                 stuck, ret>>

DelCommit ==
  /\ pc = "remove"
  /\ found = <<>>
  /\ Commit /\ Accept
  /\ IF setting THEN pc' = "setSession" /\ UNCHANGED ret
                ELSE Return("ok")
  /\ UNCHANGED <<searchVars, buildVars, heapVars, callVars, stuck>>

(* A command of the deletion fails: the session is aborted. *)
DelFails ==
  /\ pc \in {"find", "remove"}
  /\ \/ Refuse
     \/ /\ pc = "remove" /\ found # <<>>
        /\ ~IsService(draft, found[Victim(found)])
        /\ Accept /\ UNCHANGED moduleVars
  /\ pc' = "delAbort"
  /\ UNCHANGED <<searchVars, buildVars, heapVars, callVars, stuck, ret>>

DelAbort ==
  /\ pc = "delAbort"
  /\ Abort
  /\ Return("failed")
  /\ UNCHANGED <<searchVars, buildVars, heapVars, callVars, fault>>
-----------------------------------------------------------------------------
(* The session of set_gattdb.                                              *)

SetSession ==
  /\ pc = "setSession"
  /\ NewSession /\ Accept
  /\ pc' = "root"
  /\ UNCHANGED <<searchVars, buildVars, heapVars, callVars, stuck, ret>>

RootUnreadable ==
  /\ pc = "root"
  /\ file.flaw = "unreadable"
  /\ Abort
  /\ Return("failed")
  /\ UNCHANGED <<searchVars, buildVars, heapVars, callVars, fault>>

RootRead ==
  /\ pc = "root"
  /\ file.flaw # "unreadable"
  /\ Take({"root"})
  /\ pc' = IF file.flaw = "list" THEN "exit" ELSE "items"
  /\ UNCHANGED <<moduleVars, searchVars, buildVars, callVars, fault, stuck,
                 ret>>

(* The buffers that an attribute needs. *)
Needs(kind) == IF kind = "service" THEN {"uuid"} ELSE {"uuid", "value"}

(* A key is missing: early with nothing allocated, in the middle with the  *)
(* uuid.                                                                   *)
ItemFlawed ==
  /\ pc = "items"
  /\ pos <= Len(file.items)
  /\ ~(open /\ Item.kind = "service")
  /\ Item.flaw \in {"early", "middle"}
  /\ Take(IF Item.flaw = "early" THEN {} ELSE {"uuid"})
  /\ pc' = "exit"
  /\ UNCHANGED <<moduleVars, searchVars, buildVars, callVars, fault, stuck,
                 ret>>

(* str2array keeps the order of the text, most significant byte first;     *)
(* the module expects a uuid least significant byte first.                 *)
UuidOrderSwapped == IF big THEN "be" ELSE "le"           \* mutant of UuidOrder
UuidOrder == IF big THEN "le" ELSE "be"

Parent(kind) == CASE kind = "service" -> 0
                  [] kind = "char" -> service
                  [] kind = "descriptor" -> char

(* There is a command for a uuid of 2 and one for a uuid of 16 bytes.      *)
(* sl_bt_gattdb_add_service takes any length.                              *)
HasCommand(i) == i.kind = "service" \/ i.len \in {2, 16}

AfterItem(i) == IF i.flaw = "list" THEN "exit" ELSE "items"

(* The attribute is added, under the service or characteristic added last. *)
AddItem ==
  /\ pc = "items"
  /\ pos <= Len(file.items)
  /\ ~(open /\ Item.kind = "service")
  /\ Item.flaw \in {"none", "list"}
  /\ HasCommand(Item)
  /\ Item.kind # "service" => Parent(Item.kind) > 0
  /\ draft' = Append(draft, [kind |-> Item.kind, uuid |-> Item.uuid,
                             order |-> UuidOrder,
                             under |-> Parent(Item.kind), started |-> FALSE])
  /\ Accept
  /\ TakeAndFree(Needs(Item.kind))
  /\ service' = IF Item.kind = "service" THEN Len(draft) + 1 ELSE service
  /\ char' = IF Item.kind = "char" THEN Len(draft) + 1 ELSE char
  /\ open' = (open \/ Item.kind = "service")
  /\ pos' = pos + 1
  /\ pc' = AfterItem(Item)
  /\ UNCHANGED <<db, session, searchVars, callVars, stuck, ret>>

(* With another length no command is sent; the status is still that of the *)
(* last one, which was OK.                                                 *)
SkipItem ==
  /\ pc = "items"
  /\ pos <= Len(file.items)
  /\ Item.flaw \in {"none", "list"}
  /\ ~HasCommand(Item)
  /\ TakeAndFree(Needs(Item.kind))
  /\ pos' = pos + 1
  /\ pc' = AfterItem(Item)
  /\ UNCHANGED <<moduleVars, searchVars, callVars, service, char, open, fault,
                 stuck, ret>>

(* The module refuses the attribute, for one because its parent is 0xffff. *)
ItemRefused ==
  /\ pc = "items"
  /\ pos <= Len(file.items)
  /\ ~(open /\ Item.kind = "service")
  /\ Item.flaw \in {"none", "list"}
  /\ HasCommand(Item)
  /\ Refuse
  /\ Take(Needs(Item.kind))
  /\ pc' = "exit"
  /\ UNCHANGED <<searchVars, buildVars, callVars, stuck, ret>>

(* sl_bt_gattdb_start_service, once the attributes of a service are added. *)
StartService ==
  /\ pc = "items"
  /\ open
  /\ Item.kind \in {"service", "end"}
  /\ draft' = [draft EXCEPT ![service].started = TRUE]
  /\ Accept
  /\ open' = FALSE
  /\ UNCHANGED <<db, session, searchVars, heapVars, callVars, pos, service,
                 char, pc, stuck, ret>>

SetCommit ==
  /\ pc = "items"
  /\ ~open
  /\ Item.kind = "end"
  /\ Commit /\ Accept
  /\ held' = [held EXCEPT !["root"] = @ - 1]
  /\ ptr' = ptr \ {"root"}
  /\ Return("ok")
  /\ UNCHANGED <<searchVars, buildVars, callVars, stuck>>

SetFails ==
  /\ pc = "items"
  /\ Item.kind = "end" \/ (open /\ Item.kind = "service")
  /\ Refuse
  /\ pc' = "exit"
  /\ UNCHANGED <<searchVars, buildVars, heapVars, callVars, stuck, ret>>

FreeAll ==
  /\ held' = [b \in Buffers |-> IF b \in ptr THEN held[b] - 1 ELSE held[b]]
  /\ ptr' = {}

ExitSilent ==                                                 \* mutant of Exit
  /\ pc = "exit"
  /\ FreeAll
  /\ Return("failed")
  /\ UNCHANGED <<moduleVars, searchVars, buildVars, callVars, fault, stuck>>

(* exit: the session is aborted, the JSON object released, and what the    *)
(* two pointers still point to is freed.                                   *)
Exit ==
  /\ pc = "exit"
  /\ Abort
  /\ FreeAll
  /\ Return("failed")
  /\ UNCHANGED <<searchVars, buildVars, callVars, fault>>
-----------------------------------------------------------------------------
(* Between two calls a hard reset gives the module its first database.     *)
HardReset ==
  /\ pc = "idle"
  /\ session \/ db # Firmware
  /\ db' = Firmware /\ session' = FALSE
  /\ stuck' = FALSE
  /\ ret' = "none"
  /\ UNCHANGED <<draft, searchVars, buildVars, heapVars, callVars, pc, fault>>

Init ==
  /\ db = Firmware /\ session = FALSE /\ draft = <<>>
  /\ big \in BOOLEAN
  /\ pc = "idle" /\ setting = FALSE /\ file \in Files
  /\ pos = 1 /\ start = 1 /\ count = 0 /\ found = <<>>
  /\ service = 0 /\ char = 0 /\ open = FALSE
  /\ held = [b \in Buffers |-> 0] /\ ptr = {}
  /\ fault = FALSE /\ stuck = FALSE
  /\ before = Firmware /\ ret = "none" /\ callNo = 0

Deletion == DelSession \/ FindService \/ FindTooMany \/ FindNothing \/ RemoveService
            \/ DelCommit \/ DelFails \/ DelAbort
Setting == SetSession \/ RootUnreadable \/ RootRead \/ ItemFlawed \/ AddItem
           \/ SkipItem \/ ItemRefused \/ StartService \/ SetCommit \/ SetFails
           \/ Exit

Next ==
  \/ \E set \in BOOLEAN, f \in Files : Start(set, f)
  \/ SessionRefused \/ Deletion \/ Setting \/ HardReset

Spec == Init /\ [][Next]_vars
-----------------------------------------------------------------------------
(* Properties.                                                             *)

Idle == pc = "idle"

(* Every return path frees what the call allocated, once: uuid_u8 and      *)
(* value_u8 are freed inside the loops and again by the common exit.       *)
BuffersReturned == Idle => \A b \in Buffers : held[b] = 0

Sound(f) ==
  /\ f.flaw = "none"
  /\ \A n \in 1 .. Len(f.items) :
       f.items[n].flaw = "none" /\ HasCommand(f.items[n])

(* The position of the last attribute of a kind before position n. *)
LastOf(items, kind, n) ==
  CHOOSE m \in 1 .. n - 1 :
    /\ items[m].kind = kind
    /\ \A k \in m + 1 .. n - 1 : items[k].kind # kind

(* The attribute is in the database, started and under the service or      *)
(* characteristic it is written under in the file.  Its uuid is the file's *)
(* on a big-endian host only: on a little-endian one the bytes of the text *)
(* are sent as they stand, which the module takes in the opposite order.   *)
Served(a, items, n) ==
  /\ a.kind = items[n].kind
  /\ a.uuid = items[n].uuid
  /\ a.order = "le" <=> big
  /\ a.under = CASE a.kind = "service" -> 0
                 [] a.kind = "char" -> LastOf(items, "service", n)
                 [] a.kind = "descriptor" -> LastOf(items, "char", n)
  /\ a.kind = "service" => a.started

(* A successful silabs_ble_del_gattdb leaves nothing of the old database,  *)
(* a successful silabs_ble_set_gattdb the attributes of the file and no    *)
(* other, if it has every key and its uuids have 2 or 16 bytes: every      *)
(* service started, every attribute under the right one, each uuid in the  *)
(* order of the file on big-endian hosts and reversed on little-endian ones.*)
SuccessMeansServed ==
  Idle /\ ret = "ok" =>
    IF ~setting THEN db = <<>>
    ELSE Sound(file) =>
           /\ Len(db) = Len(file.items)
           /\ \A n \in 1 .. Len(db) : Served(db[n], file.items, n)

(* Whichever command of a call fails, the session it opened is closed when *)
(* it returns, or no other call could open one, and the old database or an *)
(* empty one is left, never a part of either the old or the new.           *)
SessionClosed == Idle /\ session => stuck
FailureIsUndone ==
  /\ SessionClosed
  /\ Idle /\ ret = "failed" => db \in {before, <<>>}

(* A deletion writes behind service_handle[] only where there are more     *)
(* services than places: those found so far, each once, and another one.   *)
Crowded ==
  /\ Len(found) >= HandleSlots
  /\ \A i, j \in DOMAIN found : i < j => found[i] < found[j]
  /\ \E h \in 1 .. Len(db) :
       /\ IsService(db, h)
       /\ \A i \in DOMAIN found : IsService(db, found[i]) /\ found[i] < h

(* A call fails only when a command is refused or the file lacks a key: in *)
(* particular the handles that the deletion has found are still valid when *)
(* it removes them, as it removes the last service first.  It is lost only *)
(* in a crowded database.                                                  *)
FailureHasCause ==
  /\ Idle /\ ret = "failed" => fault \/ stuck \/ ~Sound(file)
  /\ pc = "lost" => Crowded
=============================================================================
