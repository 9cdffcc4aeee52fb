------------------------------ MODULE AdvSets ------------------------------
(***************************************************************************)
(* Advertising sets: the calls that create, fill, start, stop and delete   *)
(* them (silabs_bleapi.c, gl_common.c), and the list of handles that       *)
(* bletool keeps (demo_bletool.c).  A call is a sequence of commands, each *)
(* of which the module may refuse; _ble_mutex keeps calls apart.  Data     *)
(* longer than a command are first collected in the module's data buffer.  *)
(*                                                                         *)
(* Answers come in time; what a command returns when they do not is the    *)
(* subject of NcpLink.  PHYs, intervals and powers are left out.           *)
(***************************************************************************)
EXTENDS Integers, Sequences, FiniteSets

CONSTANTS
  Chunk,          (* bytes of a command's array, SL_BGAPI_MAX_PAYLOAD_SIZE-1*)
  MaxLen,         (* MAX_ADV_DATA_LEN                                       *)
  LegacyLen,      (* MAX_LEGACY_ADV_DATA_LEN                                *)
  Lengths,        (* lengths of data that applications set                  *)
  MAX_ADV_HANDLE, (* length of bletool's array of handles                   *)
  SetLimit,       (* sets that the module supports                          *)
  MaxCalls        (* bound: calls of the application                        *)

ASSUME SizesAssumption ==
  /\ Chunk \in Nat \ {0} /\ MaxLen \in Nat /\ Lengths \subseteq Nat
  /\ LegacyLen \in Nat /\ LegacyLen < Chunk
  /\ MAX_ADV_HANDLE \in Nat /\ SetLimit \in Nat /\ MaxCalls \in Nat

Handles == 0 .. SetLimit - 1
NoHandle == 255
Kinds == {"legacy", "extended", "periodic"}
Off == "off"

VARIABLES
  sets,      (* advertising sets that exist in the module                   *)
  air,       (* what each set advertises, legacy or extended                *)
  train,     (* whether each set advertises periodically                    *)
  data,      (* data of each set, of its legacy or extended advertising     *)
  trainData, (* data of each set, of its periodic advertising               *)
  buffer,    (* the module's data buffer                                    *)
  list,      (* adv_handle[0 .. adv_handle_p - 1]                           *)
  pc,        (* which command is next, or "idle", or "lost" once bletool    *)
             (* has written behind its array                                *)
  op,        (* the call                                                    *)
  asked,     (* the data that the call sets                                 *)
  written,   (* bytes of it that are written to the buffer                  *)
  remnant,   (* what was in the buffer when the call began                  *)
  ret,       (* what the last call returned                                 *)
  restarted, (* the module was reset or switched off since bletool began    *)
  calls      (* number of calls                                             *)

setVars == <<sets, air, train>>
dataVars == <<data, trainData>>
callVars == <<op, asked, remnant, restarted, calls>>
vars == <<setVars, dataVars, buffer, list, pc, callVars, written, ret>>

Generated == <<"generated">>
Return(result) == pc' = "idle" /\ ret' = result
-----------------------------------------------------------------------------
(* A call of the application.  Data are bytes, each told from any other by *)
(* the call that sets it and its place.                                    *)
Bytes(call, len) == [n \in 1 .. len |-> <<call, n>>]

Begin(name, kind, h, discover, len, first) ==
  /\ pc = "idle"
  /\ calls < MaxCalls
  /\ calls' = calls + 1
  /\ op' = [name |-> name, kind |-> kind, handle |-> h, discover |-> discover]
  /\ asked' = Bytes(calls + 1, len)
  /\ written' = 0
  /\ remnant' = buffer
  /\ pc' = first
  /\ UNCHANGED <<setVars, dataVars, buffer, list, ret, restarted>>

LongerThanCommand(len) == len > Chunk - 1
FirstOfSet(len) ==
  CASE ~LongerThanCommand(len) -> "setData"
    [] len = Chunk -> "writeOnly"
    [] OTHER -> "clear"

Start == \E kind \in Kinds, h \in Handles, d \in BOOLEAN :
           Begin("start", kind, h, d, 0, "configure")
Stop == \E h \in Handles : Begin("stop", "any", h, FALSE, 0, "stopAir")
SetLegacyData == \E h \in Handles, len \in Lengths :
  len <= LegacyLen /\ Begin("set", "legacy", h, FALSE, len, "setData")
SetData == \E kind \in Kinds \ {"legacy"}, h \in Handles, len \in Lengths :
  len <= MaxLen /\ Begin("set", kind, h, FALSE, len, FirstOfSet(len))

(* Data of more bytes than their kind allows are refused before any command. *)
Limit(kind) == IF kind = "legacy" THEN LegacyLen ELSE MaxLen

SetTooLong == \E kind \in Kinds, h \in Handles, len \in Lengths :
  /\ len > Limit(kind)
  /\ Begin("set", kind, h, FALSE, len, "refused")

(* A command fails: the call returns, and leaves what it has done. *)
CommandFails ==
  /\ pc \notin {"idle", "lost"}
  /\ Return("failed")
  /\ UNCHANGED <<setVars, dataVars, buffer, list, callVars, written>>
-----------------------------------------------------------------------------
(* Creation and deletion, one command each, with bletool's bookkeeping.    *)

(* adv_handle has a place for the new handle. *)
HasPlace == Len(list) < MAX_ADV_HANDLE

(* A call that is a single command. *)
Command(name) ==
  /\ pc = "idle"
  /\ calls < MaxCalls
  /\ calls' = calls + 1
  /\ op' = [name |-> name, kind |-> "any", handle |-> NoHandle,
            discover |-> FALSE]
  /\ UNCHANGED <<buffer, asked, remnant, restarted, written>>
Single(name) == Command(name) /\ UNCHANGED pc

(* The module opens a set, of whose data nothing is left. *)
NewSet(h) ==
  /\ sets' = sets \cup {h}
  /\ data' = [data EXCEPT ![h] = <<>>]
  /\ trainData' = [trainData EXCEPT ![h] = <<>>]

Create ==
  /\ Single("create")
  /\ HasPlace
  /\ \E h \in Handles \ sets : NewSet(h) /\ list' = Append(list, h)
  /\ ret' = "ok"
  /\ UNCHANGED <<air, train>>

(* Nothing asks whether there is a place.  Without one the new handle, or  *)
(* the 0xff of a refused call, is written behind the array, over whatever  *)
(* is there; the model ends.                                               *)
CreateBehind ==
  /\ Command("create")
  /\ ~HasPlace
  /\ \/ (\E h \in Handles \ sets : NewSet(h)) /\ ret' = "ok"
     \/ UNCHANGED <<sets, dataVars>> /\ ret' = "failed"
  /\ pc' = "lost"
  /\ UNCHANGED <<air, train, list>>

(* The handles behind the deleted one move up. *)
WithoutLast(s, i) == SubSeq(s, 1, Len(s) - 1)         \* mutant of Without
Without(s, i) == [n \in 1 .. Len(s) - 1 |-> IF n < i THEN s[n] ELSE s[n + 1]]

FirstPlace(h) ==
  CHOOSE i \in 1 .. Len(list) :
    list[i] = h /\ \A n \in 1 .. i - 1 : list[n] # h

Delete ==
  /\ Single("delete")
  /\ \E h \in sets :
       /\ \E i \in 1 .. Len(list) : list[i] = h
       /\ sets' = sets \ {h}
       /\ air' = [air EXCEPT ![h] = Off]
       /\ train' = [train EXCEPT ![h] = FALSE]
       /\ list' = Without(list, FirstPlace(h))
  /\ ret' = "ok"
  /\ UNCHANGED dataVars

(* The module refuses, or the handle to delete is not in the list.  The    *)
(* 0xff of a refused creation is written to the first unused place.        *)
SingleFails ==
  /\ Single("delete") \/ (HasPlace /\ Single("create"))
  /\ ret' = "failed"
  /\ UNCHANGED <<setVars, dataVars, list>>

(* silabs_ble_stop_adv of handle 0xff succeeds without a command. *)
StopNone ==
  /\ Single("stopNone")
  /\ ret' = "ok"
  /\ UNCHANGED <<setVars, dataVars, list>>

(* gl_ble_enable and gl_ble_hard_reset: the module forgets its sets, and   *)
(* bletool does not.                                                       *)
Restart ==
  /\ pc = "idle"
  /\ sets # {} \/ buffer # <<>>
  /\ sets' = {} /\ buffer' = <<>>
  /\ air' = [h \in Handles |-> Off] /\ train' = [h \in Handles |-> FALSE]
  /\ restarted' = TRUE
  /\ ret' = "none"
  /\ UNCHANGED <<dataVars, list, pc, op, asked, remnant, calls,
                 written>>
-----------------------------------------------------------------------------
(* Starting: set_phy and set_timing, then data if the call asks for data   *)
(* that the module makes, then start.                                      *)

Generates == op.kind # "periodic" /\ op.discover

Configure ==
  /\ pc = "configure"
  /\ op.handle \in sets
  /\ pc' = IF Generates THEN "generate" ELSE "start"
  /\ UNCHANGED <<setVars, dataVars, buffer, list, callVars, written, ret>>

Generate ==
  /\ pc = "generate"
  /\ data' = [data EXCEPT ![op.handle] = Generated]
  /\ pc' = "start"
  /\ UNCHANGED <<setVars, trainData, buffer, list, callVars, written, ret>>

(* Periodic advertising starts extended advertising with it. *)
StartAir ==
  /\ pc = "start"
  /\ IF op.kind = "periodic"
       THEN /\ train' = [train EXCEPT ![op.handle] = TRUE]
            /\ air' = [air EXCEPT ![op.handle] = "extended"]
       ELSE /\ air' = [air EXCEPT ![op.handle] = op.kind]
            /\ UNCHANGED train
  /\ Return("ok")
  /\ UNCHANGED <<sets, dataVars, buffer, list, callVars, written>>

(* Stopping: the legacy or extended advertising, then the periodic one.    *)
StopAirReturns ==                                      \* mutant of StopAir
  /\ pc = "stopAir"
  /\ op.handle \in sets
  /\ air' = [air EXCEPT ![op.handle] = Off]
  /\ Return("ok")
  /\ UNCHANGED <<sets, train, dataVars, buffer, list, callVars, written>>

StopAir ==
  /\ pc = "stopAir"
  /\ op.handle \in sets
  /\ air' = [air EXCEPT ![op.handle] = Off]
  /\ pc' = "stopTrain"
  /\ UNCHANGED <<sets, train, dataVars, buffer, list, callVars, written, ret>>

StopTrain ==
  /\ pc = "stopTrain"
  /\ train' = [train EXCEPT ![op.handle] = FALSE]
  /\ Return("ok")
  /\ UNCHANGED <<sets, air, dataVars, buffer, list, callVars, written>>
-----------------------------------------------------------------------------
(* Setting data.                                                           *)

Store(bytes) ==
  IF op.kind = "periodic"
    THEN trainData' = [trainData EXCEPT ![op.handle] = bytes] /\ UNCHANGED data
    ELSE data' = [data EXCEPT ![op.handle] = bytes] /\ UNCHANGED trainData

(* Data that fit into one command. *)
SetShort ==
  /\ pc = "setData"
  /\ op.handle \in sets
  /\ Store(asked)
  /\ Return("ok")
  /\ UNCHANGED <<setVars, buffer, list, callVars, written>>

(* ble_write_long_data. *)
ClearForgotten ==                                        \* mutant of Clear
  /\ pc = "clear"
  /\ pc' = "write"
  /\ UNCHANGED <<setVars, dataVars, buffer, list, callVars, written, ret>>

Clear ==
  /\ pc = "clear"
  /\ buffer' = <<>>
  /\ pc' = "write"
  /\ UNCHANGED <<setVars, dataVars, list, callVars, written, ret>>

(* Whole chunks as long as there are any, then the rest, if only of length *)
(* zero.                                                                   *)
WriteChunk ==
  /\ pc = "write"
  /\ written + Chunk <= Len(asked)
  /\ buffer' = buffer \o SubSeq(asked, written + 1, written + Chunk)
  /\ written' = written + Chunk
  /\ UNCHANGED <<setVars, dataVars, list, pc, callVars, ret>>

WriteRest ==
  /\ pc = "write"
  /\ written + Chunk > Len(asked)
  /\ buffer' = buffer \o SubSeq(asked, written + 1, Len(asked))
  /\ written' = Len(asked)
  /\ pc' = "setLong"
  /\ UNCHANGED <<setVars, dataVars, list, callVars, ret>>

(* Data of exactly one chunk are written without clearing the buffer. *)
WriteOnly ==
  /\ pc = "writeOnly"
  /\ buffer' = buffer \o asked
  /\ written' = Len(asked)
  /\ pc' = "setLong"
  /\ UNCHANGED <<setVars, dataVars, list, callVars, ret>>

(* The module takes its data from the buffer and empties it. *)
SetLong ==
  /\ pc = "setLong"
  /\ op.handle \in sets
  /\ Store(buffer)
  /\ buffer' = <<>>
  /\ Return("ok")
  /\ UNCHANGED <<setVars, list, callVars, written>>

(* The buffer is emptied even when the command fails. *)
SetLongFails ==
  /\ pc = "setLong"
  /\ buffer' = <<>>
  /\ Return("failed")
  /\ UNCHANGED <<setVars, dataVars, list, callVars, written>>
-----------------------------------------------------------------------------
Init ==
  /\ sets = {} /\ air = [h \in Handles |-> Off]
  /\ train = [h \in Handles |-> FALSE]
  /\ data = [h \in Handles |-> <<>>] /\ trainData = [h \in Handles |-> <<>>]
  /\ buffer = <<>> /\ list = <<>> /\ pc = "idle"
  /\ op = [name |-> "none", kind |-> "any", handle |-> NoHandle,
           discover |-> FALSE]
  /\ asked = <<>> /\ written = 0 /\ remnant = <<>>
  /\ ret = "none" /\ restarted = FALSE /\ calls = 0

Next ==
  \/ Create \/ CreateBehind \/ Delete \/ SingleFails \/ StopNone \/ Restart
  \/ Start \/ Stop \/ SetLegacyData \/ SetData \/ SetTooLong
  \/ Configure \/ Generate \/ StartAir \/ StopAir \/ StopTrain
  \/ SetShort \/ Clear \/ WriteChunk \/ WriteRest \/ WriteOnly
  \/ SetLong \/ SetLongFails \/ (pc # "setLong" /\ CommandFails)

Spec == Init /\ [][Next]_vars
-----------------------------------------------------------------------------
(* Properties.                                                             *)

Holds(h, kind) == IF kind = "periodic" THEN trainData[h] ELSE data[h]

(* A call that sets data and succeeds has set exactly these data, however  *)
(* many commands they took and whatever a call that failed half-way left   *)
(* in the buffer, with one exception: data of exactly one chunk, for which *)
(* the buffer is not cleared, are appended to what was left.               *)
DataAreWhole ==
  pc = "idle" /\ ret = "ok" /\ op.name = "set" =>
    Holds(op.handle, op.kind) =
      (IF Len(asked) = Chunk THEN remnant ELSE <<>>) \o asked

(* A successful stop leaves the set silent, however often it was started.  *)
StopSilences ==
  pc = "idle" /\ ret = "ok" /\ op.name = "stop" =>
    air[op.handle] = Off /\ ~train[op.handle]

(* As long as the module was not restarted, bletool's list names exactly   *)
(* the sets of the module, each once, whichever are deleted and whichever  *)
(* calls fail; and bletool writes behind its array only when the module    *)
(* has as many sets as the array has places.                               *)
ListNamesSets ==
  ~restarted =>
    /\ pc # "lost" =>
         /\ \A h \in Handles :
              h \in sets <=> \E n \in 1 .. Len(list) : list[n] = h
         /\ \A m, n \in 1 .. Len(list) : list[m] = list[n] => m = n
    /\ pc = "lost" => MAX_ADV_HANDLE <= Cardinality(sets)
=============================================================================
