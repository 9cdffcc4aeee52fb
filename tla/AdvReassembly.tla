---------------------------- MODULE AdvReassembly ----------------------------
(***************************************************************************)
(* How the watcher puts the fragments of a long advertisement together     *)
(* (extended_adv_data_constuct and periodic_adv_data_constuct of           *)
(* silabs_evt.c, which differ only in what identifies an advertiser).      *)
(*                                                                         *)
(* A fragment is the part of one advertisement of one source that one      *)
(* report carries.  The buffer is modelled by the fragments copied into    *)
(* it, its fill level by the 16-bit counter the code keeps.                *)
(***************************************************************************)
EXTENDS Integers, Sequences

CONSTANTS
  Sources,    (* advertisers: address type, address, set id; or a sync     *)
  FragLens,   (* lengths of the data of one report                         *)
  MaxLen,     (* MAX_ADV_DATA_LEN                                          *)
  LenMod,     (* the fill level is counted modulo this (2^16)              *)
  MaxFrags,   (* bound: fragments of one advertisement                     *)
  MaxAdvs     (* bound: advertisements                                     *)

ASSUME LengthsAssumption ==
  /\ FragLens \subseteq Nat
  /\ MaxLen \in Nat /\ LenMod \in Nat /\ MaxLen < LenMod
ASSUME BoundsAssumption ==
  MaxFrags \in Nat /\ MaxAdvs \in Nat

VARIABLES
  sent,      (* fragments of the current advertisement of each source      *)
  bytes,     (* their length                                               *)
  advNo,     (* number of the current advertisement of each source         *)
  recording, (* is_record                                                  *)
  recorded,  (* the source recorded: addr_record, sid_record, ...          *)
  fill,      (* long_extended_data_len_p                                   *)
  buffer,    (* what long_extended_data holds                              *)
  copied,    (* of the last report copied: where in the buffer it ended    *)
             (* and where in its advertisement it ends                     *)
  published, (* the last result handed to the callback: its length, the    *)
             (* length of its last report, and whether it is the           *)
             (* advertisement it completes                                 *)
  results,   (* number of results handed to the callback                   *)
  completed, (* number of advertisements within the limit sent to their end *)
  orderly    (* no report was lost, reports of two sources did not alternate *)

senderVars == <<sent, bytes, advNo, completed>>
vars == <<senderVars, recording, recorded, fill, buffer, copied, published,
          results, orderly>>

Statuses == {"complete", "incomplete", "truncated"}
None == "none"
NoResult == [len |-> 0, last |-> 0, exact |-> TRUE]
-----------------------------------------------------------------------------
(* The fill level, a uint16_t, after len more bytes. *)
Grow(len) == (fill + len) % LenMod

(* ADV_DATA_TRUNCATED: start over. *)
Truncated ==
  /\ recording' = FALSE
  /\ fill' = 0
  /\ buffer' = <<>>
  /\ UNCHANGED <<recorded, copied, published, results>>

(* memcpy of a report to the buffer at level from: nothing is compared     *)
(* with the end of the buffer here, and what lies behind it is not modelled.*)
Copy(f, from) == copied' = [end |-> from + f.len, adv |-> f.off + f.len]

(* ADV_DATA_INCOMPLETE while nothing is recorded: record this source. *)
FirstFragment(f) ==
  /\ ~recording
  /\ recording' = TRUE
  /\ recorded' = f.src
  /\ buffer' = <<f>>
  /\ Copy(f, 0)
  /\ fill' = f.len % LenMod
  /\ UNCHANGED <<published, results>>

(* ADV_DATA_INCOMPLETE of another source is ignored. *)
ForeignFragment(f) ==
  /\ recording
  /\ recorded # f.src
  /\ UNCHANGED <<recording, recorded, fill, buffer, copied, published, results>>

(* ADV_DATA_INCOMPLETE of the source recorded: copied while there is room, *)
(* only counted when it reaches the end of the buffer.                     *)
ReachesEndEarly(f) == fill + f.len + 1 >= MaxLen     \* mutant of ReachesEnd
ReachesEnd(f) == fill + f.len >= MaxLen
NextFragment(f) ==
  /\ recording
  /\ recorded = f.src
  /\ fill' = Grow(f.len)
  /\ IF ReachesEnd(f) THEN UNCHANGED <<buffer, copied>>
                      ELSE buffer' = Append(buffer, f) /\ Copy(f, fill)
  /\ UNCHANGED <<recording, recorded, published, results>>

(* ADV_DATA_COMPLETE, of whatever source: copied, then measured; handed to *)
(* the callback under the address of this report if it fits.  whole is the *)
(* advertisement that this report completes, total its length.             *)
FitsUnlessFull(n) == n < MaxLen                             \* mutant of Fits
Fits(n) == n <= MaxLen
FillKeptIfLong(n) == IF Fits(n) THEN 0 ELSE n     \* mutant of FillAfterComplete
FillAfterComplete(n) == 0
Held == IF recording THEN buffer ELSE <<>>

Complete(f, whole, total) ==
  /\ recording' = FALSE
  /\ buffer' = Append(Held, f)
  /\ Copy(f, fill)
  /\ fill' = FillAfterComplete(Grow(f.len))
  /\ IF Fits(Grow(f.len))
       THEN /\ published' = [len |-> Grow(f.len), last |-> f.len,
                             exact |-> Append(Held, f) = whole
                                         /\ Grow(f.len) = total]
            /\ results' = results + 1
       ELSE UNCHANGED <<published, results>>
  /\ UNCHANGED recorded

Receive(f, status, whole, total) ==
  \/ status = "truncated" /\ Truncated
  \/ /\ status = "incomplete"
     /\ FirstFragment(f) \/ ForeignFragment(f) \/ NextFragment(f)
  \/ status = "complete" /\ Complete(f, whole, total)
-----------------------------------------------------------------------------
(* The module (external) reports each advertisement of a source as         *)
(* incomplete fragments followed by a complete one or a truncated one,     *)
(* each of 1650 bytes at most, which the counter holds.                    *)

Alternates(s) == \E t \in Sources \ {s} : sent[t] # <<>>

Report(s, len, status) ==
  LET f == [src |-> s, adv |-> advNo[s], off |-> bytes[s], len |-> len]
      total == bytes[s] + len
      last == status # "incomplete"
  IN  /\ advNo[s] < MaxAdvs
      /\ Len(sent[s]) < MaxFrags
      /\ total < LenMod
      /\ sent' = [sent EXCEPT ![s] = IF last THEN <<>> ELSE Append(@, f)]
      /\ bytes' = [bytes EXCEPT ![s] = IF last THEN 0 ELSE total]
      /\ advNo' = [advNo EXCEPT ![s] = IF last THEN @ + 1 ELSE @]
      /\ completed' = IF status = "complete" /\ total <= MaxLen
                        THEN completed + 1 ELSE completed
      /\ \/ /\ Receive(f, status, Append(sent[s], f), total)
            /\ orderly' = (orderly /\ ~Alternates(s))
         \/ /\ orderly' = FALSE    \* lost on its way to the watcher
            /\ UNCHANGED <<recording, recorded, fill, buffer, copied,
                           published, results>>

Init ==
  /\ sent = [s \in Sources |-> <<>>]
  /\ bytes = [s \in Sources |-> 0]
  /\ advNo = [s \in Sources |-> 0]
  /\ completed = 0
  /\ recording = FALSE /\ recorded = None
  /\ fill = 0 /\ buffer = <<>> /\ orderly = TRUE
  /\ copied = [end |-> 0, adv |-> 0]
  /\ published = NoResult /\ results = 0

Next == \E s \in Sources, len \in FragLens, status \in Statuses :
          Report(s, len, status)

Spec == Init /\ [][Next]_vars
-----------------------------------------------------------------------------
(* The limit is looked at after the copy.  As long as no report is lost    *)
(* and the reports of two sources do not alternate, a copy goes where its  *)
(* report belongs in its advertisement, whatever truncated, over-long and  *)
(* empty ones came before: only an advertisement that is itself longer     *)
(* than the buffer is ever copied past its end.                            *)
CopiedInPlace == orderly => copied.end = copied.adv

(* sl_bt_api.h of a complete report: "All data of the advertisement has    *)
(* been reported".  The result is that advertisement: all its fragments in *)
(* order, and nothing else.                                                *)
CompleteIsWhole == published.exact

(* It is, as long as no report is lost and the reports of two sources do   *)
(* not alternate: whatever truncated and over-long advertisements came     *)
(* before, nothing of them is left in the buffer.  One case is excepted: a *)
(* fragment that ends exactly at the end of the buffer is not copied, and  *)
(* the advertisement still passes the limit if its last report is empty.   *)
EndsEmpty == published.len = MaxLen /\ published.last = 0
PublishedIsWhole == orderly /\ ~EndsEmpty => CompleteIsWhole

(* Under the same conditions every advertisement that is within the limit  *)
(* and reported to its end gives a result.                                 *)
EveryCompleteIsPublished == orderly => results = completed
=============================================================================
