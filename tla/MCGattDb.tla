------------------------------ MODULE MCGattDb ------------------------------
(* Files with each place where a key may be missing, with a uuid of a      *)
(* length that has no command, with nothing wrong, and with more services  *)
(* than the deletion has places for.                                       *)
EXTENDS GattDb

S(u, flaw) == [kind |-> "service", uuid |-> u, len |-> 2, flaw |-> flaw]
C(u, len, flaw) == [kind |-> "char", uuid |-> u, len |-> len, flaw |-> flaw]
D(u, len, flaw) == [kind |-> "descriptor", uuid |-> u, len |-> len,
                    flaw |-> flaw]
File(flaw, items) == [flaw |-> flaw, items |-> items]

MCFiles ==
  {File("unreadable", <<>>), File("list", <<>>), File("none", <<>>),
   File("none", <<S(1, "none"), C(2, 2, "none"), D(3, 2, "none"),
                  C(4, 16, "none"), S(5, "none"), C(6, 16, "none"),
                  D(7, 16, "none")>>),
   File("none", <<S(1, "none"), C(2, 4, "none"), D(3, 2, "none")>>),
   File("none", <<S(1, "list")>>),
   File("none", <<S(1, "none"), S(5, "none"), S(8, "none")>>)}
  \cup {File("none", <<S(1, "none"), C(2, 2, f), S(3, "early")>>) :
          f \in {"early", "middle", "list", "none"}}
  \cup {File("none", <<S(1, "none"), C(2, 2, "none"), D(3, 2, f)>>) :
          f \in {"early", "middle"}}

(* The services that the firmware is built with. *)
MCFirmware ==
  <<[kind |-> "service", uuid |-> 8, order |-> "le", under |-> 0,
     started |-> TRUE],
    [kind |-> "char", uuid |-> 9, order |-> "le", under |-> 1,
     started |-> FALSE],
    [kind |-> "service", uuid |-> 10, order |-> "le", under |-> 0,
     started |-> TRUE]>>
=============================================================================
