------------------------------ MODULE MCNcpLink ------------------------------
(* Small instances of NcpLink for TLC: the commands are interchangeable.   *)
EXTENDS NcpLink, TLC
CONSTANTS c1, c2
CommandSymmetry == Permutations({c1, c2})
=============================================================================
