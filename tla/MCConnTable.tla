----------------------------- MODULE MCConnTable -----------------------------
(* Small instances of ConnTable for TLC: two devices, two handles.         *)
EXTENDS ConnTable
CONSTANTS a1, a2, h1, h2
=============================================================================
