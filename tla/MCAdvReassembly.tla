--------------------------- MODULE MCAdvReassembly ---------------------------
(* Small instances of AdvReassembly for TLC: the sources are               *)
(* interchangeable.                                                        *)
EXTENDS AdvReassembly, TLC
CONSTANTS s1, s2
SourceSymmetry == Permutations({s1, s2})
=============================================================================
