--------------------------- MODULE MCGattDiscovery ---------------------------
(* Small instances of GattDiscovery for TLC: two interchangeable           *)
(* connections.                                                            *)
EXTENDS GattDiscovery
CONSTANTS k1, k2
ConnSymmetry == Permutations({k1, k2})
=============================================================================
