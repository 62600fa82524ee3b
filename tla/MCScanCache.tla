---------------------------- MODULE MCScanCache ----------------------------
(* Requests are interchangeable.                                           *)
EXTENDS ScanCache, TLC

RequestSymmetry == Permutations(Request)

=============================================================================
