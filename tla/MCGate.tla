------------------------------- MODULE MCGate -------------------------------
(* Small instances of Gate for TLC. *)
EXTENDS Gate, TLC

ScanSymmetry == Permutations(Scans) \cup Permutations(Tickets)
=============================================================================
