------------------------------ MODULE MCAccess ------------------------------
(* Small instances of Access for TLC. *)
EXTENDS Access, TLC

CallSymmetry == Permutations(Calls) \cup Permutations(Events)
=============================================================================
