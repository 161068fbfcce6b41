--------------------------- MODULE MCVenueEditor ---------------------------
(* A small instance of VenueEditor for TLC. *)
EXTENDS VenueEditor, TLC

CONSTANTS la, lb

(* One layout has a seat, the other was just created. *)
OneGiven == [l \in Layouts |-> IF l = la THEN {1} ELSE {}]

CallSymmetry == Permutations(Calls) \cup Permutations(Looks)
=============================================================================
