------------------------------ MODULE MCReview ------------------------------
(* Small instances of Review for TLC. *)
EXTENDS Review, TLC

PointCallSymmetry == Permutations(Points) \cup Permutations(Calls)

(* Statuses that leave the event alone, or the list and the archive.       *)
MarkedOrListed ==
    aside => /\ ~listed /\ ~archived
             /\ At({"list", "unlist", "archive"}) = {}
=============================================================================
