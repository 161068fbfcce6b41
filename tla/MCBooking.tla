----------------------------- MODULE MCBooking -----------------------------
(* Small instances of Booking for TLC: what buyers ask for, how the        *)
(* organizer paints the seats, and symmetry.                               *)
EXTENDS Booking, TLC

SeatedRequest(S) == [seats |-> S, tier |-> None, qty |-> 0]
QuantityRequest(t, q) == [seats |-> {}, tier |-> t, qty |-> q]

(* Any non-empty set of seats. *)
SeatRequests == {SeatedRequest(S) : S \in SUBSET Seats \ {{}}}

(* One or two tickets of any tier. *)
GARequests == {QuantityRequest(t, q) : t \in Tiers, q \in 1..2}

(* One tier sells the seats, another is general admission.                 *)
SeatTier == CHOOSE t \in Tiers : TRUE
GATier == CHOOSE t \in Tiers : Tiers # {t} => t # SeatTier
OnePainting == {[s \in Seats |-> SeatTier]}

(* Any seats, or one or two tickets. *)
MixedRequests == SeatRequests \cup {QuantityRequest(GATier, q) : q \in 1..2}

(* For the liveness run, which has no symmetry: all seats, one ticket,     *)
(* more than are allowed, malformed requests.                              *)
FewRequests ==
    {SeatedRequest(Seats), QuantityRequest(GATier, 1),
     QuantityRequest(GATier, 3), NoRequest,
     [seats |-> Seats, tier |-> GATier, qty |-> 1]}

(* Every seat painted, with any mixture of tiers. *)
FullPaintings == [Seats -> Tiers]

HoldSeatSymmetry == Permutations(Holds) \cup Permutations(Seats)
=============================================================================
