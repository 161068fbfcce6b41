---------------------------- MODULE AtomicHolds ----------------------------
(***************************************************************************)
(* What seat reservation promises, with no Redis in it: a hold takes all   *)
(* the seats it asks for in one step, and only if every one of them is     *)
(* free; it does so at most once; afterwards seats come back, at a release *)
(* or when they lapse.                                                     *)
(***************************************************************************)
EXTENDS Naturals

CONSTANTS Holds, Seats, None

VARIABLES
    alloc,   \* the hold each seat belongs to
    granted  \* the seats each hold was granted, {} before

vars == <<alloc, granted>>

Init ==
    /\ alloc = [s \in Seats |-> None]
    /\ granted = [h \in Holds |-> {}]

Grant(h, S) ==
    /\ granted[h] = {}
    /\ \A s \in S : alloc[s] = None
    /\ alloc' = [s \in Seats |-> IF s \in S THEN h ELSE alloc[s]]
    /\ granted' = [granted EXCEPT ![h] = S]

ComeBack(S) ==
    /\ alloc' = [s \in Seats |-> IF s \in S THEN None ELSE alloc[s]]
    /\ UNCHANGED granted

Next ==
    \/ \E h \in Holds, S \in SUBSET Seats : Grant(h, S)
    \/ \E S \in SUBSET Seats : ComeBack(S)

Spec == Init /\ [][Next]_vars
=============================================================================
