----------------------------- MODULE MCSession -----------------------------
(* Small instances of Session for TLC. *)
EXTENDS Session, TLC

CONSTANTS t1, t2, t3, b1, b2

(* Two tabs of one browser, and a second browser. *)
ThreeTabs == (t1 :> b1) @@ (t2 :> b1) @@ (t3 :> b2)

(* Sessions are alike, and so are the two tabs of browser b1. *)
SessionTabSymmetry == Permutations(Families) \cup Permutations({t1, t2})
=============================================================================
