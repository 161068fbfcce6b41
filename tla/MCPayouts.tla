----------------------------- MODULE MCPayouts -----------------------------
(* Small instances of Payouts for TLC. *)
EXTENDS Payouts, TLC

CallSymmetry == Permutations(Calls) \cup Permutations(Payouts)
                    \cup Permutations(Accounts)

(* Several payouts compete for the money, or one of them is reviewed, or   *)
(* the organizer's application changes under the account of one.           *)
OnlyMoney ==
    /\ account = None /\ confirmed = None /\ ~open /\ ~rewritten
    /\ \A p \in Payouts : checks[p] = {}
    /\ \A c \in Calls : pc[c] \notin {"tick", "approve", "edit"}

One == Cardinality(Rows) <= 1 /\ peak <= 1

OneReviewed ==
    /\ One /\ ~open /\ ~rewritten
    /\ \A c \in Calls : pc[c] # "profile"

OnlyBank ==
    /\ One
    /\ \A p \in Payouts : checks[p] = {}
    /\ \A c \in Calls : pc[c] \in {"idle", "compare", "verify", "events", "payouts",
                                 "edit", "profile"}

MoneyOrReview == OnlyMoney \/ OneReviewed \/ OnlyBank
=============================================================================
