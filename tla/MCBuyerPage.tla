----------------------------- MODULE MCBuyerPage -----------------------------
(* A small instance of BuyerPage for TLC. *)
EXTENDS BuyerPage
=============================================================================
