----------------------------- MODULE MCCheckout -----------------------------
(* The instance of Checkout for TLC: the development user, whose token a    *)
(* server that checks tokens rejects, one other user, and two orders, so    *)
(* that a payment can be retried or made beside one that is still going on. *)
EXTENDS Checkout, TLC

CONSTANTS dev, ann, nobody, garbled, rejected, p1, p2, nopurse

TheCaller == ann :> ann @@ dev :> rejected @@ nobody :> rejected
=============================================================================
