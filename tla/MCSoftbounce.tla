--------------------------- MODULE MCSoftbounce ---------------------------
(* An instance of Softbounce for TLC: which bounces may come, and whose.     *)
EXTENDS Softbounce, TLC

CONSTANTS b1, b2, b3, b4, c1, c2

\* Three bounces of one customer, the last one hard, and one of another.
BounceCustomer == b1 :> c1 @@ b2 :> c1 @@ b3 :> c2 @@ b4 :> c1
============================================================================
