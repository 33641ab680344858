---------------------------- MODULE MCPickdist ----------------------------
(* Instances of Pickdist for TLC: the generations that write into META.      *)
EXTENDS Pickdist, TLC

CONSTANTS d1, d2, m1, m2

\* Two rows of one mailing.
OneMailing == d1 :> m1 @@ d2 :> m1

BothWorld == d1 :> "W" @@ d2 :> "W"
WorldAndTest == d1 :> "W" @@ d2 :> "T"

MailingIds == [m \in Mailings |-> IF m = m1 THEN 1 ELSE 2]
============================================================================
