---------------------------- MODULE MCMaildrop ----------------------------
(* Instances of Maildrop for TLC: which rows exist, of which mailing and     *)
(* kind, and when they are due.                                              *)
EXTENDS MaildropSpool, TLC

CONSTANTS d1, d2, d3, m1, m2, r1, r2, r3, ws

\* A world mailing for tomorrow with a test send of the same mailing, and a
\* date based mailing.
MixedMailing == d1 :> m1 @@ d2 :> m1 @@ d3 :> m2
MixedKind == d1 :> "W" @@ d2 :> "T" @@ d3 :> "R"
MixedGenDay == d1 :> 2 @@ d2 :> 0 @@ d3 :> 0

\* Two date based rows of one mailing.
PairMailing == d1 :> m1 @@ d2 :> m1
PairKind == d1 :> "R" @@ d2 :> "R"
PairGenDay == d1 :> 0 @@ d2 :> 0

\* One row of one kind.
WorldMailing == d1 :> m1 @@ d2 :> m1
WorldKind == d1 :> "W" @@ d2 :> "W"
WorldGenDay == d1 :> 2 @@ d2 :> 0
RuleMailing == d1 :> m1
RuleKind == d1 :> "R"
RuleGenDay == d1 :> 0

\* A world row and a date based row of one mailing, from the web service.
ServiceMailing == d1 :> m1 @@ d2 :> m1
ServiceKind == d1 :> "W" @@ d2 :> "R"
ServiceGenDay == d1 :> 0 @@ d2 :> 0

\* Every request has a session of its own, or r1 and r2 share one.
OwnSession == [r \in Requests |-> r]
SharedSession == [r \in Requests |-> IF r = r2 THEN r1 ELSE r]
============================================================================
