----------------------------- MODULE MCDaemons ------------------------------
(* A small instance of Daemons. *)
EXTENDS Daemons

CONSTANT m1

\* Two lines in the first mail log, one in the second; the last line of the
\* first is a hard bounce, and the one of the second cannot be imported.
Lines == <<2, 1>>
Hard == {<<1, 2>>}
Bad == {<<2, 1>>}
=============================================================================
