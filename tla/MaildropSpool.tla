--------------------------- MODULE MaildropSpool ---------------------------
(***************************************************************************)
(* Maildrop implements Spool: whatever requests, jobs, failures and        *)
(* crashes do, the META directory changes as one generation per row and    *)
(* kick off day would change it.                                           *)
(***************************************************************************)
EXTENDS Maildrop

\* The worker, if any, that is busy with the generation of row d on day t.
WritersOf(d, t) ==
    {w \in Workers : job[w] = d /\ Run(d) = t /\ pc[w] \in {"init", "write", "open", "destroy"}}

\* Refinement mapping: what the workers and the history of claims say about a
\* generation.
WorkOf(d, t) ==
    IF claims[d][t] = 0 THEN [at |-> "new", nr |-> 0]
    ELSE IF WritersOf(d, t) = {} THEN [at |-> "over", nr |-> 0]
    ELSE LET w == CHOOSE v \in WritersOf(d, t) : TRUE IN
         [at |-> CASE pc[w] = "destroy" -> "failed"
                   [] pc[w] = "open" -> "open"
                   [] OTHER -> "write",
          nr |-> blk[w]]

Abstract == INSTANCE Spool WITH
    Runs <- Days,
    work <- [d \in Drops |-> [t \in Days |-> WorkOf(d, t)]]

\* The generator only ever does to the META directory what Spool allows: no
\* block is touched again once its stamp is there, no final file comes before
\* the last stamp, no file is taken away but by the Destroyer, and no
\* generation writes after it was given up, finished or begun a second time.
ImplementsSpool == Abstract!SpoolSpec

============================================================================
