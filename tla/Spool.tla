------------------------------- MODULE Spool -------------------------------
(***************************************************************************)
(* What the backend promises about the META spool directory, without the   *)
(* tables, threads and jobs that make it keep the promise: a generation    *)
(* writes its blocks one after the other, tells by a stamp that a block is *)
(* complete and by the final file that there are no more; or it is given   *)
(* up, and then perhaps all files of its mailing are destroyed.  Maildrop  *)
(* implements this specification; Pickdist works on what it leaves in the  *)
(* directory.                                                              *)
(***************************************************************************)
EXTENDS Integers

CONSTANTS
    Drops,      \* maildrop rows
    Runs,       \* values of the <ts> of a row's generations
    Mailings,   \* mailing_id values
    MailingOf,  \* the mailing of a row
    KindOf,     \* status_field of a row: "W" world, "R" date based, "T" admin/test
    MaxBlocks   \* bound: blocks per generation

ASSUME SpoolAssumption ==
    /\ MailingOf \in [Drops -> Mailings]
    /\ KindOf \in [Drops -> {"W", "R", "T"}]
    /\ MaxBlocks \in Nat \ {0}

VARIABLES
    meta,    \* files in META
    deleted, \* mailings that are marked as deleted
    work     \* how far each generation is

spoolVars == <<meta, deleted, work>>

File == [drop : Drops, run : Runs, nr : 1 .. MaxBlocks, ext : {"xml", "stamp", "final"}]

\* at: "new", "write" between two blocks, "open" within one, "failed" before the
\* clean up, "over" when nobody works on it any more.
Work == [at : {"new", "write", "open", "failed", "over"}, nr : 0 .. MaxBlocks]

Over == [at |-> "over", nr |-> 0]

Active == {"write", "open", "failed"}

SpoolTypeOK ==
    /\ meta \subseteq File
    /\ deleted \subseteq Mailings
    /\ work \in [Drops -> [Runs -> Work]]

SpoolInit ==
    /\ meta = {}
    /\ deleted = {}
    /\ work = [d \in Drops |-> [t \in Runs |-> [at |-> "new", nr |-> 0]]]

SpoolFile(d, t, n, e) == [drop |-> d, run |-> t, nr |-> n, ext |-> e]

Advance(d, t, from, to) ==
    /\ work[d][t].at = from
    /\ work' = [work EXCEPT ![d][t] = to]
    /\ UNCHANGED deleted

----------------------------------------------------------------------------

Begin(d, t) ==
    /\ Advance(d, t, "new", [at |-> "write", nr |-> 0])
    /\ UNCHANGED meta

StartBlock(d, t) ==
    LET n == work[d][t].nr + 1 IN
    /\ n <= IF KindOf[d] = "T" THEN 1 ELSE MaxBlocks
    /\ Advance(d, t, "write", [at |-> "open", nr |-> n])
    /\ meta' = meta \cup {SpoolFile(d, t, n, "xml")}

EndBlock(d, t) ==
    LET n == work[d][t].nr IN
    /\ Advance(d, t, "open", [at |-> "write", nr |-> n])
    /\ meta' = IF KindOf[d] = "T" THEN meta ELSE meta \cup {SpoolFile(d, t, n, "stamp")}

Finish(d, t) ==
    LET n == work[d][t].nr IN
    /\ Advance(d, t, "write", Over)
    /\ meta' = CASE KindOf[d] = "T" -> meta \ {SpoolFile(d, t, 1, "xml")}
                 [] KindOf[d] # "T" /\ n > 0 -> meta \cup {SpoolFile(d, t, n, "final")}
                 [] OTHER -> meta

\* The writer gives up; only a generation the Ruler started is cleaned up.
GiveUp(d, t) ==
    /\ work[d][t].at \in Active
    /\ \E outcome \in {[work[d][t] EXCEPT !.at = "failed"], Over} :
          work' = [work EXCEPT ![d][t] = outcome]
    /\ UNCHANGED <<meta, deleted>>

\* The JVM dies: nobody is at work any more and nothing is cleaned up.
Halt ==
    /\ work' = [d \in Drops |-> [t \in Runs |->
                  IF work[d][t].at \in Active THEN Over ELSE work[d][t]]]
    /\ UNCHANGED <<meta, deleted>>

\* The Destroyer: every file of the mailing, whichever generation wrote it.
Destroy(d, t) ==
    /\ Advance(d, t, "failed", Over)
    /\ meta' = {f \in meta : MailingOf[f.drop] # MailingOf[d]}

Delete(m) ==
    /\ deleted' = deleted \cup {m}
    /\ UNCHANGED <<meta, work>>

SpoolNext ==
    \/ \E d \in Drops, t \in Runs :
          \/ Begin(d, t)
          \/ StartBlock(d, t)
          \/ EndBlock(d, t)
          \/ Finish(d, t)
          \/ GiveUp(d, t)
          \/ Destroy(d, t)
    \/ Halt
    \/ \E m \in Mailings : Delete(m)

SpoolSpec == SpoolInit /\ [][SpoolNext]_spoolVars
============================================================================
