------------------------------ MODULE Maildrop ------------------------------
(***************************************************************************)
(* The life of a maildrop: a row of maildrop_status_tbl that asks for one  *)
(* mailing to be generated.  Web requests and the web service create rows, *)
(* cancel and deactivate them; the Quartz driven Ruler picks up delayed    *)
(* and date based rows; a Mailgun claims a row by a compare-and-set on     *)
(* genstatus and writes the mailing block by block into the META spool     *)
(* directory.  Requests and the Ruler run concurrently in one JVM, which   *)
(* may crash.  All tables are MyISAM: every SQL statement is atomic and    *)
(* there is no transaction around two of them.                             *)
(***************************************************************************)
EXTENDS Integers, FiniteSets

CONSTANTS
    Drops,          \* status_id values of rows that may come to exist
    NoDrop,         \* no row at hand
    Mailings,       \* mailing_id values
    MailingOf,      \* the mailing a row belongs to
    KindOf,         \* status_field of a row: "W" world, "R" date based, "T" admin/test
    GenDay,         \* the day generation may start: three hours before the send date
    Requests,       \* threads that serve the web interface and the web service
    ServiceRequests,\* those of them that serve the web service
    SessionOf,      \* the HTTP session a request belongs to
    Ruler,          \* the thread of the one Ruler bean
    MaxBlocks,      \* bound: blocks per generation
    MaxDay,         \* bound: last calendar day
    MaxFailures     \* bound: failing operations and crashes of the JVM

Workers == Requests \cup {Ruler}
Days == 0 .. MaxDay

ASSUME DropAssumption ==
    /\ NoDrop \notin Drops
    /\ MailingOf \in [Drops -> Mailings]
    /\ KindOf \in [Drops -> {"W", "R", "T"}]
    /\ GenDay \in [Drops -> Days]

ASSUME WorkerAssumption ==
    /\ Ruler \notin Requests
    /\ ServiceRequests \subseteq Requests

ASSUME BoundAssumption ==
    /\ MaxBlocks \in Nat \ {0}
    /\ MaxDay \in Nat \ {0}
    /\ MaxFailures \in Nat

VARIABLES
    gen,      \* genstatus of each row, "none" before INSERT, "removed" after DELETE
    gendate,  \* gendate column
    deleted,  \* mailings with mailing_tbl.deleted = 1
    lastsent, \* rulebased_sent_tbl: the day a date based mailing was last kicked off
    now,      \* the calendar day
    meta,     \* files in the META directory
    pc,       \* control state of each worker
    job,      \* the row a worker is busy with
    blk,      \* blockCount of the worker's MailWriter
    todo,     \* rows the current kick off still has to look at
    mode,     \* which kick off holds the Ruler's monitor
    rdate,    \* local variable "now" of kickOff
    failures, \* failed operations and crashes so far
    claims,   \* history: claims of a row per day it was kicked off for
    lapsed,   \* history: days that began, or had a check fail, during a kick off
    loose,    \* history: rows saved on no check, or on one another session outdated
    orphans   \* history: rows saved after their mailing was deleted

dbVars == <<gen, gendate, deleted, lastsent>>
rulerVars == <<todo, mode, rdate>>
history == <<claims, lapsed, loose, orphans>>
vars == <<dbVars, now, meta, pc, job, blk, rulerVars, failures, history>>

----------------------------------------------------------------------------
(* Types *)

\* MaildropEntry.GEN_*; 4 is written by the backend for deleted mailings only.
GenStatus == {"none", "scheduled", "now", "working", "finished", "deleted", "removed"}

\* genstatus < 3
BelowFinished == {"scheduled", "now", "working"}

\* Control states inside Mailgun once the row is claimed.
Generating == {"init", "write", "open", "update"}
MailgunStates == {"read", "claim"} \cup Generating
RulerStates == {"idle", "next", "stamp", "release", "destroy"} \cup MailgunStates
RequestStates == {"idle", "save", "cancel"} \cup MailgunStates

\* Files of one generation: AgnMail...=<ts>=<company>=<mailing>=<nr>=liaMngA.<ext>
\* run stands for the <ts> of the generation: the kick off day of a date based
\* mailing, 0 for rows that are generated once.
File == [drop : Drops, run : Days, nr : 1 .. MaxBlocks, ext : {"xml", "stamp", "final"}]

TypeOK ==
    /\ gen \in [Drops -> GenStatus]
    /\ gendate \in [Drops -> Days]
    /\ deleted \subseteq Mailings
    /\ lastsent \in [Mailings -> Days]
    /\ now \in Days
    /\ meta \subseteq File
    /\ pc \in [Workers -> RulerStates \cup RequestStates]
    /\ pc[Ruler] \in RulerStates
    /\ \A r \in Requests : pc[r] \in RequestStates
    /\ job \in [Workers -> Drops \cup {NoDrop}]
    /\ blk \in [Workers -> 0 .. MaxBlocks]
    /\ todo \subseteq Drops
    /\ mode \in {"rule", "delayed"}
    /\ rdate \in Days
    /\ failures \in 0 .. MaxFailures
    /\ claims \in [Drops -> [Days -> Nat]]
    /\ lapsed \subseteq Days
    /\ loose \subseteq Drops
    /\ orphans \subseteq Drops

Init ==
    /\ gen = [d \in Drops |-> "none"]
    /\ gendate = [d \in Drops |-> 0]
    /\ deleted = {}
    /\ lastsent = [m \in Mailings |-> 0]
    /\ now = 1
    /\ meta = {}
    /\ pc = [w \in Workers |-> "idle"]
    /\ job = [w \in Workers |-> NoDrop]
    /\ blk = [w \in Workers |-> 0]
    /\ todo = {}
    /\ mode = "rule"
    /\ rdate = 0
    /\ failures = 0
    /\ claims = [d \in Drops |-> [t \in Days |-> 0]]
    /\ lapsed = {}
    /\ loose = {}
    /\ orphans = {}

----------------------------------------------------------------------------
(* Helpers *)

HasRow(d) == gen[d] \notin {"none", "removed"}
Deleted(d) == MailingOf[d] \in deleted

\* The run a generation belongs to.
Run(d) == IF KindOf[d] = "R" THEN lastsent[MailingOf[d]] ELSE 0

\* SerializeRequestFilter: the requests of one HTTP session exclude each other.
SessionFree(r) == \A q \in Requests : SessionOf[q] = SessionOf[r] => pc[q] = "idle"

\* A failing operation, or a crash.
Fails == failures < MaxFailures /\ failures' = failures + 1

\* A worker is done with its row: the Ruler goes on with its list.
Return(w) ==
    /\ pc' = [pc EXCEPT ![w] = IF w = Ruler THEN "next" ELSE "idle"]
    /\ job' = [job EXCEPT ![w] = NoDrop]
    /\ blk' = [blk EXCEPT ![w] = 0]

\* Mutant: a request destroys the files of the mailing as fire does.
MutAbort(w) == pc' = [pc EXCEPT ![w] = "destroy"] /\ UNCHANGED <<job, blk>>

\* An exception out of doPrepare or doExecute: fire destroys the mailing's
\* files, triggerMailing only reports.
Abort(w) ==
    IF w = Ruler
    THEN /\ pc' = [pc EXCEPT ![w] = "destroy"]
         /\ UNCHANGED <<job, blk>>
    ELSE Return(w)

\* The local variables of a kick off are gone when it is over.
NoKickOff == todo' = {} /\ mode' = "rule" /\ rdate' = 0

Go(w, state) == pc' = [pc EXCEPT ![w] = state]

SetGen(d, status) == gen' = [gen EXCEPT ![d] = status]

\* A file of the generation d is busy with.
FileOf(d, n, e) == [drop |-> d, run |-> Run(d), nr |-> n, ext |-> e]

\* Mailing.isWorldMailingSend: the mailing has a row of the kind asked for.
WorldMailingSend(d) ==
    \E e \in Drops : MailingOf[e] = MailingOf[d] /\ KindOf[e] = KindOf[d] /\ HasRow(e)

\* Row ids come from the database: nobody else is about to insert this one.
Fresh(d) == gen[d] = "none" /\ \A q \in Requests : pc[q] = "save" => job[q] # d

----------------------------------------------------------------------------
(* Requests: MailingSendAction and EmmWebservice                           *)

Begin(r, state, d) ==
    /\ pc[r] = "idle"
    /\ Go(r, state)
    /\ job' = [job EXCEPT ![r] = d]
    /\ UNCHANGED <<dbVars, now, meta, blk, rulerVars, failures, history>>

\* Mutant: the requests of a session are not serialized.
MutSendMailing(r, d) ==
    /\ r \notin ServiceRequests
    /\ Fresh(d)
    /\ ~Deleted(d)
    /\ KindOf[d] = "T" \/ ~WorldMailingSend(d)
    /\ Begin(r, "save", d)

\* sendMailing up to the check whether the mailing is already on its way.
SendMailing(r, d) ==
    /\ r \notin ServiceRequests
    /\ SessionFree(r)
    /\ Fresh(d)
    /\ ~Deleted(d)
    /\ KindOf[d] = "T" \/ ~WorldMailingSend(d)
    /\ Begin(r, "save", d)

\* The web service does not ask whether the mailing is already on its way.
ServiceSendMailing(r, d) ==
    /\ r \in ServiceRequests
    /\ Fresh(d)
    /\ ~Deleted(d)
    /\ Begin(r, "save", d)

\* Only a world mailing is sent from a page that asks for a day.
InFuture(r, d) == r \notin ServiceRequests /\ KindOf[d] = "W" /\ GenDay[d] > now

\* startGen: 0 for a generation date in the future.  The send date of a date
\* based mailing is today at the hour chosen on the page; the caller of the web
\* service may name any time.
StartGen(r, d) ==
    CASE r \in ServiceRequests \/ KindOf[d] = "R" -> {"now", "scheduled"}
      [] InFuture(r, d) -> {"scheduled"}
      [] OTHER -> {"now"}

\* Checked requests of other sessions that are still to save a row of d's
\* mailing: what they saw is outdated once d is there.
Outdated(r, d) ==
    {job[q] : q \in {u \in Requests : /\ pc[u] = "save" /\ SessionOf[u] # SessionOf[r]
                                       /\ MailingOf[job[u]] = MailingOf[d]}}

\* saveMailing, then triggerMailing for a row that is to be generated at once.
\* The row belongs to the loaded mailing already, and the query that looks for
\* the mailing flushes it to the table (FlushMode.ALWAYS) before it is known
\* that the mailing was deleted in between; then the save fails.
SaveDrop(r) ==
    LET d == job[r] IN
    /\ pc[r] = "save"
    /\ \E status \in StartGen(r, d) :
          /\ SetGen(d, status)
          /\ gendate' = [gendate EXCEPT ![d] = IF InFuture(r, d) THEN GenDay[d] ELSE now]
          /\ IF status = "now" /\ KindOf[d] # "R" /\ ~Deleted(d)
             THEN Go(r, "read") /\ UNCHANGED <<job, blk>>
             ELSE Return(r)
    /\ loose' = loose \cup Outdated(r, d) \cup (IF r \in ServiceRequests THEN {d} ELSE {})
    /\ orphans' = orphans \cup (IF Deleted(d) THEN {d} ELSE {})
    /\ UNCHANGED <<deleted, lastsent, now, meta, rulerVars, failures, claims, lapsed>>

\* cancelDelivery: the first world row found decides.
CancelCheck(r, d) ==
    /\ r \notin ServiceRequests
    /\ SessionFree(r)
    /\ KindOf[d] = "W"
    /\ gen[d] = "scheduled"
    /\ gendate[d] > now
    /\ Begin(r, "cancel", d)

\* DELETE ... WHERE mailing_id = ? AND status_field = 'W'
CancelDelete(r) ==
    /\ pc[r] = "cancel"
    /\ gen' = [d \in Drops |->
                 IF HasRow(d) /\ KindOf[d] = "W" /\ MailingOf[d] = MailingOf[job[r]]
                 THEN "removed" ELSE gen[d]]
    /\ Return(r)
    /\ UNCHANGED <<gendate, deleted, lastsent, now, meta, rulerVars, failures, history>>

\* deactivateMailing: cleanupMaildrop takes the date based rows away.
DeactivateMailing(r, m) ==
    /\ r \notin ServiceRequests
    /\ pc[r] = "idle"
    /\ SessionFree(r)
    /\ m \notin deleted
    /\ gen' = [d \in Drops |->
                 IF HasRow(d) /\ KindOf[d] = "R" /\ MailingOf[d] = m THEN "removed" ELSE gen[d]]
    /\ gen' # gen
    /\ UNCHANGED <<gendate, deleted, lastsent, now, meta, pc, job, blk, rulerVars, failures, history>>

\* MailingDao.deleteMailing only marks the mailing.
DeleteMailing(m) ==
    /\ m \notin deleted
    /\ deleted' = deleted \cup {m}
    /\ UNCHANGED <<gen, gendate, lastsent, now, meta, pc, job, blk, rulerVars, failures, history>>

----------------------------------------------------------------------------
(* The Ruler: its two jobs share one monitor                               *)

StartKickOff(kind, drops) ==
    /\ pc[Ruler] = "idle"
    /\ Go(Ruler, "next")
    /\ mode' = kind
    /\ todo' = drops
    /\ rdate' = now
    /\ UNCHANGED <<dbVars, now, meta, job, blk, failures, history>>

\* Date based rows of the current hour whose mailing was not sent today.
NotSentToday == {d \in Drops : KindOf[d] = "R" /\ gen[d] = "now" /\ lastsent[MailingOf[d]] # now}

KickOff == \E drops \in (SUBSET NotSentToday) \ {{}} : StartKickOff("rule", drops)

\* Mutant: a row is due on the day after its generation date.
MutDue == {d \in Drops : KindOf[d] = "W" /\ gen[d] = "scheduled" /\ gendate[d] < now}

Due == {d \in Drops : KindOf[d] = "W" /\ gen[d] = "scheduled" /\ gendate[d] <= now}

KickOffDelayed == Due # {} /\ StartKickOff("delayed", Due)

\* The loop takes row d; state is where it goes with it, "next" to skip it.
TakeNext(d, state) ==
    /\ d \in todo
    /\ todo' = todo \ {d}
    /\ Go(Ruler, state)
    /\ job' = [job EXCEPT ![Ruler] = IF state = "next" THEN NoDrop ELSE d]
    /\ UNCHANGED <<gendate, deleted, lastsent, now, meta, blk, mode, rdate, claims, loose, orphans>>

\* One round of kickOff up to the decision to send.  A query that fails after
\* the deleted flag was read leaves the row valid.
RuleCheck(d) ==
    /\ pc[Ruler] = "next"
    /\ mode = "rule"
    /\ \/ /\ TakeNext(d, IF Deleted(d) \/ lastsent[MailingOf[d]] = rdate THEN "next" ELSE "stamp")
          /\ UNCHANGED <<failures, lapsed>>
       \/ /\ Fails
          /\ ~Deleted(d)
          /\ TakeNext(d, "stamp")
          /\ lapsed' = lapsed \cup {now}
    /\ UNCHANGED gen

\* Mutant: the day of the kick off is not recorded.
MutRuleStamp ==
    /\ pc[Ruler] = "stamp"
    /\ Go(Ruler, "read")
    /\ UNCHANGED <<dbVars, now, meta, job, blk, rulerVars, failures, history>>

\* UPDATE rulebased_sent_tbl, or INSERT, with the database's date.
RuleStamp ==
    /\ pc[Ruler] = "stamp"
    /\ lastsent' = [lastsent EXCEPT ![MailingOf[job[Ruler]]] = now]
    /\ Go(Ruler, "read")
    /\ UNCHANGED <<gen, gendate, deleted, now, meta, job, blk, rulerVars, failures, history>>

\* One round of kickOffDelayed, oldest gendate first: a row of a deleted
\* mailing gets status 4.
DelayedCheck(d) ==
    /\ pc[Ruler] = "next"
    /\ mode = "delayed"
    /\ \A e \in todo : gendate[d] <= gendate[e]
    /\ TakeNext(d, IF Deleted(d) THEN "next" ELSE "release")
    /\ IF Deleted(d) /\ gen[d] \in BelowFinished THEN SetGen(d, "deleted") ELSE UNCHANGED gen
    /\ UNCHANGED <<failures, lapsed>>

\* UPDATE ... SET genstatus = 1 WHERE ... AND genstatus = 0
Release ==
    /\ pc[Ruler] = "release"
    /\ IF gen[job[Ruler]] = "scheduled" THEN SetGen(job[Ruler], "now") ELSE UNCHANGED gen
    /\ Go(Ruler, "read")
    /\ UNCHANGED <<gendate, deleted, lastsent, now, meta, job, blk, rulerVars, failures, history>>

RulerDone ==
    /\ pc[Ruler] = "next"
    /\ todo = {}
    /\ Go(Ruler, "idle")
    /\ NoKickOff
    /\ UNCHANGED <<dbVars, now, meta, job, blk, failures, history>>

----------------------------------------------------------------------------
(* Mailgun: initializeMailgun, doPrepare, doExecute                        *)

MailgunUnchanged ==
    UNCHANGED <<gendate, deleted, lastsent, now, rulerVars, failures, lapsed, loose, orphans>>

\* SELECT ... genstatus: anything but 1, or no row, is an exception.
ReadState(w) ==
    /\ pc[w] = "read"
    /\ IF gen[job[w]] = "now"
       THEN Go(w, "claim") /\ UNCHANGED <<job, blk>>
       ELSE Return(w)
    /\ MailgunUnchanged /\ UNCHANGED <<gen, meta, claims>>

\* UPDATE ... SET genstatus = 2 WHERE ... AND genstatus = 1 must hit one row.
Claim(w) ==
    /\ pc[w] = "claim"
    /\ IF gen[job[w]] = "now"
       THEN /\ SetGen(job[w], "working")
            /\ claims' = [claims EXCEPT ![job[w]][Run(job[w])] = @ + 1]
            /\ Go(w, "init")
            /\ UNCHANGED <<job, blk>>
       ELSE /\ Return(w)
            /\ UNCHANGED <<gen, claims>>
    /\ MailgunUnchanged /\ UNCHANGED meta

\* The rest of initializeMailgun and doPrepare only read.  Then sanityCheck:
\* status 4, whatever it was, and an exception for a deleted mailing.
SanityCheck(w) ==
    /\ pc[w] = "init"
    /\ IF Deleted(job[w])
       THEN /\ Abort(w)
            /\ IF HasRow(job[w]) THEN SetGen(job[w], "deleted") ELSE UNCHANGED gen
       ELSE /\ Go(w, "write")
            /\ UNCHANGED <<gen, job, blk>>
    /\ MailgunUnchanged /\ UNCHANGED <<meta, claims>>

\* Mutant: the stamp is there as soon as the block is opened.
MutStartBlock(w) ==
    /\ pc[w] = "write"
    /\ blk[w] < IF KindOf[job[w]] = "T" THEN 1 ELSE MaxBlocks
    /\ blk' = [blk EXCEPT ![w] = @ + 1]
    /\ meta' = meta \cup {FileOf(job[w], blk[w] + 1, e) : e \in {"xml", "stamp"}}
    /\ Go(w, "open")
    /\ MailgunUnchanged /\ UNCHANGED <<gen, job, claims>>

\* checkBlock and startBlock; an admin or test mailing has a single block.
StartBlock(w) ==
    /\ pc[w] = "write"
    /\ blk[w] < IF KindOf[job[w]] = "T" THEN 1 ELSE MaxBlocks
    /\ blk' = [blk EXCEPT ![w] = @ + 1]
    /\ meta' = meta \cup {FileOf(job[w], blk[w] + 1, "xml")}
    /\ Go(w, "open")
    /\ MailgunUnchanged /\ UNCHANGED <<gen, job, claims>>

\* endBlock: the stamp tells that the block is complete.
EndBlock(w) ==
    /\ pc[w] = "open"
    /\ meta' = IF KindOf[job[w]] = "T" THEN meta
               ELSE meta \cup {FileOf(job[w], blk[w], "stamp")}
    /\ Go(w, "write")
    /\ MailgunUnchanged /\ UNCHANGED <<gen, job, blk, claims>>

\* MailWriterMeta.done: the final file of a production mailing; the block of a
\* test mailing goes to xmlback directly and is removed.
Finish(w) ==
    LET d == job[w] IN
    /\ pc[w] = "write"
    /\ meta' = CASE KindOf[d] = "T" -> meta \ {FileOf(d, 1, "xml")}
                 [] KindOf[d] # "T" /\ blk[w] > 0 -> meta \cup {FileOf(d, blk[w], "final")}
                 [] OTHER -> meta
    /\ Go(w, "update")
    /\ MailgunUnchanged /\ UNCHANGED <<gen, job, blk, claims>>

\* Mutant: test mailings are not brought to an end.
MutUpdateState(w) ==
    LET d == job[w] IN
    /\ pc[w] = "update"
    /\ IF gen[d] = "working" /\ KindOf[d] # "T"
       THEN SetGen(d, IF KindOf[d] = "R" THEN "now" ELSE "finished")
       ELSE UNCHANGED gen
    /\ Return(w)
    /\ MailgunUnchanged /\ UNCHANGED <<meta, claims>>

\* updateGenerationState: WHERE ... AND genstatus = 2, the row count is only logged.
UpdateState(w) ==
    LET d == job[w] IN
    /\ pc[w] = "update"
    /\ IF gen[d] = "working"
       THEN SetGen(d, IF KindOf[d] = "R" THEN "now" ELSE "finished")
       ELSE UNCHANGED gen
    /\ Return(w)
    /\ MailgunUnchanged /\ UNCHANGED <<meta, claims>>

\* Mutant: the destroyer takes the blocks only.
MutDestroy ==
    /\ pc[Ruler] = "destroy"
    /\ meta' = {f \in meta : f.ext = "xml" => MailingOf[f.drop] # MailingOf[job[Ruler]]}
    /\ Return(Ruler)
    /\ MailgunUnchanged /\ UNCHANGED <<gen, claims>>

\* The Destroyer that fire runs on failure takes every file of the mailing.
Destroy ==
    /\ pc[Ruler] = "destroy"
    /\ meta' = {f \in meta : MailingOf[f.drop] # MailingOf[job[Ruler]]}
    /\ Return(Ruler)
    /\ MailgunUnchanged /\ UNCHANGED <<gen, claims>>

----------------------------------------------------------------------------
(* Failures and time                                                       *)

\* An exception: out of initializeMailgun it ends the attempt, later the work
\* done so far is destroyed; updateGenerationState only logs it.
Fault(w) ==
    /\ Fails
    /\ \/ /\ pc[w] \in {"stamp", "release", "read", "claim", "init", "update"}
          /\ Return(w)
          /\ UNCHANGED rulerVars
       \/ /\ pc[w] \in {"init", "write", "open"}
          /\ Abort(w)
          /\ UNCHANGED rulerVars
       \/ /\ w = Ruler /\ pc[w] = "next" /\ mode = "delayed"
          /\ Go(w, "idle")
          /\ NoKickOff
          /\ UNCHANGED <<job, blk>>
    /\ UNCHANGED <<dbVars, now, meta, history>>

\* The JVM dies: the tables and the spool directory stay.
Crash ==
    /\ Fails
    /\ \E w \in Workers : pc[w] # "idle"
    /\ pc' = [w \in Workers |-> "idle"]
    /\ job' = [w \in Workers |-> NoDrop]
    /\ blk' = [w \in Workers |-> 0]
    /\ NoKickOff
    /\ UNCHANGED <<dbVars, now, meta, history>>

Tick ==
    /\ now < MaxDay
    /\ now' = now + 1
    /\ lapsed' = lapsed \cup (IF pc[Ruler] = "idle" THEN {} ELSE {now + 1})
    /\ UNCHANGED <<dbVars, meta, pc, job, blk, rulerVars, failures, claims, loose, orphans>>

----------------------------------------------------------------------------
(* Specification                                                           *)

Mailgun(w) ==
    \/ ReadState(w)
    \/ Claim(w)
    \/ SanityCheck(w)
    \/ StartBlock(w)
    \/ EndBlock(w)
    \/ Finish(w)
    \/ UpdateState(w)

RequestStep(r) ==
    \/ SaveDrop(r)
    \/ CancelDelete(r)
    \/ Mailgun(r)

RulerStep ==
    \/ \E d \in Drops : RuleCheck(d) \/ DelayedCheck(d)
    \/ RuleStamp
    \/ Release
    \/ RulerDone
    \/ Destroy
    \/ Mailgun(Ruler)

UserStep ==
    \/ \E r \in Requests, d \in Drops :
          SendMailing(r, d) \/ ServiceSendMailing(r, d) \/ CancelCheck(r, d)
    \/ \E r \in Requests, m \in Mailings : DeactivateMailing(r, m)
    \/ \E m \in Mailings : DeleteMailing(m)

Next ==
    \/ UserStep
    \/ \E r \in Requests : RequestStep(r)
    \/ KickOff
    \/ KickOffDelayed
    \/ RulerStep
    \/ \E w \in Workers : Fault(w)
    \/ Crash
    \/ Tick

Spec == Init /\ [][Next]_vars

\* Threads run on, time passes, and Quartz starts both jobs again and again:
\* a job that is due finds the monitor free infinitely often and gets it.
FairSpec ==
    /\ Spec
    /\ \A r \in Requests : WF_vars(RequestStep(r))
    /\ WF_vars(RulerStep)
    /\ SF_vars(KickOffDelayed)
    /\ SF_vars(KickOff)
    /\ SF_vars(Tick)

----------------------------------------------------------------------------
(* Properties                                                              *)

OfKind(kind) == {d \in Drops : KindOf[d] = kind}

\* No row is generated twice for one day: neither the compare-and-set of
\* queryMailingInformations nor the lastsent table lets a second generation
\* start, whoever creates, releases or kicks off the row.
ClaimedOnce == \A d \in Drops, t \in Days : claims[d][t] <= 1

\* Another row of the mailing that goes to META was generated as well, and one of
\* the two may have come to a bad end: a failure, or a mailing that was deleted.
Shared(d) ==
    /\ failures > 0 \/ Deleted(d)
    /\ \E e \in Drops : /\ e # d /\ MailingOf[e] = MailingOf[d] /\ KindOf[e] # "T"
                        /\ \E t \in Days : claims[e][t] > 0

\* A final file in the spool directory vouches for every block up to its number:
\* what MailWriterMeta wrote before is there, with stamps, until the Destroyer
\* has taken all of it.  Only the clean up after another row of the mailing may
\* take blocks of a generation that still goes on.
FinalComplete ==
    \A f \in meta : f.ext = "final" /\ ~Shared(f.drop) =>
        \A n \in 1 .. f.nr, e \in {"xml", "stamp"} : [f EXCEPT !.nr = n, !.ext = e] \in meta

\* While nothing fails, a row somebody has begun to generate has somebody at
\* work on it: no early return of Ruler or Mailgun leaves genstatus at 1 or 2.
\* A row of a mailing that was deleted before saveMailing asked for it stays at 1
\* though: it is in the table before the save fails, and nobody is told its id.
NothingStuckWithoutFailure ==
    failures = 0 =>
        \A d \in Drops :
            gen[d] = "working" \/ (gen[d] = "now" /\ KindOf[d] # "R" /\ d \notin orphans) =>
                \E w \in Workers : job[w] = d /\ pc[w] \in MailgunStates

\* Two rows of a mailing that both ask for the whole list: one of them is the web
\* service's, which does not look for the other, or was saved by one session while
\* the request of another stood between its check and its save.  Within a session
\* SerializeRequestFilter keeps the two steps of sendMailing together.
OneWorldDrop ==
    \A d, e \in Drops \ OfKind("T") :
        /\ d # e /\ MailingOf[d] = MailingOf[e] /\ KindOf[d] = KindOf[e]
        /\ HasRow(d) /\ HasRow(e)
        => {d, e} \cap loose # {}

\* A date based mailing goes out at most once a day, however many rows activate
\* it: RulerImpl.kickOff looks at lastsent again before it fires.  Only on a day
\* that began during a kick off, which still compares with the day before, or on
\* which that look failed, may a second row pass.
MailingOncePerDay ==
    \A d, e \in OfKind("R"), t \in Days \ lapsed :
        d # e /\ MailingOf[d] = MailingOf[e] => claims[d][t] + claims[e][t] <= 1

\* A world mailing that waits for its date is generated, cancelled or found
\* deleted some day: the hand over from the request that stored it to the Ruler
\* loses no row.
ScheduledIsGenerated ==
    \A d \in OfKind("W") :
        gen[d] = "scheduled" ~> gen[d] \in {"finished", "deleted", "removed"}

\* DeliveryStatImpl: "cancel only mailings the generation has not yet begun".
CancelOnlyUnbegun ==
    [][\A d \in OfKind("W") :
          gen'[d] = "removed" /\ gen[d] # "removed" => gen[d] \in {"scheduled", "now"}]_vars

\* An activated date based mailing "will be send every day": a row that stays
\* is taken up by the Ruler at least once.
ActivatedIsSent ==
    \A d \in OfKind("R") :
        HasRow(d) ~> (claims[d] # [t \in Days |-> 0] \/ gen[d] = "removed" \/ Deleted(d))

============================================================================
