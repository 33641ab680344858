----------------------------- MODULE Pickdist ------------------------------
(***************************************************************************)
(* pickdist.py: the daemon that takes the finished blocks of a mailing out *)
(* of META and has xmlback turn each into messages of the mail queue.  It  *)
(* lists the directory, sorts out what is deleted, what is due and what is *)
(* finished, and then hands over the blocks of this list one by one, while *)
(* the writers of Spool go on, and while it may be killed at any point.    *)
(***************************************************************************)
EXTENDS Spool, FiniteSets

CONSTANTS
    IdOf,       \* the numerical mailing_id
    QueueLimit, \* messages in QUEUE that stop the hand over (5000 in the code)
    MaxFailures,\* bound: signals, kills and failing calls
    NoBlock     \* no block at hand

ASSUME PickdistAssumption ==
    /\ IdOf \in [Mailings -> Nat]
    /\ QueueLimit \in Nat \ {0}
    /\ MaxFailures \in Nat
    /\ NoBlock \notin File

VARIABLES
    due,      \* per generation: blocks whose time stamp lies in the past
    ppc,      \* control state of the daemon
    listing,  \* files of the current scan
    data,     \* self.data, the blocks that wait for their turn
    cur,      \* blk
    queue,    \* blocks whose messages wait in QUEUE
    filed,    \* files in the directories ARCHIVE, RECOVER and DELETED
    failures, \* failures so far
    handed,   \* history: how often a block was given to xmlback
    finished  \* history: generations whose final file was written

daemonVars == <<ppc, listing, data, cur>>
vars == <<spoolVars, due, daemonVars, queue, filed, failures, handed, finished>>

----------------------------------------------------------------------------

Block == {f \in File : f.ext = "xml"}
Shelves == {"ARCHIVE", "RECOVER", "DELETED"}

TypeOK ==
    /\ SpoolTypeOK
    /\ due \in [Drops -> [Runs -> 0 .. MaxBlocks]]
    /\ ppc \in {"down", "sleep", "clean", "select", "work", "mail", "ARCHIVE", "RECOVER"}
    /\ listing \subseteq File
    /\ data \subseteq Block
    /\ cur \in Block \cup {NoBlock}
    /\ cur # NoBlock <=> ppc \in {"mail", "ARCHIVE", "RECOVER"}
    /\ queue \in 0 .. QueueLimit
    /\ filed \in [Shelves -> SUBSET File]
    /\ failures \in 0 .. MaxFailures
    /\ handed \in [Block -> Nat]
    /\ finished \subseteq Drops \X Runs

Init ==
    /\ SpoolInit
    /\ due = [d \in Drops |-> [t \in Runs |-> 0]]
    /\ ppc = "down"
    /\ listing = {}
    /\ data = {}
    /\ cur = NoBlock
    /\ queue = 0
    /\ filed = [s \in Shelves |-> {}]
    /\ failures = 0
    /\ handed = [b \in Block |-> 0]
    /\ finished = {}

----------------------------------------------------------------------------
(* Helpers *)

With(f, e) == [f EXCEPT !.ext = e]

\* Mutant: a block is due a second later than the code's strict comparison says.
MutReadyToSend(f) == f.nr < due[f.drop][f.run]

\* readyToSend: the <ts> in the file's name is in the past.  It never decreases
\* from block to block, and the final file has the <ts> of the last block.
ReadyToSend(f) == f.nr <= due[f.drop][f.run]

MailingsOf(files) == {MailingOf[f.drop] : f \in files}

\* isFinalFor: company and mailing are the same, whatever the <ts>.
IsFinalFor(final, b) == final.ext = "final" /\ MailingOf[final.drop] = MailingOf[b.drop]

\* Mutant: blocks are sorted by mailing only.
MutBefore(a, b) == IdOf[MailingOf[a.drop]] < IdOf[MailingOf[b.drop]]

\* __cmp__, which self.data.sort uses.
Before(a, b) ==
    \/ a.nr < b.nr
    \/ a.nr = b.nr /\ IdOf[MailingOf[a.drop]] < IdOf[MailingOf[b.drop]]

\* Signals, kills and failing calls are bounded.
Fails == failures < MaxFailures /\ failures' = failures + 1

\* The process is gone, and with it what it had in memory.
Die == ppc' = "down" /\ listing' = {} /\ data' = {} /\ cur' = NoBlock

Sleep == ppc' = "sleep" /\ listing' = {} /\ data' = {} /\ cur' = NoBlock

\* moveTo for a set of files.  A file that has vanished is an exception nobody
\* catches: shutil.move raises IOError, moveTo expects OSError.
MoveAll(files, shelf, Continue) ==
    \E moved \in IF files \subseteq meta THEN {files} ELSE SUBSET (files \cap meta) :
        /\ meta' = meta \ moved
        /\ filed' = [filed EXCEPT ![shelf] = @ \cup moved]
        /\ IF files \subseteq meta THEN Continue ELSE Die

----------------------------------------------------------------------------
(* The daemon *)

Start ==
    /\ ppc = "down"
    /\ Sleep
    /\ UNCHANGED <<spoolVars, due, queue, filed, failures, handed, finished>>

\* scanForData: one listing serves the whole scan.
List ==
    /\ ppc = "sleep"
    /\ meta # {}
    /\ ppc' = "clean"
    /\ listing' = meta
    /\ UNCHANGED <<spoolVars, due, data, cur, queue, filed, failures, handed, finished>>

\* Mutant: a block's deleted flag is looked at after its extension.
MutGone == {f \in listing : MailingOf[f.drop] \in deleted /\ f.ext = "xml"}

Gone == {f \in listing : MailingOf[f.drop] \in deleted}

\* The files of deleted mailings are moved away; without database no data.
Clean ==
    /\ ppc = "clean"
    /\ \/ /\ MoveAll(Gone, "DELETED",
                    ppc' = "select" /\ listing' = listing \ Gone /\ UNCHANGED <<data, cur>>)
          /\ UNCHANGED failures
       \/ Fails /\ Sleep /\ UNCHANGED <<meta, filed>>
    /\ UNCHANGED <<deleted, work, due, queue, handed, finished>>

Ready == {f \in listing : ReadyToSend(f)}
Finals == {f \in Ready : f.ext = "final"}

\* Mutant: a block is used as soon as its stamp is there.
MutUsable == {b \in Ready \cap Block : With(b, "stamp") \in listing}

\* Complete blocks some final file vouches for.
Usable ==
    {b \in Ready \cap Block :
        /\ With(b, "stamp") \in listing
        /\ \E final \in Finals : IsFinalFor(final, b)}

\* finalcount: all blocks of a mailing count for the first final file found.
Counted(finals) ==
    /\ \A f, g \in finals : MailingOf[f.drop] = MailingOf[g.drop] => f = g
    /\ MailingsOf(finals) = MailingsOf(Usable) \cap MailingsOf(Finals)

\* Mutant: the final files are collected whether or not they are due.
MutSelect ==
    LET late == {f \in listing : f.ext = "final"} IN
    /\ ppc = "select"
    /\ \E finals \in SUBSET Finals :
          /\ Counted(finals)
          /\ MoveAll(late \ finals, "ARCHIVE",
                     IF Usable = {} THEN Sleep
                     ELSE ppc' = "work" /\ data' = Usable /\ listing' = {} /\ UNCHANGED cur)
    /\ UNCHANGED <<deleted, work, due, queue, failures, handed, finished>>

\* The rest of scanForData: final files without data have served their purpose.
Select ==
    /\ ppc = "select"
    /\ \E finals \in SUBSET Finals :
          /\ Counted(finals)
          /\ MoveAll(Finals \ finals, "ARCHIVE",
                     IF Usable = {} THEN Sleep
                     ELSE ppc' = "work" /\ data' = Usable /\ listing' = {} /\ UNCHANGED cur)
    /\ UNCHANGED <<deleted, work, due, queue, failures, handed, finished>>

\* Mutant: the stamp is left to the end of the work on the block.
MutTakeBlock(b) ==
    /\ ppc = "work"
    /\ queue < QueueLimit
    /\ b \in data
    /\ \A other \in data : ~Before(other, b)
    /\ ppc' = "mail"
    /\ cur' = b
    /\ data' = data \ {b}
    /\ UNCHANGED <<spoolVars, listing, due, queue, filed, failures, handed, finished>>

\* Mutant: the queue is looked at once per scan, not before every block.
MutTakeAll(b) ==
    /\ ppc = "work"
    /\ b \in data
    /\ \A other \in data : ~Before(other, b)
    /\ IF With(b, "stamp") \in meta
       THEN /\ ppc' = "mail"
            /\ cur' = b
            /\ data' = data \ {b}
            /\ UNCHANGED listing
       ELSE Die
    /\ meta' = meta \ {With(b, "stamp")}
    /\ UNCHANGED <<deleted, work, due, queue, filed, failures, handed, finished>>

\* queueIsFree, getNextBlock, and the stamp is removed first of all.  If it has
\* vanished, unlink raises OSError where unpack expects IOError.
TakeBlock(b) ==
    /\ ppc = "work"
    /\ queue < QueueLimit
    /\ b \in data
    /\ \A other \in data : ~Before(other, b)
    /\ IF With(b, "stamp") \in meta
       THEN /\ ppc' = "mail"
            /\ cur' = b
            /\ data' = data \ {b}
            /\ UNCHANGED listing
       ELSE Die
    /\ meta' = meta \ {With(b, "stamp")}
    /\ UNCHANGED <<deleted, work, due, queue, filed, failures, handed, finished>>

QueueFull ==
    /\ ppc = "work"
    /\ queue >= QueueLimit
    /\ Sleep
    /\ UNCHANGED <<spoolVars, due, queue, filed, failures, handed, finished>>

\* xmlback writes the messages of the block; a failing one may have written some.
Mail ==
    /\ ppc = "mail"
    /\ IF cur \in meta
       THEN /\ handed' = [handed EXCEPT ![cur] = @ + 1]
            /\ queue' = queue + 1
            /\ \/ ppc' = "ARCHIVE" /\ UNCHANGED failures
               \/ ppc' = "RECOVER" /\ Fails
       ELSE /\ ppc' = "RECOVER"
            /\ UNCHANGED <<handed, queue, failures>>
    /\ UNCHANGED <<spoolVars, due, listing, data, cur, filed, finished>>

\* The block goes to ARCHIVE or RECOVER, and the loop to its next one.
FileAway ==
    /\ ppc \in {"ARCHIVE", "RECOVER"}
    /\ MoveAll({cur}, ppc,
               IF data = {} THEN Sleep ELSE ppc' = "work" /\ cur' = NoBlock /\ UNCHANGED <<listing, data>>)
    /\ UNCHANGED <<deleted, work, due, queue, failures, handed, finished>>

\* SIGTERM between two blocks, or the end of the process anywhere else.
Kill ==
    /\ ppc # "down"
    /\ Fails
    /\ Die
    /\ UNCHANGED <<spoolVars, due, queue, filed, handed, finished>>

----------------------------------------------------------------------------
(* Its environment *)

\* The writers of the directory.
Writer ==
    /\ SpoolNext
    /\ finished' = finished \cup {<<f.drop, f.run>> : f \in {g \in meta' : g.ext = "final"}}
    /\ UNCHANGED <<due, daemonVars, queue, filed, failures, handed>>

\* The time stamp of a generation's next block passes.
Pass(d, t) ==
    /\ \E f \in meta : f.drop = d /\ f.run = t /\ f.nr > due[d][t]
    /\ due' = [due EXCEPT ![d][t] = @ + 1]
    /\ UNCHANGED <<spoolVars, daemonVars, queue, filed, failures, handed, finished>>

\* sendmail delivers a block's messages.
Drain ==
    /\ queue > 0
    /\ queue' = queue - 1
    /\ UNCHANGED <<spoolVars, due, daemonVars, filed, failures, handed, finished>>

DaemonStep ==
    \/ Start
    \/ List
    \/ Clean
    \/ Select
    \/ \E b \in data : TakeBlock(b)
    \/ QueueFull
    \/ Mail
    \/ FileAway

Next ==
    \/ DaemonStep
    \/ Kill
    \/ Writer
    \/ \E d \in Drops, t \in Runs : Pass(d, t)
    \/ Drain

Spec == Init /\ [][Next]_vars

\* The daemon runs on and is started again, time passes, and sendmail works.
FairSpec ==
    /\ Spec
    /\ WF_vars(DaemonStep)
    /\ WF_vars(Drain)
    /\ \A d \in Drops, t \in Runs : WF_vars(Pass(d, t))

----------------------------------------------------------------------------
(* Properties *)

\* No block is turned into messages twice, whenever the daemon is killed and
\* started again: the stamp goes before xmlback is called.
HandedOnce == \A b \in Block : handed[b] <= 1

\* Only blocks of mailings for which some final file was written are used.
OnlyFinalised ==
    \A b \in Block : handed[b] > 0 =>
        \E g \in finished : MailingOf[g[1]] = MailingOf[b.drop]

\* Blocks of finished generations nobody will ever look at again: the stamp is
\* gone and the block is not at hand, or no final file vouches for it.
Stranded ==
    {b \in meta \cap Block :
        /\ <<b.drop, b.run>> \in finished
        /\ MailingOf[b.drop] \notin deleted
        /\ b # cur
        /\ ~ (With(b, "stamp") \in meta /\ \E f \in meta : IsFinalFor(f, b))}

\* Archiving the final files without data strands no block, the order in which
\* files disappear strands none, and a kill costs the one block at hand.
BoundedLoss == Cardinality(Stranded) <= failures

\* The blocks of a generation are handed over in order: no block goes while a
\* complete one with a lower number waits in the directory.
InOrder ==
    [][\A b \in Block : handed'[b] # handed[b] =>
          ~ \E a \in meta : /\ a.drop = b.drop /\ a.run = b.run /\ a.nr < b.nr
                            /\ a.ext = "stamp" /\ With(a, "xml") \in meta]_vars

\* What is left of a deleted mailing leaves the directory, also what a writer
\* that does not know yet puts there later.
DeletedLeaves ==
    \A m \in Mailings : m \in deleted ~> \A f \in meta : MailingOf[f.drop] # m

\* All blocks of a finished generation leave the directory, unless something fails.
FinishedLeaves ==
    \A d \in Drops, t \in Runs :
        <<d, t>> \in finished ~>
            failures > 0 \/ \A b \in meta \cap Block : b.drop = d => b.run # t

\* EmmWebservice: stepping slows the sending down, "seconds between deliviery of
\* to mailing-blocks": a scan takes up every block of a finished generation
\* whose time has come.
SteppedDelivery ==
    [][ppc = "select" /\ ppc' \in {"work", "sleep"} =>
          \A b \in listing \cap Block :
              /\ ReadyToSend(b)
              /\ With(b, "stamp") \in listing
              /\ \E f \in listing : IsFinalFor(f, b)
              => b \in data']_vars

============================================================================
