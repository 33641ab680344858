----------------------------- MODULE MailQueue -----------------------------
(***************************************************************************)
(* semu.py: the mail queue for systems without sendmail.  A message is a   *)
(* control file qf and a data file df in the spool directory.  Once in an  *)
(* interval a scan lists the directory, reads each control file, and       *)
(* starts a thread for each message that is due; the thread tries one      *)
(* relay after the other and then removes the files or rewrites qf.  When  *)
(* a message is due is left open: it depends on the clock only.            *)
(***************************************************************************)
EXTENDS Naturals, FiniteSets

CONSTANTS
    Messages,
    MaxThreads, \* threads of the pool
    Relays,     \* relays tried for a message
    NoThread,
    MaxTrouble  \* bound: kills, and connections that break after the message

Slots == 1 .. MaxThreads
ThreadStep == {"send", "quit", "rewrite", "sent", "bounced", "deferred"}
QueueThread == [msg : Messages, relay : 1 .. Relays, step : ThreadStep]

ASSUME QueueAssumption ==
    /\ Messages # {}
    /\ MaxThreads \in Nat \ {0}
    /\ Relays \in Nat \ {0}
    /\ NoThread \notin QueueThread
    /\ MaxTrouble \in Nat

VARIABLES
    qf,         \* per message: its control file
    df,         \* messages whose data file is there
    expired,    \* messages whose time to live (K) is over
    scan,       \* control state of Spool.execute
    flist,      \* messages of the listing that are still to come
    entry,      \* message at hand
    copy,       \* what was read of its control file
    threads,    \* per slot: the thread that delivers a message
    trouble,    \* kills and broken connections so far
    accepted,   \* history: per message, how often a relay took it (two: more than once)
    refused,    \* history: messages a hard bounce was written for
    overtaken,  \* history: messages whose control file was read or sent beside a thread
    troubled    \* history: messages met by a kill or a broken connection

queueVars == <<qf, df, expired, scan, flist, entry, copy, threads, trouble,
               accepted, refused, overtaken, troubled>>

----------------------------------------------------------------------------

QueueTypeOK ==
    /\ qf \in [Messages -> {"none", "whole", "empty"}]
    /\ df \subseteq Messages
    /\ expired \subseteq Messages
    /\ scan \in {"down", "rest", "next", "read", "slot"}
    /\ flist \subseteq Messages
    /\ entry \in Messages
    /\ copy \in {"whole", "empty"}
    /\ threads \in [Slots -> QueueThread \cup {NoThread}]
    /\ trouble \in 0 .. MaxTrouble
    /\ accepted \in [Messages -> 0 .. 2]
    /\ refused \subseteq Messages
    /\ overtaken \subseteq Messages
    /\ troubled \subseteq Messages

\* Every message is written by createMail, which renames the control file into
\* place when the data file is complete.
QueueInit ==
    /\ qf = [m \in Messages |-> "whole"]
    /\ df = Messages
    /\ expired = {}
    /\ scan = "down"
    /\ flist = {}
    /\ entry = CHOOSE m \in Messages : TRUE
    /\ copy = "empty"
    /\ threads = [s \in Slots |-> NoThread]
    /\ trouble = 0
    /\ accepted = [m \in Messages |-> 0]
    /\ refused = {}
    /\ overtaken = {}
    /\ troubled = {}

Busy(m) == \E s \in Slots : threads[s] # NoThread /\ threads[s].msg = m

\* removeSpoolfiles
Removed(m) ==
    /\ qf' = [qf EXCEPT ![m] = "none"]
    /\ df' = df \ {m}

QueueFilesUnchanged == UNCHANGED <<qf, df, expired>>
ScanUnchanged == UNCHANGED <<scan, flist, entry, copy>>
QueueHistoryUnchanged == UNCHANGED <<trouble, accepted, refused, overtaken, troubled>>

Trouble(m) ==
    /\ trouble < MaxTrouble
    /\ trouble' = trouble + 1
    /\ troubled' = troubled \cup m

----------------------------------------------------------------------------
(* Sender.run and Spool.execute *)

Expire(m) ==
    /\ m \notin expired
    /\ expired' = expired \cup {m}
    /\ UNCHANGED <<qf, df, threads>>
    /\ ScanUnchanged
    /\ QueueHistoryUnchanged

QueueStart ==
    /\ scan = "down"
    /\ scan' = "rest"
    /\ UNCHANGED <<flist, entry, copy, threads>>
    /\ QueueFilesUnchanged
    /\ QueueHistoryUnchanged

\* A control file without its data file is stale and left alone.
ListSpool ==
    /\ scan = "rest"
    /\ flist' = {m \in df : qf[m] # "none"}
    /\ scan' = "next"
    /\ UNCHANGED <<entry, copy, threads>>
    /\ QueueFilesUnchanged
    /\ QueueHistoryUnchanged

\* Entry.setup: a file that cannot be read, or is empty while a thread rewrites
\* it, leaves an entry without a line.
Setup(m) ==
    /\ scan = "next"
    /\ m \in flist
    /\ flist' = flist \ {m}
    /\ entry' = m
    /\ copy' = IF qf[m] = "whole" THEN "whole" ELSE "empty"
    /\ overtaken' = IF Busy(m) THEN overtaken \cup {m} ELSE overtaken
    /\ scan' = "read"
    /\ UNCHANGED <<threads, trouble, accepted, refused, troubled>>
    /\ QueueFilesUnchanged

EndScan ==
    /\ scan = "next"
    /\ flist = {}
    /\ scan' = "rest"
    /\ UNCHANGED <<flist, entry, copy, threads>>
    /\ QueueFilesUnchanged
    /\ QueueHistoryUnchanged

\* validate: an entry whose time is over, and one without sender and receiver,
\* is removed from the spool.
Discard ==
    /\ scan = "read"
    /\ copy = "empty" \/ entry \in expired
    /\ Removed(entry)
    /\ scan' = "next"
    /\ UNCHANGED <<expired, flist, entry, copy, threads>>
    /\ QueueHistoryUnchanged

\* validate: not due yet, or its data file is gone.
SkipEntry ==
    /\ scan = "read"
    /\ copy = "whole"
    /\ entry \notin expired
    /\ scan' = "next"
    /\ UNCHANGED <<flist, entry, copy, threads>>
    /\ QueueFilesUnchanged
    /\ QueueHistoryUnchanged

DueNow ==
    /\ scan = "read"
    /\ copy = "whole"
    /\ entry \notin expired
    /\ entry \in df
    /\ scan' = "slot"
    /\ UNCHANGED <<flist, entry, copy, threads>>
    /\ QueueFilesUnchanged
    /\ QueueHistoryUnchanged

\* findFreeSlot waits for a slot whose thread has ended, and takes the first.
\* Nobody looks whether another thread has this message.
FreeSlot(s) ==
    /\ threads[s] = NoThread
    /\ \A other \in 1 .. s - 1 : threads[other] # NoThread

StartThread(s) ==
    /\ scan = "slot"
    /\ FreeSlot(s)
    /\ threads' = [threads EXCEPT ![s] = [msg |-> entry, relay |-> 1, step |-> "send"]]
    /\ overtaken' = IF Busy(entry) THEN overtaken \cup {entry} ELSE overtaken
    /\ scan' = "next"
    /\ UNCHANGED <<flist, entry, copy, trouble, accepted, refused, troubled>>
    /\ QueueFilesUnchanged

----------------------------------------------------------------------------
(* Entry.run *)

InThread(s, step) == threads[s] # NoThread /\ threads[s].step = step
ThreadGoto(s, step) == threads' = [threads EXCEPT ![s].step = step]

\* The next relay, or the report of a soft bounce when there is none.
NextRelay(s) ==
    LET t == threads[s] IN
    threads' = [threads EXCEPT ![s] =
        IF t.relay < Relays THEN [msg |-> t.msg, relay |-> t.relay + 1, step |-> "send"]
        ELSE [t EXCEPT !.step = "deferred"]]

\* A relay takes the message.
SmtpAccepted(s) ==
    LET m == threads[s].msg IN
    /\ InThread(s, "send")
    /\ accepted' = [accepted EXCEPT ![m] = IF @ < 2 THEN @ + 1 ELSE @]
    /\ ThreadGoto(s, "quit")
    /\ UNCHANGED <<trouble, refused, overtaken, troubled>>
    /\ QueueFilesUnchanged
    /\ ScanUnchanged

SmtpQuit(s) ==
    /\ InThread(s, "quit")
    /\ ThreadGoto(s, "sent")
    /\ QueueFilesUnchanged
    /\ ScanUnchanged
    /\ QueueHistoryUnchanged

\* smtp.quit raises: the message counts as not sent, and the next relay gets it.
QuitFails(s) ==
    /\ InThread(s, "quit")
    /\ Trouble({threads[s].msg})
    /\ NextRelay(s)
    /\ UNCHANGED <<accepted, refused, overtaken>>
    /\ QueueFilesUnchanged
    /\ ScanUnchanged

\* The relay refuses the message for good.
SmtpRefused(s) ==
    /\ InThread(s, "send")
    /\ ThreadGoto(s, "bounced")
    /\ QueueFilesUnchanged
    /\ ScanUnchanged
    /\ QueueHistoryUnchanged

\* It cannot be reached, or refuses the message for now.
SmtpUnreachable(s) ==
    /\ InThread(s, "send")
    /\ NextRelay(s)
    /\ QueueFilesUnchanged
    /\ ScanUnchanged
    /\ QueueHistoryUnchanged

\* The receiver is refused for now: no other relay is asked.
SmtpDeferred(s) ==
    /\ InThread(s, "send")
    /\ ThreadGoto(s, "deferred")
    /\ QueueFilesUnchanged
    /\ ScanUnchanged
    /\ QueueHistoryUnchanged

ThreadEnds(s) == threads' = [threads EXCEPT ![s] = NoThread]

\* Mutant: the files of a message that was sent stay in the spool.
MutReportFinal(s) ==
    /\ InThread(s, "sent") \/ InThread(s, "bounced")
    /\ refused' = IF InThread(s, "bounced") THEN refused \cup {threads[s].msg} ELSE refused
    /\ ThreadEnds(s)
    /\ UNCHANGED <<trouble, accepted, overtaken, troubled>>
    /\ QueueFilesUnchanged
    /\ ScanUnchanged

\* report of a 2xx or a 5xx, the latter with a line in extbounce.log.
ReportFinal(s) ==
    LET m == threads[s].msg IN
    /\ InThread(s, "sent") \/ InThread(s, "bounced")
    /\ refused' = IF InThread(s, "bounced") THEN refused \cup {m} ELSE refused
    /\ Removed(m)
    /\ ThreadEnds(s)
    /\ UNCHANGED <<expired, trouble, accepted, overtaken, troubled>>
    /\ ScanUnchanged

\* Mutant: the files of a message that was deferred are removed.
MutReportDeferred(s) ==
    /\ InThread(s, "deferred")
    /\ Removed(threads[s].msg)
    /\ ThreadEnds(s)
    /\ UNCHANGED expired
    /\ ScanUnchanged
    /\ QueueHistoryUnchanged

\* report of a 4xx: updateQF opens the control file, which empties or creates it ...
ReportDeferred(s) ==
    /\ InThread(s, "deferred")
    /\ qf' = [qf EXCEPT ![threads[s].msg] = "empty"]
    /\ ThreadGoto(s, "rewrite")
    /\ UNCHANGED <<df, expired>>
    /\ ScanUnchanged
    /\ QueueHistoryUnchanged

\* ... and writes its lines; a file that was removed meanwhile stays removed.
UpdateQF(s) ==
    LET m == threads[s].msg IN
    /\ InThread(s, "rewrite")
    /\ qf' = [qf EXCEPT ![m] = IF @ = "empty" THEN "whole" ELSE @]
    /\ ThreadEnds(s)
    /\ UNCHANGED <<df, expired>>
    /\ ScanUnchanged
    /\ QueueHistoryUnchanged

\* The process is killed; the threads go with it.
QueueKill ==
    /\ scan # "down"
    /\ Trouble({m \in Messages : Busy(m)})
    /\ scan' = "down"
    /\ flist' = {}
    /\ copy' = "empty"
    /\ threads' = [s \in Slots |-> NoThread]
    /\ UNCHANGED <<entry, accepted, refused, overtaken>>
    /\ QueueFilesUnchanged

QueueNext ==
    \/ QueueStart \/ ListSpool \/ EndScan \/ Discard \/ SkipEntry \/ DueNow \/ QueueKill
    \/ \E m \in Messages : Expire(m) \/ Setup(m)
    \/ \E s \in Slots :
        \/ StartThread(s) \/ SmtpAccepted(s) \/ SmtpQuit(s) \/ QuitFails(s) \/ SmtpRefused(s)
        \/ SmtpUnreachable(s) \/ SmtpDeferred(s) \/ ReportFinal(s) \/ ReportDeferred(s) \/ UpdateQF(s)

QueueSpec == QueueInit /\ [][QueueNext]_queueVars

----------------------------------------------------------------------------
(* Properties *)

Outcomes(m) == accepted[m] + (IF m \in refused THEN 1 ELSE 0)

\* A message is delivered once or bounces once, never both (Spool.execute, run):
\* unless a scan took it up while a thread still had it, the connection broke
\* behind the message, or the process was killed with it in its hands.
OneOutcome == \A m \in Messages : Outcomes(m) > 1 => m \in overtaken \cup troubled

\* A message leaves the spool when it was delivered, has bounced or has
\* expired, and for no other reason but those of OneOutcome: a control file
\* that is being rewritten looks incomplete to a scan, and is removed.  And both
\* its files go, or nobody would ever touch the control file again.
GoneForAReason ==
    \A m \in Messages \ overtaken :
        /\ qf[m] # "none" => m \in df
        /\ m \notin df => Outcomes(m) = 1 \/ m \in troubled \cup expired
============================================================================
