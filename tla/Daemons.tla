------------------------------ MODULE Daemons -------------------------------
(***************************************************************************)
(* Daemons of src/script/process that share nothing with each other: the   *)
(* way of the delivery reports, the process lock, and the mail queue.      *)
(* They are checked together, one of them in each behaviour.               *)
(***************************************************************************)
EXTENDS LogPipeline, ProcessLock, MailQueue

VARIABLE daemon \* the part that runs

daemonVars == <<daemon, logVars, lockVars, queueVars>>

DaemonsTypeOK ==
    /\ daemon \in {"reports", "lock", "queue"}
    /\ LogTypeOK
    /\ LockTypeOK
    /\ QueueTypeOK

DaemonsInit ==
    /\ daemon \in {"reports", "lock", "queue"}
    /\ LogInit
    /\ LockInit
    /\ QueueInit

DaemonsNext ==
    /\ UNCHANGED daemon
    /\ \/ daemon = "reports" /\ LogNext /\ UNCHANGED <<lockVars, queueVars>>
       \/ daemon = "lock" /\ LockNext /\ UNCHANGED <<logVars, queueVars>>
       \/ daemon = "queue" /\ QueueNext /\ UNCHANGED <<logVars, lockVars>>

\* The fairness of LogSpec.
DaemonsSpec ==
    /\ DaemonsInit /\ [][DaemonsNext]_daemonVars
    /\ WF_logVars(daemon = "reports" /\ ScannerStep)
    /\ WF_logVars(daemon = "reports" /\ UpdateStep)
=============================================================================
