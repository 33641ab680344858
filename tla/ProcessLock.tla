---------------------------- MODULE ProcessLock ----------------------------
(***************************************************************************)
(* The lock that keeps a daemon of src/script/process from running twice   *)
(* (lock and unlock of lib/agn.py, the branch for Unix): a file created    *)
(* with O_EXCL that holds the process id of its owner.  A file whose owner *)
(* has died is removed by the next starter.  Every starter is a process of *)
(* its own and starts once; the processes of the system may die between    *)
(* any two steps, and the id of a dead one may come back to another        *)
(* program.                                                                *)
(***************************************************************************)
EXTENDS Naturals, FiniteSets

CONSTANTS
    MaxStarts, \* bound: processes that call agn.lock
    MaxDeaths  \* bound: processes that die without unlock

ASSUME LockAssumption == MaxStarts \in Nat /\ MaxDeaths \in Nat

\* A process is named by its place in the order in which they start.
Starters == 1 .. MaxStarts
NoFile == 0

VARIABLES
    lockFile, \* the owner of the lock file
    written,  \* owners that have written their process id into their file
    lpc,      \* per process: where it is
    tries,    \* per process: n
    seen,     \* per process: the process id it has read
    reused,   \* dead processes whose id another program has now
    alone,    \* history: processes that no other was alive beside
    together, \* history: two were in agn.lock at once
    robbed    \* history: holders whose file was removed by somebody else

lockHistoryVars == <<alone, together, robbed>>
lockVars == <<lockFile, written, lpc, tries, seen, reused, lockHistoryVars>>

----------------------------------------------------------------------------

Trying == {"create", "write", "read", "check", "unlink"}

LockTypeOK ==
    /\ lockFile \in Starters \cup {NoFile}
    /\ written \subseteq Starters
    /\ lpc \in [Starters -> Trying \cup {"off", "hold", "gaveUp", "released", "dead"}]
    /\ tries \in [Starters -> 0 .. 3]
    /\ seen \in [Starters -> Starters \cup {NoFile}]
    /\ reused \subseteq Starters
    /\ alone \subseteq Starters
    /\ together \in BOOLEAN
    /\ robbed \subseteq Starters

LockInit ==
    /\ lockFile = NoFile
    /\ written = {}
    /\ lpc = [p \in Starters |-> "off"]
    /\ tries = [p \in Starters |-> 0]
    /\ seen = [p \in Starters |-> NoFile]
    /\ reused = {}
    /\ alone = Starters
    /\ together = FALSE
    /\ robbed = {}

LockActive(p) == lpc[p] \in Trying \cup {"hold"}
Holders == {p \in Starters : lpc[p] = "hold"}

\* Mutant: the error of kill is taken for its success.
MutOwnerRuns(p) == ~LockActive(p)

\* kill (pid, 0) finds a process with this id.
OwnerRuns(p) == LockActive(p) \/ p \in reused

LockGoto(p, state) == lpc' = [lpc EXCEPT ![p] = state]

\* Mutant: no end to the tries.
MutTriesForEver(p, n) ==
    /\ tries' = [tries EXCEPT ![p] = n]
    /\ LockGoto(p, "create")

\* Mutant: one try only.
MutOneTry(p, n) ==
    /\ tries' = [tries EXCEPT ![p] = n]
    /\ LockGoto(p, IF n < 1 THEN "create" ELSE "gaveUp")

\* while n < 2, and the error raised behind it.
TryAgain(p, n) ==
    /\ tries' = [tries EXCEPT ![p] = n]
    /\ LockGoto(p, IF n < 2 THEN "create" ELSE "gaveUp")

----------------------------------------------------------------------------

StartProcess(p) ==
    /\ lpc[p] = "off"
    /\ \A q \in 1 .. p - 1 : lpc[q] # "off"
    /\ LockGoto(p, "create")
    /\ together' = (together \/ \E q \in Starters : lpc[q] \in Trying)
    /\ alone' = IF \E q \in Starters : LockActive(q)
                THEN alone \ ({p} \cup {q \in Starters : LockActive(q)})
                ELSE alone
    /\ UNCHANGED <<lockFile, written, tries, seen, reused, robbed>>

\* Mutant: the file is opened without O_EXCL.
MutMayCreate == TRUE

\* O_CREAT | O_EXCL
MayCreate == lockFile = NoFile

Create(p) ==
    /\ lpc[p] = "create"
    /\ IF MayCreate
       THEN /\ lockFile' = p
            /\ LockGoto(p, "write")
       ELSE /\ lockFile' = lockFile
            /\ LockGoto(p, "read")
    /\ tries' = [tries EXCEPT ![p] = @ + 1]
    /\ UNCHANGED <<written, seen, reused, lockHistoryVars>>

\* The process id goes into the file the process has open, wherever it is.
WritePid(p) ==
    /\ lpc[p] = "write"
    /\ written' = written \cup {p}
    /\ LockGoto(p, "hold")
    /\ UNCHANGED <<lockFile, tries, seen, reused, lockHistoryVars>>

\* A file that is gone by now is tried again.  A file whose owner has not yet
\* written is no number: int raises a ValueError nobody catches.
ReadPid(p) ==
    /\ lpc[p] = "read"
    /\ IF lockFile = NoFile
       THEN TryAgain(p, tries[p]) /\ seen' = seen
       ELSE /\ LockGoto(p, IF lockFile \in written THEN "check" ELSE "gaveUp")
            /\ seen' = [seen EXCEPT ![p] = lockFile]
            /\ tries' = tries
    /\ UNCHANGED <<lockFile, written, reused, lockHistoryVars>>

\* kill (pid, 0): a running owner counts as another try.
CheckOwner(p) ==
    /\ lpc[p] = "check"
    /\ IF OwnerRuns(seen[p])
       THEN TryAgain(p, tries[p] + 1)
       ELSE LockGoto(p, "unlink") /\ tries' = tries
    /\ UNCHANGED <<lockFile, written, seen, reused, lockHistoryVars>>

\* Whoever loses the file at the path while it is alive.
Rob(p) == robbed' = robbed \cup (IF lockFile # NoFile /\ lockFile # p /\ LockActive(lockFile)
                                 THEN {lockFile} ELSE {})

\* The stale file is removed by its name, whoever owns it by now.
RemoveStale(p) ==
    /\ lpc[p] = "unlink"
    /\ Rob(p)
    /\ lockFile' = NoFile
    /\ TryAgain(p, tries[p])
    /\ UNCHANGED <<written, seen, reused, alone, together>>

\* agn.unlock removes the file by its name as well.
Unlock(p) ==
    /\ lpc[p] = "hold"
    /\ Rob(p)
    /\ lockFile' = NoFile
    /\ LockGoto(p, "released")
    /\ UNCHANGED <<written, tries, seen, reused, alone, together>>

Die(p) ==
    /\ LockActive(p)
    /\ Cardinality({q \in Starters : lpc[q] = "dead"}) < MaxDeaths
    /\ LockGoto(p, "dead")
    /\ UNCHANGED <<lockFile, written, tries, seen, reused, lockHistoryVars>>

\* The system gives the id of a dead process to another program.
ReusePid(p) ==
    /\ lpc[p] = "dead"
    /\ p \notin reused
    /\ reused' = reused \cup {p}
    /\ UNCHANGED <<lockFile, written, lpc, tries, seen, lockHistoryVars>>

LockNext ==
    \E p \in Starters :
        \/ StartProcess(p) \/ Create(p) \/ WritePid(p) \/ ReadPid(p) \/ CheckOwner(p)
        \/ RemoveStale(p) \/ Unlock(p) \/ Die(p) \/ ReusePid(p)

LockSpec == LockInit /\ [][LockNext]_lockVars

----------------------------------------------------------------------------
(* Properties *)

\* Two daemons run at once only when one has had its lock file removed by
\* another: of those who have not, one runs at most (lock).
OneHolder == Cardinality(Holders \ robbed) <= 1

\* Nobody is robbed as long as starters come one at a time, however many of
\* their predecessors died or end meanwhile: it takes two at once for the one
\* to remove, as stale, the file the other has just created.
RobbedInRaceOnly == robbed # {} => together

\* A starter that is alone gives up only over the file of a process that died
\* before its id was in it, or over a dead owner's id that is in use again.
AloneGetsTheLock ==
    \A p \in alone : lpc[p] = "gaveUp" => seen[p] \notin written \/ seen[p] \in reused
============================================================================
