---------------------------- MODULE Softbounce -----------------------------
(***************************************************************************)
(* softbounce.py: a job that is started now and then, collects the bounces *)
(* that arrived since the last time, adds them to the score of their       *)
(* address, and gives up an address with a high score that shows no sign   *)
(* of life.  Bounces arrive all the time.  The job works in sections that  *)
(* catch their own errors, on MyISAM tables: what it did before a failing  *)
(* statement or its own death stays.  An address stands for its customer.  *)
(***************************************************************************)
EXTENDS Integers, FiniteSets

CONSTANTS
    Bounces,     \* rows that may come to bounce_tbl
    Customers,   \* customers, and their addresses
    CustomerOf,  \* the customer of a bounce
    HardBounces, \* the bounces with detail >= 510
    NoCustomer,  \* nobody at hand
    Limit,       \* a higher score may be the end (7 in the code)
    MinAge,      \* days a score must have been growing for more than (30)
    KeepFor,     \* days after that a score is dropped (179)
    MaxTime,     \* bound: the clock
    MaxFailures  \* bound: failing statements and deaths of the job

ASSUME BounceAssumption ==
    /\ CustomerOf \in [Bounces -> Customers]
    /\ HardBounces \subseteq Bounces
    /\ NoCustomer \notin Customers

ASSUME LimitAssumption ==
    /\ Limit \in Nat
    /\ MinAge \in Nat
    /\ KeepFor \in Nat
    /\ MaxTime \in Nat \ {0}
    /\ MaxFailures \in Nat

VARIABLES
    now,      \* the database's clock
    at,       \* change_date of a bounce, 0 before it is there
    cur,      \* timestamp_tbl.cur, 0 while the row is missing
    temp,     \* timestamp_tbl.temp
    collect,  \* bounce_collect_tbl; merged is a history field
    lastId,   \* its auto_increment counter
    score,    \* softbounce_email_tbl; cnt is 0 where there is no row
    status,   \* user_status of the binding: 1, 2 by a bounce, 2 by the job
    pc,       \* control state of the job
    window,   \* rows of the bounce query that are still to be read
    top,      \* max_mailtrack_id
    rows,     \* rows of the merge query that are still to be read
    todo,     \* rows of the last query that are still to be read
    who,      \* the address at hand
    failures, \* failures so far
    first,    \* history: when timestamp_tbl got its row
    collected \* history: how often a bounce was dealt with by the collection

tableVars == <<at, cur, temp, collect, lastId, score, status>>
localVars == <<window, top, rows, todo, who>>
vars == <<now, tableVars, pc, localVars, failures, first, collected>>

----------------------------------------------------------------------------

Time == 0 .. MaxTime
Row == [id : Nat, customer : Customers, merged : Nat]
Score == [cnt : Nat, since : Time, change : Time]
NoScore == [cnt |-> 0, since |-> 0, change |-> 0]

CollectStates == {"mark", "sleep", "read", "insert"}
MergeStates == {"max", "merge"}
UnsubStates == {"list", "judge", "giveup", "forget"}

TypeOK ==
    /\ now \in Time \ {0}
    /\ at \in [Bounces -> Time]
    /\ cur \in Time
    /\ temp \in Time
    /\ collect \subseteq Row
    /\ lastId \in Nat
    /\ score \in [Customers -> Score]
    /\ status \in [Customers -> {"active", "bounced", "softbounced"}]
    /\ pc \in {"idle", "kill"} \cup CollectStates \cup MergeStates \cup UnsubStates
    /\ window \subseteq Bounces
    /\ top \in Nat
    /\ rows \subseteq collect
    /\ todo \subseteq Customers
    /\ who \in Customers \cup {NoCustomer}
    /\ who # NoCustomer <=> pc \in {"giveup", "forget"}
    /\ failures \in 0 .. MaxFailures
    /\ first \in Time
    /\ collected \in [Bounces -> Nat]

Init ==
    /\ now = 1
    /\ at = [b \in Bounces |-> 0]
    /\ cur = 0
    /\ temp = 0
    /\ collect = {}
    /\ lastId = 0
    /\ score = [c \in Customers |-> NoScore]
    /\ status = [c \in Customers |-> "active"]
    /\ pc = "idle"
    /\ window = {}
    /\ top = 0
    /\ rows = {}
    /\ todo = {}
    /\ who = NoCustomer
    /\ failures = 0
    /\ first = 0
    /\ collected = [b \in Bounces |-> 0]

----------------------------------------------------------------------------
(* Time and bounces *)

Tick ==
    /\ now < MaxTime
    /\ now' = now + 1
    /\ UNCHANGED <<tableVars, pc, localVars, failures, first, collected>>

\* UpdateBounce.updateLine: a hard bounce ends the binding as well.
Arrive(b) ==
    /\ at[b] = 0
    /\ at' = [at EXCEPT ![b] = now]
    /\ status' = IF b \in HardBounces /\ status[CustomerOf[b]] = "active"
                 THEN [status EXCEPT ![CustomerOf[b]] = "bounced"] ELSE status
    /\ UNCHANGED <<now, cur, temp, collect, lastId, score, pc, localVars, failures, first, collected>>

----------------------------------------------------------------------------
(* The job *)

\* Mutant: who was at hand is not forgotten.
MutReset == window' = {} /\ top' = 0 /\ rows' = {} /\ todo' = {} /\ UNCHANGED who

\* A section is over, with its cursors.
Reset == window' = {} /\ top' = 0 /\ rows' = {} /\ todo' = {} /\ who' = NoCustomer

\* agn.lock admits one job at a time; the schedule is coarser than a second.
Start ==
    /\ pc = "idle"
    /\ now > temp
    /\ pc' = "kill"
    /\ UNCHANGED <<now, tableVars, localVars, failures, first, collected>>

\* 1. Old scores are dropped.
Kill ==
    /\ pc = "kill"
    /\ score' = [c \in Customers |->
                   IF score[c].cnt > 0 /\ score[c].since + KeepFor < now THEN NoScore ELSE score[c]]
    /\ pc' = "mark"
    /\ UNCHANGED <<now, at, cur, temp, collect, lastId, status, localVars, failures, first, collected>>

\* 2. The end of the collection's window, and at the first time its start.
Mark ==
    /\ pc = "mark"
    /\ temp' = now
    /\ IF cur = 0 THEN cur' = now /\ first' = now ELSE UNCHANGED <<cur, first>>
    /\ pc' = "sleep"
    /\ UNCHANGED <<now, at, collect, lastId, score, status, localVars, failures, collected>>

\* Mutant: the query follows at once.
MutSleep ==
    /\ pc = "sleep"
    /\ pc' = "read"
    /\ UNCHANGED <<now, tableVars, localVars, failures, first, collected>>

\* time.sleep (1): the second of temp is over.
Sleep ==
    /\ pc = "sleep"
    /\ now > temp
    /\ pc' = "read"
    /\ UNCHANGED <<now, tableVars, localVars, failures, first, collected>>

\* Mutant: the window includes its start.
MutInWindow(b) == at[b] >= cur /\ at[b] <= temp

InWindow(b) == at[b] > cur /\ at[b] <= temp

\* The result of the query is kept by the client.
Read ==
    /\ pc = "read"
    /\ window' = {b \in Bounces : at[b] # 0 /\ InWindow(b)}
    /\ pc' = "insert"
    /\ UNCHANGED <<now, tableVars, top, rows, todo, who, failures, first, collected>>

\* The bounces of one customer make one row, none if the worst is a hard one.
Insert(c) ==
    LET group == {b \in window : CustomerOf[b] = c} IN
    /\ pc = "insert"
    /\ group # {}
    /\ window' = window \ group
    /\ collected' = [b \in Bounces |-> IF b \in group THEN collected[b] + 1 ELSE collected[b]]
    /\ IF group \cap HardBounces = {}
       THEN /\ lastId' = lastId + 1
            /\ collect' = collect \cup {[id |-> lastId + 1, customer |-> c, merged |-> 0]}
       ELSE UNCHANGED <<lastId, collect>>
    /\ UNCHANGED <<now, at, cur, temp, score, status, pc, top, rows, todo, who, failures, first>>

\* UPDATE timestamp_tbl SET cur = temp
MoveOn ==
    /\ pc = "insert"
    /\ window = {}
    /\ cur' = temp
    /\ pc' = "max"
    /\ UNCHANGED <<now, at, temp, collect, lastId, score, status, localVars, failures, first, collected>>

\* Mutant: the rows to merge are bounded as well, by one too few.
MutToMerge(max) == {r \in collect : r.id < max - 1}

\* The merge query has no bound on the ids.
ToMerge(max) == {r \in collect : \E q \in collect : q.id < max}

\* 3. The newest row, and the rows of a company with older ones.
MaxRow ==
    /\ pc = "max"
    /\ \/ /\ collect = {}
          /\ top' = 0
       \/ \E newest \in collect :
             /\ \A r \in collect : r.id <= newest.id
             /\ top' = newest.id
    /\ rows' = ToMerge(top')
    /\ pc' = IF \E r \in collect : r.id < top' THEN "merge" ELSE "list"
    /\ UNCHANGED <<now, tableVars, window, todo, who, failures, first, collected>>

\* One row is added to the score of its address.
Merge(r) ==
    LET old == score[r.customer] IN
    /\ pc = "merge"
    /\ r \in rows
    /\ rows' = rows \ {r}
    /\ collect' = (collect \ {r}) \cup {[r EXCEPT !.merged = @ + 1]}
    /\ score' = [score EXCEPT ![r.customer] =
                   [cnt |-> old.cnt + 1,
                    since |-> IF old.cnt = 0 THEN now ELSE old.since,
                    change |-> now]]
    /\ UNCHANGED <<now, at, cur, temp, lastId, status, pc, window, top, todo, who,
                   failures, first, collected>>

\* Mutant: the merged rows stay.
MutPurge ==
    /\ pc = "merge"
    /\ rows = {}
    /\ pc' = "list"
    /\ Reset
    /\ UNCHANGED <<now, tableVars, failures, first, collected>>

\* DELETE ... WHERE mailtrack_id < max_mailtrack_id: all but the newest.
Purge ==
    /\ pc = "merge"
    /\ rows = {}
    /\ collect' = {r \in collect : r.id >= top}
    /\ pc' = "list"
    /\ Reset
    /\ UNCHANGED <<now, at, cur, temp, lastId, score, status, failures, first, collected>>

\* Mutant: the limit itself is enough.
MutHigh(s) == s.cnt >= Limit /\ s.change - s.since > MinAge

High(s) == s.cnt > Limit /\ s.change - s.since > MinAge

\* 4. The addresses with a high score.
List ==
    /\ pc = "list"
    /\ todo' = {c \in Customers : High(score[c])}
    /\ top' = 0
    /\ rows' = {}
    /\ pc' = "judge"
    /\ UNCHANGED <<now, tableVars, window, who, failures, first, collected>>

\* Nobody active has the address: it keeps its score.  Otherwise clicks and
\* opened mails of the last days decide.
Judge(c) ==
    /\ pc = "judge"
    /\ c \in todo
    /\ todo' = todo \ {c}
    /\ \/ /\ status[c] # "active"
          /\ UNCHANGED <<pc, who>>
       \/ /\ status[c] = "active"
          /\ who' = c
          /\ pc' \in {"giveup", "forget"}
    /\ UNCHANGED <<now, tableVars, window, top, rows, failures, first, collected>>

\* UPDATE ... SET user_status = 2, user_remark = 'Softbounce' ... AND user_status = 1
GiveUp ==
    /\ pc = "giveup"
    /\ status' = IF status[who] = "active" THEN [status EXCEPT ![who] = "softbounced"] ELSE status
    /\ pc' = "forget"
    /\ UNCHANGED <<now, at, cur, temp, collect, lastId, score, localVars, failures, first, collected>>

\* The score is deleted in both cases.
Forget ==
    /\ pc = "forget"
    /\ score' = [score EXCEPT ![who] = NoScore]
    /\ who' = NoCustomer
    /\ pc' = "judge"
    /\ UNCHANGED <<now, at, cur, temp, collect, lastId, status, window, top, rows, todo,
                   failures, first, collected>>

Stop ==
    /\ pc = "judge"
    /\ todo = {}
    /\ pc' = "idle"
    /\ UNCHANGED <<now, tableVars, localVars, failures, first, collected>>

----------------------------------------------------------------------------
(* Failures *)

\* The section after the one that state belongs to.
NextSection(state) ==
    CASE state = "kill" -> "mark"
      [] state \in CollectStates -> "max"
      [] state \in MergeStates -> "list"
      [] OTHER -> "idle"

\* A statement fails, and the section is over; or the job dies.
Fail ==
    /\ pc # "idle"
    /\ failures < MaxFailures
    /\ failures' = failures + 1
    /\ pc' \in {NextSection(pc), "idle"}
    /\ Reset
    /\ UNCHANGED <<now, tableVars, first, collected>>

----------------------------------------------------------------------------
(* Specification *)

JobStep ==
    \/ Start
    \/ Kill
    \/ Mark
    \/ Sleep
    \/ Read
    \/ \E c \in Customers : Insert(c)
    \/ MoveOn
    \/ MaxRow
    \/ \E r \in rows : Merge(r)
    \/ Purge
    \/ List
    \/ \E c \in Customers : Judge(c)
    \/ GiveUp
    \/ Forget
    \/ Stop

Next ==
    \/ Tick
    \/ \E b \in Bounces : Arrive(b)
    \/ JobStep
    \/ Fail

Spec == Init /\ [][Next]_vars

----------------------------------------------------------------------------
(* Properties *)

\* The collection passes no bounce by: what arrives while the job runs, in the
\* second of the window's end, or between two runs, is read before cur moves
\* beyond it, even if earlier attempts failed.  Only bounces before the first
\* run ever are left alone.
NoneMissed ==
    \A b \in Bounces : at[b] > first /\ at[b] <= cur => collected[b] > 0

\* No bounce is collected by two runs, unless a run failed after it had stored
\* rows and before it moved cur.
CollectedOnce == \A b \in Bounces : collected[b] <= 1 + failures

\* The newest row is left in the table after it was merged, so a row is merged
\* again by the next run that finds newer ones, but no third time.
MergedTwiceAtMost == \A r \in collect : r.merged <= 2 + failures

\* No row leaves the table before it was added to a score.
PurgedOnlyMerged ==
    [][\A r \in collect : (\A q \in collect' : q.id # r.id) => r.merged > 0]_vars

\* An address is given up on the evidence of bounces of its own: rows counted
\* again by later runs never make more than twice as many of them.
GivenUpOnEvidence ==
    failures = 0 =>
        \A c \in Customers : status[c] = "softbounced" =>
            2 * Cardinality({b \in Bounces \ HardBounces : CustomerOf[b] = c /\ at[b] > 0}) > Limit

============================================================================
