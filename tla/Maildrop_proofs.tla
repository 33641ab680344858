-------------------------- MODULE Maildrop_proofs --------------------------
(***************************************************************************)
(* Theorems about Maildrop, for any rows, mailings, threads and bounds:    *)
(* types; no row is generated twice for one day; a row left in between has *)
(* met a failure, or a mailing deleted before it was saved; a final file   *)
(* vouches for its blocks; the directory META is one that Spool allows; a  *)
(* date based mailing goes out once a day, and a mailing has one row for   *)
(* its whole list, but for the causes that Maildrop records.               *)
(***************************************************************************)
EXTENDS MaildropSpool, TLAPS

(* The control state of a worker tells what it has at hand.                *)
JobOK ==
    \A w \in Workers :
        /\ pc[w] \notin {"idle", "next"} => job[w] \in Drops
        /\ pc[w] = "open" => blk[w] > 0

TypeInv == TypeOK /\ JobOK

USE DEF Workers, Days

(* Counting once more in a table of counters.                              *)
LEMMA CountType ==
    ASSUME NEW S, NEW T, NEW f \in [S -> [T -> Nat]], NEW a \in S, NEW b \in T
    PROVE  [f EXCEPT ![a][b] = @ + 1] \in [S -> [T -> Nat]]
<1>1. [f[a] EXCEPT ![b] = f[a][b] + 1] \in [T -> Nat]
  OBVIOUS
<1>2. QED
  BY <1>1

\* The initial state is typed.
LEMMA InitTypeInv == Init => TypeInv
BY DropAssumption, WorkerAssumption, BoundAssumption
   DEF Init, TypeInv, TypeOK, JobOK, GenStatus, RulerStates, RequestStates, MailgunStates,
       Generating, File

(* What is to be shown of the control variables after a step.              *)
ControlOK ==
    /\ pc \in [Workers -> RulerStates \cup RequestStates]
    /\ pc[Ruler] \in RulerStates
    /\ \A r \in Requests : pc[r] \in RequestStates
    /\ job \in [Workers -> Drops \cup {NoDrop}]
    /\ blk \in [Workers -> 0 .. MaxBlocks]
    /\ JobOK

(* Ending an attempt keeps the control variables typed.                    *)
LEMMA ReturnType ==
    ASSUME TypeInv, NEW w \in Workers, Return(w)
    PROVE  ControlOK'
BY WorkerAssumption, BoundAssumption
   DEF TypeInv, TypeOK, JobOK, ControlOK, Return, RulerStates, RequestStates, MailgunStates, Generating

(* Going on within Mailgun keeps the control variables typed.              *)
LEMMA GoType ==
    ASSUME TypeInv, NEW w \in Workers, NEW state \in MailgunStates, Go(w, state),
           job[w] \in Drops, job' = job, blk' \in [Workers -> 0 .. MaxBlocks],
           \A u \in Workers : u # w => blk'[u] = blk[u],
           state = "open" => blk'[w] > 0
    PROVE  ControlOK'
<1> USE DEF TypeInv, TypeOK, ControlOK, Go
<1>1. pc' \in [Workers -> RulerStates \cup RequestStates]
  BY DEF RulerStates
<1>2. pc'[Ruler] \in RulerStates
  BY DEF RulerStates
<1>3. \A r \in Requests : pc'[r] \in RequestStates
  BY DEF RequestStates
<1>4. JobOK'
  BY DEF JobOK
<1>5. QED
  BY <1>1, <1>2, <1>3, <1>4

\* Every step keeps the types and the control state in line with what a worker has at hand.
LEMMA TypeInvStep == TypeInv /\ [Next]_vars => TypeInv'
<1> SUFFICES ASSUME TypeInv, [Next]_vars PROVE TypeInv'
  OBVIOUS
<1> USE DropAssumption, WorkerAssumption, BoundAssumption
    DEF TypeInv, TypeOK, ControlOK, Go, SetGen, dbVars, rulerVars, history
<1>1. ASSUME NEW r \in Requests, NEW d \in Drops, SendMailing(r, d) PROVE TypeInv'
  BY <1>1 DEF SendMailing, Begin, JobOK, RulerStates, RequestStates, MailgunStates, Generating
<1>2. ASSUME NEW r \in Requests, NEW d \in Drops, ServiceSendMailing(r, d) PROVE TypeInv'
  BY <1>2 DEF ServiceSendMailing, Begin, JobOK, RulerStates, RequestStates, MailgunStates, Generating
<1>3. ASSUME NEW r \in Requests, NEW d \in Drops, CancelCheck(r, d) PROVE TypeInv'
  BY <1>3 DEF CancelCheck, Begin, JobOK, RulerStates, RequestStates, MailgunStates, Generating
<1>4. ASSUME NEW r \in Requests, NEW m \in Mailings, DeactivateMailing(r, m) PROVE TypeInv'
  BY <1>4 DEF DeactivateMailing, JobOK, GenStatus
<1>5. ASSUME NEW m \in Mailings, DeleteMailing(m) PROVE TypeInv'
  BY <1>5 DEF DeleteMailing, JobOK
<1>6. ASSUME NEW r \in Requests, SaveDrop(r) PROVE TypeInv'
  <2> DEFINE d == job[r]
  <2>1. r \in Workers /\ d \in Drops /\ pc[r] = "save"
    BY <1>6 DEF SaveDrop, JobOK
  <2>2. PICK status \in StartGen(r, d) :
           /\ SetGen(d, status)
           /\ gendate' = [gendate EXCEPT ![d] = IF InFuture(r, d) THEN GenDay[d] ELSE now]
           /\ (Go(r, "read") /\ UNCHANGED <<job, blk>>) \/ Return(r)
    BY <1>6 DEF SaveDrop
  <2>3. gen' \in [Drops -> GenStatus] /\ gendate' \in [Drops -> Days]
    BY <2>1, <2>2 DEF StartGen, GenStatus
  <2>4. ASSUME Go(r, "read"), UNCHANGED <<job, blk>> PROVE ControlOK'
    <3>1. "read" \in MailgunStates
      BY DEF MailgunStates
    <3>2. QED
      BY <2>1, <2>4, <3>1, GoType
  <2>5. ControlOK'
    BY <2>1, <2>2, <2>4, ReturnType
  <2>6. Outdated(r, d) \subseteq Drops
    <3>1. \A q \in Requests : pc[q] = "save" => job[q] \in Drops
      BY DEF JobOK
    <3> HIDE DEF TypeInv, TypeOK, ControlOK
    <3> QED BY <3>1 DEF Outdated
  <2>7. loose' \subseteq Drops /\ orphans' \subseteq Drops
    BY <1>6, <2>1, <2>6 DEF SaveDrop
  <2>8. QED
    BY <1>6, <2>3, <2>5, <2>7 DEF SaveDrop
<1>7. ASSUME NEW r \in Requests, CancelDelete(r) PROVE TypeInv'
  BY <1>7, ReturnType DEF CancelDelete, GenStatus
<1>8. ASSUME KickOff PROVE TypeInv'
  BY <1>8 DEF KickOff, StartKickOff, NotSentToday, JobOK, RulerStates, RequestStates, MailgunStates, Generating
<1>9. ASSUME KickOffDelayed PROVE TypeInv'
  BY <1>9 DEF KickOffDelayed, StartKickOff, Due, JobOK, RulerStates, RequestStates, MailgunStates, Generating
<1>10. ASSUME NEW d \in Drops, NEW state \in {"next", "stamp", "release"}, TakeNext(d, state)
       PROVE  ControlOK' /\ todo' \subseteq Drops
  BY <1>10 DEF TakeNext, JobOK, RulerStates, RequestStates, MailgunStates, Generating
<1>11. ASSUME NEW d \in Drops, RuleCheck(d) PROVE TypeInv'
  <2>1. PICK state \in {"next", "stamp", "release"} : TakeNext(d, state)
    BY <1>11 DEF RuleCheck
  <2>2. failures' \in 0 .. MaxFailures /\ UNCHANGED gen
    BY <1>11 DEF RuleCheck, Fails
  <2>3. lapsed' \subseteq Days
    <3>1. lapsed' = lapsed \/ lapsed' = lapsed \cup {now}
      BY <1>11 DEF RuleCheck
    <3> QED BY <3>1
  <2>4. QED
    BY <2>1, <2>2, <2>3, <1>10 DEF TakeNext
<1>12. ASSUME NEW d \in Drops, DelayedCheck(d) PROVE TypeInv'
  <2>1. PICK state \in {"next", "stamp", "release"} : TakeNext(d, state)
    BY <1>12 DEF DelayedCheck
  <2>2. gen' \in [Drops -> GenStatus] /\ UNCHANGED <<failures, lapsed>>
    BY <1>12 DEF DelayedCheck, GenStatus
  <2>3. QED
    BY <2>1, <2>2, <1>10 DEF TakeNext
<1>13. ASSUME RuleStamp PROVE TypeInv'
  BY <1>13 DEF RuleStamp, JobOK, RulerStates, RequestStates, MailgunStates, Generating
<1>14. ASSUME Release PROVE TypeInv'
  BY <1>14 DEF Release, GenStatus, JobOK, RulerStates, RequestStates, MailgunStates, Generating
<1>15. ASSUME RulerDone PROVE TypeInv'
  BY <1>15 DEF RulerDone, NoKickOff, JobOK, RulerStates, RequestStates, MailgunStates, Generating
<1>16. ASSUME Destroy PROVE TypeInv'
  BY <1>16, ReturnType DEF Destroy, MailgunUnchanged
<1>17. ASSUME NEW w \in Workers, Mailgun(w) PROVE TypeInv'
  <2> USE DEF MailgunUnchanged
  <2>1. pc[w] \in MailgunStates /\ job[w] \in Drops
    BY <1>17 DEF Mailgun, ReadState, Claim, SanityCheck, StartBlock, EndBlock, Finish,
                 UpdateState, JobOK, MailgunStates, Generating
  <2>2. Run(job[w]) \in Days
    BY <2>1 DEF Run
  <2>3. \A state \in {"claim", "init", "write", "open", "update"} : state \in MailgunStates
    BY DEF MailgunStates, Generating
  <2>4. ASSUME ReadState(w) PROVE TypeInv'
    BY <2>1, <2>3, <2>4, ReturnType, GoType DEF ReadState
  <2>5. ASSUME Claim(w) PROVE TypeInv'
    <3>1. ControlOK'
      <4>1. Return(w) \/ (Go(w, "init") /\ UNCHANGED <<job, blk>>)
        BY <2>5 DEF Claim
      <4> QED BY <2>1, <2>3, <4>1, ReturnType, GoType
    <3>2. \/ UNCHANGED <<gen, claims>>
          \/ /\ gen' = [gen EXCEPT ![job[w]] = "working"]
             /\ claims' = [claims EXCEPT ![job[w]][Run(job[w])] = @ + 1]
      BY <2>5 DEF Claim
    <3>3. gen' \in [Drops -> GenStatus]
      BY <2>1, <3>2 DEF GenStatus
    <3>4. claims' \in [Drops -> [Days -> Nat]]
      <4>1. claims \in [Drops -> [Days -> Nat]]
        OBVIOUS
      <4>2. [claims EXCEPT ![job[w]][Run(job[w])] = @ + 1] \in [Drops -> [Days -> Nat]]
        <5> HIDE DEF TypeInv, TypeOK, ControlOK, Workers, Days
        <5>1. \A f \in [Drops -> [Days -> Nat]], a \in Drops, b \in Days :
                [f EXCEPT ![a][b] = @ + 1] \in [Drops -> [Days -> Nat]]
          BY CountType
        <5>2. QED
          BY <2>1, <2>2, <4>1, <5>1
      <4>3. QED
        BY <3>2, <4>1, <4>2, Zenon
    <3>5. QED
      BY <2>5, <3>1, <3>3, <3>4 DEF Claim
  <2>6. ASSUME SanityCheck(w) PROVE TypeInv'
    <3>1. ASSUME Abort(w) PROVE ControlOK'
      BY <2>1, <3>1, ReturnType DEF Abort, JobOK, RulerStates, RequestStates, MailgunStates, Generating
    <3>2. gen' \in [Drops -> GenStatus]
      BY <2>1, <2>6 DEF SanityCheck, GenStatus
    <3>3. QED
      BY <2>1, <2>3, <2>6, <3>1, <3>2, GoType DEF SanityCheck
  <2>7. ASSUME StartBlock(w) PROVE TypeInv'
    <3>1. blk[w] + 1 \in 1 .. MaxBlocks
      BY <2>7 DEF StartBlock
    <3>2. ControlOK'
      <4>1. /\ blk' \in [Workers -> 0 .. MaxBlocks]
            /\ blk'[w] > 0
            /\ \A u \in Workers : u # w => blk'[u] = blk[u]
        BY <2>7, <3>1 DEF StartBlock
      <4>2. Go(w, "open") /\ job' = job
        BY <2>7 DEF StartBlock
      <4>3. QED
        BY <2>1, <2>3, <4>1, <4>2, GoType
    <3>3. meta' \subseteq File
      BY <2>1, <2>2, <2>7, <3>1 DEF StartBlock, FileOf, File
    <3>4. QED
      BY <2>7, <3>2, <3>3 DEF StartBlock
  <2>8. ASSUME EndBlock(w) PROVE TypeInv'
    <3>1. blk[w] \in 1 .. MaxBlocks
      BY <2>8 DEF EndBlock, JobOK
    <3>2. ControlOK'
      BY <2>1, <2>3, <2>8, GoType DEF EndBlock
    <3>3. meta' \subseteq File
      BY <2>1, <2>2, <2>8, <3>1 DEF EndBlock, FileOf, File
    <3>4. QED
      BY <2>8, <3>2, <3>3 DEF EndBlock
  <2>9. ASSUME Finish(w) PROVE TypeInv'
    <3>1. blk[w] > 0 => blk[w] \in 1 .. MaxBlocks
      OBVIOUS
    <3>2. ControlOK'
      BY <2>1, <2>3, <2>9, GoType DEF Finish
    <3>3. meta' \subseteq File
      BY <2>1, <2>2, <2>9, <3>1 DEF Finish, FileOf, File
    <3>4. QED
      BY <2>9, <3>2, <3>3 DEF Finish
  <2>10. ASSUME UpdateState(w) PROVE TypeInv'
    BY <2>1, <2>10, ReturnType DEF UpdateState, GenStatus
  <2>11. QED
    BY <1>17, <2>4, <2>5, <2>6, <2>7, <2>8, <2>9, <2>10 DEF Mailgun
<1>18. ASSUME NEW w \in Workers, Fault(w) PROVE TypeInv'
  <2>1. ASSUME Abort(w), pc[w] \in {"init", "write", "open"} PROVE ControlOK'
    BY <2>1, ReturnType DEF Abort, JobOK, RulerStates, RequestStates, MailgunStates, Generating
  <2>2. ASSUME w = Ruler, Go(w, "idle"), UNCHANGED <<job, blk>> PROVE ControlOK'
    BY <2>2 DEF JobOK, RulerStates, RequestStates, MailgunStates, Generating
  <2>3. ControlOK'
    BY <1>18, <2>1, <2>2, ReturnType DEF Fault
  <2>4. todo' \subseteq Drops /\ mode' \in {"rule", "delayed"} /\ rdate' \in Days
    BY <1>18 DEF Fault, NoKickOff
  <2>5. failures' \in 0 .. MaxFailures
    BY <1>18 DEF Fault, Fails
  <2>6. QED
    BY <1>18, <2>3, <2>4, <2>5 DEF Fault
<1>19. ASSUME Crash PROVE TypeInv'
  <2>1. ControlOK'
    BY <1>19 DEF Crash, JobOK, RulerStates, RequestStates
  <2>2. failures' \in 0 .. MaxFailures
    BY <1>19 DEF Crash, Fails
  <2>3. QED
    BY <1>19, <2>1, <2>2 DEF Crash, NoKickOff
<1>20. ASSUME Tick PROVE TypeInv'
  BY <1>20 DEF Tick, JobOK
<1>21. CASE UNCHANGED vars
  BY <1>21 DEF vars, JobOK
<1>22. QED
  BY <1>1, <1>2, <1>3, <1>4, <1>5, <1>6, <1>7, <1>8, <1>9, <1>11, <1>12, <1>13, <1>14,
     <1>15, <1>16, <1>17, <1>18, <1>19, <1>20, <1>21
     DEF Next, UserStep, RequestStep, RulerStep

(* Every variable keeps its type, and no thread of the web interface ever  *)
(* reaches a control state of the Ruler.                                   *)
THEOREM TypeCorrect == Spec => []TypeOK
<1>1. Init => TypeInv
  BY InitTypeInv
<1>2. TypeInv /\ [Next]_vars => TypeInv'
  BY TypeInvStep
<1>3. TypeInv => TypeOK
  BY DEF TypeInv
<1>4. QED
  BY <1>1, <1>2, <1>3, PTL DEF Spec

----------------------------------------------------------------------------
(* No row is generated twice for one day.  A row is offered to a Mailgun   *)
(* with genstatus 1.  A world or test row has no claim before; a date      *)
(* based row, which is offered again each day, none for the day that       *)
(* lastsent names, because the kick off only lists and stamps rows without *)
(* a claim since its own date.                                             *)

(* The row a request is about to insert does not exist and is its own.     *)
SaveOK ==
    \A r \in Requests :
        pc[r] = "save" =>
            /\ gen[job[r]] = "none"
            /\ \A q \in Requests : pc[q] = "save" /\ q # r => job[q] # job[r]

(* Only the Ruler generates date based rows, and it releases world rows.   *)
KindOK ==
    /\ \A r \in Requests : pc[r] \in MailgunStates => KindOf[job[r]] # "R"
    /\ pc[Ruler] = "release" => KindOf[job[Ruler]] = "W"
    /\ pc[Ruler] = "stamp" => KindOf[job[Ruler]] = "R"
    /\ \A d \in todo : KindOf[d] = IF mode = "rule" THEN "R" ELSE "W"

(* Nothing is recorded for a day that is still to come.                    *)
DaysOK ==
    /\ rdate <= now
    /\ \A m \in Mailings : lastsent[m] <= now

Unclaimed(d, t) == claims[d][t] = 0

OfferedOnce ==
    \A d \in Drops :
        KindOf[d] # "R" /\ gen[d] \in {"none", "scheduled", "now"} => Unclaimed(d, 0)

NotAhead ==
    \A d \in Drops, t \in Days :
        KindOf[d] = "R" /\ t > lastsent[MailingOf[d]] => Unclaimed(d, t)

ListedUnclaimed ==
    /\ mode = "rule" => \A d \in todo, t \in Days : t >= rdate => Unclaimed(d, t)
    /\ pc[Ruler] = "stamp" => \A t \in Days : t >= rdate => Unclaimed(job[Ruler], t)
    /\ pc[Ruler] \in {"read", "claim"} /\ KindOf[job[Ruler]] = "R"
         => Unclaimed(job[Ruler], lastsent[MailingOf[job[Ruler]]])
    /\ pc[Ruler] \in {"stamp", "release", "read", "claim"} => job[Ruler] \notin todo

ClaimInv ==
    /\ TypeInv
    /\ SaveOK
    /\ KindOK
    /\ DaysOK
    /\ OfferedOnce
    /\ NotAhead
    /\ ListedUnclaimed
    /\ ClaimedOnce

\* Nobody has claimed anything at the start.
LEMMA InitClaimInv == Init => ClaimInv
<1> SUFFICES ASSUME Init PROVE ClaimInv
  OBVIOUS
<1>1. TypeInv
  BY InitTypeInv
<1>2. SaveOK /\ KindOK /\ ListedUnclaimed
  BY WorkerAssumption DEF Init, SaveOK, KindOK, ListedUnclaimed, MailgunStates, Generating
<1>3. DaysOK /\ OfferedOnce /\ NotAhead /\ ClaimedOnce
  BY BoundAssumption
     DEF Init, DaysOK, OfferedOnce, NotAhead, ClaimedOnce, Unclaimed
<1>4. QED
  BY <1>1, <1>2, <1>3 DEF ClaimInv

(* Steps that leave the claims, the dates and the Ruler's list alone and   *)
(* offer no row: what else they do to gen, pc and job hardly matters.      *)
Quiet ==
    /\ UNCHANGED <<lastsent, now, claims, todo, mode, rdate>>
    /\ \A d \in Drops : gen'[d] # gen[d] => gen[d] # "none"
    /\ \A d \in Drops :
          KindOf[d] # "R" /\ gen'[d] \in {"none", "scheduled", "now"}
            => gen[d] \in {"none", "scheduled", "now"}

\* A step without a claim that gives no row back keeps what is known of claims.
LEMMA QuietStep ==
    ASSUME ClaimInv, Quiet
    PROVE  DaysOK' /\ OfferedOnce' /\ NotAhead' /\ ClaimedOnce'
BY DEF ClaimInv, Quiet, DaysOK, OfferedOnce, NotAhead, ClaimedOnce, Unclaimed

(* A worker that goes back to idle or to the list, or on beyond the claim, *)
(* leaves SaveOK, KindOK and ListedUnclaimed as they are.                  *)
LEMMA LeaveStep ==
    ASSUME ClaimInv, Quiet, NEW w \in Workers,
           \A u \in Workers : u # w => pc'[u] = pc[u] /\ job'[u] = job[u],
           \/ pc'[w] \in {"idle", "next", "destroy"}
           \/ pc[w] \in MailgunStates /\ pc'[w] \in Generating /\ job'[w] = job[w]
    PROVE  SaveOK' /\ KindOK' /\ ListedUnclaimed'
<1>1. Ruler \in Workers /\ \A r \in Requests : r \in Workers /\ r # Ruler
  BY WorkerAssumption
<1>2. \A r \in Requests : pc'[r] = "save" => pc[r] = "save" /\ job'[r] = job[r] /\ job[r] \in Drops
  BY <1>1 DEF ClaimInv, TypeInv, JobOK, Generating
<1>3. SaveOK'
  BY <1>2 DEF ClaimInv, SaveOK, Quiet
<1>4. \A r \in Requests : pc'[r] \in MailgunStates => pc[r] \in MailgunStates /\ job'[r] = job[r]
  BY <1>1 DEF MailgunStates, Generating
<1>5. pc'[Ruler] \in {"stamp", "release", "read", "claim"} =>
        pc'[Ruler] = pc[Ruler] /\ job'[Ruler] = job[Ruler]
  BY <1>1 DEF Generating
<1>6. KindOK'
  BY <1>4, <1>5 DEF ClaimInv, KindOK, Quiet
<1>7. ListedUnclaimed'
  BY <1>5 DEF ClaimInv, ListedUnclaimed, Unclaimed, Quiet
<1>8. QED
  BY <1>3, <1>6, <1>7

\* Every step keeps the inductive invariant, action by action.
LEMMA ClaimInvStep == ClaimInv /\ [Next]_vars => ClaimInv'
<1> SUFFICES ASSUME ClaimInv, [Next]_vars PROVE ClaimInv'
  OBVIOUS
<1> DEFINE Safe == SaveOK /\ KindOK /\ DaysOK /\ OfferedOnce /\ NotAhead /\ ListedUnclaimed /\ ClaimedOnce
<1> USE DropAssumption, WorkerAssumption DEF dbVars, rulerVars, history
<1>a. TypeInv /\ TypeInv'
  BY TypeInvStep DEF ClaimInv
<1>b. SUFFICES Safe'
  BY <1>a DEF ClaimInv
<1>c. ASSUME NEW w \in Workers, Quiet,
             \/ Return(w)
             \/ pc[w] \in MailgunStates /\ job' = job
                  /\ \E state \in Generating \cup {"destroy"} : Go(w, state)
      PROVE  Safe'
  <2>1. \A u \in Workers : u # w => pc'[u] = pc[u] /\ job'[u] = job[u]
    BY <1>a, <1>c DEF Return, Go, TypeInv, TypeOK
  <2>2. \/ pc'[w] \in {"idle", "next", "destroy"}
        \/ pc[w] \in MailgunStates /\ pc'[w] \in Generating /\ job'[w] = job[w]
    BY <1>a, <1>c DEF Return, Go, TypeInv, TypeOK
  <2>3. QED
    BY <1>c, <2>1, <2>2, QuietStep, LeaveStep
<1>1. ASSUME NEW r \in Requests, NEW d \in Drops, NEW state \in {"save", "cancel"},
             Begin(r, state, d), state = "save" => Fresh(d)
      PROVE  Safe'
  <2>1. Quiet
    BY <1>1 DEF Begin, Quiet
  <2>2. SaveOK'
    BY <1>a, <1>1 DEF Begin, Go, Fresh, ClaimInv, SaveOK, TypeInv, TypeOK
  <2>3. pc'[Ruler] = pc[Ruler] /\ job'[Ruler] = job[Ruler]
    BY <1>a, <1>1 DEF Begin, Go, TypeInv, TypeOK
  <2>4. \A q \in Requests : pc'[q] \in MailgunStates => pc[q] = pc'[q] /\ job'[q] = job[q]
    BY <1>a, <1>1 DEF Begin, Go, TypeInv, TypeOK, MailgunStates, Generating
  <2>5. KindOK' /\ ListedUnclaimed'
    BY <2>1, <2>3, <2>4 DEF ClaimInv, KindOK, ListedUnclaimed, Unclaimed, Quiet
  <2>6. QED
    BY <2>1, <2>2, <2>5, QuietStep
<1>2. ASSUME NEW r \in Requests, NEW d \in Drops,
             SendMailing(r, d) \/ ServiceSendMailing(r, d) \/ CancelCheck(r, d)
      PROVE  Safe'
  BY <1>1, <1>2 DEF SendMailing, ServiceSendMailing, CancelCheck
<1>3. ASSUME UNCHANGED <<now, lastsent, pc, job, todo, mode, rdate, claims>>,
             \A d \in Drops : gen'[d] # gen[d] => gen[d] # "none" /\ gen'[d] = "removed"
      PROVE  Safe'
  <2>1. Quiet
    BY <1>3 DEF Quiet
  <2>2. SaveOK' /\ KindOK' /\ ListedUnclaimed'
    BY <1>a, <1>3
       DEF ClaimInv, SaveOK, KindOK, ListedUnclaimed, Unclaimed, TypeInv, JobOK
  <2>3. QED
    BY <2>1, <2>2, QuietStep
<1>4. ASSUME NEW r \in Requests, NEW m \in Mailings, DeactivateMailing(r, m) PROVE Safe'
  BY <1>a, <1>3, <1>4 DEF DeactivateMailing, HasRow, TypeInv, TypeOK
<1>5. ASSUME NEW m \in Mailings, DeleteMailing(m) PROVE Safe'
  BY <1>3, <1>5 DEF DeleteMailing
<1>6. ASSUME NEW r \in Requests, SaveDrop(r) PROVE Safe'
  <2> DEFINE d == job[r]
  <2>1. /\ d \in Drops /\ gen[d] = "none" /\ pc[r] = "save"
        /\ \A q \in Requests : pc[q] = "save" /\ q # r => job[q] # d
    BY <1>a, <1>6 DEF SaveDrop, ClaimInv, SaveOK, TypeInv, JobOK
  <2>2. PICK status \in StartGen(r, d) :
           /\ SetGen(d, status)
           /\ \/ status = "now" /\ KindOf[d] # "R" /\ Go(r, "read") /\ UNCHANGED <<job, blk>>
              \/ Return(r)
    BY <1>6 DEF SaveDrop
  <2>3. UNCHANGED <<lastsent, now, claims, todo, mode, rdate>>
    BY <1>6 DEF SaveDrop
  <2>4. \A e \in Drops : gen'[e] = IF e = d THEN status ELSE gen[e]
    BY <1>a, <2>2 DEF SetGen, TypeInv, TypeOK
  <2>5. pc'[r] \in {"idle", "read"} /\ (pc'[r] = "read" => KindOf[d] # "R" /\ job'[r] = d)
    BY <1>a, <2>2 DEF Return, Go, TypeInv, TypeOK
  <2>6. \A u \in Workers : u # r => pc'[u] = pc[u] /\ job'[u] = job[u]
    BY <1>a, <2>2 DEF Return, Go, TypeInv, TypeOK
  <2>7. DaysOK' /\ NotAhead' /\ ClaimedOnce' /\ OfferedOnce'
    BY <2>1, <2>3, <2>4
       DEF ClaimInv, DaysOK, NotAhead, ClaimedOnce, OfferedOnce, Unclaimed
  <2>8. SaveOK'
    BY <1>a, <2>1, <2>4, <2>5, <2>6 DEF ClaimInv, SaveOK, TypeInv, JobOK
  <2>9. pc'[Ruler] = pc[Ruler] /\ job'[Ruler] = job[Ruler]
    BY <2>6
  <2>10. KindOK'
    BY <2>3, <2>5, <2>6, <2>9 DEF ClaimInv, KindOK, MailgunStates, Generating
  <2>11. ListedUnclaimed'
    BY <2>3, <2>9 DEF ClaimInv, ListedUnclaimed, Unclaimed
  <2>12. QED
    BY <2>7, <2>8, <2>10, <2>11
<1>7. ASSUME NEW r \in Requests, CancelDelete(r) PROVE Safe'
  <2>1. Quiet
    BY <1>a, <1>7 DEF CancelDelete, Quiet, HasRow, TypeInv, TypeOK
  <2>2. QED
    BY <1>c, <1>7, <2>1 DEF CancelDelete
<1>8. ASSUME NEW kind \in {"rule", "delayed"}, NEW drops \in SUBSET Drops, StartKickOff(kind, drops),
             \A d \in drops : KindOf[d] = IF kind = "rule" THEN "R" ELSE "W",
             kind = "rule" => \A d \in drops : lastsent[MailingOf[d]] # now
      PROVE  Safe'
  <2>1. UNCHANGED <<gen, lastsent, now, job, claims>> /\ rdate' = now /\ mode' = kind /\ todo' = drops
    BY <1>8 DEF StartKickOff
  <2>2. pc'[Ruler] = "next" /\ \A r \in Requests : pc'[r] = pc[r]
    BY <1>a, <1>8 DEF StartKickOff, Go, TypeInv, TypeOK
  <2>3. kind = "rule" => \A d \in drops, t \in Days : t >= now => Unclaimed(d, t)
    <3>1. \A m \in Mailings : lastsent[m] <= now /\ lastsent[m] \in Days /\ now \in Days
      BY <1>a DEF ClaimInv, DaysOK, TypeInv, TypeOK
    <3>2. QED
      BY <1>8, <3>1, BoundAssumption DEF ClaimInv, NotAhead
  <2>4. SaveOK' /\ KindOK'
    BY <1>8, <2>1, <2>2 DEF ClaimInv, SaveOK, KindOK
  <2>5. ListedUnclaimed'
    BY <2>1, <2>2, <2>3 DEF ListedUnclaimed, Unclaimed
  <2>6. DaysOK' /\ NotAhead' /\ OfferedOnce' /\ ClaimedOnce'
    BY <1>a, <2>1 DEF ClaimInv, DaysOK, NotAhead, OfferedOnce, ClaimedOnce, Unclaimed,
                      TypeInv, TypeOK
  <2>7. QED
    BY <2>4, <2>5, <2>6
<1>9. ASSUME KickOff PROVE Safe'
  BY <1>8, <1>9 DEF KickOff, NotSentToday
<1>10. ASSUME KickOffDelayed PROVE Safe'
  BY <1>8, <1>10 DEF KickOffDelayed, Due
<1>11. ASSUME NEW d \in Drops, NEW state \in {"next", "stamp", "release"}, TakeNext(d, state),
              state = "stamp" => mode = "rule", state = "release" => mode = "delayed",
              \A e \in Drops : gen'[e] # gen[e] => gen[e] # "none" /\ gen'[e] = "deleted"
       PROVE  Safe'
  <2>2. /\ UNCHANGED <<lastsent, now, mode, rdate, claims>>
        /\ d \in todo /\ todo' = todo \ {d}
    BY <1>11 DEF TakeNext
  <2>3. /\ pc'[Ruler] = state /\ (state # "next" => job'[Ruler] = d)
        /\ \A r \in Requests : pc'[r] = pc[r] /\ job'[r] = job[r]
    BY <1>a, <1>11 DEF TakeNext, Go, TypeInv, TypeOK
  <2>4. SaveOK' /\ KindOK'
    BY <1>a, <1>11, <2>2, <2>3 DEF ClaimInv, SaveOK, KindOK, TypeInv, JobOK
  <2>5. ListedUnclaimed'
    BY <1>11, <2>2, <2>3 DEF ClaimInv, ListedUnclaimed, Unclaimed
  <2>6. DaysOK' /\ NotAhead' /\ OfferedOnce' /\ ClaimedOnce'
    BY <1>11, <2>2 DEF ClaimInv, DaysOK, NotAhead, OfferedOnce, ClaimedOnce, Unclaimed
  <2>7. QED
    BY <2>4, <2>5, <2>6
<1>12. ASSUME NEW d \in Drops, RuleCheck(d) PROVE Safe'
  BY <1>11, <1>12 DEF RuleCheck
<1>13. ASSUME NEW d \in Drops, DelayedCheck(d) PROVE Safe'
  <2>1. \A e \in Drops : gen'[e] # gen[e] => gen[e] # "none" /\ gen'[e] = "deleted"
    BY <1>a, <1>13 DEF DelayedCheck, SetGen, BelowFinished, TypeInv, TypeOK
  <2>2. QED
    BY <1>11, <1>13, <2>1 DEF DelayedCheck
<1>14. ASSUME RuleStamp PROVE Safe'
  <2> DEFINE d == job[Ruler]
  <2>1. /\ pc[Ruler] = "stamp" /\ d \in Drops /\ KindOf[d] = "R"
        /\ UNCHANGED <<gen, now, job, todo, mode, rdate, claims>>
    BY <1>a, <1>14 DEF RuleStamp, ClaimInv, KindOK, TypeInv, JobOK
  <2>2. /\ pc'[Ruler] = "read"
        /\ \A r \in Requests : pc'[r] = pc[r]
    BY <1>a, <1>14 DEF RuleStamp, Go, TypeInv, TypeOK
  <2>3. \A m \in Mailings : lastsent'[m] = IF m = MailingOf[d] THEN now ELSE lastsent[m]
    BY <1>a, <1>14 DEF RuleStamp, TypeInv, TypeOK
  <2>4. \A m \in Mailings : lastsent[m] <= lastsent'[m] /\ lastsent'[m] <= now
                              /\ lastsent[m] \in Int /\ lastsent'[m] \in Int
    <3>1. now \in Int /\ \A m \in Mailings : lastsent[m] \in Int
      BY <1>a, BoundAssumption DEF TypeInv, TypeOK
    <3>2. \A m \in Mailings : lastsent[m] <= now
      BY DEF ClaimInv, DaysOK
    <3>3. QED
      BY <2>3, <3>1, <3>2
  <2>5. NotAhead'
    <3>1. \A e \in Drops : MailingOf[e] \in Mailings
      OBVIOUS
    <3>2. \A t \in Days : t \in Int
      BY BoundAssumption
    <3>3. QED
      BY <2>1, <2>4, <3>1, <3>2 DEF ClaimInv, NotAhead, Unclaimed
  <2>6. DaysOK' /\ OfferedOnce' /\ ClaimedOnce'
    BY <2>1, <2>4 DEF ClaimInv, DaysOK, OfferedOnce, ClaimedOnce, Unclaimed
  <2>7. SaveOK' /\ KindOK'
    BY <2>1, <2>2 DEF ClaimInv, SaveOK, KindOK
  <2>8. ListedUnclaimed'
    BY <1>a, <2>1, <2>2, <2>3 DEF ClaimInv, ListedUnclaimed, DaysOK, Unclaimed, TypeInv, TypeOK
  <2>9. QED
    BY <2>5, <2>6, <2>7, <2>8
<1>15. ASSUME Release PROVE Safe'
  <2> DEFINE d == job[Ruler]
  <2>1. /\ pc[Ruler] = "release" /\ d \in Drops /\ KindOf[d] = "W"
        /\ UNCHANGED <<lastsent, now, job, todo, mode, rdate, claims>>
    BY <1>a, <1>15 DEF Release, ClaimInv, KindOK, TypeInv, JobOK
  <2>2. /\ pc'[Ruler] = "read"
        /\ \A r \in Requests : pc'[r] = pc[r]
    BY <1>a, <1>15 DEF Release, Go, TypeInv, TypeOK
  <2>3. Quiet
    BY <1>a, <1>15, <2>1 DEF Release, SetGen, Quiet, TypeInv, TypeOK
  <2>4. SaveOK' /\ KindOK' /\ ListedUnclaimed'
    BY <1>a, <2>1, <2>2, <2>3
       DEF Quiet, ClaimInv, SaveOK, KindOK, ListedUnclaimed, Unclaimed, TypeInv, JobOK
  <2>5. QED
    BY <2>3, <2>4, QuietStep
<1>16. ASSUME RulerDone \/ Crash PROVE Safe'
  <2>1. UNCHANGED <<gen, lastsent, now, claims>> /\ todo' = {} /\ rdate' = 0
    BY <1>16 DEF RulerDone, Crash, NoKickOff
  <2>2. /\ pc'[Ruler] = "idle"
        /\ \A r \in Requests : pc'[r] \in {"save"} \cup MailgunStates => pc'[r] = pc[r] /\ job'[r] = job[r]
    BY <1>a, <1>16 DEF RulerDone, Crash, Go, MailgunStates, Generating, TypeInv, TypeOK
  <2>3. SaveOK' /\ KindOK' /\ ListedUnclaimed'
    BY <2>1, <2>2 DEF ClaimInv, SaveOK, KindOK, ListedUnclaimed
  <2>4. DaysOK' /\ NotAhead' /\ OfferedOnce' /\ ClaimedOnce'
    BY <1>a, <2>1, BoundAssumption
       DEF ClaimInv, DaysOK, NotAhead, OfferedOnce, ClaimedOnce, Unclaimed, TypeInv, TypeOK
  <2>5. QED
    BY <2>3, <2>4
<1>17. ASSUME Destroy PROVE Safe'
  <2>1. Quiet
    BY <1>17 DEF Destroy, MailgunUnchanged, Quiet
  <2>2. QED
    BY <1>c, <1>17, <2>1 DEF Destroy
<1>18. ASSUME NEW w \in Workers, Mailgun(w) PROVE Safe'
  <2> USE DEF MailgunUnchanged
  <2> DEFINE d == job[w]
  <2>1. d \in Drops /\ pc[w] \in MailgunStates
    BY <1>a, <1>18 DEF Mailgun, ReadState, Claim, SanityCheck, StartBlock, EndBlock, Finish,
                       UpdateState, MailgunStates, Generating, TypeInv, JobOK
  <2>2. ASSUME ReadState(w) PROVE Safe'
    <3>1. Quiet
      BY <2>2 DEF ReadState, Quiet
    <3>2. CASE Return(w)
      BY <1>c, <3>1, <3>2
    <3>3. CASE Go(w, "claim") /\ job' = job
      <4>1. pc'[w] = "claim" /\ pc[w] = "read" /\ \A u \in Workers : u # w => pc'[u] = pc[u]
        BY <1>a, <2>2, <3>3 DEF ReadState, Go, TypeInv, TypeOK
      <4>2. SaveOK'
        BY <2>2, <3>3, <4>1 DEF ReadState, ClaimInv, SaveOK
      <4>3. KindOK'
        BY <2>1, <3>1, <3>3, <4>1 DEF Quiet, ClaimInv, KindOK
      <4>4. ListedUnclaimed'
        BY <3>1, <3>3, <4>1 DEF Quiet, ClaimInv, ListedUnclaimed, Unclaimed
      <4>5. QED
        BY <3>1, <4>2, <4>3, <4>4, QuietStep
    <3>4. QED
      BY <2>2, <3>2, <3>3 DEF ReadState
  <2>3. ASSUME Claim(w) PROVE Safe'
    <3>1. CASE Return(w) /\ UNCHANGED <<gen, claims>>
      <4>1. Quiet
        BY <2>3, <3>1 DEF Claim, Quiet
      <4>2. QED
        BY <1>c, <3>1, <4>1
    <3>2. CASE /\ gen[d] = "now" /\ SetGen(d, "working") /\ Go(w, "init") /\ job' = job
               /\ claims' = [claims EXCEPT ![d][Run(d)] = @ + 1]
      <4>1. Run(d) \in Days /\ Unclaimed(d, Run(d))
        BY <1>a, <2>1, <2>3, <3>2, BoundAssumption
           DEF Claim, Run, ClaimInv, OfferedOnce, KindOK, ListedUnclaimed, MailgunStates,
               TypeInv, TypeOK
      <4>2. \A e \in Drops, t \in Days :
               claims'[e][t] = IF e = d /\ t = Run(d) THEN 1 ELSE claims[e][t]
        <5>1. claims \in [Drops -> [Days -> Nat]]
          BY <1>a DEF TypeInv, TypeOK
        <5>2. claims[d][Run(d)] + 1 = 1
          BY <4>1 DEF Unclaimed
        <5>3. claims' = [claims EXCEPT ![d][Run(d)] = @ + 1]
          BY <3>2
        <5>4. TAKE e \in Drops, t \in Days
        <5>5. QED
          BY <2>1, <4>1, <5>1, <5>2, <5>3
      <4>3. UNCHANGED <<lastsent, now, todo, mode, rdate>>
        BY <2>3 DEF Claim
      <4>4. \A e \in Drops : gen'[e] = IF e = d THEN "working" ELSE gen[e]
        BY <1>a, <3>2 DEF SetGen, TypeInv, TypeOK
      <4>5. pc'[w] = "init" /\ pc[w] = "claim" /\ \A u \in Workers : u # w => pc'[u] = pc[u]
        BY <1>a, <2>3, <3>2 DEF Claim, Go, TypeInv, TypeOK
      <4>6. DaysOK' /\ OfferedOnce' /\ ClaimedOnce'
        BY <4>2, <4>3, <4>4, BoundAssumption
           DEF ClaimInv, DaysOK, OfferedOnce, ClaimedOnce, Unclaimed
      <4>7. NotAhead'
        <5>1. KindOf[d] = "R" => Run(d) = lastsent[MailingOf[d]] /\ Run(d) \in Int
          BY <4>1, BoundAssumption DEF Run
        <5>2. \A t \in Days : t \in Int
          BY BoundAssumption
        <5>3. QED
          BY <4>2, <4>3, <5>1, <5>2 DEF ClaimInv, NotAhead, Unclaimed
      <4>8. SaveOK'
        BY <1>a, <2>1, <3>2, <4>4, <4>5 DEF ClaimInv, SaveOK, TypeInv, JobOK
      <4>9. KindOK'
        BY <2>1, <3>2, <4>3, <4>5 DEF ClaimInv, KindOK, MailgunStates, Generating
      <4>10. KindOf[d] = "R" => w = Ruler
        BY <2>1 DEF ClaimInv, KindOK
      <4>11. w = Ruler => d \notin todo
        BY <4>5 DEF ClaimInv, ListedUnclaimed
      <4>12. ListedUnclaimed'
        <5>1. \A e \in Drops, t \in Days : e # d => claims'[e][t] = claims[e][t]
          BY <4>2
        <5>2. \A e \in todo : e \in Drops /\ (mode = "rule" => e # d)
          BY <1>a, <4>10, <4>11 DEF ClaimInv, KindOK, TypeInv, TypeOK
        <5>3. pc'[Ruler] \in {"stamp", "release", "read", "claim"} =>
                pc'[Ruler] = pc[Ruler] /\ w # Ruler /\ job[Ruler] \in Drops
          BY <1>a, <4>5 DEF TypeInv, JobOK
        <5>4. w # Ruler /\ pc[Ruler] \in {"stamp", "read", "claim"} /\ KindOf[job[Ruler]] = "R"
                => job[Ruler] # d
          BY <4>10
        <5>5. lastsent \in [Mailings -> Days]
          BY <1>a DEF TypeInv, TypeOK
        <5>6. QED
          BY <3>2, <4>3, <5>1, <5>2, <5>3, <5>4, <5>5 DEF ClaimInv, KindOK, ListedUnclaimed, Unclaimed
      <4>13. QED
        BY <4>6, <4>7, <4>8, <4>9, <4>12
    <3>3. QED
      BY <2>3, <3>1, <3>2 DEF Claim
  <2>4. ASSUME \/ SanityCheck(w) \/ StartBlock(w) \/ EndBlock(w) \/ Finish(w) \/ UpdateState(w)
        PROVE  Safe'
    <3>1. Quiet
      BY <1>a, <2>1, <2>4
         DEF SanityCheck, StartBlock, EndBlock, Finish, UpdateState, SetGen, HasRow, Quiet,
             TypeInv, TypeOK
    <3>2. \/ Return(w)
          \/ job' = job /\ \E state \in Generating \cup {"destroy"} : Go(w, state)
      BY <2>4 DEF SanityCheck, StartBlock, EndBlock, Finish, UpdateState, Abort, Go, Generating
    <3>3. QED
      BY <1>c, <2>1, <3>1, <3>2
  <2>5. QED
    BY <1>18, <2>2, <2>3, <2>4 DEF Mailgun
<1>19. ASSUME NEW w \in Workers, Fault(w) PROVE Safe'
  <2>1. CASE UNCHANGED rulerVars /\ (Return(w) \/ (Abort(w) /\ pc[w] \in {"init", "write", "open"}))
    <3>1. Quiet
      BY <1>19, <2>1 DEF Fault, Quiet
    <3>2. QED
      <4>1. CASE Return(w)
        BY <1>c, <3>1, <4>1
      <4>2. CASE Abort(w) /\ pc[w] \in {"init", "write", "open"}
        BY <1>c, <3>1, <4>1, <4>2 DEF Abort, Go, MailgunStates, Generating
      <4>3. QED
        BY <1>19, <2>1, <4>1, <4>2
  <2>2. CASE w = Ruler /\ pc[Ruler] = "next" /\ Go(Ruler, "idle") /\ NoKickOff /\ UNCHANGED <<job, blk>>
    <3>1. UNCHANGED <<gen, lastsent, now, claims, job>> /\ todo' = {} /\ rdate' = 0
      BY <1>19, <2>2 DEF Fault, NoKickOff
    <3>2. pc'[Ruler] = "idle" /\ \A r \in Requests : pc'[r] = pc[r]
      BY <1>a, <2>2 DEF Go, TypeInv, TypeOK
    <3>3. SaveOK' /\ KindOK' /\ ListedUnclaimed'
      BY <3>1, <3>2 DEF ClaimInv, SaveOK, KindOK, ListedUnclaimed
    <3>4. DaysOK' /\ NotAhead' /\ OfferedOnce' /\ ClaimedOnce'
      BY <1>a, <3>1, BoundAssumption
         DEF ClaimInv, DaysOK, NotAhead, OfferedOnce, ClaimedOnce, Unclaimed, TypeInv, TypeOK
    <3>5. QED
      BY <3>3, <3>4
  <2>3. QED
    BY <1>19, <2>1, <2>2 DEF Fault
<1>20. ASSUME Tick PROVE Safe'
  <2>1. now' = now + 1 /\ UNCHANGED <<gen, lastsent, pc, job, todo, mode, rdate, claims>>
    BY <1>20 DEF Tick
  <2>2. DaysOK'
    BY <1>a, <2>1, BoundAssumption DEF ClaimInv, DaysOK, TypeInv, TypeOK
  <2>3. QED
    BY <2>1, <2>2 DEF ClaimInv, SaveOK, KindOK, OfferedOnce, NotAhead, ListedUnclaimed,
                      ClaimedOnce, Unclaimed
<1>21. CASE UNCHANGED vars
  BY <1>21 DEF vars, ClaimInv, SaveOK, KindOK, DaysOK, OfferedOnce, NotAhead, ListedUnclaimed,
               ClaimedOnce, Unclaimed
<1>22. QED
  BY <1>2, <1>4, <1>5, <1>6, <1>7, <1>9, <1>10, <1>12, <1>13, <1>14, <1>15, <1>16, <1>17,
     <1>18, <1>19, <1>20, <1>21
     DEF Next, UserStep, RequestStep, RulerStep

(* No row is generated twice for one day, for any rows, threads, days and  *)
(* failures: the status written by whoever offers a row and the dates in   *)
(* rulebased_sent_tbl are enough, whatever the interleaving.               *)
THEOREM GeneratedOnce == Spec => []ClaimedOnce
<1>1. Init => ClaimInv
  BY InitClaimInv
<1>2. ClaimInv /\ [Next]_vars => ClaimInv'
  BY ClaimInvStep
<1>3. ClaimInv => ClaimedOnce
  BY DEF ClaimInv
<1>4. QED
  BY <1>1, <1>2, <1>3, PTL DEF Spec

----------------------------------------------------------------------------
(* While nothing fails, every row that is claimed, or that is offered and  *)
(* not date based, has a worker.  The control state must be told apart: a  *)
(* worker that is to claim the row for one that is offered, since only it  *)
(* takes the row from there, and one beyond the claim for one in work.     *)

Attended(d) ==
    /\ gen[d] = "now" /\ KindOf[d] # "R" /\ d \notin orphans =>
         \E w \in Workers : job[w] = d /\ pc[w] \in {"read", "claim"}
    /\ gen[d] = "working" =>
         \E w \in Workers : job[w] = d /\ pc[w] \in Generating

StuckInv == failures = 0 => \A d \in Drops : Attended(d)

\* No step takes a worker from a row that still needs one, unless something fails.
LEMMA StuckInvStep == ClaimInv /\ StuckInv /\ [Next]_vars => StuckInv'
<1> SUFFICES ASSUME ClaimInv, StuckInv, [Next]_vars, failures' = 0, NEW d \in Drops PROVE Attended(d)'
  BY DEF StuckInv
<1> USE DropAssumption, WorkerAssumption DEF dbVars, rulerVars, history
<1>a. TypeInv /\ gen \in [Drops -> GenStatus]
      /\ pc \in [Workers -> RulerStates \cup RequestStates]
      /\ job \in [Workers -> Drops \cup {NoDrop}]
  BY DEF ClaimInv, TypeInv, TypeOK
<1>b. failures \in Nat
  BY <1>a, BoundAssumption DEF TypeInv, TypeOK
<1>c. ~Fails
  BY <1>b DEF Fails
<1>d. \A w \in Workers : ~Fault(w) /\ ~Crash
  BY <1>c DEF Fault, Crash
<1>e. failures = 0
  BY <1>b, <1>c, <1>d
     DEF Next, UserStep, SendMailing, ServiceSendMailing, CancelCheck, Begin, DeactivateMailing, DeleteMailing,
         RequestStep, SaveDrop, CancelDelete, Mailgun, ReadState, Claim, SanityCheck, StartBlock, EndBlock,
         Finish, UpdateState, MailgunUnchanged, KickOff, KickOffDelayed, StartKickOff, RulerStep, RuleCheck,
         DelayedCheck, RuleStamp, Release, RulerDone, Destroy, Tick, vars
<1>f. Attended(d)
  BY <1>e DEF StuckInv
<1>h. d \in orphans => d \in orphans'
  BY DEF Next, UserStep, SendMailing, ServiceSendMailing, CancelCheck, Begin, DeactivateMailing, DeleteMailing,
         RequestStep, SaveDrop, CancelDelete, Mailgun, ReadState, Claim, SanityCheck, StartBlock, EndBlock,
         Finish, UpdateState, MailgunUnchanged, KickOff, KickOffDelayed, StartKickOff, RulerStep, RuleCheck,
         DelayedCheck, TakeNext, RuleStamp, Release, RulerDone, Destroy, Fault, Crash, Tick, vars
<1>g. ASSUME gen'[d] = gen[d] \/ gen'[d] \notin {"now", "working"},
             \A w \in Workers : pc[w] \in MailgunStates => pc'[w] = pc[w] /\ job'[w] = job[w]
      PROVE  Attended(d)'
  BY <1>f, <1>g, <1>h DEF Attended, MailgunStates
<1>1. ASSUME NEW r \in Requests, NEW e \in Drops, SendMailing(r, e) \/ ServiceSendMailing(r, e) \/ CancelCheck(r, e)
      PROVE  Attended(d)'
  BY <1>a, <1>1, <1>g DEF SendMailing, ServiceSendMailing, CancelCheck, Begin, Go, MailgunStates, Generating
<1>2. ASSUME \/ \E r \in Requests, m \in Mailings : DeactivateMailing(r, m)
             \/ \E m \in Mailings : DeleteMailing(m)
             \/ Tick
             \/ UNCHANGED vars
      PROVE  Attended(d)'
  BY <1>2, <1>g DEF DeactivateMailing, DeleteMailing, Tick, vars
<1>3. ASSUME NEW r \in Requests, SaveDrop(r) PROVE Attended(d)'
  <2>1. job[r] \in Drops /\ gen[job[r]] = "none" /\ pc[r] = "save" /\ "save" \notin MailgunStates
    BY <1>a, <1>3 DEF SaveDrop, ClaimInv, SaveOK, TypeInv, JobOK, MailgunStates, Generating
  <2>2. \A u \in Workers : u # r => pc'[u] = pc[u] /\ job'[u] = job[u]
    BY <1>a, <1>3 DEF SaveDrop, Return, Go
  <2>3. PICK status \in StartGen(r, job[r]) :
           /\ SetGen(job[r], status)
           /\ IF status = "now" /\ KindOf[job[r]] # "R" /\ ~Deleted(job[r])
              THEN Go(r, "read") /\ UNCHANGED <<job, blk>>
              ELSE Return(r)
    BY <1>3 DEF SaveDrop
  <2>4. gen'[d] = IF d = job[r] THEN status ELSE gen[d]
    BY <1>a, <2>3 DEF SetGen
  <2>5. status \in {"now", "scheduled"}
    BY <2>3 DEF StartGen
  <2>6. status = "now" /\ KindOf[job[r]] # "R" /\ ~Deleted(job[r]) => pc'[r] = "read" /\ job'[r] = job[r]
    BY <1>a, <2>3 DEF Go
  <2>7. Deleted(job[r]) => job[r] \in orphans'
    BY <1>3 DEF SaveDrop
  <2> QED BY <1>f, <1>h, <2>1, <2>2, <2>4, <2>5, <2>6, <2>7 DEF Attended, MailgunStates, Generating
<1>4. ASSUME NEW r \in Requests, CancelDelete(r) PROVE Attended(d)'
  BY <1>a, <1>4, <1>g DEF CancelDelete, Return, MailgunStates, Generating
<1>5. ASSUME KickOff \/ KickOffDelayed PROVE Attended(d)'
  BY <1>a, <1>5, <1>g DEF KickOff, KickOffDelayed, StartKickOff, Go, MailgunStates, Generating
<1>6. ASSUME \/ \E e \in Drops : RuleCheck(e) \/ DelayedCheck(e)
             \/ RulerDone \/ Destroy \/ RuleStamp
      PROVE  Attended(d)'
  <2>1. gen'[d] = gen[d] \/ gen'[d] = "deleted"
    BY <1>a, <1>6 DEF RuleCheck, DelayedCheck, RulerDone, Destroy, RuleStamp, SetGen, MailgunUnchanged
  <2>2. pc[Ruler] \in {"next", "destroy", "stamp"}
    BY <1>6 DEF RuleCheck, DelayedCheck, RulerDone, Destroy, RuleStamp
  <2>3. \A w \in Workers : w # Ruler => pc'[w] = pc[w] /\ job'[w] = job[w]
    BY <1>a, <1>6 DEF RuleCheck, DelayedCheck, TakeNext, RulerDone, Destroy, RuleStamp, Return, Go
  <2> QED BY <1>g, <2>1, <2>2, <2>3 DEF MailgunStates, Generating
<1>7. ASSUME Release PROVE Attended(d)'
  <2>1. pc[Ruler] = "release" /\ pc'[Ruler] = "read" /\ job' = job /\ job[Ruler] \in Drops
        /\ \A w \in Workers : w # Ruler => pc'[w] = pc[w]
    BY <1>a, <1>7 DEF Release, Go, TypeInv, JobOK
  <2>2. gen'[d] = gen[d] \/ (d = job[Ruler] /\ gen'[d] = "now")
    BY <1>a, <1>7 DEF Release, SetGen
  <2> QED BY <1>f, <1>h, <2>1, <2>2 DEF Attended, Generating
<1>8. ASSUME NEW w \in Workers, Mailgun(w) PROVE Attended(d)'
  <2>1. pc[w] \in MailgunStates /\ job[w] \in Drops
    BY <1>a, <1>8 DEF Mailgun, ReadState, Claim, SanityCheck, StartBlock, EndBlock, Finish,
                      UpdateState, MailgunStates, Generating, TypeInv, JobOK
  <2>2. \A u \in Workers : u # w => pc'[u] = pc[u] /\ job'[u] = job[u]
    BY <1>a, <1>8 DEF Mailgun, ReadState, Claim, SanityCheck, StartBlock, EndBlock, Finish,
                      UpdateState, Abort, Return, Go
  <2>3. CASE ReadState(w)
    <3>1. gen' = gen /\ pc[w] = "read" /\ (gen[job[w]] = "now" => pc'[w] = "claim" /\ job'[w] = job[w])
      BY <1>a, <2>3 DEF ReadState, Go
    <3> QED BY <1>f, <1>h, <2>2, <3>1 DEF Attended, Generating
  <2>4. CASE Claim(w)
    <3>1. gen[job[w]] = "now" => /\ pc'[w] = "init" /\ job'[w] = job[w]
                                 /\ gen'[d] = IF d = job[w] THEN "working" ELSE gen[d]
      BY <1>a, <2>4 DEF Claim, Go, SetGen
    <3>2. gen[job[w]] # "now" => gen' = gen
      BY <2>4 DEF Claim
    <3>3. pc[w] = "claim"
      BY <2>4 DEF Claim
    <3> QED BY <1>f, <1>h, <2>2, <3>1, <3>2, <3>3 DEF Attended, Generating
  <2>5. CASE SanityCheck(w)
    <3>1. pc[w] = "init" /\ (~Deleted(job[w]) => gen' = gen /\ pc'[w] = "write" /\ job'[w] = job[w])
      BY <1>a, <2>5 DEF SanityCheck, Go
    <3>2. Deleted(job[w]) => gen'[d] = IF d = job[w] /\ HasRow(d) THEN "deleted" ELSE gen[d]
      BY <1>a, <2>5 DEF SanityCheck, SetGen
    <3> QED BY <1>f, <1>h, <2>1, <2>2, <3>1, <3>2 DEF Attended, Generating, HasRow
  <2>6. CASE StartBlock(w) \/ EndBlock(w) \/ Finish(w)
    <3>1. gen' = gen /\ pc[w] \in Generating /\ pc'[w] \in Generating /\ job' = job
      BY <1>a, <2>6 DEF StartBlock, EndBlock, Finish, Go, Generating, MailgunUnchanged
    <3> QED BY <1>f, <1>h, <2>2, <3>1 DEF Attended, Generating
  <2>7. CASE UpdateState(w)
    <3>1. pc[w] = "update"
      BY <2>7 DEF UpdateState
    <3>2. gen'[d] = IF d = job[w] /\ gen[d] = "working"
                    THEN (IF KindOf[d] = "R" THEN "now" ELSE "finished") ELSE gen[d]
      BY <1>a, <2>7 DEF UpdateState, SetGen
    <3> QED BY <1>f, <1>h, <2>2, <3>1, <3>2 DEF Attended, Generating
  <2> QED BY <1>8, <2>3, <2>4, <2>5, <2>6, <2>7 DEF Mailgun
<1> QED
  BY <1>1, <1>2, <1>3, <1>4, <1>5, <1>6, <1>7, <1>8, <1>d DEF Next, UserStep, RequestStep, RulerStep

(* No early return and no lost race leaves a row behind at genstatus 1 or  *)
(* 2: only a failure or a crash does, or a mailing that was deleted before *)
(* its row was saved, however many threads are at work.                    *)
THEOREM AttendedUntilFailure == Spec => []NothingStuckWithoutFailure
<1>1. Init => ClaimInv
  BY InitClaimInv
<1>2. Init => StuckInv
  BY DEF Init, StuckInv, Attended
<1>3. StuckInv => NothingStuckWithoutFailure
  BY DEF StuckInv, Attended, NothingStuckWithoutFailure, MailgunStates
<1>4. QED
  BY <1>1, <1>2, <1>3, ClaimInvStep, StuckInvStep, PTL DEF Spec

----------------------------------------------------------------------------
(* What a step does to the workers that write files: it concerns none of   *)
(* them, takes one or all away, begins a generation, or carries one on.    *)

AtWork == {"init", "write", "open", "destroy"}
WithBlocks == {"write", "open", "update", "destroy"}

Same(w) == pc'[w] = pc[w] /\ job'[w] = job[w] /\ blk'[w] = blk[w]

Aside ==
    /\ UNCHANGED <<meta, claims>>
    /\ \A w \in Workers : pc[w] \in AtWork \/ pc'[w] \in AtWork => Same(w)
    /\ lastsent' = lastsent \/ pc[Ruler] = "stamp"
    /\ deleted' = deleted \/ \E m \in Mailings : deleted' = deleted \cup {m}

AllLeave ==
    /\ UNCHANGED <<meta, claims, lastsent, deleted>>
    /\ \A w \in Workers : pc'[w] \notin AtWork

Others(w) ==
    /\ UNCHANGED <<lastsent, deleted>>
    /\ \A u \in Workers : u # w => Same(u)

OneLeaves(w) ==
    /\ UNCHANGED <<meta, claims>>
    /\ Others(w)
    /\ pc[w] \in AtWork /\ pc'[w] \notin AtWork

Claims(w) ==
    /\ UNCHANGED meta
    /\ Others(w)
    /\ pc[w] = "claim" /\ pc'[w] = "init" /\ job'[w] = job[w] /\ blk'[w] = blk[w]
    /\ \A d \in Drops, t \in Days :
          claims'[d][t] = IF d = job[w] /\ t = Run(d) THEN 1 ELSE claims[d][t]
    /\ claims[job[w]][Run(job[w])] = 0
    /\ KindOf[job[w]] = "R" => w = Ruler

\* One worker goes on with its generation, from one control state to the next.
Works(w) ==
    LET d == job[w]
        n == blk[w] IN
    /\ UNCHANGED claims
    /\ Others(w)
    /\ \/ /\ pc[w] = "init" /\ pc'[w] = "write" /\ job'[w] = d /\ blk'[w] = n
          /\ UNCHANGED meta
       \/ /\ pc[w] \in {"init", "write", "open"} /\ pc'[w] = "destroy" /\ job'[w] = d /\ blk'[w] = n
          /\ w = Ruler
          /\ UNCHANGED meta
       \/ /\ pc[w] = "write" /\ pc'[w] = "open" /\ job'[w] = d /\ blk'[w] = n + 1
          /\ n < IF KindOf[d] = "T" THEN 1 ELSE MaxBlocks
          /\ meta' = meta \cup {FileOf(d, n + 1, "xml")}
       \/ /\ pc[w] = "open" /\ pc'[w] = "write" /\ job'[w] = d /\ blk'[w] = n
          /\ meta' = IF KindOf[d] = "T" THEN meta ELSE meta \cup {FileOf(d, n, "stamp")}
       \/ /\ pc[w] = "write" /\ pc'[w] = "update"
          /\ meta' = CASE KindOf[d] = "T" -> meta \ {FileOf(d, 1, "xml")}
                       [] KindOf[d] # "T" /\ n > 0 -> meta \cup {FileOf(d, n, "final")}
                       [] OTHER -> meta
       \/ /\ pc[w] = "destroy" /\ pc'[w] = "next" /\ w = Ruler
          /\ meta' = {f \in meta : MailingOf[f.drop] # MailingOf[d]}

\* Every step is of one of these forms.
LEMMA WorkSteps ==
    ASSUME ClaimInv, [Next]_vars
    PROVE  \/ Aside
           \/ AllLeave
           \/ \E w \in Workers : OneLeaves(w) \/ Claims(w) \/ Works(w)
<1> USE DropAssumption, WorkerAssumption DEF dbVars, rulerVars, history
<1>a. /\ pc \in [Workers -> RulerStates \cup RequestStates]
      /\ job \in [Workers -> Drops \cup {NoDrop}]
      /\ blk \in [Workers -> 0 .. MaxBlocks]
      /\ claims \in [Drops -> [Days -> Nat]]
  BY DEF ClaimInv, TypeInv, TypeOK
<1>b. ASSUME NEW w \in Workers, Return(w)
      PROVE  /\ pc'[w] \in {"next", "idle"}
             /\ \A u \in Workers : u # w => Same(u)
  BY <1>a, <1>b DEF Return, Same
<1>c. ASSUME NEW w \in Workers, NEW state, Go(w, state), \A u \in Workers : u # w => job'[u] = job[u] /\ blk'[u] = blk[u]
      PROVE  /\ pc'[w] = state
             /\ \A u \in Workers : u # w => Same(u)
  BY <1>a, <1>c DEF Go, Same
<1>d. ASSUME NEW w \in Workers, \A u \in Workers : u # w => Same(u), pc[w] \notin AtWork, pc'[w] \notin AtWork,
             UNCHANGED <<meta, claims, deleted>>, lastsent' = lastsent \/ pc[Ruler] = "stamp"
      PROVE  Aside
  BY <1>d DEF Aside
<1>1. ASSUME NEW r \in Requests, NEW e \in Drops, SendMailing(r, e) \/ ServiceSendMailing(r, e) \/ CancelCheck(r, e)
      PROVE  Aside
  BY <1>a, <1>1 DEF SendMailing, ServiceSendMailing, CancelCheck, Begin, Go, Aside, Same, AtWork
<1>2. ASSUME \/ \E r \in Requests, m \in Mailings : DeactivateMailing(r, m)
             \/ \E m \in Mailings : DeleteMailing(m)
             \/ Tick
             \/ UNCHANGED vars
      PROVE  Aside
  BY <1>2 DEF DeactivateMailing, DeleteMailing, Tick, vars, Aside, Same
<1>3. ASSUME NEW r \in Requests, SaveDrop(r) \/ CancelDelete(r) PROVE Aside
  BY <1>a, <1>3 DEF SaveDrop, CancelDelete, Return, Go, Aside, Same, AtWork
<1>4. ASSUME KickOff \/ KickOffDelayed PROVE Aside
  BY <1>a, <1>4 DEF KickOff, KickOffDelayed, StartKickOff, Go, Aside, Same, AtWork
<1>5. ASSUME NEW e \in Drops, RuleCheck(e) \/ DelayedCheck(e) PROVE Aside
  <2>1. PICK state \in {"next", "stamp", "release"} : TakeNext(e, state)
    BY <1>5 DEF RuleCheck, DelayedCheck
  <2>2. pc[Ruler] = "next" /\ UNCHANGED <<meta, claims>>
    BY <1>5, <2>1 DEF RuleCheck, DelayedCheck, TakeNext
  <2> QED BY <1>a, <2>1, <2>2 DEF TakeNext, Go, Aside, Same, AtWork
<1>6. ASSUME RulerDone \/ RuleStamp \/ Release PROVE Aside
  BY <1>a, <1>6 DEF RulerDone, RuleStamp, Release, Go, Aside, Same, AtWork
<1>7. ASSUME Destroy PROVE Works(Ruler)
  BY <1>a, <1>7 DEF Destroy, Return, MailgunUnchanged, Works, Others, Same
<1>8. ASSUME NEW w \in Workers, Mailgun(w) PROVE Aside \/ OneLeaves(w) \/ Claims(w) \/ Works(w)
  <2> USE DEF MailgunUnchanged
  <2>1. pc[w] \in MailgunStates /\ job[w] \in Drops
    BY <1>a, <1>8 DEF Mailgun, ReadState, Claim, SanityCheck, StartBlock, EndBlock, Finish,
                      UpdateState, MailgunStates, Generating, ClaimInv, TypeInv, JobOK
  <2>2. CASE ReadState(w) \/ UpdateState(w)
    BY <1>a, <2>2 DEF ReadState, UpdateState, Return, Go, Aside, Same, AtWork
  <2>3. CASE Claim(w)
    <3>1. CASE gen[job[w]] # "now"
      BY <1>a, <2>3, <3>1 DEF Claim, Return, Aside, Same, AtWork
    <3>2. CASE gen[job[w]] = "now"
      <4>1. Run(job[w]) \in Days /\ Unclaimed(job[w], Run(job[w]))
        BY <2>1, <2>3, <3>2, BoundAssumption
           DEF Claim, Run, ClaimInv, OfferedOnce, KindOK, ListedUnclaimed, MailgunStates,
               TypeInv, TypeOK
      <4>2. claims' = [claims EXCEPT ![job[w]][Run(job[w])] = @ + 1] /\ pc[w] = "claim"
            /\ Go(w, "init") /\ UNCHANGED <<job, blk, meta, lastsent, deleted>>
        BY <2>3, <3>2 DEF Claim
      <4>3. \A d \in Drops, t \in Days :
              claims'[d][t] = IF d = job[w] /\ t = Run(d) THEN 1 ELSE claims[d][t]
        <5>1. claims[job[w]][Run(job[w])] + 1 = 1
          BY <4>1 DEF Unclaimed
        <5>2. TAKE d \in Drops, t \in Days
        <5> QED BY <1>a, <2>1, <4>1, <4>2, <5>1
      <4>4. KindOf[job[w]] = "R" => w = Ruler
        BY <2>1 DEF ClaimInv, KindOK
      <4>5. pc'[w] = "init" /\ \A u \in Workers : u # w => Same(u)
        BY <1>c, <4>2
      <4> QED BY <4>1, <4>2, <4>3, <4>4, <4>5 DEF Claims, Others, Unclaimed
    <3> QED BY <3>1, <3>2
  <2>4. CASE SanityCheck(w)
    <3>1. UNCHANGED <<meta, claims, lastsent, deleted>> /\ pc[w] = "init"
      BY <2>4 DEF SanityCheck
    <3>2. CASE Return(w)
      BY <1>b, <3>1, <3>2 DEF OneLeaves, Others, AtWork
    <3>3. ASSUME NEW state \in {"write", "destroy"}, Go(w, state), UNCHANGED <<job, blk>>, state = "destroy" => w = Ruler
          PROVE  Works(w)
      BY <1>c, <3>1, <3>3 DEF Works, Others
    <3> QED BY <2>4, <3>2, <3>3 DEF SanityCheck, Abort, Go
  <2>5. CASE StartBlock(w)
    <3>1. blk'[w] = blk[w] + 1 /\ \A u \in Workers : u # w => blk'[u] = blk[u]
      BY <1>a, <2>5 DEF StartBlock
    <3>2. pc'[w] = "open" /\ \A u \in Workers : u # w => Same(u)
      BY <1>c, <2>5, <3>1 DEF StartBlock
    <3> QED BY <2>5, <3>1, <3>2 DEF StartBlock, Works, Others
  <2>6. CASE EndBlock(w)
    <3>1. pc'[w] = "write" /\ \A u \in Workers : u # w => Same(u)
      BY <1>c, <2>6 DEF EndBlock
    <3> QED BY <2>6, <3>1 DEF EndBlock, Works, Others
  <2>7. CASE Finish(w)
    <3>1. pc'[w] = "update" /\ \A u \in Workers : u # w => Same(u)
      BY <1>c, <2>7 DEF Finish
    <3> QED BY <2>7, <3>1 DEF Finish, Works, Others
  <2> QED BY <1>8, <2>2, <2>3, <2>4, <2>5, <2>6, <2>7 DEF Mailgun
<1>9. ASSUME NEW w \in Workers, Fault(w) PROVE Aside \/ OneLeaves(w) \/ Works(w)
  <2>1. UNCHANGED <<meta, claims, lastsent, deleted>>
    BY <1>9 DEF Fault
  <2>2. CASE Return(w)
    BY <1>b, <1>d, <2>1, <2>2 DEF OneLeaves, Others, AtWork
  <2>3. CASE pc[w] \in {"init", "write", "open"} /\ w = Ruler /\ Abort(w)
    <3>1. pc'[w] = "destroy" /\ \A u \in Workers : u # w => Same(u)
      BY <1>c, <2>3 DEF Abort, Go
    <3> QED BY <2>1, <2>3, <3>1 DEF Abort, Works, Others
  <2>4. CASE w = Ruler /\ pc[w] = "next" /\ Go(w, "idle") /\ UNCHANGED <<job, blk>>
    BY <1>c, <1>d, <2>1, <2>4 DEF AtWork
  <2> QED BY <1>9, <2>2, <2>3, <2>4 DEF Fault, Abort
<1>10. ASSUME Crash PROVE AllLeave
  BY <1>10 DEF Crash, AllLeave, AtWork
<1> QED
  BY <1>1, <1>2, <1>3, <1>4, <1>5, <1>6, <1>7, <1>8, <1>9, <1>10 DEF Next, UserStep, RequestStep, RulerStep

(* Only a worker that has opened a block has a number of blocks.           *)
BlocksInv == \A w \in Workers : pc[w] \notin WithBlocks => blk[w] = 0

\* A worker that begins with a row or is done with it has no blocks.
LEMMA BlocksInvStep == TypeInv /\ BlocksInv /\ [Next]_vars => BlocksInv'
<1> SUFFICES ASSUME TypeInv, BlocksInv, [Next]_vars PROVE BlocksInv'
  OBVIOUS
<1> USE WorkerAssumption DEF BlocksInv, WithBlocks
<1>a. /\ pc \in [Workers -> RulerStates \cup RequestStates]
      /\ blk \in [Workers -> 0 .. MaxBlocks]
  BY DEF TypeInv, TypeOK
<1>b. ASSUME NEW w \in Workers, Return(w) PROVE BlocksInv'
  BY <1>a, <1>b DEF Return
<1>c. ASSUME NEW w \in Workers, NEW state, Go(w, state), blk' = blk,
             pc[w] \notin WithBlocks \/ state \in WithBlocks
      PROVE  BlocksInv'
  BY <1>a, <1>c DEF Go
<1>1. CASE UserStep \/ Tick \/ UNCHANGED vars
  BY <1>c, <1>1 DEF UserStep, SendMailing, ServiceSendMailing, CancelCheck, Begin, DeactivateMailing,
                    DeleteMailing, Tick, vars
<1>2. ASSUME NEW r \in Requests, SaveDrop(r) \/ CancelDelete(r) PROVE BlocksInv'
  BY <1>b, <1>c, <1>2 DEF SaveDrop, CancelDelete
<1>3. CASE KickOff \/ KickOffDelayed
  BY <1>c, <1>3 DEF KickOff, KickOffDelayed, StartKickOff
<1>4. ASSUME NEW e \in Drops, RuleCheck(e) \/ DelayedCheck(e) PROVE BlocksInv'
  BY <1>c, <1>4 DEF RuleCheck, DelayedCheck, TakeNext
<1>5. CASE RulerDone \/ RuleStamp \/ Release
  BY <1>c, <1>5 DEF RulerDone, RuleStamp, Release
<1>6. CASE Destroy
  BY <1>b, <1>6 DEF Destroy
<1>7. ASSUME NEW w \in Workers, Mailgun(w) PROVE BlocksInv'
  <2>1. CASE ReadState(w) \/ Claim(w) \/ SanityCheck(w) \/ UpdateState(w)
    BY <1>b, <1>c, <2>1 DEF ReadState, Claim, SanityCheck, UpdateState, Abort, Go
  <2>2. CASE StartBlock(w)
    BY <1>a, <2>2 DEF StartBlock, Go
  <2>3. CASE EndBlock(w) \/ Finish(w)
    BY <1>c, <2>3 DEF EndBlock, Finish
  <2> QED BY <1>7, <2>1, <2>2, <2>3 DEF Mailgun
<1>8. ASSUME NEW w \in Workers, Fault(w) PROVE BlocksInv'
  BY <1>b, <1>c, <1>8 DEF Fault, Abort, Go
<1>9. CASE Crash
  BY <1>9 DEF Crash
<1> QED
  BY <1>1, <1>2, <1>3, <1>4, <1>5, <1>6, <1>7, <1>8, <1>9 DEF Next, RequestStep, RulerStep

(* Who writes files has claimed the row for this day, and nobody else      *)
(* writes files of the row.                                                *)
WorkerInv ==
    /\ BlocksInv
    /\ \A w \in Workers : pc[w] \in AtWork => claims[job[w]][Run(job[w])] > 0
    /\ \A u, w \in Workers : u # w /\ pc[u] \in AtWork /\ pc[w] \in AtWork => job[u] # job[w]

\* Nobody is at work in the beginning.
LEMMA InitWorkerInv == Init => WorkerInv
BY DEF Init, WorkerInv, BlocksInv, AtWork

\* The rows of workers, and the days that a worker's files bear.
LEMMA AtWorkFacts ==
    ASSUME ClaimInv, NEW w \in Workers, pc[w] \in AtWork
    PROVE  /\ job[w] \in Drops
           /\ Run(job[w]) \in Days
           /\ KindOf[job[w]] = "R" => w = Ruler
           /\ blk[w] \in Nat /\ blk[w] \in 0 .. MaxBlocks
<1>1. TypeInv
  BY DEF ClaimInv
<1>2. job[w] \in Drops
  BY <1>1 DEF TypeInv, JobOK, AtWork
<1>3. Run(job[w]) \in Days
  BY <1>1, <1>2, DropAssumption, BoundAssumption DEF Run, TypeInv, TypeOK
<1>4. KindOf[job[w]] = "R" => w = Ruler
  <2>1. CASE w \in Requests
    <3>1. pc[w] \in RequestStates
      BY <1>1, <2>1 DEF TypeInv, TypeOK
    <3>2. pc[w] \in MailgunStates
      BY <3>1 DEF RequestStates, MailgunStates, Generating, AtWork
    <3> QED BY <2>1, <3>2 DEF ClaimInv, KindOK
  <2> QED BY <2>1
<1>5. blk[w] \in 0 .. MaxBlocks /\ blk[w] \in Nat
  BY <1>1, BoundAssumption DEF TypeInv, TypeOK
<1> QED BY <1>2, <1>3, <1>4, <1>5

\* The day does not change under a worker.
LEMMA SameRun ==
    ASSUME ClaimInv, lastsent' = lastsent \/ pc[Ruler] = "stamp",
           NEW w \in Workers, pc[w] \in AtWork, NEW d \in Drops, d = job[w]
    PROVE  Run(d)' = Run(d)
<1>1. KindOf[d] = "R" => w = Ruler
  BY AtWorkFacts
<1> QED BY <1>1 DEF Run, AtWork

\* A generation is begun by nobody as long as somebody is at work on the row.
LEMMA WorkerInvStep == ClaimInv /\ WorkerInv /\ [Next]_vars => WorkerInv'
<1> SUFFICES ASSUME ClaimInv, WorkerInv, [Next]_vars PROVE WorkerInv'
  OBVIOUS
<1> DEFINE Claimed == \A w \in Workers : pc[w] \in AtWork => claims[job[w]][Run(job[w])] > 0
           Alone == \A u, w \in Workers : u # w /\ pc[u] \in AtWork /\ pc[w] \in AtWork => job[u] # job[w]
<1>1. BlocksInv'
  BY BlocksInvStep DEF ClaimInv, WorkerInv
<1>2. Claimed /\ Alone
  BY DEF WorkerInv
<1>3. ASSUME NEW w \in Workers, pc[w] \in AtWork, Same(w), lastsent' = lastsent \/ pc[Ruler] = "stamp",
             claims[job[w]][Run(job[w])] > 0 => claims'[job[w]][Run(job[w])] > 0
      PROVE  claims'[job'[w]][Run(job[w])'] > 0
  <2>1. job'[w] = job[w] /\ job[w] \in Drops
    BY <1>3, AtWorkFacts DEF Same
  <2>2. Run(job[w])' = Run(job[w])
    <3>1. \A d \in Drops : d = job[w] => Run(d)' = Run(d)
      BY <1>3, SameRun
    <3> QED BY <2>1, <3>1 DEF Run
  <2> QED BY <1>2, <1>3, <2>1, <2>2
<1>4. CASE Aside
  <2>1. \A w \in Workers : pc'[w] \in AtWork => pc[w] \in AtWork /\ Same(w) /\ job'[w] = job[w]
    BY <1>4 DEF Aside, Same
  <2>2. Claimed'
    BY <1>3, <1>4, <2>1 DEF Aside
  <2>3. Alone'
    BY <1>2, <2>1
  <2> QED BY <1>1, <2>2, <2>3 DEF WorkerInv
<1>5. CASE AllLeave
  BY <1>1, <1>5 DEF AllLeave, WorkerInv
<1>6. ASSUME NEW w \in Workers, OneLeaves(w) \/ Works(w) PROVE WorkerInv'
  <2>1. /\ UNCHANGED <<claims, lastsent>>
        /\ \A u \in Workers : u # w => Same(u)
        /\ pc'[w] \in AtWork => pc[w] \in AtWork /\ job'[w] = job[w]
    BY <1>6 DEF OneLeaves, Works, Others, AtWork
  <2>2. \A u \in Workers : pc'[u] \in AtWork => pc[u] \in AtWork /\ job'[u] = job[u]
    BY <2>1 DEF Same
  <2>3. Claimed'
    <3> SUFFICES ASSUME NEW u \in Workers, pc'[u] \in AtWork PROVE claims'[job'[u]][Run(job[u])'] > 0
      BY DEF AtWork
    <3> QED BY <1>2, <2>1, <2>2 DEF Run
  <2>4. Alone'
    BY <1>2, <2>2
  <2> QED BY <1>1, <2>3, <2>4 DEF WorkerInv
<1>7. ASSUME NEW w \in Workers, Claims(w) PROVE WorkerInv'
  <2>1. /\ lastsent' = lastsent /\ pc[w] = "claim" /\ job'[w] = job[w]
        /\ claims[job[w]][Run(job[w])] = 0
        /\ \A u \in Workers : u # w => Same(u)
        /\ \A d \in Drops, t \in Days : claims'[d][t] = IF d = job[w] /\ t = Run(d) THEN 1 ELSE claims[d][t]
    BY <1>7 DEF Claims, Others
  <2>2. job[w] \in Drops /\ Run(job[w]) \in Days
    <3>1. TypeInv
      BY DEF ClaimInv
    <3>2. job[w] \in Drops
      BY <2>1, <3>1 DEF TypeInv, JobOK
    <3> QED BY <3>1, <3>2, DropAssumption, BoundAssumption DEF Run, TypeInv, TypeOK
  <2>3. \A u \in Workers : u # w /\ pc'[u] \in AtWork =>
           /\ pc[u] \in AtWork /\ job'[u] = job[u] /\ job[u] # job[w]
           /\ job[u] \in Drops /\ Run(job[u]) \in Days
    BY <1>2, <2>1, AtWorkFacts DEF Same
  <2>4. Claimed'
    <3> SUFFICES ASSUME NEW u \in Workers, pc'[u] \in AtWork PROVE claims'[job'[u]][Run(job[u])'] > 0
      BY DEF AtWork
    <3> QED BY <1>2, <2>1, <2>2, <2>3 DEF Run
  <2>5. Alone'
    BY <1>2, <2>1, <2>3
  <2> QED BY <1>1, <2>4, <2>5 DEF WorkerInv
<1> QED BY <1>4, <1>5, <1>6, <1>7, WorkSteps

----------------------------------------------------------------------------
(* A final file vouches for the blocks of its generation.  While the       *)
(* generation goes on, every block but the open one is complete; nothing   *)
(* but a clean up takes these files away, and this is the Ruler's, after a *)
(* row that is not a test mailing and that it has claimed.                 *)

RulerKind == pc[Ruler] \notin {"idle", "next"} => KindOf[job[Ruler]] # "T"

\* The Ruler takes its rows from its lists.
LEMMA RulerKindStep == ClaimInv /\ RulerKind /\ [Next]_vars => RulerKind'
<1> SUFFICES ASSUME ClaimInv, RulerKind, [Next]_vars PROVE RulerKind'
  OBVIOUS
<1> USE WorkerAssumption DEF RulerKind, dbVars, rulerVars, history
<1>a. /\ pc \in [Workers -> RulerStates \cup RequestStates]
      /\ job \in [Workers -> Drops \cup {NoDrop}]
      /\ \A d \in todo : KindOf[d] \in {"R", "W"}
  BY DEF ClaimInv, TypeInv, TypeOK, KindOK
<1>b. ASSUME NEW r \in Requests, Return(r) \/ \E state : Go(r, state) /\ job' = job PROVE RulerKind'
  BY <1>a, <1>b DEF Return, Go
<1>c. ASSUME Return(Ruler) PROVE RulerKind'
  BY <1>a, <1>c DEF Return
<1>d. ASSUME NEW state, Go(Ruler, state), job' = job, pc[Ruler] \notin {"idle", "next"} \/ state \in {"idle", "next"}
      PROVE  RulerKind'
  BY <1>a, <1>d DEF Go
<1>1. ASSUME NEW r \in Requests, NEW e \in Drops, SendMailing(r, e) \/ ServiceSendMailing(r, e) \/ CancelCheck(r, e)
      PROVE  RulerKind'
  BY <1>a, <1>1 DEF SendMailing, ServiceSendMailing, CancelCheck, Begin, Go
<1>2. ASSUME \/ \E r \in Requests, m \in Mailings : DeactivateMailing(r, m)
             \/ \E m \in Mailings : DeleteMailing(m)
             \/ Tick
             \/ UNCHANGED vars
      PROVE  RulerKind'
  BY <1>2 DEF DeactivateMailing, DeleteMailing, Tick, vars
<1>3. ASSUME NEW r \in Requests, SaveDrop(r) \/ CancelDelete(r) PROVE RulerKind'
  BY <1>b, <1>3 DEF SaveDrop, CancelDelete
<1>4. CASE KickOff \/ KickOffDelayed
  BY <1>d, <1>4 DEF KickOff, KickOffDelayed, StartKickOff
<1>5. ASSUME NEW e \in Drops, RuleCheck(e) \/ DelayedCheck(e) PROVE RulerKind'
  <2>1. PICK state \in {"next", "stamp", "release"} : TakeNext(e, state)
    BY <1>5 DEF RuleCheck, DelayedCheck
  <2> QED BY <1>a, <2>1 DEF TakeNext, Go
<1>6. CASE RulerDone \/ RuleStamp \/ Release
  BY <1>d, <1>6 DEF RulerDone, RuleStamp, Release
<1>7. CASE Destroy
  BY <1>c, <1>7 DEF Destroy
<1>8. ASSUME NEW w \in Workers, Mailgun(w) PROVE RulerKind'
  <2>1. Return(w) \/ \E state : Go(w, state) /\ job' = job
    BY <1>8 DEF Mailgun, ReadState, Claim, SanityCheck, StartBlock, EndBlock, Finish, UpdateState, Abort, Go
  <2>2. pc[w] \notin {"idle", "next"}
    BY <1>8 DEF Mailgun, ReadState, Claim, SanityCheck, StartBlock, EndBlock, Finish, UpdateState
  <2> QED BY <1>b, <1>c, <1>d, <2>1, <2>2
<1>9. ASSUME NEW w \in Workers, Fault(w) PROVE RulerKind'
  BY <1>b, <1>c, <1>d, <1>9 DEF Fault, Abort, Go
<1>10. CASE Crash
  BY <1>10 DEF Crash
<1> QED
  BY <1>1, <1>2, <1>3, <1>4, <1>5, <1>6, <1>7, <1>8, <1>9, <1>10 DEF Next, UserStep, RequestStep, RulerStep

\* What failed has failed, and a mailing that was deleted stays so.
LEMMA MishapsStay ==
    ASSUME ClaimInv, [Next]_vars
    PROVE  /\ failures' = failures \/ failures' = failures + 1
           /\ failures \in Nat
           /\ deleted \subseteq deleted'
<1>1. failures' = failures \/ failures' = failures + 1
  BY DEF Next, UserStep, SendMailing, ServiceSendMailing, CancelCheck, Begin, DeactivateMailing, DeleteMailing,
         RequestStep, SaveDrop, CancelDelete, Mailgun, ReadState, Claim, SanityCheck, StartBlock, EndBlock,
         Finish, UpdateState, MailgunUnchanged, KickOff, KickOffDelayed, StartKickOff, RulerStep, RuleCheck,
         DelayedCheck, RuleStamp, Release, RulerDone, Destroy, Fault, Crash, Fails, Tick, vars
<1>2. failures \in Nat
  BY BoundAssumption DEF ClaimInv, TypeInv, TypeOK
<1>3. deleted \subseteq deleted'
  BY WorkSteps DEF Aside, AllLeave, OneLeaves, Claims, Works, Others
<1> QED BY <1>1, <1>2, <1>3

\* The Ruler cleans up for a reason.
Cause == pc[Ruler] = "destroy" => failures > 0 \/ Deleted(job[Ruler])

\* Only an exception leads to the clean up: a failure, or the check of the mailing.
LEMMA CauseStep == ClaimInv /\ Cause /\ [Next]_vars => Cause'
<1> SUFFICES ASSUME ClaimInv, Cause, [Next]_vars, pc'[Ruler] = "destroy" PROVE failures' > 0 \/ Deleted(job[Ruler])'
  BY DEF Cause
<1> USE WorkerAssumption DEF dbVars, rulerVars, history
<1>a. /\ pc \in [Workers -> RulerStates \cup RequestStates]
      /\ job \in [Workers -> Drops \cup {NoDrop}]
  BY DEF ClaimInv, TypeInv, TypeOK
<1>b. /\ failures' = failures \/ failures' = failures + 1
      /\ failures \in Nat
      /\ deleted \subseteq deleted'
  BY MishapsStay
<1>c. CASE pc[Ruler] = "destroy" /\ job'[Ruler] = job[Ruler]
  BY <1>b, <1>c DEF Cause, Deleted
<1>d. CASE failures' = failures + 1
  BY <1>b, <1>d
<1>1. CASE \E r \in Requests, e \in Drops : SendMailing(r, e) \/ ServiceSendMailing(r, e) \/ CancelCheck(r, e)
  BY <1>a, <1>c, <1>1 DEF SendMailing, ServiceSendMailing, CancelCheck, Begin, Go
<1>2. CASE \/ \E r \in Requests, m \in Mailings : DeactivateMailing(r, m)
           \/ \E m \in Mailings : DeleteMailing(m)
           \/ Tick
           \/ UNCHANGED vars
  BY <1>c, <1>2 DEF DeactivateMailing, DeleteMailing, Tick, vars
<1>3. CASE \E r \in Requests : SaveDrop(r) \/ CancelDelete(r)
  BY <1>a, <1>c, <1>3 DEF SaveDrop, CancelDelete, Return, Go
<1>4. CASE KickOff \/ KickOffDelayed
  BY <1>a, <1>4 DEF KickOff, KickOffDelayed, StartKickOff, Go
<1>5. ASSUME NEW e \in Drops, RuleCheck(e) \/ DelayedCheck(e) PROVE FALSE
  <2>1. PICK state \in {"next", "stamp", "release"} : TakeNext(e, state)
    BY <1>5 DEF RuleCheck, DelayedCheck
  <2> QED BY <1>a, <2>1 DEF TakeNext, Go
<1>6. CASE RulerDone \/ RuleStamp \/ Release
  BY <1>a, <1>6 DEF RulerDone, RuleStamp, Release, Go
<1>7. CASE Destroy
  BY <1>a, <1>7 DEF Destroy, Return
<1>8. CASE Mailgun(Ruler)
  <2>1. CASE SanityCheck(Ruler)
    <3>1. Deleted(job[Ruler]) /\ job' = job /\ deleted' = deleted
      BY <1>a, <2>1 DEF SanityCheck, Go, Abort, MailgunUnchanged
    <3> QED BY <3>1 DEF Deleted
  <2>2. CASE ~SanityCheck(Ruler)
    BY <1>a, <1>8, <2>2 DEF Mailgun, ReadState, Claim, StartBlock, EndBlock, Finish, UpdateState, Return, Go
  <2> QED BY <2>1, <2>2
<1>9. CASE \E r \in Requests : Mailgun(r)
  BY <1>a, <1>c, <1>9 DEF Mailgun, ReadState, Claim, SanityCheck, StartBlock, EndBlock, Finish, UpdateState,
                          Abort, Return, Go
<1>10. CASE Crash \/ \E w \in Workers : Fault(w)
  BY <1>d, <1>10 DEF Crash, Fault, Fails
<1> QED
  BY <1>1, <1>2, <1>3, <1>4, <1>5, <1>6, <1>7, <1>8, <1>9, <1>10 DEF Next, UserStep, RequestStep, RulerStep, Workers

\* The blocks of a generation that goes on.
Written(w) ==
    KindOf[job[w]] # "T" /\ ~Shared(job[w]) =>
        \A n \in 1 .. blk[w] :
            /\ FileOf(job[w], n, "xml") \in meta
            /\ FileOf(job[w], n, "stamp") \in meta \/ (pc[w] = "open" /\ n = blk[w])

\* A file of the generation that f belongs to.
Part(f, n, e) == [f EXCEPT !.nr = n, !.ext = e]

PartsThere ==
    \A f \in meta : f.ext = "final" /\ ~Shared(f.drop) =>
        \A n \in 1 .. f.nr, e \in {"xml", "stamp"} : Part(f, n, e) \in meta

\* FinalComplete in terms of files that are written out.
LEMMA Parts ==
    /\ FinalComplete <=> PartsThere
    /\ \A f \in File, n \in Nat, e \in {"xml", "stamp", "final"} :
         Part(f, n, e) = [drop |-> f.drop, run |-> f.run, nr |-> n, ext |-> e]
<1>1. FinalComplete <=> PartsThere
  BY Zenon DEF FinalComplete, PartsThere, Part
<1>2. ASSUME NEW f \in File, NEW n \in Nat, NEW e \in {"xml", "stamp", "final"}
      PROVE  Part(f, n, e) = [drop |-> f.drop, run |-> f.run, nr |-> n, ext |-> e]
  <2> DEFINE g == [f EXCEPT !.nr = n]
  <2>1. g = [drop |-> f.drop, run |-> f.run, nr |-> n, ext |-> f.ext]
    BY DEF File
  <2>2. Part(f, n, e) = [g EXCEPT !.ext = e]
    BY Zenon DEF Part
  <2> HIDE DEF g
  <2>3. [g EXCEPT !.ext = e] = [drop |-> f.drop, run |-> f.run, nr |-> n, ext |-> e]
    BY <2>1
  <2> QED BY <2>2, <2>3
<1> QED BY <1>1, <1>2

FilesInv ==
    /\ RulerKind
    /\ Cause
    /\ \A f \in meta : f.ext = "final" => KindOf[f.drop] # "T"
    /\ \A w \in Workers : pc[w] \in {"write", "open"} => Written(w)
    /\ PartsThere

\* A row that was generated was generated for ever.
LEMMA SharedStays ==
    ASSUME ClaimInv, [Next]_vars, NEW d \in Drops, Shared(d)
    PROVE  Shared(d)'
<1>1. \A e \in Drops, t \in Days : claims[e][t] > 0 => claims'[e][t] > 0
  BY WorkSteps DEF Aside, AllLeave, OneLeaves, Claims, Works
<1>2. failures > 0 \/ Deleted(d) => failures' > 0 \/ Deleted(d)'
  BY MishapsStay DEF Deleted
<1> QED BY <1>1, <1>2 DEF Shared

\* Every step keeps FilesInv.
LEMMA FilesInvStep == ClaimInv /\ WorkerInv /\ FilesInv /\ [Next]_vars => FilesInv'
<1> SUFFICES ASSUME ClaimInv, WorkerInv, FilesInv, [Next]_vars PROVE FilesInv'
  OBVIOUS
<1> USE DropAssumption, WorkerAssumption
<1> DEFINE Finals == \A f \in meta : f.ext = "final" => KindOf[f.drop] # "T"
           Blocks == \A w \in Workers : pc[w] \in {"write", "open"} => Written(w)
<1>1. RulerKind' /\ Cause'
  BY RulerKindStep, CauseStep DEF FilesInv
<1>2. Finals /\ Blocks /\ PartsThere
  BY DEF FilesInv
<1>3. meta \subseteq File /\ \A f \in File : f.drop \in Drops /\ f.nr \in Nat /\ f.run \in Days
  BY BoundAssumption DEF ClaimInv, TypeInv, TypeOK, File
<1>4. \A d \in Drops : ~Shared(d)' => ~Shared(d)
  BY SharedStays
<1>5. ASSUME meta \subseteq meta', \A f \in meta' \ meta : f.ext # "final" PROVE Finals' /\ PartsThere'
  <2>1. Finals'
    BY <1>2, <1>5
  <2>2. ASSUME NEW f \in meta', f.ext = "final", ~Shared(f.drop)', NEW n \in 1 .. f.nr, NEW e \in {"xml", "stamp"}
        PROVE  Part(f, n, e) \in meta'
    <3>1. f \in meta /\ f.drop \in Drops
      BY <1>3, <1>5, <2>2
    <3>2. ~Shared(f.drop)
      BY <1>4, <2>2, <3>1
    <3> QED BY <1>2, <1>5, <2>2, <3>1, <3>2 DEF PartsThere
  <2> QED BY <2>1, <2>2 DEF PartsThere
<1>6. ASSUME NEW w \in Workers, Same(w), pc'[w] \in {"write", "open"}, lastsent' = lastsent \/ pc[Ruler] = "stamp",
             \A f \in meta \ meta' : MailingOf[f.drop] # MailingOf[job[w]] \/ (f.drop # job[w] /\ KindOf[f.drop] = "T")
      PROVE  Written(w)'
  <2>1. pc[w] \in {"write", "open"} /\ pc[w] \in AtWork /\ job'[w] = job[w] /\ blk'[w] = blk[w] /\ pc'[w] = pc[w]
    BY <1>6 DEF Same, AtWork
  <2>2. job[w] \in Drops /\ Written(w)
    BY <1>2, <2>1, AtWorkFacts
  <2>3. \A d \in Drops : d = job[w] => Run(d)' = Run(d)
    BY <1>6, <2>1, SameRun
  <2>4. \A d \in Drops, n \in 1 .. blk[w], e \in {"xml", "stamp"} :
          d = job[w] => FileOf(d, n, e)' = FileOf(d, n, e) /\ FileOf(d, n, e).drop = d
    BY <2>3 DEF FileOf
  <2>5. ASSUME KindOf[job[w]] # "T", ~Shared(job[w]), NEW n \in 1 .. blk[w]
        PROVE  /\ FileOf(job[w], n, "xml") \in meta'
               /\ FileOf(job[w], n, "stamp") \in meta' \/ (pc[w] = "open" /\ n = blk[w])
    BY <1>6, <2>2, <2>4, <2>5 DEF Written
  <2> SUFFICES ASSUME NEW d \in Drops, d = job[w], KindOf[d] # "T", ~Shared(d)', NEW n \in 1 .. blk[w]
               PROVE  /\ FileOf(d, n, "xml")' \in meta'
                      /\ FileOf(d, n, "stamp")' \in meta' \/ (pc[w] = "open" /\ n = blk[w])
    BY <2>1, <2>2 DEF Written, Shared, Deleted, FileOf, Run
  <2> QED BY <1>4, <2>4, <2>5
<1>7. CASE Aside
  <2>1. meta' = meta /\ \A w \in Workers : pc'[w] \in {"write", "open"} => Same(w)
    BY <1>7 DEF Aside, AtWork
  <2>2. Blocks'
    BY <1>6, <1>7, <2>1 DEF Aside
  <2> QED BY <1>1, <1>5, <2>1, <2>2 DEF FilesInv
<1>8. CASE AllLeave
  <2>1. meta' = meta /\ \A w \in Workers : pc'[w] \notin {"write", "open"}
    BY <1>8 DEF AllLeave, AtWork
  <2> QED BY <1>1, <1>5, <2>1 DEF FilesInv
<1>9. ASSUME NEW w \in Workers, OneLeaves(w) \/ Claims(w) PROVE FilesInv'
  <2>1. meta' = meta /\ lastsent' = lastsent /\ \A u \in Workers : pc'[u] \in {"write", "open"} => Same(u)
    BY <1>9 DEF OneLeaves, Claims, Others, AtWork
  <2>2. Blocks'
    BY <1>6, <2>1
  <2> QED BY <1>1, <1>5, <2>1, <2>2 DEF FilesInv
<1>10. ASSUME NEW w \in Workers, Works(w), NEW d \in Drops, d = job[w], NEW n \in Nat, n = blk[w]
       PROVE  FilesInv'
  <2>1. lastsent' = lastsent /\ pc[w] \in AtWork /\ \A u \in Workers : u # w => Same(u)
    BY <1>10 DEF Works, Others, AtWork
  <2>2. Run(d) \in Days /\ \A u \in Workers : u # w /\ pc[u] \in AtWork => job[u] # d
    BY <1>10, <2>1, AtWorkFacts DEF WorkerInv
  <2>3. \A k, e : FileOf(d, k, e)' = FileOf(d, k, e) /\ FileOf(d, k, e) = [drop |-> d, run |-> Run(d), nr |-> k, ext |-> e]
    BY <2>1 DEF FileOf, Run
  <2>4. ASSUME meta \subseteq meta' PROVE \A u \in Workers : u # w /\ pc'[u] \in {"write", "open"} => Written(u)'
    BY <1>6, <2>1, <2>4
  <2>5. ASSUME \/ pc'[w] \notin {"write", "open"}
               \/ /\ job'[w] = d
                  /\ KindOf[d] # "T" /\ ~Shared(d)' =>
                       \A k \in 1 .. blk'[w] :
                          /\ FileOf(d, k, "xml") \in meta'
                          /\ FileOf(d, k, "stamp") \in meta' \/ (pc'[w] = "open" /\ k = blk'[w])
        PROVE  pc'[w] \in {"write", "open"} => Written(w)'
    BY <2>3, <2>5 DEF Written, Shared, Deleted, FileOf, Run
  <2>6. pc[w] \in {"write", "open"} /\ KindOf[d] # "T" /\ ~Shared(d)' =>
          \A k \in 1 .. n :
             /\ FileOf(d, k, "xml") \in meta
             /\ FileOf(d, k, "stamp") \in meta \/ (pc[w] = "open" /\ k = n)
    BY <1>2, <1>4, <1>10 DEF Written
  <2>7. CASE pc[w] = "init" /\ pc'[w] = "write" /\ job'[w] = d /\ blk'[w] = n /\ UNCHANGED meta
    <3>1. n = 0
      BY <1>10, <2>7 DEF WorkerInv, BlocksInv, WithBlocks
    <3> QED BY <1>1, <1>5, <2>4, <2>5, <2>7, <3>1 DEF FilesInv
  <2>8. CASE pc'[w] = "destroy" /\ UNCHANGED meta
    BY <1>1, <1>5, <2>4, <2>5, <2>8 DEF FilesInv
  <2>9. CASE /\ pc[w] = "write" /\ pc'[w] = "open" /\ job'[w] = d /\ blk'[w] = n + 1
             /\ meta' = meta \cup {FileOf(d, n + 1, "xml")}
    <3>1. FileOf(d, n + 1, "xml").ext # "final"
      BY <2>3
    <3>2. \A k \in 1 .. n + 1 : k \in 1 .. n \/ k = n + 1
      OBVIOUS
    <3>3. pc'[w] \in {"write", "open"} => Written(w)'
      BY <2>5, <2>6, <2>9, <3>2
    <3> QED BY <1>1, <1>5, <2>4, <2>9, <3>1, <3>3 DEF FilesInv
  <2>10. CASE /\ pc[w] = "open" /\ pc'[w] = "write" /\ job'[w] = d /\ blk'[w] = n
              /\ meta' = IF KindOf[d] = "T" THEN meta ELSE meta \cup {FileOf(d, n, "stamp")}
    <3>1. FileOf(d, n, "stamp").ext # "final"
      BY <2>3
    <3>2. pc'[w] \in {"write", "open"} => Written(w)'
      BY <2>5, <2>6, <2>10
    <3> QED BY <1>1, <1>5, <2>4, <2>10, <3>1, <3>2 DEF FilesInv
  <2>11. CASE /\ pc[w] = "write" /\ pc'[w] = "update"
              /\ meta' = CASE KindOf[d] = "T" -> meta \ {FileOf(d, 1, "xml")}
                           [] KindOf[d] # "T" /\ n > 0 -> meta \cup {FileOf(d, n, "final")}
                           [] OTHER -> meta
    <3>1. pc'[w] \in {"write", "open"} => Written(w)'
      BY <2>11
    <3>2. CASE KindOf[d] = "T"
      <4>1. meta' = meta \ {FileOf(d, 1, "xml")} /\ FileOf(d, 1, "xml").drop = d
        BY <2>3, <2>11, <3>2
      <4>2. \A u \in Workers : u # w /\ pc'[u] \in {"write", "open"} => Written(u)'
        <5>1. \A u \in Workers : u # w /\ pc'[u] \in {"write", "open"} => Same(u) /\ job[u] # d
          BY <2>1, <2>2 DEF Same, AtWork
        <5> QED BY <1>6, <2>1, <3>2, <4>1, <5>1
      <4>3. Finals'
        BY <1>2, <4>1
      <4>4. ASSUME NEW f \in meta', f.ext = "final", ~Shared(f.drop)', NEW k \in 1 .. f.nr, NEW e \in {"xml", "stamp"}
            PROVE  Part(f, k, e) \in meta'
        <5>1. f \in meta /\ f.drop \in Drops /\ f \in File
          BY <1>3, <4>1, <4>4
        <5>2. ~Shared(f.drop) /\ f.drop # d
          BY <1>2, <1>4, <3>2, <4>4, <5>1
        <5>3. Part(f, k, e) \in meta
          BY <1>2, <4>4, <5>1, <5>2 DEF PartsThere
        <5>4. Part(f, k, e).drop = f.drop
          BY <5>1, Parts
        <5> QED BY <4>1, <5>2, <5>3, <5>4
      <4> QED BY <1>1, <3>1, <4>2, <4>3, <4>4 DEF FilesInv, PartsThere
    <3>3. CASE KindOf[d] # "T" /\ n > 0
      <4> DEFINE final == FileOf(d, n, "final")
      <4>1. meta' = meta \cup {final} /\ final.drop = d /\ final.nr = n
        BY <2>3, <2>11, <3>3
      <4> HIDE DEF final
      <4>4. final \in File /\ final.run = Run(d)
        <5>1. n \in 1 .. MaxBlocks
          BY <1>10, <2>1, <3>3, AtWorkFacts
        <5> QED BY <2>2, <2>3, <5>1 DEF final, File
      <4>5. \A k \in Nat, e \in {"xml", "stamp"} : Part(final, k, e) = FileOf(d, k, e)
        <5> TAKE k \in Nat, e \in {"xml", "stamp"}
        <5>1. Part(final, k, e) = [drop |-> final.drop, run |-> final.run, nr |-> k, ext |-> e]
          BY <4>4, Parts
        <5>2. FileOf(d, k, e) = [drop |-> d, run |-> Run(d), nr |-> k, ext |-> e]
          BY DEF FileOf
        <5> QED BY <4>1, <4>4, <5>1, <5>2
      <4>2. Finals'
        BY <1>2, <3>3, <4>1
      <4>3. ASSUME NEW f \in meta', f.ext = "final", ~Shared(f.drop)', NEW k \in 1 .. f.nr, NEW e \in {"xml", "stamp"}
            PROVE  Part(f, k, e) \in meta'
        <5>1. CASE f = final
          BY <2>6, <2>11, <3>3, <4>1, <4>3, <4>5, <5>1
        <5>2. CASE f # final
          <6>1. f \in meta /\ f.drop \in Drops
            BY <1>3, <4>1, <4>3, <5>2
          <6>2. ~Shared(f.drop)
            BY <1>4, <4>3, <6>1
          <6> QED BY <1>2, <4>1, <4>3, <6>1, <6>2 DEF PartsThere
        <5> QED BY <5>1, <5>2
      <4> QED BY <1>1, <2>4, <3>1, <4>1, <4>2, <4>3 DEF FilesInv, PartsThere
    <3>4. CASE KindOf[d] # "T" /\ ~(n > 0)
      <4>1. meta' = meta
        BY <2>11, <3>4
      <4> QED BY <1>1, <1>5, <2>4, <3>1, <4>1 DEF FilesInv
    <3> QED BY <3>2, <3>3, <3>4
  <2>12. CASE /\ pc[w] = "destroy" /\ pc'[w] = "next" /\ w = Ruler
              /\ meta' = {f \in meta : MailingOf[f.drop] # MailingOf[d]}
    <3>1. claims[d][Run(d)] > 0 /\ KindOf[d] # "T"
      BY <1>10, <2>1, <2>12 DEF WorkerInv, FilesInv, RulerKind
    <3>2. ASSUME NEW u \in Workers, u # w, pc'[u] \in {"write", "open"} PROVE Written(u)'
      <4>1. Same(u) /\ job'[u] = job[u] /\ job[u] \in Drops /\ job[u] # d
        <5>1. Same(u) /\ pc[u] \in AtWork /\ job'[u] = job[u]
          BY <2>1, <3>2 DEF Same, AtWork
        <5> QED BY <2>2, <3>2, <5>1, AtWorkFacts
      <4>2. CASE MailingOf[job[u]] = MailingOf[d]
        <5>1. Shared(job[u])
          BY <1>10, <2>2, <2>12, <3>1, <4>1, <4>2 DEF Shared, Deleted, FilesInv, Cause
        <5>2. Shared(job[u])'
          <6>1. \A e \in Drops : e = job[u] => Shared(e)'
            BY <5>1, SharedStays
          <6> QED BY <4>1, <6>1 DEF Shared, Deleted
        <5> QED BY <5>2 DEF Written
      <4>3. CASE MailingOf[job[u]] # MailingOf[d]
        BY <1>6, <2>1, <2>12, <3>2, <4>1, <4>3
      <4> QED BY <4>2, <4>3
    <3>3. Finals'
      BY <1>2, <2>12
    <3>4. ASSUME NEW f \in meta', f.ext = "final", ~Shared(f.drop)', NEW k \in 1 .. f.nr, NEW e \in {"xml", "stamp"}
          PROVE  Part(f, k, e) \in meta'
      <4>1. f \in meta /\ f.drop \in Drops /\ f \in File
        BY <1>3, <2>12, <3>4
      <4>2. ~Shared(f.drop)
        BY <1>4, <3>4, <4>1
      <4>3. Part(f, k, e) \in meta
        BY <1>2, <3>4, <4>1, <4>2 DEF PartsThere
      <4>4. Part(f, k, e).drop = f.drop
        BY <4>1, Parts
      <4> QED BY <2>12, <3>4, <4>3, <4>4
    <3> QED BY <1>1, <2>12, <3>2, <3>3, <3>4 DEF FilesInv, PartsThere
  <2> QED BY <1>10, <2>7, <2>8, <2>9, <2>10, <2>11, <2>12 DEF Works
<1>11. ASSUME NEW w \in Workers, Works(w) PROVE job[w] \in Drops /\ blk[w] \in Nat
  BY <1>11, AtWorkFacts DEF Works, AtWork
<1> QED BY <1>7, <1>8, <1>9, <1>10, <1>11, WorkSteps

\* A final file in the spool directory vouches for every block up to its number, whatever fails
\* and whoever is cleaned up after, unless a second row of the mailing was generated as well and
\* something has failed, or the mailing was deleted.
THEOREM FinalVouches == Spec => []FinalComplete
<1>1. Init => ClaimInv /\ WorkerInv
  BY InitClaimInv, InitWorkerInv
<1>2. Init => FilesInv
  BY DEF Init, FilesInv, RulerKind, Cause, PartsThere
<1>3. FilesInv => FinalComplete
  BY Parts DEF FilesInv
<1>4. QED
  BY <1>1, <1>2, <1>3, ClaimInvStep, WorkerInvStep, FilesInvStep, PTL DEF Spec

----------------------------------------------------------------------------
(* Maildrop implements Spool.  What the mapping says of a generation that  *)
(* somebody is at work on, it says of this one worker.                     *)

Stage(state) ==
    CASE state = "destroy" -> "failed"
      [] state = "open" -> "open"
      [] OTHER -> "write"

At(w, d, t) == pc[w] \in AtWork /\ job[w] = d /\ Run(d) = t

Mapped ==
    \A d \in Drops, t \in Days :
        /\ \A w \in Workers : At(w, d, t) => WorkOf(d, t) = [at |-> Stage(pc[w]), nr |-> blk[w]]
        /\ (\A w \in Workers : ~At(w, d, t)) =>
              WorkOf(d, t) = [at |-> IF claims[d][t] = 0 THEN "new" ELSE "over", nr |-> 0]

\* The mapping names the one worker that is at work.
LEMMA Mapping == ClaimInv /\ WorkerInv => Mapped
<1> SUFFICES ASSUME ClaimInv, WorkerInv, NEW d \in Drops, NEW t \in Days
             PROVE  /\ \A w \in Workers : At(w, d, t) => WorkOf(d, t) = [at |-> Stage(pc[w]), nr |-> blk[w]]
                    /\ (\A w \in Workers : ~At(w, d, t)) =>
                          WorkOf(d, t) = [at |-> IF claims[d][t] = 0 THEN "new" ELSE "over", nr |-> 0]
  BY DEF Mapped
<1>1. WritersOf(d, t) = {w \in Workers : At(w, d, t)}
  BY DEF WritersOf, At, AtWork
<1>2. ASSUME NEW w \in Workers, At(w, d, t) PROVE WorkOf(d, t) = [at |-> Stage(pc[w]), nr |-> blk[w]]
  <2>1. claims[d][t] # 0
    <3>1. claims[d][t] > 0
      BY <1>2 DEF WorkerInv, At
    <3>2. claims[d][t] \in Nat
      BY DEF ClaimInv, TypeInv, TypeOK
    <3> QED BY <3>1, <3>2
  <2>2. WritersOf(d, t) = {w}
    BY <1>1, <1>2 DEF WorkerInv, At
  <2>3. (CHOOSE v \in WritersOf(d, t) : TRUE) = w
    BY <2>2
  <2> QED BY <2>1, <2>2, <2>3 DEF WorkOf, Stage
<1>3. ASSUME \A w \in Workers : ~At(w, d, t)
      PROVE  WorkOf(d, t) = [at |-> IF claims[d][t] = 0 THEN "new" ELSE "over", nr |-> 0]
  <2>1. WritersOf(d, t) = {}
    BY <1>1, <1>3
  <2> QED BY <2>1 DEF WorkOf
<1> QED BY <1>2, <1>3

\* A generation stays as it is when those at work on it do, and its claims.
LEMMA MappedSame ==
    ASSUME Mapped, Mapped', NEW d \in Drops, NEW t \in Days, claims'[d][t] = claims[d][t],
           \A w \in Workers : At(w, d, t)' <=> At(w, d, t),
           \A w \in Workers : At(w, d, t) => Stage(pc'[w]) = Stage(pc[w]) /\ blk'[w] = blk[w]
    PROVE  WorkOf(d, t)' = WorkOf(d, t)
<1>1. CASE \E w \in Workers : At(w, d, t)
  <2>1. PICK w \in Workers : At(w, d, t)
    BY <1>1
  <2>2. WorkOf(d, t) = [at |-> Stage(pc[w]), nr |-> blk[w]]
    BY <2>1 DEF Mapped
  <2>3. WorkOf(d, t)' = [at |-> Stage(pc'[w]), nr |-> blk'[w]]
    BY <2>1 DEF Mapped
  <2> QED BY <2>1, <2>2, <2>3
<1>2. CASE \A w \in Workers : ~At(w, d, t)
  BY <1>2 DEF Mapped
<1> QED BY <1>1, <1>2

\* A step of one worker, or its claim, changes its own generation only.
LEMMA MappedOne ==
    ASSUME ClaimInv, WorkerInv, Mapped, Mapped', NEW w \in Workers, Others(w),
           NEW d \in Drops, d = job[w], NEW t \in Days, t = Run(d),
           pc'[w] \in AtWork => job'[w] = d,
           pc[w] \in AtWork \/ claims[d][t] = 0,
           \A e \in Drops, u \in Days : e # d \/ u # t => claims'[e][u] = claims[e][u]
    PROVE  /\ \A e \in Drops, u \in Days : e # d \/ u # t => WorkOf(e, u)' = WorkOf(e, u)
           /\ pc[w] \in AtWork => WorkOf(d, t) = [at |-> Stage(pc[w]), nr |-> blk[w]]
           /\ pc[w] \notin AtWork => WorkOf(d, t) = [at |-> "new", nr |-> 0]
           /\ pc'[w] \in AtWork => WorkOf(d, t)' = [at |-> Stage(pc'[w]), nr |-> blk'[w]]
           /\ pc'[w] \notin AtWork /\ claims'[d][t] # 0 => WorkOf(d, t)' = [at |-> "over", nr |-> 0]
<1>1. \A e : Run(e)' = Run(e)
  BY DEF Others, Run
<1>2. \A v \in Workers : v # w => pc'[v] = pc[v] /\ job'[v] = job[v] /\ blk'[v] = blk[v]
  BY DEF Others, Same
<1>3. \A v \in Workers, e \in Drops, u \in Days : v # w => (At(v, e, u)' <=> At(v, e, u))
  BY <1>1, <1>2 DEF At
<1>4. \A v \in Workers : v # w => ~At(v, d, t)
  <2> SUFFICES ASSUME NEW v \in Workers, v # w, At(v, d, t) PROVE FALSE
    OBVIOUS
  <2>1. pc[w] \notin AtWork
    BY DEF At, WorkerInv
  <2>2. claims[d][t] > 0
    BY DEF At, WorkerInv
  <2> QED BY <2>1, <2>2
<1>5. ASSUME NEW e \in Drops, NEW u \in Days, e # d \/ u # t PROVE WorkOf(e, u)' = WorkOf(e, u)
  <2>1. ~At(w, e, u) /\ ~At(w, e, u)'
    BY <1>1, <1>5 DEF At
  <2> QED BY <1>2, <1>3, <1>5, <2>1, MappedSame
<1>6. pc[w] \in AtWork => At(w, d, t)
  BY DEF At
<1>7. pc'[w] \in AtWork => At(w, d, t)'
  BY <1>1 DEF At
<1>8. pc[w] \notin AtWork => WorkOf(d, t) = [at |-> "new", nr |-> 0]
  <2>1. pc[w] \notin AtWork => \A v \in Workers : ~At(v, d, t)
    BY <1>4 DEF At
  <2> QED BY <2>1 DEF Mapped
<1>9. pc'[w] \notin AtWork /\ claims'[d][t] # 0 => WorkOf(d, t)' = [at |-> "over", nr |-> 0]
  <2>1. pc'[w] \notin AtWork => \A v \in Workers : ~At(v, d, t)'
    BY <1>3, <1>4 DEF At
  <2> QED BY <2>1 DEF Mapped
<1> QED BY <1>5, <1>6, <1>7, <1>8, <1>9 DEF Mapped

\* The variable work of Spool, as the mapping gives it.
Bar == [d \in Drops |-> [t \in Days |-> WorkOf(d, t)]]

\* A change of one generation, as Spool writes it.
LEMMA BarChange ==
    ASSUME NEW d \in Drops, NEW t \in Days, NEW x, WorkOf(d, t)' = x,
           \A e \in Drops, u \in Days : e # d \/ u # t => WorkOf(e, u)' = WorkOf(e, u)
    PROVE  Bar' = [Bar EXCEPT ![d][t] = x]
<1> DEFINE Changed(e, u) == IF e = d /\ u = t THEN x ELSE WorkOf(e, u)
<1>1. \A e \in Drops, u \in Days : WorkOf(e, u)' = Changed(e, u)
  OBVIOUS
<1>2. [Bar EXCEPT ![d][t] = x] = [e \in Drops |-> [u \in Days |-> Changed(e, u)]]
  BY DEF Bar
<1>3. Bar' = [e \in Drops |-> [u \in Days |-> Changed(e, u)]]
  <2> HIDE DEF Changed
  <2> QED BY <1>1 DEF Bar
<1> QED BY <1>2, <1>3

\* What concerns none of the workers that write files may mark a mailing as deleted.
LEMMA AsideImplements ==
    ASSUME ClaimInv, Mapped, Mapped', Aside
    PROVE  [Abstract!SpoolNext]_(Abstract!spoolVars)
<1>1. ASSUME NEW d \in Drops, NEW t \in Days PROVE WorkOf(d, t)' = WorkOf(d, t)
  <2>1. \A w \in Workers : pc[w] \in AtWork \/ pc'[w] \in AtWork => Same(w)
    BY DEF Aside
  <2>2. \A w \in Workers : pc[w] \in AtWork /\ job[w] = d => Run(d)' = Run(d)
    BY SameRun DEF Aside
  <2>3. \A w \in Workers : At(w, d, t)' <=> At(w, d, t)
    BY <2>1, <2>2 DEF At, Same
  <2>4. \A w \in Workers : At(w, d, t) => pc'[w] = pc[w] /\ blk'[w] = blk[w]
    BY <2>1 DEF At, Same
  <2> QED BY <2>3, <2>4, MappedSame DEF Aside
<1>2. Bar' = Bar
  BY <1>1 DEF Bar
<1>3. CASE deleted' = deleted
  BY <1>2, <1>3 DEF Aside, Bar, Abstract!spoolVars
<1>4. ASSUME NEW m \in Mailings, deleted' = deleted \cup {m} PROVE Abstract!SpoolNext
  <2>1. Abstract!Delete(m)
    BY <1>2, <1>4 DEF Aside, Bar, Abstract!Delete
  <2> QED BY <2>1 DEF Abstract!SpoolNext
<1> QED BY <1>3, <1>4 DEF Aside

\* The end of the JVM leaves no generation going on.
LEMMA CrashImplements ==
    ASSUME ClaimInv, WorkerInv, Mapped, Mapped', AllLeave
    PROVE  Abstract!Halt
<1>1. ASSUME NEW d \in Drops, NEW t \in Days
      PROVE  WorkOf(d, t)' = IF WorkOf(d, t).at \in Abstract!Active THEN Abstract!Over ELSE WorkOf(d, t)
  <2>1. \A w \in Workers : ~At(w, d, t)'
    BY DEF AllLeave, At
  <2>2. WorkOf(d, t)' = [at |-> IF claims[d][t] = 0 THEN "new" ELSE "over", nr |-> 0]
    BY <2>1 DEF Mapped, AllLeave
  <2>3. CASE \A w \in Workers : ~At(w, d, t)
    <3>1. WorkOf(d, t) = [at |-> IF claims[d][t] = 0 THEN "new" ELSE "over", nr |-> 0]
      BY <2>3 DEF Mapped
    <3> QED BY <2>2, <3>1 DEF Abstract!Active, Abstract!Over
  <2>4. ASSUME NEW w \in Workers, At(w, d, t)
        PROVE  WorkOf(d, t)' = IF WorkOf(d, t).at \in Abstract!Active THEN Abstract!Over ELSE WorkOf(d, t)
    <3>1. WorkOf(d, t).at = Stage(pc[w])
      BY <2>4 DEF Mapped
    <3>2. claims[d][t] > 0
      BY <2>4 DEF At, WorkerInv
    <3>3. claims[d][t] # 0
      BY <3>2
    <3> QED BY <2>2, <3>1, <3>3 DEF Stage, Abstract!Active, Abstract!Over
  <2> QED BY <2>3, <2>4
<1>2. Bar' = [d \in Drops |-> [t \in Days |->
               IF Bar[d][t].at \in Abstract!Active THEN Abstract!Over ELSE Bar[d][t]]]
  BY <1>1 DEF Bar
<1> QED BY <1>2 DEF AllLeave, Abstract!Halt, Bar

\* What a worker does to its generation is a step of Spool on this generation.
LEMMA WorkImplements ==
    ASSUME ClaimInv, WorkerInv, Mapped, Mapped', NEW w \in Workers, OneLeaves(w) \/ Claims(w) \/ Works(w)
    PROVE  [Abstract!SpoolNext]_(Abstract!spoolVars)
<1> USE DropAssumption, WorkerAssumption
<1>1. PICK d \in Drops, t \in Days : d = job[w] /\ t = Run(d)
  <2>1. pc[w] \in AtWork \/ pc[w] = "claim"
    BY DEF OneLeaves, Claims, Works, AtWork
  <2>2. job[w] \in Drops
    BY <2>1 DEF ClaimInv, TypeInv, JobOK, AtWork
  <2>3. Run(job[w]) \in Days
    BY <2>2, BoundAssumption DEF Run, ClaimInv, TypeInv, TypeOK
  <2> QED BY <2>2, <2>3
<1>2. Others(w) /\ deleted' = deleted
  BY DEF OneLeaves, Claims, Works, Others
<1>3. /\ \A e \in Drops, u \in Days : e # d \/ u # t => claims'[e][u] = claims[e][u]
      /\ pc'[w] \in AtWork => job'[w] = d
      /\ pc[w] \in AtWork \/ claims[d][t] = 0
  <2>1. CASE OneLeaves(w)
    BY <1>1, <2>1 DEF OneLeaves
  <2>2. CASE Claims(w)
    BY <1>1, <2>2 DEF Claims
  <2>3. CASE Works(w)
    BY <1>1, <2>3 DEF Works, AtWork
  <2> QED BY <2>1, <2>2, <2>3
<1>4. /\ \A e \in Drops, u \in Days : e # d \/ u # t => WorkOf(e, u)' = WorkOf(e, u)
      /\ pc[w] \in AtWork => WorkOf(d, t) = [at |-> Stage(pc[w]), nr |-> blk[w]]
      /\ pc[w] \notin AtWork => WorkOf(d, t) = [at |-> "new", nr |-> 0]
      /\ pc'[w] \in AtWork => WorkOf(d, t)' = [at |-> Stage(pc'[w]), nr |-> blk'[w]]
      /\ pc'[w] \notin AtWork /\ claims'[d][t] # 0 => WorkOf(d, t)' = [at |-> "over", nr |-> 0]
  BY <1>1, <1>2, <1>3, MappedOne
<1>5. pc[w] \in AtWork => claims[d][t] # 0
  <2>1. pc[w] \in AtWork => claims[d][t] > 0
    BY <1>1 DEF WorkerInv
  <2> QED BY <2>1
<1>6. ASSUME NEW x, WorkOf(d, t)' = x PROVE Bar' = [Bar EXCEPT ![d][t] = x]
  BY <1>4, <1>6, BarChange
<1>7. Bar[d][t] = WorkOf(d, t)
  BY DEF Bar
<1>8. ASSUME NEW from, NEW to, WorkOf(d, t).at = from, WorkOf(d, t)' = to
      PROVE  Abstract!Advance(d, t, from, to)
  BY <1>2, <1>6, <1>7, <1>8 DEF Abstract!Advance, Bar
<1>9. \A n, e : FileOf(d, n, e) = Abstract!SpoolFile(d, t, n, e)
  BY <1>1 DEF FileOf, Abstract!SpoolFile
<1>10. CASE OneLeaves(w)
  <2>1. pc[w] \in AtWork /\ pc'[w] \notin AtWork /\ UNCHANGED <<meta, claims>>
    BY <1>10 DEF OneLeaves
  <2>2. WorkOf(d, t)' = Abstract!Over /\ WorkOf(d, t).at \in Abstract!Active
    BY <1>4, <1>5, <2>1 DEF Abstract!Over, Abstract!Active, Stage
  <2>3. Bar' = [Bar EXCEPT ![d][t] = Abstract!Over]
    BY <1>6, <2>2
  <2>4. Abstract!GiveUp(d, t)
    BY <1>2, <1>7, <2>1, <2>2, <2>3 DEF Abstract!GiveUp, Bar
  <2> QED BY <2>4 DEF Abstract!SpoolNext
<1>11. CASE Claims(w)
  <2>1. pc[w] = "claim" /\ pc'[w] = "init" /\ blk'[w] = blk[w] /\ meta' = meta
    BY <1>11 DEF Claims
  <2>2. blk[w] = 0
    BY <2>1 DEF WorkerInv, BlocksInv, WithBlocks
  <2>3. WorkOf(d, t).at = "new" /\ WorkOf(d, t)' = [at |-> "write", nr |-> 0]
    BY <1>4, <2>1, <2>2 DEF AtWork, Stage
  <2>4. Abstract!Begin(d, t)
    BY <1>8, <2>1, <2>3 DEF Abstract!Begin
  <2> QED BY <2>4 DEF Abstract!SpoolNext
<1>12. CASE Works(w)
  <2> DEFINE n == blk[w]
  <2>1. claims' = claims /\ n \in Nat /\ pc[w] \in AtWork
    <3>1. claims' = claims /\ pc[w] \in AtWork
      BY <1>12 DEF Works, AtWork
    <3> QED BY <3>1, AtWorkFacts
  <2>2. WorkOf(d, t).at = Stage(pc[w]) /\ WorkOf(d, t).nr = n
    BY <1>4, <2>1
  <2>3. CASE pc[w] = "init" /\ pc'[w] = "write" /\ blk'[w] = n /\ meta' = meta
    <3>1. WorkOf(d, t)' = WorkOf(d, t)
      BY <1>4, <2>3 DEF AtWork, Stage
    <3>2. Bar' = Bar
      BY <1>4, <3>1 DEF Bar
    <3> QED BY <1>2, <2>3, <3>2 DEF Abstract!spoolVars, Bar
  <2>4. CASE pc[w] \in {"init", "write", "open"} /\ pc'[w] = "destroy" /\ blk'[w] = n /\ meta' = meta
    <3>1. WorkOf(d, t)' = [WorkOf(d, t) EXCEPT !.at = "failed"] /\ WorkOf(d, t).at \in Abstract!Active
      BY <1>4, <2>4 DEF AtWork, Stage, Abstract!Active
    <3>2. Bar' = [Bar EXCEPT ![d][t] = [Bar[d][t] EXCEPT !.at = "failed"]]
      BY <1>6, <1>7, <3>1
    <3>3. Abstract!GiveUp(d, t)
      BY <1>2, <1>7, <2>4, <3>1, <3>2 DEF Abstract!GiveUp, Bar
    <3> QED BY <3>3 DEF Abstract!SpoolNext
  <2>5. CASE /\ pc[w] = "write" /\ pc'[w] = "open" /\ blk'[w] = n + 1
             /\ n < IF KindOf[d] = "T" THEN 1 ELSE MaxBlocks
             /\ meta' = meta \cup {FileOf(d, n + 1, "xml")}
    <3>1. WorkOf(d, t).at = "write" /\ WorkOf(d, t)' = [at |-> "open", nr |-> n + 1]
      BY <1>4, <2>2, <2>5 DEF AtWork, Stage
    <3>2. n + 1 <= IF KindOf[d] = "T" THEN 1 ELSE MaxBlocks
      BY <2>1, <2>5, BoundAssumption
    <3>3. Abstract!Advance(d, t, "write", [at |-> "open", nr |-> n + 1])
      BY <1>8, <3>1
    <3>4. Abstract!StartBlock(d, t)
      BY <1>7, <1>9, <2>2, <2>5, <3>2, <3>3 DEF Abstract!StartBlock, Bar
    <3> QED BY <3>4 DEF Abstract!SpoolNext
  <2>6. CASE /\ pc[w] = "open" /\ pc'[w] = "write" /\ blk'[w] = n
             /\ meta' = IF KindOf[d] = "T" THEN meta ELSE meta \cup {FileOf(d, n, "stamp")}
    <3>1. WorkOf(d, t).at = "open" /\ WorkOf(d, t)' = [at |-> "write", nr |-> n]
      BY <1>4, <2>2, <2>6 DEF AtWork, Stage
    <3>2. Abstract!Advance(d, t, "open", [at |-> "write", nr |-> n])
      BY <1>8, <3>1
    <3>3. Abstract!EndBlock(d, t)
      BY <1>7, <1>9, <2>2, <2>6, <3>2 DEF Abstract!EndBlock, Bar
    <3> QED BY <3>3 DEF Abstract!SpoolNext
  <2>7. CASE /\ pc[w] = "write" /\ pc'[w] = "update"
             /\ meta' = CASE KindOf[d] = "T" -> meta \ {FileOf(d, 1, "xml")}
                          [] KindOf[d] # "T" /\ n > 0 -> meta \cup {FileOf(d, n, "final")}
                          [] OTHER -> meta
    <3>1. WorkOf(d, t).at = "write" /\ WorkOf(d, t)' = Abstract!Over
      BY <1>4, <1>5, <2>1, <2>2, <2>7 DEF AtWork, Stage, Abstract!Over
    <3>2. Abstract!Advance(d, t, "write", Abstract!Over)
      BY <1>8, <3>1
    <3>3. Abstract!Finish(d, t)
      BY <1>7, <1>9, <2>2, <2>7, <3>2 DEF Abstract!Finish, Bar
    <3> QED BY <3>3 DEF Abstract!SpoolNext
  <2>8. CASE /\ pc[w] = "destroy" /\ pc'[w] = "next"
             /\ meta' = {f \in meta : MailingOf[f.drop] # MailingOf[d]}
    <3>1. WorkOf(d, t).at = "failed" /\ WorkOf(d, t)' = Abstract!Over
      BY <1>4, <1>5, <2>1, <2>2, <2>8 DEF AtWork, Stage, Abstract!Over
    <3>2. Abstract!Destroy(d, t)
      BY <1>8, <2>8, <3>1 DEF Abstract!Destroy
    <3> QED BY <3>2 DEF Abstract!SpoolNext
  <2> QED BY <1>1, <1>12, <2>3, <2>4, <2>5, <2>6, <2>7, <2>8 DEF Works
<1> QED BY <1>10, <1>11, <1>12

\* Every step of the system maps to a step of Spool or to none.
LEMMA StepImplements ==
    ASSUME ClaimInv, WorkerInv, Mapped, Mapped', [Next]_vars
    PROVE  [Abstract!SpoolNext]_(Abstract!spoolVars)
<1>1. AllLeave => Abstract!SpoolNext
  BY CrashImplements DEF Abstract!SpoolNext
<1> QED BY <1>1, WorkSteps, AsideImplements, WorkImplements

(* Whatever requests, jobs, failures and crashes do, the META directory    *)
(* changes as one generation per row and day would change it: no block is  *)
(* touched after its stamp, no final file comes before the last stamp, and *)
(* what was given up or finished is never written to again.                *)
THEOREM SpoolImplemented == Spec => ImplementsSpool
<1>1. Init => ClaimInv /\ WorkerInv
  BY InitClaimInv, InitWorkerInv
<1>2. Init => Abstract!SpoolInit
  <2> SUFFICES ASSUME Init PROVE Abstract!SpoolInit
    OBVIOUS
  <2>1. \A d \in Drops, t \in Days : WorkOf(d, t) = [at |-> "new", nr |-> 0]
    BY DEF Init, WorkOf
  <2> QED BY <2>1 DEF Init, Abstract!SpoolInit
<1>3. ClaimInv /\ WorkerInv /\ Mapped /\ Mapped' /\ [Next]_vars => [Abstract!SpoolNext]_(Abstract!spoolVars)
  BY StepImplements
<1> QED
  BY <1>1, <1>2, <1>3, Mapping, ClaimInvStep, WorkerInvStep, PTL DEF Spec, ImplementsSpool, Abstract!SpoolSpec

----------------------------------------------------------------------------
(* A date based mailing goes out once a day, whatever rows activate it: the *)
(* Ruler stamps the day before it offers a row, so a mailing stamped today *)
(* is passed by.  What the kick off takes for today is the day, unless the *)
(* day began under it; such a day, and one on which the query that reads   *)
(* lastsent failed, is in lapsed before the row goes on.                   *)
Within == pc[Ruler] # "idle" => rdate = now \/ now \in lapsed

SameMailing(d, e) == KindOf[d] = "R" /\ KindOf[e] = "R" /\ MailingOf[d] = MailingOf[e]

(* The mailing that is about to be stamped was not, and no row of the one  *)
(* that is offered was claimed for the day that lastsent tells.            *)
Offered ==
    /\ pc[Ruler] = "stamp" => lastsent[MailingOf[job[Ruler]]] # now \/ now \in lapsed
    /\ pc[Ruler] \in {"read", "claim"} =>
         \A e \in Drops : SameMailing(job[Ruler], e) /\ lastsent[MailingOf[e]] \notin lapsed
                           => Unclaimed(e, lastsent[MailingOf[e]])

DailyInv == Within /\ Offered /\ MailingOncePerDay

(* The steps that say nothing new about today: the Ruler comes to none of  *)
(* the states that Offered speaks of.                                      *)
Settled ==
    /\ lastsent' = lastsent
    /\ lapsed \subseteq lapsed'
    /\ pc'[Ruler] = "stamp" =>
          pc[Ruler] = "stamp" /\ job'[Ruler] = job[Ruler] /\ (now' = now \/ now' \in lapsed')
    /\ pc'[Ruler] \in {"read", "claim"} /\ KindOf[job'[Ruler]] = "R" =>
          pc[Ruler] \in {"read", "claim"} /\ job'[Ruler] = job[Ruler]
    /\ pc'[Ruler] # "idle" =>
          rdate' = now' \/ now' \in lapsed' \/ (pc[Ruler] # "idle" /\ rdate' = rdate /\ now' = now)

\* All steps but the check and the stamp of the Ruler's rule job are of this kind.
LEMMA RulerMoves ==
    ASSUME ClaimInv, [Next]_vars, ~RuleStamp, \A d \in Drops : ~RuleCheck(d)
    PROVE  Settled
<1> USE DropAssumption, WorkerAssumption DEF dbVars, rulerVars, history
<1>a. TypeInv /\ pc \in [Workers -> RulerStates \cup RequestStates]
      /\ job \in [Workers -> Drops \cup {NoDrop}]
  BY DEF ClaimInv, TypeInv, TypeOK
<1>1. ASSUME UNCHANGED <<lastsent, now, rdate, lapsed>>, pc'[Ruler] = pc[Ruler], job'[Ruler] = job[Ruler] PROVE Settled
  BY <1>1 DEF Settled
<1>2. ASSUME lastsent' = lastsent, lapsed' = lapsed, pc'[Ruler] = "idle" PROVE Settled
  BY <1>2 DEF Settled
<1>3. ASSUME UNCHANGED <<lastsent, now, rdate, lapsed>>, pc[Ruler] # "idle",
             pc'[Ruler] \notin {"stamp", "read", "claim"}
      PROVE  Settled
  BY <1>3 DEF Settled
<1>4. ASSUME NEW r \in Requests, NEW d \in Drops, SendMailing(r, d) \/ ServiceSendMailing(r, d) \/ CancelCheck(r, d)
      PROVE  Settled
  BY <1>a, <1>1, <1>4 DEF SendMailing, ServiceSendMailing, CancelCheck, Begin, Go
<1>5. ASSUME \/ \E r \in Requests, m \in Mailings : DeactivateMailing(r, m)
             \/ \E m \in Mailings : DeleteMailing(m)
             \/ UNCHANGED vars
      PROVE  Settled
  BY <1>1, <1>5 DEF DeactivateMailing, DeleteMailing, vars
<1>6. ASSUME NEW r \in Requests, SaveDrop(r) \/ CancelDelete(r) PROVE Settled
  BY <1>a, <1>1, <1>6 DEF SaveDrop, CancelDelete, Return, Go
<1>7. ASSUME KickOff \/ KickOffDelayed PROVE Settled
  BY <1>a, <1>7 DEF KickOff, KickOffDelayed, StartKickOff, Go, Settled
<1>8. ASSUME NEW d \in Drops, DelayedCheck(d) PROVE Settled
  BY <1>a, <1>3, <1>8 DEF DelayedCheck, TakeNext, Go
<1>9. ASSUME Release PROVE Settled
  BY <1>a, <1>9 DEF Release, Go, Settled, ClaimInv, KindOK
<1>10. ASSUME RulerDone PROVE Settled
  BY <1>a, <1>2, <1>10 DEF RulerDone, Go
<1>11. ASSUME Destroy PROVE Settled
  BY <1>a, <1>3, <1>11 DEF Destroy, Return, MailgunUnchanged
<1>12. ASSUME NEW w \in Workers, Mailgun(w) PROVE Settled
  <2>1. UNCHANGED <<lastsent, now, rdate, lapsed>> /\ pc[w] \in MailgunStates
    BY <1>12 DEF Mailgun, ReadState, Claim, SanityCheck, StartBlock, EndBlock, Finish, UpdateState,
                 MailgunUnchanged, MailgunStates, Generating
  <2>2. CASE w # Ruler
    BY <1>a, <1>1, <1>12, <2>1, <2>2 DEF Mailgun, ReadState, Claim, SanityCheck, StartBlock, EndBlock, Finish,
                                         UpdateState, Abort, Return, Go
  <2>3. CASE w = Ruler /\ ReadState(w) /\ pc'[w] = "claim"
    BY <1>a, <2>1, <2>3 DEF ReadState, Return, Go, Settled
  <2>4. CASE w = Ruler /\ ~(ReadState(w) /\ pc'[w] = "claim")
    <3>1. pc'[w] \notin {"stamp", "read", "claim"}
      BY <1>a, <1>12, <2>4 DEF Mailgun, ReadState, Claim, SanityCheck, StartBlock, EndBlock, Finish,
                               UpdateState, Abort, Return, Go
    <3>2. pc[w] # "idle"
      BY <2>1 DEF MailgunStates, Generating
    <3> QED BY <1>3, <2>1, <2>4, <3>1, <3>2
  <2> QED BY <2>2, <2>3, <2>4
<1>13. ASSUME NEW w \in Workers, Fault(w) PROVE Settled
  <2>1. UNCHANGED <<lastsent, now, lapsed>>
    BY <1>13 DEF Fault
  <2>2. CASE w # Ruler
    BY <1>a, <1>1, <1>13, <2>1, <2>2 DEF Fault, Abort, Return, Go
  <2>3. CASE w = Ruler
    <3>1. pc'[w] = "idle" \/ (pc'[w] \in {"next", "destroy"} /\ rdate' = rdate)
      BY <1>a, <1>13, <2>3 DEF Fault, Abort, Return, Go
    <3>2. pc[w] # "idle"
      BY <1>13 DEF Fault
    <3> QED BY <1>2, <1>3, <2>1, <2>3, <3>1, <3>2
  <2> QED BY <2>2, <2>3
<1>14. ASSUME Crash PROVE Settled
  BY <1>2, <1>14 DEF Crash
<1>15. ASSUME Tick PROVE Settled
  BY <1>15 DEF Tick, Settled
<1> QED
  BY <1>4, <1>5, <1>6, <1>7, <1>8, <1>9, <1>10, <1>11, <1>12, <1>13, <1>14, <1>15
     DEF Next, UserStep, RequestStep, RulerStep

\* Every step keeps the once a day.
LEMMA DailyInvStep == ClaimInv /\ DailyInv /\ [Next]_vars => DailyInv'
<1> SUFFICES ASSUME ClaimInv, DailyInv, [Next]_vars PROVE DailyInv'
  OBVIOUS
<1> USE DropAssumption, WorkerAssumption DEF dbVars, rulerVars, history
<1>a. /\ TypeInv
      /\ pc \in [Workers -> RulerStates \cup RequestStates]
      /\ job \in [Workers -> Drops \cup {NoDrop}]
      /\ lastsent \in [Mailings -> Days] /\ now \in Days /\ now \in Nat
      /\ claims \in [Drops -> [Days -> Nat]]
  <2>1. TypeInv /\ TypeOK
    BY DEF ClaimInv, TypeInv
  <2>2. now \in Nat
    BY <2>1, BoundAssumption DEF TypeOK
  <2> QED BY <2>1, <2>2 DEF TypeOK
<1>1. ASSUME RuleStamp PROVE DailyInv'
  <2> DEFINE d == job[Ruler]
  <2>1. /\ pc[Ruler] = "stamp" /\ pc'[Ruler] = "read" /\ d \in Drops
        /\ lastsent' = [lastsent EXCEPT ![MailingOf[d]] = now]
        /\ UNCHANGED <<job, now, rdate, claims, lapsed>>
    BY <1>a, <1>1 DEF RuleStamp, Go, TypeInv, JobOK
  <2>2. now \notin lapsed => \A e \in Drops : SameMailing(d, e) => Unclaimed(e, now)
    <3> SUFFICES ASSUME now \notin lapsed, NEW e \in Drops, SameMailing(d, e) PROVE Unclaimed(e, now)
      OBVIOUS
    <3>1. lastsent[MailingOf[d]] # now
      BY <2>1 DEF DailyInv, Offered
    <3>2. MailingOf[e] = MailingOf[d] /\ KindOf[e] = "R" /\ MailingOf[e] \in Mailings
      BY DEF SameMailing
    <3>3. lastsent[MailingOf[e]] <= now /\ lastsent[MailingOf[e]] \in Days
      BY <1>a, <3>2 DEF ClaimInv, DaysOK
    <3>4. now > lastsent[MailingOf[e]]
      BY <1>a, <3>1, <3>2, <3>3, BoundAssumption
    <3> QED BY <1>a, <3>2, <3>4 DEF ClaimInv, NotAhead
  <2>3. Within'
    BY <2>1 DEF DailyInv, Within
  <2>4. ASSUME NEW e \in Drops, SameMailing(d, e), lastsent'[MailingOf[e]] \notin lapsed
        PROVE  claims'[e][lastsent'[MailingOf[e]]] = 0
    <3>1. lastsent'[MailingOf[e]] = now
      BY <1>a, <2>1, <2>4 DEF SameMailing
    <3> QED BY <2>1, <2>2, <2>4, <3>1 DEF Unclaimed
  <2>5. Offered'
    BY <2>1, <2>4 DEF Offered, SameMailing, Unclaimed
  <2>6. MailingOncePerDay'
    BY <2>1 DEF DailyInv, MailingOncePerDay
  <2> QED BY <2>3, <2>5, <2>6 DEF DailyInv
<1>2. ASSUME NEW d \in Drops, RuleCheck(d) PROVE DailyInv'
  <2>1. /\ pc[Ruler] = "next" /\ pc'[Ruler] \in {"next", "stamp"}
        /\ UNCHANGED <<lastsent, now, rdate, claims>>
        /\ pc'[Ruler] = "stamp" => job'[Ruler] = d
    BY <1>a, <1>2 DEF RuleCheck, TakeNext, Go
  <2>2. /\ lapsed \subseteq lapsed'
        /\ pc'[Ruler] = "stamp" => lastsent[MailingOf[d]] # rdate \/ now \in lapsed'
    BY <1>a, <1>2 DEF RuleCheck, TakeNext, Go
  <2>3. rdate = now \/ now \in lapsed
    BY <2>1 DEF DailyInv, Within
  <2>4. Within' /\ Offered'
    BY <2>1, <2>2, <2>3 DEF Within, Offered
  <2>5. MailingOncePerDay'
    BY <2>1, <2>2 DEF DailyInv, MailingOncePerDay
  <2> QED BY <2>4, <2>5 DEF DailyInv
<1>3. ASSUME ~RuleStamp, \A d \in Drops : ~RuleCheck(d) PROVE DailyInv'
  <2>1. Settled
    BY <1>3, RulerMoves
  <2>2. Within'
    BY <2>1 DEF Settled, DailyInv, Within
  <2>3. lapsed \subseteq lapsed'
    BY <2>1 DEF Settled
  <2> SUFFICES Offered' /\ MailingOncePerDay'
    BY <2>2 DEF DailyInv
  <2>4. Offered /\ MailingOncePerDay
    BY DEF DailyInv
  <2>b. pc'[Ruler] = "stamp" => lastsent'[MailingOf[job'[Ruler]]] # now' \/ now' \in lapsed'
    BY <2>1, <2>4 DEF Settled, Offered
  <2>5. CASE claims' = claims
    <3>1. Offered'
      BY <2>1, <2>3, <2>4, <2>5, <2>b DEF Settled, Offered, SameMailing, Unclaimed
    <3> QED BY <2>3, <2>4, <2>5, <3>1 DEF MailingOncePerDay
  <2>6. ASSUME NEW w \in Workers, Claims(w) PROVE Offered' /\ MailingOncePerDay'
    <3> DEFINE c == job[w]
    <3>1. /\ pc[w] = "claim" /\ pc'[w] = "init" /\ c \in Drops
          /\ KindOf[c] = "R" => w = Ruler
          /\ \A e \in Drops, t \in Days : claims'[e][t] = IF e = c /\ t = Run(c) THEN 1 ELSE claims[e][t]
      <4>1. pc[w] = "claim" /\ pc'[w] = "init" /\ (KindOf[c] = "R" => w = Ruler)
        BY <2>6 DEF Claims
      <4>2. c \in Drops
        BY <1>a, <4>1 DEF TypeInv, JobOK
      <4>3. \A e \in Drops, t \in Days : claims'[e][t] = IF e = c /\ t = Run(e) THEN 1 ELSE claims[e][t]
        BY <2>6 DEF Claims
      <4> QED BY <4>1, <4>2, <4>3
    <3>2. Offered'
      <4>1. ASSUME pc'[Ruler] \in {"read", "claim"}, NEW e \in Drops, SameMailing(job'[Ruler], e),
                   lastsent'[MailingOf[e]] \notin lapsed'
            PROVE  claims'[e][lastsent'[MailingOf[e]]] = 0
        <5>1. pc[Ruler] \in {"read", "claim"} /\ job'[Ruler] = job[Ruler] /\ lastsent' = lastsent
          BY <2>1, <4>1 DEF Settled, SameMailing
        <5>2. w # Ruler /\ e # c
          BY <3>1, <4>1 DEF SameMailing
        <5>3. claims[e][lastsent[MailingOf[e]]] = 0
          BY <2>3, <2>4, <4>1, <5>1 DEF Offered, Unclaimed
        <5>4. lastsent[MailingOf[e]] \in Days
          BY <1>a
        <5> QED BY <3>1, <5>1, <5>2, <5>3, <5>4
      <4> QED BY <2>b, <4>1 DEF Offered, SameMailing, Unclaimed
    <3>3. MailingOncePerDay'
      <4> SUFFICES ASSUME NEW x \in Drops, NEW y \in Drops, KindOf[x] = "R", KindOf[y] = "R", x # y,
                          MailingOf[x] = MailingOf[y], NEW t \in Days, t \notin lapsed
                   PROVE  claims'[x][t] + claims'[y][t] <= 1
        BY <2>3 DEF MailingOncePerDay, OfKind
      <4>1. claims[x][t] + claims[y][t] <= 1
        BY <2>4 DEF MailingOncePerDay, OfKind
      <4>2. ASSUME NEW e \in Drops, SameMailing(c, e), t = Run(c) PROVE claims[e][t] = 0
        <5>1. KindOf[c] = "R" /\ w = Ruler /\ Run(c) = lastsent[MailingOf[e]]
          BY <3>1, <4>2 DEF SameMailing, Run
        <5> QED BY <2>4, <3>1, <4>2, <5>1 DEF Offered, Unclaimed
      <4>3. CASE c \notin {x, y} \/ t # Run(c)
        BY <3>1, <4>1, <4>3
      <4>4. CASE c = x /\ t = Run(c)
        <5>1. claims[y][t] = 0
          BY <4>2, <4>4 DEF SameMailing
        <5> QED BY <3>1, <4>4, <5>1
      <4>5. CASE c = y /\ t = Run(c)
        <5>1. claims[x][t] = 0
          BY <4>2, <4>5 DEF SameMailing
        <5> QED BY <3>1, <4>5, <5>1
      <4> QED BY <4>3, <4>4, <4>5
    <3> QED BY <3>2, <3>3
  <2>7. claims' = claims \/ \E w \in Workers : Claims(w)
    BY WorkSteps DEF Aside, AllLeave, OneLeaves, Works
  <2> QED BY <2>5, <2>6, <2>7
<1> QED BY <1>1, <1>2, <1>3

(* Any number of activated rows of a date based mailing make it go out     *)
(* once a day, but for the days that begin during a kick off and those on  *)
(* which the query for lastsent fails.                                     *)
THEOREM SentOncePerDay == Spec => []MailingOncePerDay
<1>1. Init => ClaimInv
  BY InitClaimInv
<1>2. Init => DailyInv
  BY DEF Init, DailyInv, Within, Offered, MailingOncePerDay, OfKind
<1>3. DailyInv => MailingOncePerDay
  BY DEF DailyInv
<1> QED BY <1>1, <1>2, <1>3, DailyInvStep, ClaimInvStep, PTL DEF Spec

----------------------------------------------------------------------------
(* A mailing gets a second row for its whole list only through the web     *)
(* service or through two sessions.  The requests of one session come one  *)
(* after the other, so that what the check saw still holds when the row is *)
(* saved, unless somebody of another session saved one in between: then    *)
(* that row or the one still to be saved is in loose.                      *)

Listed(d) == KindOf[d] # "T"
SameList(d, e) == Listed(d) /\ KindOf[d] = KindOf[e] /\ MailingOf[d] = MailingOf[e]

(* No two requests of a session to the web interface are under way.        *)
InTurn ==
    \A q, r \in Requests \ ServiceRequests :
        q # r /\ SessionOf[q] = SessionOf[r] => pc[q] = "idle" \/ pc[r] = "idle"

(* The mailing of a row to be saved, if that is not outdated, has none of  *)
(* its kind, but for those that are loose.                                 *)
NewToSave ==
    \A r \in Requests \ ServiceRequests :
        pc[r] = "save" /\ job[r] \notin loose =>
            \A e \in Drops : SameList(job[r], e) /\ HasRow(e) => e \in loose

WorldInv == InTurn /\ NewToSave /\ OneWorldDrop

(* Nobody comes to save a row, and no row comes into being.                *)
NoneNew ==
    /\ \A r \in Requests : pc'[r] = "idle" \/ (pc[r] # "idle" /\ (pc'[r] = "save" => pc[r] = "save" /\ job'[r] = job[r]))
    /\ \A e \in Drops : HasRow(e)' => HasRow(e)
    /\ loose' = loose

\* Rows come from SaveDrop, and requests to it from the checks, only.
LEMMA RowsFromSave ==
    ASSUME ClaimInv, [Next]_vars,
           \A r \in Requests, d \in Drops : ~SendMailing(r, d) /\ ~ServiceSendMailing(r, d) /\ ~CancelCheck(r, d),
           \A r \in Requests : ~SaveDrop(r)
    PROVE  NoneNew
<1> USE DropAssumption, WorkerAssumption DEF dbVars, rulerVars, history
<1>a. /\ TypeInv /\ gen \in [Drops -> GenStatus]
      /\ pc \in [Workers -> RulerStates \cup RequestStates]
      /\ job \in [Workers -> Drops \cup {NoDrop}]
  BY DEF ClaimInv, TypeInv, TypeOK
<1>c. loose' = loose
  BY DEF Next, UserStep, DeactivateMailing, DeleteMailing, RequestStep, CancelDelete, Mailgun, ReadState, Claim,
         SanityCheck, StartBlock, EndBlock, Finish, UpdateState, MailgunUnchanged, KickOff, KickOffDelayed,
         StartKickOff, RulerStep, RuleCheck, DelayedCheck, TakeNext, RuleStamp, Release, RulerDone, Destroy,
         Fault, Crash, Tick, vars
<1>b. ASSUME NEW w \in Workers, pc[w] # "idle", pc'[w] # "save", \A u \in Workers : u # w => pc'[u] = pc[u] /\ job'[u] = job[u],
             \A e \in Drops : gen'[e] # gen[e] => HasRow(e) \/ gen'[e] \in {"none", "removed"}
      PROVE  NoneNew
  BY <1>b, <1>c DEF NoneNew, HasRow
<1>1. ASSUME UNCHANGED <<pc, job>>, \A e \in Drops : gen'[e] # gen[e] => gen'[e] = "removed" PROVE NoneNew
  BY <1>1, <1>c DEF NoneNew, HasRow
<1>2. ASSUME \/ \E r \in Requests, m \in Mailings : DeactivateMailing(r, m)
             \/ \E m \in Mailings : DeleteMailing(m)
             \/ Tick
             \/ UNCHANGED vars
      PROVE  NoneNew
  BY <1>1, <1>2 DEF DeactivateMailing, DeleteMailing, Tick, vars
<1>3. ASSUME NEW r \in Requests, CancelDelete(r) PROVE NoneNew
  <2>1. pc[r] # "idle" /\ pc'[r] # "save" /\ \A u \in Workers : u # r => pc'[u] = pc[u] /\ job'[u] = job[u]
    BY <1>a, <1>3 DEF CancelDelete, Return
  <2>2. \A e \in Drops : gen'[e] # gen[e] => HasRow(e) \/ gen'[e] \in {"none", "removed"}
    BY <1>3 DEF CancelDelete
  <2> QED BY <1>b, <2>1, <2>2
<1>4. ASSUME KickOff \/ KickOffDelayed PROVE NoneNew
  <2>1. gen' = gen /\ \A r \in Requests : pc'[r] = pc[r] /\ job'[r] = job[r]
    BY <1>a, <1>4 DEF KickOff, KickOffDelayed, StartKickOff, Go
  <2> QED BY <1>c, <2>1 DEF NoneNew, HasRow
<1>5. ASSUME RulerStep /\ ~Mailgun(Ruler) PROVE NoneNew
  <2>1. \A r \in Requests : pc'[r] = pc[r] /\ job'[r] = job[r]
    BY <1>a, <1>5 DEF RulerStep, RuleCheck, DelayedCheck, TakeNext, RuleStamp, Release, RulerDone, Destroy, Return, Go
  <2>2. \A e \in Drops : gen'[e] # gen[e] => gen[e] \in BelowFinished
    BY <1>a, <1>5 DEF RulerStep, RuleCheck, DelayedCheck, TakeNext, RuleStamp, Release, RulerDone, Destroy,
                      MailgunUnchanged, SetGen, BelowFinished
  <2> QED BY <1>c, <2>1, <2>2 DEF NoneNew, HasRow, BelowFinished
<1>6. ASSUME NEW w \in Workers, Mailgun(w) PROVE NoneNew
  <2>1. pc[w] # "idle" /\ pc'[w] # "save" /\ \A u \in Workers : u # w => pc'[u] = pc[u] /\ job'[u] = job[u]
    BY <1>a, <1>6 DEF Mailgun, ReadState, Claim, SanityCheck, StartBlock, EndBlock, Finish, UpdateState,
                      Abort, Return, Go
  <2>2. \A e \in Drops : gen'[e] # gen[e] => HasRow(e)
    BY <1>a, <1>6 DEF Mailgun, ReadState, Claim, SanityCheck, StartBlock, EndBlock, Finish, UpdateState,
                      MailgunUnchanged, SetGen, HasRow
  <2> QED BY <1>b, <2>1, <2>2
<1>7. ASSUME NEW w \in Workers, Fault(w) PROVE NoneNew
  <2>1. pc[w] # "idle" /\ pc'[w] # "save" /\ \A u \in Workers : u # w => pc'[u] = pc[u] /\ job'[u] = job[u]
    BY <1>a, <1>7 DEF Fault, Abort, Return, Go
  <2> QED BY <1>b, <1>7, <2>1 DEF Fault
<1>8. ASSUME Crash PROVE NoneNew
  BY <1>c, <1>8 DEF Crash, NoneNew, HasRow
<1> QED
  BY <1>2, <1>3, <1>4, <1>5, <1>6, <1>7, <1>8 DEF Next, UserStep, RequestStep, RulerStep

\* What the check saw holds until the row is saved, or loose tells otherwise.
LEMMA WorldInvStep == ClaimInv /\ WorldInv /\ [Next]_vars => WorldInv'
<1> SUFFICES ASSUME ClaimInv, WorldInv, [Next]_vars PROVE WorldInv'
  OBVIOUS
<1> USE DropAssumption, WorkerAssumption DEF dbVars, history
<1>a. /\ TypeInv /\ gen \in [Drops -> GenStatus]
      /\ pc \in [Workers -> RulerStates \cup RequestStates]
      /\ job \in [Workers -> Drops \cup {NoDrop}]
  BY DEF ClaimInv, TypeInv, TypeOK
<1>b. InTurn /\ NewToSave /\ OneWorldDrop
  BY DEF WorldInv
<1>1. ASSUME NEW r \in Requests, NEW d \in Drops, SendMailing(r, d) \/ ServiceSendMailing(r, d) \/ CancelCheck(r, d)
      PROVE  WorldInv'
  <2>1. PICK state \in {"save", "cancel"} :
           /\ Begin(r, state, d)
           /\ r \in ServiceRequests \/ SessionFree(r)
           /\ state = "save" /\ r \notin ServiceRequests => KindOf[d] = "T" \/ ~WorldMailingSend(d)
    BY <1>1 DEF SendMailing, ServiceSendMailing, CancelCheck
  <2>2. /\ UNCHANGED <<gen, loose>> /\ pc'[r] = state /\ job'[r] = d
        /\ \A q \in Requests : q # r => pc'[q] = pc[q] /\ job'[q] = job[q]
    BY <1>a, <2>1 DEF Begin, Go
  <2>3. InTurn'
    BY <1>b, <2>1, <2>2 DEF InTurn, SessionFree
  <2>4. NewToSave'
    <3> SUFFICES ASSUME NEW q \in Requests \ ServiceRequests, pc'[q] = "save", job'[q] \notin loose',
                        NEW e \in Drops, SameList(job'[q], e), HasRow(e)'
                 PROVE  e \in loose'
      BY DEF NewToSave, SameList, Listed
    <3>1. HasRow(e)
      BY <2>2 DEF HasRow
    <3>2. CASE q = r
      BY <2>1, <2>2, <3>1, <3>2 DEF WorldMailingSend, SameList, Listed
    <3>3. CASE q # r
      BY <1>b, <2>2, <3>1, <3>3 DEF NewToSave
    <3> QED BY <3>2, <3>3
  <2>5. OneWorldDrop'
    BY <1>b, <2>2 DEF OneWorldDrop, HasRow
  <2> QED BY <2>3, <2>4, <2>5 DEF WorldInv
<1>2. ASSUME NEW r \in Requests, SaveDrop(r) PROVE WorldInv'
  <2> DEFINE d == job[r]
  <2>1. /\ pc[r] = "save" /\ d \in Drops
        /\ \A q \in Requests : q # r => pc'[q] = pc[q] /\ job'[q] = job[q]
        /\ \A e \in Drops : e # d => gen'[e] = gen[e]
        /\ pc'[r] # "save"
    <3>1. pc[r] = "save" /\ d \in Drops
      BY <1>a, <1>2 DEF SaveDrop, TypeInv, JobOK
    <3> QED BY <1>a, <1>2, <3>1 DEF SaveDrop, Return, Go, SetGen
  <2>2. \A e \in Drops : e # d /\ HasRow(e)' => HasRow(e)
    BY <2>1 DEF HasRow
  <2>3. loose \subseteq loose' /\ (r \in ServiceRequests => d \in loose')
    BY <1>2 DEF SaveDrop
  <2>4. InTurn'
    BY <1>b, <2>1 DEF InTurn
  <2>5. NewToSave'
    <3> SUFFICES ASSUME NEW q \in Requests \ ServiceRequests, pc'[q] = "save", job'[q] \notin loose',
                        NEW e \in Drops, SameList(job'[q], e), HasRow(e)'
                 PROVE  e \in loose'
      BY DEF NewToSave, SameList, Listed
    <3>1. q # r /\ pc[q] = "save" /\ job'[q] = job[q] /\ job[q] \notin loose
      BY <2>1, <2>3
    <3>2. CASE e # d
      BY <1>b, <2>2, <2>3, <3>1, <3>2 DEF NewToSave
    <3>3. CASE e = d /\ r \in ServiceRequests
      BY <2>3, <3>3
    <3>4. CASE e = d /\ r \notin ServiceRequests
      <4>1. SessionOf[q] # SessionOf[r]
        BY <1>b, <2>1, <3>1, <3>4 DEF InTurn
      <4>2. job[q] \in Outdated(r, d)
        BY <3>1, <3>4, <4>1 DEF Outdated, SameList
      <4> QED BY <1>2, <3>1, <4>2 DEF SaveDrop
    <3> QED BY <3>2, <3>3, <3>4
  <2>6. OneWorldDrop'
    <3> SUFFICES ASSUME NEW x \in Drops, NEW y \in Drops, x # y, SameList(x, y), HasRow(x)', HasRow(y)',
                        x \notin loose', y \notin loose'
                 PROVE  FALSE
      BY DEF OneWorldDrop, OfKind, SameList, Listed
    <3>1. x \notin loose /\ y \notin loose
      BY <2>3
    <3>2. ~(HasRow(x) /\ HasRow(y))
      BY <1>b, <3>1 DEF OneWorldDrop, OfKind, SameList, Listed
    <3>3. x = d \/ y = d
      BY <2>2, <3>2
    <3>4. r \notin ServiceRequests
      BY <2>3, <3>3
    <3>5. \A e \in Drops : SameList(d, e) /\ HasRow(e) => e \in loose \/ d \in loose
      BY <1>b, <2>1, <3>4 DEF NewToSave
    <3>6. SameList(y, x)
      BY DEF SameList, Listed
    <3> QED BY <2>2, <3>1, <3>3, <3>5, <3>6
  <2> QED BY <2>4, <2>5, <2>6 DEF WorldInv
<1>3. ASSUME \A r \in Requests, d \in Drops : ~SendMailing(r, d) /\ ~ServiceSendMailing(r, d) /\ ~CancelCheck(r, d),
             \A r \in Requests : ~SaveDrop(r)
      PROVE  WorldInv'
  <2>1. NoneNew
    BY <1>3, RowsFromSave
  <2>2. loose' = loose /\ \A e \in Drops : HasRow(e)' => HasRow(e)
    BY <2>1 DEF NoneNew
  <2>3. InTurn'
    BY <1>b, <2>1 DEF NoneNew, InTurn
  <2>4. NewToSave'
    <3> SUFFICES ASSUME NEW q \in Requests \ ServiceRequests, pc'[q] = "save", job'[q] \notin loose',
                        NEW e \in Drops, SameList(job'[q], e), HasRow(e)'
                 PROVE  e \in loose'
      BY DEF NewToSave, SameList, Listed
    <3>1. pc[q] = "save" /\ job'[q] = job[q]
      BY <2>1 DEF NoneNew
    <3> QED BY <1>b, <2>2, <3>1 DEF NewToSave
  <2>5. OneWorldDrop'
    BY <1>b, <2>2 DEF OneWorldDrop
  <2> QED BY <2>3, <2>4, <2>5 DEF WorldInv
<1> QED BY <1>1, <1>2, <1>3

(* A mailing has two rows for its whole list only if one came from the web *)
(* service or two sessions got in each other's way.                        *)
THEOREM WorldSentOnce == Spec => []OneWorldDrop
<1>1. Init => ClaimInv
  BY InitClaimInv
<1>2. Init => WorldInv
  BY DEF Init, WorldInv, InTurn, NewToSave, OneWorldDrop, OfKind, HasRow
<1>3. WorldInv => OneWorldDrop
  BY DEF WorldInv
<1> QED BY <1>1, <1>2, <1>3, WorldInvStep, ClaimInvStep, PTL DEF Spec

============================================================================
