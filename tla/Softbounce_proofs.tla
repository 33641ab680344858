------------------------- MODULE Softbounce_proofs -------------------------
(***************************************************************************)
(* Proofs about Softbounce: types; what the window (cur, temp] of the      *)
(* collection is for: no bounce is passed by, and none collected twice     *)
(* without a failure; what the maximum id of the merge is for: no row is   *)
(* deleted unmerged, and none merged more than twice; and that an address  *)
(* is given up on the evidence of enough soft bounces only.                *)
(***************************************************************************)
EXTENDS Softbounce, FiniteSetTheorems, TLAPS

\* The types hold in the initial state.
LEMMA TypeInit == Init => TypeOK
  BY BounceAssumption, LimitAssumption
  DEF Init, TypeOK, Time, NoScore, Score, Row, CollectStates, MergeStates, UnsubStates

\* Clock, arrivals and the sections up to the collection keep the types.
LEMMA TypeCollect ==
    ASSUME TypeOK,
           \/ Tick \/ (\E b \in Bounces : Arrive(b)) \/ Start \/ Kill \/ Mark \/ Sleep
           \/ Read \/ (\E c \in Customers : Insert(c)) \/ MoveOn
    PROVE  TypeOK'
<1> USE BounceAssumption, LimitAssumption
    DEF TypeOK, Time, tableVars, localVars, CollectStates, MergeStates, UnsubStates
<1>1. CASE Tick BY <1>1 DEF Tick
<1>2. ASSUME NEW b \in Bounces, Arrive(b) PROVE TypeOK'
  BY <1>2 DEF Arrive
<1>3. CASE Start BY <1>3 DEF Start
<1>4. CASE Kill BY <1>4 DEF Kill, NoScore, Score
<1>5. CASE Mark BY <1>5 DEF Mark
<1>6. CASE Sleep BY <1>6 DEF Sleep
<1>7. CASE Read BY <1>7 DEF Read
<1>8. ASSUME NEW c \in Customers, Insert(c) PROVE TypeOK'
  <2>1. lastId' \in Nat /\ collect' \subseteq Row /\ rows' \subseteq collect'
    BY <1>8 DEF Insert, Row
  <2>2. collected' \in [Bounces -> Nat] /\ window' \subseteq Bounces
    BY <1>8 DEF Insert
  <2> QED BY <1>8, <2>1, <2>2 DEF Insert
<1>9. CASE MoveOn BY <1>9 DEF MoveOn
<1> QED BY <1>1, <1>2, <1>3, <1>4, <1>5, <1>6, <1>7, <1>8, <1>9

\* The merge keeps the types.
LEMMA TypeMerge ==
    ASSUME TypeOK, MaxRow \/ (\E r \in rows : Merge(r)) \/ Purge
    PROVE  TypeOK'
<1> USE BounceAssumption, LimitAssumption
    DEF TypeOK, Time, tableVars, localVars, CollectStates, MergeStates, UnsubStates
<1>1. CASE MaxRow
  <2>1. top' \in Nat BY <1>1 DEF MaxRow, Row
  <2>2. rows' \subseteq collect' BY <1>1 DEF MaxRow, ToMerge
  <2> QED BY <1>1, <2>1, <2>2 DEF MaxRow
<1>2. ASSUME NEW r \in rows, Merge(r) PROVE TypeOK'
  <2>1. r \in Row OBVIOUS
  <2>2. [r EXCEPT !.merged = @ + 1] \in Row BY <2>1 DEF Row
  <2>3. collect' \subseteq Row /\ rows' \subseteq collect' BY <1>2, <2>2 DEF Merge
  <2>4. r.customer \in Customers BY <2>1 DEF Row
  <2>5. score' \in [Customers -> Score] BY <1>2, <2>4 DEF Merge, Score
  <2> QED BY <1>2, <2>3, <2>5 DEF Merge
<1>3. CASE Purge BY <1>3 DEF Purge, Reset
<1> QED BY <1>1, <1>2, <1>3

\* The end of addresses and every failure keep the types.
LEMMA TypeUnsub ==
    ASSUME TypeOK,
           \/ List \/ (\E c \in Customers : Judge(c)) \/ GiveUp \/ Forget \/ Stop \/ Fail
    PROVE  TypeOK'
<1> USE BounceAssumption, LimitAssumption
    DEF TypeOK, Time, tableVars, localVars, CollectStates, MergeStates, UnsubStates
<1>1. CASE List BY <1>1 DEF List
<1>2. ASSUME NEW c \in Customers, Judge(c) PROVE TypeOK'
  BY <1>2 DEF Judge
<1>3. CASE GiveUp BY <1>3 DEF GiveUp
<1>4. CASE Forget BY <1>4 DEF Forget, NoScore, Score
<1>5. CASE Stop BY <1>5 DEF Stop
<1>6. CASE Fail BY <1>6 DEF Fail, Reset, NextSection
<1> QED BY <1>1, <1>2, <1>3, <1>4, <1>5, <1>6

\* Every step keeps the types.
LEMMA TypeStep == TypeOK /\ [Next]_vars => TypeOK'
<1> SUFFICES ASSUME TypeOK, [Next]_vars PROVE TypeOK'
  OBVIOUS
<1>1. CASE UNCHANGED vars
  BY <1>1 DEF vars, tableVars, localVars, TypeOK
<1>2. CASE Next
  BY <1>2, TypeCollect, TypeMerge, TypeUnsub DEF Next, JobStep
<1> QED BY <1>1, <1>2

\* The variables of the job keep their types, the cursors are closed with their
\* section, and an address is at hand in no other state than its two.
THEOREM TypeCorrect == Spec => []TypeOK
BY TypeInit, TypeStep, PTL DEF Spec

----------------------------------------------------------------------------
(* The window of the collection.                                           *)

(* Nothing lies in the future, and the window is closed before it is read. *)
ClockInv ==
    /\ first <= now /\ cur <= now /\ temp <= now
    /\ \A b \in Bounces : at[b] <= now
    /\ cur = first \/ cur < now
    /\ pc \in {"sleep", "read", "insert"} => cur <= temp
    /\ pc \in {"read", "insert"} => temp < now

(* What lies in the window is still to be read, or was collected.          *)
ReadInv ==
    pc = "insert" =>
        \A b \in Bounces : at[b] > cur /\ at[b] <= temp => b \in window \/ collected[b] > 0

(* What is beyond cur was collected by failed attempts only.               *)
RetryInv ==
    /\ \A b \in Bounces : at[b] = 0 => collected[b] = 0
    /\ \A b \in window : pc = "insert" /\ InWindow(b)
    /\ \A b \in Bounces :
         (pc = "insert" => b \in window \/ at[b] > temp) /\ at[b] > cur => collected[b] <= failures

WindowInv == ClockInv /\ ReadInv /\ RetryInv /\ NoneMissed /\ CollectedOnce

\* The window's invariant holds in the initial state.
LEMMA WindowInit == Init => WindowInv
  BY DEF Init, WindowInv, ClockInv, ReadInv, RetryInv, InWindow, NoneMissed, CollectedOnce

\* The steps that move the window keep its invariant.
LEMMA WindowCollect ==
    ASSUME TypeOK, WindowInv, TypeOK',
           \/ Tick \/ (\E b \in Bounces : Arrive(b)) \/ Start \/ Mark \/ Sleep
           \/ Read \/ (\E c \in Customers : Insert(c)) \/ MoveOn
    PROVE  WindowInv'
<1> USE BounceAssumption, LimitAssumption
    DEF TypeOK, Time, tableVars, localVars, WindowInv, ClockInv, ReadInv, RetryInv,
        InWindow, NoneMissed, CollectedOnce
<1>1. CASE Tick BY <1>1 DEF Tick
<1>2. ASSUME NEW b \in Bounces, Arrive(b) PROVE WindowInv'
  <2>1. at[b] = 0 /\ collected[b] = 0 /\ b \notin window BY <1>2 DEF Arrive
  <2>2. at' = [at EXCEPT ![b] = now] /\ UNCHANGED <<now, cur, temp, pc, window, failures, first, collected>>
    BY <1>2 DEF Arrive
  <2>3. ClockInv' BY <2>2
  <2>4. ReadInv' BY <2>2
  <2>5. RetryInv' BY <2>1, <2>2
  <2>6. NoneMissed' BY <2>2
  <2>7. CollectedOnce' BY <2>2
  <2> QED BY <2>3, <2>4, <2>5, <2>6, <2>7
<1>3. CASE Start BY <1>3 DEF Start
<1>4. CASE Mark BY <1>4 DEF Mark
<1>5. CASE Sleep BY <1>5 DEF Sleep
<1>6. CASE Read BY <1>6 DEF Read
<1>7. ASSUME NEW c \in Customers, Insert(c) PROVE WindowInv'
  <2> DEFINE group == {b \in window : CustomerOf[b] = c}
  <2>1. window' = window \ group /\ pc = "insert"
        /\ collected' = [b \in Bounces |-> IF b \in group THEN collected[b] + 1 ELSE collected[b]]
        /\ UNCHANGED <<now, at, cur, temp, pc, failures, first>>
    BY <1>7 DEF Insert
  <2>2. \A b \in Bounces : collected'[b] = IF b \in group THEN collected[b] + 1 ELSE collected[b]
    BY <2>1
  <2>3. \A b \in group : b \in Bounces /\ InWindow(b) /\ collected[b] <= failures
    BY <2>1
  <2> HIDE DEF group
  <2>4. ClockInv' BY <2>1
  <2>5. ReadInv' BY <2>1, <2>2
  <2>6. RetryInv'
    <3>1. \A b \in Bounces : at'[b] = 0 => collected'[b] = 0 BY <2>1, <2>2, <2>3
    <3>2. \A b \in window' : pc' = "insert" /\ InWindow(b)' BY <2>1
    <3>3. \A b \in group : at[b] <= temp /\ b \in window
      BY <2>1 DEF group
    <3> QED BY <2>1, <2>2, <3>1, <3>2, <3>3
  <2>7. NoneMissed' BY <2>1, <2>2
  <2>8. CollectedOnce' BY <2>1, <2>2, <2>3
  <2> QED BY <2>4, <2>5, <2>6, <2>7, <2>8
<1>8. CASE MoveOn BY <1>8 DEF MoveOn
<1> QED BY <1>1, <1>2, <1>3, <1>4, <1>5, <1>6, <1>7, <1>8

\* The other sections of the job leave the window alone.
LEMMA WindowRest ==
    ASSUME TypeOK, WindowInv,
           \/ Kill \/ MaxRow \/ (\E r \in rows : Merge(r)) \/ Purge \/ List
           \/ (\E c \in Customers : Judge(c)) \/ GiveUp \/ Forget \/ Stop
    PROVE  WindowInv'
<1>1. /\ pc \notin {"sleep", "read", "insert"} /\ pc' \notin {"sleep", "read", "insert"}
      /\ UNCHANGED <<now, at, cur, temp, failures, first, collected>>
      /\ window' = {} \/ window' = window
  BY DEF Kill, MaxRow, Merge, Purge, Reset, List, Judge, GiveUp, Forget, Stop, tableVars, localVars
<1> QED
  BY <1>1 DEF TypeOK, WindowInv, ClockInv, ReadInv, RetryInv, InWindow, NoneMissed, CollectedOnce

\* A failure gives up the window, and allows for one more collection.
LEMMA WindowFail ==
    ASSUME TypeOK, WindowInv, Fail
    PROVE  WindowInv'
<1>1. pc' \notin {"sleep", "read", "insert"}
  BY DEF Fail, NextSection
<1>2. /\ failures' = failures + 1 /\ window' = {}
      /\ UNCHANGED <<now, at, cur, temp, first, collected>>
  BY DEF Fail, Reset, tableVars
<1> QED
  BY <1>1, <1>2 DEF TypeOK, WindowInv, ClockInv, ReadInv, RetryInv, InWindow, NoneMissed, CollectedOnce

\* Every step keeps the window's invariant.
LEMMA WindowStep == TypeOK /\ TypeOK' /\ WindowInv /\ [Next]_vars => WindowInv'
<1> SUFFICES ASSUME TypeOK, TypeOK', WindowInv, [Next]_vars PROVE WindowInv'
  OBVIOUS
<1>1. CASE UNCHANGED vars
  BY <1>1 DEF vars, tableVars, localVars, WindowInv, ClockInv, ReadInv, RetryInv,
              InWindow, NoneMissed, CollectedOnce
<1>2. CASE Next
  BY <1>2, WindowCollect, WindowRest, WindowFail DEF Next, JobStep
<1> QED BY <1>1, <1>2

\* No bounce that came after the first run is passed by: when cur has moved
\* beyond it, some run has collected it.
THEOREM NeverMissed == Spec => []NoneMissed
<1>1. TypeOK /\ WindowInv => NoneMissed
  BY DEF WindowInv
<1> QED BY <1>1, WindowInit, WindowStep, TypeCorrect, PTL DEF Spec

\* Every collection of a bounce but one is accounted for by a failure.
THEOREM RepeatedByFailure == Spec => []CollectedOnce
<1>1. TypeOK /\ WindowInv => CollectedOnce
  BY DEF WindowInv
<1> QED BY <1>1, WindowInit, WindowStep, TypeCorrect, PTL DEF Spec
----------------------------------------------------------------------------
(* The merge.  Only the newest row survives it, so at any time only the    *)
(* oldest row of the table was merged before; the row's own id tells rows  *)
(* apart.                                                                  *)

IdsInv == \A r \in collect : r.id <= lastId /\ \A q \in collect : q.id = r.id => q = r

Oldest(r) == \A q \in collect : q.id >= r.id

Once(cond) == IF cond THEN 1 ELSE 0

(* A merge of the oldest row by an earlier run, one by this run, and one   *)
(* for each failure.                                                       *)
MergedInv ==
    \A r \in collect : r.merged <= failures + Once(Oldest(r)) + Once(pc = "merge" /\ r \notin rows)

(* The merge is on only if there is something to delete after it.          *)
SectionInv ==
    pc = "merge" => /\ \A r \in collect : r.id <= top
                    /\ \E q \in collect : q.id < top
                    /\ \A r \in collect \ rows : r.merged > 0

MergeInv == IdsInv /\ MergedInv /\ SectionInv

\* What a merge makes of the table.
LEMMA MergeResult ==
    ASSUME TypeOK, IdsInv, NEW r \in rows, Merge(r)
    PROVE  /\ \A q \in collect' : \/ q \in collect /\ q.id # r.id /\ (q \in rows' <=> q \in rows)
                                  \/ q.id = r.id /\ q.customer = r.customer /\ q.merged = r.merged + 1
                                     /\ q \notin rows'
           /\ \A q \in collect : q # r => q \in collect'
           /\ \E q \in collect' : q.id = r.id /\ q.merged = r.merged + 1
           /\ \A q \in collect' : q.id \in Nat /\ q.merged \in Nat
<1> DEFINE more == [r EXCEPT !.merged = @ + 1]
<1>1. collect' = (collect \ {r}) \cup {more} /\ rows' = rows \ {r}
  BY DEF Merge
<1>2. r \in collect /\ r \in Row /\ rows \subseteq collect /\ collect \subseteq Row
  BY DEF TypeOK
<1>3. more.id = r.id /\ more.customer = r.customer /\ more.merged = r.merged + 1 /\ more \in Row /\ more # r
  BY <1>2 DEF Row
<1> HIDE DEF more
<1>4. more \notin collect
  BY <1>2, <1>3 DEF IdsInv
<1>5. \A q \in collect : q # r => q.id # r.id
  BY <1>2 DEF IdsInv
<1>6. \A q \in collect' : q.id \in Nat /\ q.merged \in Nat
  BY <1>1, <1>2, <1>3 DEF Row
<1> QED BY <1>1, <1>2, <1>3, <1>4, <1>5, <1>6

\* The sections that touch the table keep the invariant of the merge, and so do the others.
LEMMA MergeStep == TypeOK /\ MergeInv /\ [Next]_vars => MergeInv'
<1> SUFFICES ASSUME TypeOK, MergeInv, [Next]_vars PROVE MergeInv'
  OBVIOUS
<1>a. /\ collect \subseteq Row /\ rows \subseteq collect /\ lastId \in Nat /\ failures \in Nat /\ top \in Nat
      /\ \A r \in collect : r.id \in Nat /\ r.merged \in Nat
  BY LimitAssumption DEF TypeOK, Row
<1>1. ASSUME UNCHANGED <<collect, lastId, failures>>, pc # "merge", pc' # "merge" PROVE MergeInv'
  BY <1>1 DEF MergeInv, IdsInv, MergedInv, SectionInv, Oldest, Once
<1>2. ASSUME UNCHANGED <<collect, lastId, failures, pc, top, rows>> PROVE MergeInv'
  BY <1>2 DEF MergeInv, IdsInv, MergedInv, SectionInv, Oldest, Once
<1>3. ASSUME NEW c \in Customers, Insert(c) PROVE MergeInv'
  <2>1. pc = "insert" /\ pc' = pc /\ failures' = failures
    BY <1>3 DEF Insert
  <2>2. CASE UNCHANGED <<collect, lastId>>
    BY <1>1, <2>1, <2>2
  <2>3. ASSUME NEW new, new = [id |-> lastId + 1, customer |-> c, merged |-> 0],
               lastId' = lastId + 1, collect' = collect \cup {new}
        PROVE  MergeInv'
    <3>1. new.id = lastId + 1 /\ new.merged = 0
      BY <2>3
    <3>2. IdsInv'
      BY <1>a, <2>3, <3>1 DEF MergeInv, IdsInv
    <3>3. \A r \in collect : Oldest(r)' <=> Oldest(r)
      BY <1>a, <2>3, <3>1 DEF MergeInv, IdsInv, Oldest
    <3>4. MergedInv'
      <4> SUFFICES ASSUME NEW r \in collect'
                   PROVE  r.merged <= failures + Once(Oldest(r)') + Once(pc = "merge" /\ r \notin rows')
        BY <2>1 DEF MergedInv
      <4>1. CASE r \in collect
        <5>1. r.merged <= failures + Once(Oldest(r)) + Once(pc = "merge" /\ r \notin rows)
          BY <4>1 DEF MergeInv, MergedInv
        <5> QED BY <2>1, <3>3, <4>1, <5>1 DEF Once
      <4>2. CASE r = new
        BY <1>a, <3>1, <4>2 DEF Once
      <4> QED BY <2>3, <4>1, <4>2
    <3> QED BY <2>1, <3>2, <3>4 DEF MergeInv, SectionInv
  <2> QED BY <1>3, <2>2, <2>3 DEF Insert
<1>4. ASSUME MaxRow PROVE MergeInv'
  <2>1. /\ UNCHANGED <<collect, lastId, failures>> /\ pc = "max"
        /\ rows' = ToMerge(top')
        /\ pc' = IF \E r \in collect : r.id < top' THEN "merge" ELSE "list"
        /\ collect = {} \/ \A r \in collect : r.id <= top'
    BY <1>4 DEF MaxRow, tableVars
  <2>2. CASE \E r \in collect : r.id < top'
    <3>1. rows' = collect /\ pc' = "merge"
      BY <2>1, <2>2 DEF ToMerge
    <3> QED BY <2>1, <2>2, <3>1 DEF MergeInv, IdsInv, MergedInv, SectionInv, Oldest, Once
  <2>3. CASE ~ \E r \in collect : r.id < top'
    BY <1>1, <2>1, <2>3
  <2> QED BY <2>2, <2>3
<1>5. ASSUME NEW r \in rows, Merge(r) PROVE MergeInv'
  <2>1. pc = "merge" /\ UNCHANGED <<pc, top, lastId, failures>>
    BY <1>5 DEF Merge
  <2>2. /\ \A q \in collect' : \/ q \in collect /\ q.id # r.id /\ (q \in rows' <=> q \in rows)
                               \/ q.id = r.id /\ q.merged = r.merged + 1 /\ q \notin rows'
        /\ \A q \in collect : q # r => q \in collect'
        /\ \E q \in collect' : q.id = r.id
        /\ \A q \in collect' : q.id \in Nat /\ q.merged \in Nat
    BY <1>5, MergeResult DEF MergeInv
  <2>3. r \in collect /\ r.id \in Nat /\ r.merged \in Nat
    BY <1>a
  <2>4. \A q \in collect' : \E p \in collect : p.id = q.id
    BY <2>2, <2>3
  <2>5. \A q \in collect : \E p \in collect' : p.id = q.id
    BY <2>2
  <2>6. IdsInv'
    <3>1. collect' = (collect \ {r}) \cup {[r EXCEPT !.merged = @ + 1]}
      BY <1>5 DEF Merge
    <3> QED BY <2>1, <2>2, <2>3, <3>1 DEF MergeInv, IdsInv
  <2>7. \A q, p : p.id = q.id => (Oldest(p)' <=> Oldest(q))
    BY <2>4, <2>5 DEF Oldest
  <2>8. MergedInv'
    <3> SUFFICES ASSUME NEW q \in collect'
                 PROVE  q.merged <= failures + Once(Oldest(q)') + Once(q \notin rows')
      BY <2>1 DEF MergedInv
    <3>1. CASE q \in collect /\ (q \in rows' <=> q \in rows)
      BY <2>1, <2>7, <3>1 DEF MergeInv, MergedInv, Once
    <3>2. CASE q.id = r.id /\ q.merged = r.merged + 1 /\ q \notin rows'
      <4>1. r.merged <= failures + Once(Oldest(r))
        BY <1>a, <2>1, <2>3 DEF MergeInv, MergedInv, Once
      <4>2. Oldest(q)' <=> Oldest(r)
        BY <2>7, <3>2
      <4> QED BY <1>a, <2>3, <3>2, <4>1, <4>2 DEF Once
    <3> QED BY <2>2, <3>1, <3>2
  <2>9. SectionInv'
    <3>1. \A q \in collect' : q.id <= top
      BY <2>1, <2>4 DEF MergeInv, SectionInv
    <3>2. \E q \in collect' : q.id < top
      BY <2>1, <2>5 DEF MergeInv, SectionInv
    <3>3. \A q \in collect' \ rows' : q.merged > 0
      BY <2>1, <2>2, <2>3 DEF MergeInv, SectionInv
    <3> QED BY <2>1, <3>1, <3>2, <3>3 DEF SectionInv
  <2> QED BY <2>6, <2>8, <2>9 DEF MergeInv
<1>6. ASSUME Purge PROVE MergeInv'
  <2>1. /\ pc = "merge" /\ pc' = "list" /\ rows = {} /\ UNCHANGED <<lastId, failures>>
        /\ collect' = {r \in collect : r.id >= top}
    BY <1>6 DEF Purge
  <2>2. \A r \in collect' : r \in collect /\ r.id = top
    BY <1>a, <2>1 DEF MergeInv, SectionInv
  <2>3. \A r \in collect' : ~Oldest(r) /\ Oldest(r)'
    BY <1>a, <2>1, <2>2 DEF MergeInv, SectionInv, Oldest
  <2>4. MergedInv'
    BY <1>a, <2>1, <2>2, <2>3 DEF MergeInv, MergedInv, Once
  <2> QED BY <2>1, <2>2, <2>4 DEF MergeInv, IdsInv, SectionInv
<1>7. ASSUME Fail PROVE MergeInv'
  <2>1. failures' = failures + 1 /\ pc' # "merge" /\ UNCHANGED <<collect, lastId>>
    BY <1>7 DEF Fail, NextSection, tableVars
  <2>2. MergedInv'
    BY <1>a, <2>1 DEF MergeInv, MergedInv, Oldest, Once
  <2> QED BY <2>1, <2>2 DEF MergeInv, IdsInv, SectionInv
<1>8. ASSUME Start \/ Kill \/ Mark \/ Sleep \/ Read \/ MoveOn \/ List \/ (\E c \in Customers : Judge(c))
             \/ GiveUp \/ Forget \/ Stop
      PROVE  MergeInv'
  BY <1>1, <1>8 DEF Start, Kill, Mark, Sleep, Read, MoveOn, List, Judge, GiveUp, Forget, Stop, tableVars
<1>9. ASSUME Tick \/ (\E b \in Bounces : Arrive(b)) \/ UNCHANGED vars PROVE MergeInv'
  BY <1>2, <1>9 DEF Tick, Arrive, vars, tableVars, localVars
<1> QED BY <1>3, <1>4, <1>5, <1>6, <1>7, <1>8, <1>9 DEF Next, JobStep

\* A row is merged by at most two runs that end well.
THEOREM MergedAgainOnce == Spec => []MergedTwiceAtMost
<1>1. Init => MergeInv
  BY DEF Init, MergeInv, IdsInv, MergedInv, SectionInv
<1>2. TypeOK /\ MergeInv => MergedTwiceAtMost
  BY LimitAssumption DEF TypeOK, Row, MergeInv, MergedInv, Once, MergedTwiceAtMost
<1> QED BY <1>1, <1>2, MergeStep, TypeCorrect, PTL DEF Spec

\* No row is deleted unmerged, whatever failed before: the delete follows the end of the cursor.
THEOREM MergedFirst == Spec => PurgedOnlyMerged
<1> DEFINE Kept == \A r \in collect : (\A q \in collect' : q.id # r.id) => r.merged > 0
<1>1. ASSUME TypeOK, MergeInv, [Next]_vars PROVE [Kept]_vars
  <2>1. CASE collect' = collect
    BY <2>1
  <2>2. ASSUME NEW c \in Customers, Insert(c) PROVE Kept
    BY <2>2 DEF Insert
  <2>3. ASSUME NEW r \in rows, Merge(r) PROVE Kept
    BY <1>1, <2>3, MergeResult DEF MergeInv
  <2>4. ASSUME Purge PROVE Kept
    <3>1. \A r \in collect : r.merged > 0
      BY <1>1, <2>4 DEF Purge, MergeInv, SectionInv
    <3> QED BY <3>1
  <2>5. \/ collect' = collect
        \/ \E c \in Customers : Insert(c)
        \/ \E r \in rows : Merge(r)
        \/ Purge
    BY <1>1 DEF Next, JobStep, Tick, Arrive, Start, Kill, Mark, Sleep, Read, MoveOn, MaxRow, List, Judge, GiveUp,
                Forget, Stop, Fail, vars, tableVars
  <2> QED BY <2>1, <2>2, <2>3, <2>4, <2>5
<1>2. Init => MergeInv
  BY DEF Init, MergeInv, IdsInv, MergedInv, SectionInv
<1> QED BY <1>1, <1>2, MergeStep, TypeCorrect, PTL DEF Spec, PurgedOnlyMerged

----------------------------------------------------------------------------
(* Without a failure every point of a score is owed to a soft bounce of    *)
(* the address, and at most two points to each: a bounce that is collected *)
(* makes a row that will be merged at most twice.                          *)

Arrived(c) == {b \in Bounces \ HardBounces : CustomerOf[b] = c /\ at[b] > 0}

Soft(c) == {b \in Bounces \ HardBounces : CustomerOf[b] = c /\ collected[b] > 0}

(* The merges that rows of c are still good for.                           *)
Due(c) == {m \in Nat \X {1, 2} : \E r \in collect : r.id = m[1] /\ r.customer = c /\ r.merged < m[2]}

FiniteInv == \A c \in Customers : IsFiniteSet(Arrived(c)) /\ IsFiniteSet(Due(c))

ScoreInv ==
    failures = 0 => \A c \in Customers : score[c].cnt + Cardinality(Due(c)) <= 2 * Cardinality(Soft(c))

(* Whoever is judged has the score that the list saw.                      *)
JudgeInv ==
    /\ pc \in {"judge", "giveup", "forget"} => \A c \in todo : score[c].cnt > Limit
    /\ pc = "giveup" => score[who].cnt > Limit
    /\ who \notin todo

EvidenceInv == FiniteInv /\ ScoreInv /\ JudgeInv /\ GivenUpOnEvidence

\* Soft bounces that were collected have arrived, and all counts are numbers.
LEMMA SoftCounts ==
    ASSUME TypeOK, WindowInv, FiniteInv, NEW c \in Customers
    PROVE  /\ Soft(c) \subseteq Arrived(c) /\ IsFiniteSet(Soft(c))
           /\ Cardinality(Soft(c)) \in Nat /\ Cardinality(Arrived(c)) \in Nat /\ Cardinality(Due(c)) \in Nat
           /\ Cardinality(Soft(c)) <= Cardinality(Arrived(c))
           /\ score[c].cnt \in Nat
<1>1. Soft(c) \subseteq Arrived(c)
  <2>1. \A b \in Bounces : at[b] \in Nat /\ collected[b] \in Nat /\ (at[b] = 0 => collected[b] = 0)
    BY LimitAssumption DEF TypeOK, Time, WindowInv, RetryInv
  <2> QED BY <2>1 DEF Soft, Arrived
<1>2. IsFiniteSet(Arrived(c)) /\ IsFiniteSet(Due(c))
  BY DEF FiniteInv
<1>3. IsFiniteSet(Soft(c)) /\ Cardinality(Soft(c)) <= Cardinality(Arrived(c))
  BY <1>1, <1>2, FS_Subset
<1>4. Cardinality(Soft(c)) \in Nat /\ Cardinality(Arrived(c)) \in Nat /\ Cardinality(Due(c)) \in Nat
  BY <1>2, <1>3, FS_CardinalityType
<1>5. score[c].cnt \in Nat
  BY DEF TypeOK, Score
<1> QED BY <1>1, <1>3, <1>4, <1>5

\* What a step must do to the counters of an address to keep the account.
LEMMA ScoreKept ==
    ASSUME TypeOK, WindowInv, FiniteInv, ScoreInv, NEW c \in Customers, failures = 0,
           Due(c)' \subseteq Due(c), Soft(c)' = Soft(c), score'[c].cnt \in Nat, score'[c].cnt <= score[c].cnt
    PROVE  IsFiniteSet(Due(c)') /\ score'[c].cnt + Cardinality(Due(c)') <= 2 * Cardinality(Soft(c)')
<1>1. IsFiniteSet(Due(c)') /\ Cardinality(Due(c)') <= Cardinality(Due(c))
  BY FS_Subset DEF FiniteInv
<1>2. Cardinality(Due(c)') \in Nat
  BY <1>1, FS_CardinalityType
<1>3. score[c].cnt + Cardinality(Due(c)) <= 2 * Cardinality(Soft(c))
  BY DEF ScoreInv
<1> QED BY <1>1, <1>2, <1>3, SoftCounts

\* A bounce that arrives is one more.
LEMMA ArrivedMore ==
    ASSUME NEW b \in Bounces, Arrive(b), TypeOK, NEW c \in Customers, IsFiniteSet(Arrived(c))
    PROVE  IsFiniteSet(Arrived(c)') /\ Cardinality(Arrived(c)) <= Cardinality(Arrived(c)')
<1>1. \A d \in Bounces : at'[d] = IF d = b THEN now ELSE at[d]
  BY DEF Arrive, TypeOK
<1>2. at[b] = 0 /\ now > 0
  BY LimitAssumption DEF Arrive, TypeOK, Time
<1>3. Arrived(c) \subseteq Arrived(c)'
  BY <1>1, <1>2 DEF Arrived
<1>4. Arrived(c)' \subseteq Arrived(c) \cup {b}
  BY <1>1, <1>2 DEF Arrived
<1>5. IsFiniteSet(Arrived(c) \cup {b})
  BY FS_AddElement
<1>6. IsFiniteSet(Arrived(c)')
  BY <1>4, <1>5, FS_Subset
<1> QED BY <1>3, <1>6, FS_Subset

\* Two elements more make at most two more.
LEMMA AtMostTwoMore ==
    ASSUME NEW S, IsFiniteSet(S), NEW x, NEW y, NEW T, T \subseteq S \cup {x, y}
    PROVE  IsFiniteSet(T) /\ Cardinality(T) <= Cardinality(S) + 2
<1> DEFINE U == S \cup {x}
           V == U \cup {y}
<1>1. Cardinality(S) \in Nat
  BY FS_CardinalityType
<1>2. IsFiniteSet(U) /\ Cardinality(U) <= Cardinality(S) + 1 /\ Cardinality(U) \in Nat
  BY <1>1, FS_AddElement, FS_CardinalityType
<1>3. T \subseteq V
  OBVIOUS
<1> HIDE DEF U
<1>4. IsFiniteSet(V) /\ Cardinality(V) <= Cardinality(U) + 1 /\ Cardinality(V) \in Nat
  <2>1. /\ IsFiniteSet(V)
        /\ Cardinality(V) = IF y \in U THEN Cardinality(U) ELSE Cardinality(U) + 1
    BY <1>2, FS_AddElement
  <2> HIDE DEF V
  <2> QED BY <1>2, <2>1, FS_CardinalityType
<1> HIDE DEF V
<1>5. IsFiniteSet(T) /\ Cardinality(T) <= Cardinality(V) /\ Cardinality(T) \in Nat
  BY <1>3, <1>4, FS_Subset, FS_CardinalityType
<1> QED BY <1>1, <1>2, <1>4, <1>5

\* A row that the collection stores is owed to a bounce that was not collected before.
LEMMA InsertCounts ==
    ASSUME TypeOK, WindowInv, MergeInv, FiniteInv, ScoreInv, NEW d \in Customers, Insert(d), NEW c \in Customers
    PROVE  /\ IsFiniteSet(Due(c)')
           /\ failures = 0 => score[c].cnt + Cardinality(Due(c)') <= 2 * Cardinality(Soft(c)')
<1> DEFINE group == {b \in window : CustomerOf[b] = d}
           Added == {<<lastId + 1, 1>>, <<lastId + 1, 2>>}
<1>a. /\ group # {} /\ pc = "insert" /\ lastId \in Nat
      /\ \A b \in Bounces : collected'[b] = IF b \in group THEN collected[b] + 1 ELSE collected[b]
      /\ at' = at
  BY DEF Insert, TypeOK
<1>b. /\ group \subseteq Bounces
      /\ \A b \in Bounces : collected[b] \in Nat
      /\ \A b \in group : CustomerOf[b] = d /\ collected[b] <= failures
  BY DEF TypeOK, WindowInv, RetryInv, InWindow
<1>c. \A r \in collect : r.id \in Nat /\ r.id <= lastId /\ r.merged \in Nat
  BY DEF TypeOK, Row, MergeInv, IdsInv
<1>d. IsFiniteSet(Due(c)) /\ IsFiniteSet(Soft(c)) /\ Cardinality(Due(c)) \in Nat /\ Cardinality(Soft(c)) \in Nat
      /\ score[c].cnt \in Nat
  BY SoftCounts DEF FiniteInv
<1>e. failures = 0 => score[c].cnt + Cardinality(Due(c)) <= 2 * Cardinality(Soft(c))
  BY DEF ScoreInv
<1>f. IsFiniteSet(Soft(c)')
  <2>1. Soft(c)' \subseteq Arrived(c)
    BY <1>a, <1>b, LimitAssumption DEF Soft, Arrived, TypeOK, Time, WindowInv, RetryInv, InWindow, ClockInv
  <2> QED BY <2>1, FS_Subset DEF FiniteInv
<1>g. Soft(c) \subseteq Soft(c)'
  BY <1>a, <1>b DEF Soft
<1>h. Cardinality(Soft(c)) <= Cardinality(Soft(c)') /\ Cardinality(Soft(c)') \in Nat
  BY <1>f, <1>g, FS_Subset, FS_CardinalityType
<1>1. CASE UNCHANGED collect
  <2>1. Due(c)' = Due(c)
    BY <1>1 DEF Due
  <2> QED BY <1>d, <1>e, <1>h, <2>1
<1>2. ASSUME NEW new, new = [id |-> lastId + 1, customer |-> d, merged |-> 0],
             collect' = collect \cup {new}, group \cap HardBounces = {}
      PROVE  /\ IsFiniteSet(Due(c)')
             /\ failures = 0 => score[c].cnt + Cardinality(Due(c)') <= 2 * Cardinality(Soft(c)')
  <2>1. new.id = lastId + 1 /\ new.customer = d /\ new.merged = 0
    BY <1>2
  <2>2. CASE c # d
    <3>1. Due(c)' = Due(c)
      BY <1>2, <2>1, <2>2 DEF Due
    <3> QED BY <1>d, <1>e, <1>h, <3>1
  <2>3. CASE c = d
    <3>1. PICK b \in group : TRUE
      BY <1>a
    <3>2. b \in Bounces \ HardBounces /\ CustomerOf[b] = c /\ collected'[b] > 0
      BY <1>a, <1>b, <1>2, <2>3, <3>1
    <3>3. failures = 0 => b \notin Soft(c)
      BY <1>b, <3>1 DEF Soft
    <3>4. b \in Soft(c)'
      BY <3>2 DEF Soft
    <3>5. Soft(c) \cup {b} \subseteq Soft(c)'
      BY <1>g, <3>4
    <3>6. failures = 0 => Cardinality(Soft(c)) + 1 <= Cardinality(Soft(c)')
      <4>1. Cardinality(Soft(c) \cup {b}) <= Cardinality(Soft(c)')
        BY <1>f, <3>5, FS_Subset
      <4>2. failures = 0 => Cardinality(Soft(c) \cup {b}) = Cardinality(Soft(c)) + 1
        BY <1>d, <3>3, FS_AddElement
      <4> QED BY <4>1, <4>2
    <3>7. Due(c)' \subseteq Due(c) \cup {<<lastId + 1, 1>>, <<lastId + 1, 2>>}
      <4> SUFFICES ASSUME NEW m \in Due(c)', m \notin Due(c)
                   PROVE  m = <<lastId + 1, 1>> \/ m = <<lastId + 1, 2>>
        OBVIOUS
      <4>1. m \in Nat \X {1, 2}
        BY DEF Due
      <4>2. PICK r \in collect' : r.id = m[1] /\ r.customer = c /\ r.merged < m[2]
        BY DEF Due
      <4>3. r \notin collect
        BY <4>1, <4>2 DEF Due
      <4> QED BY <1>2, <2>1, <4>1, <4>2, <4>3
    <3>8. IsFiniteSet(Due(c)') /\ Cardinality(Due(c)') <= Cardinality(Due(c)) + 2
      BY <1>d, <3>7, AtMostTwoMore
    <3>9. Cardinality(Due(c)') \in Nat
      BY <3>8, FS_CardinalityType
    <3> QED BY <1>d, <1>e, <1>h, <3>6, <3>8, <3>9
  <2> QED BY <2>2, <2>3
<1> QED BY <1>1, <1>2 DEF Insert

\* A point of the score is a merge that was due.
LEMMA MergeCounts ==
    ASSUME TypeOK, WindowInv, MergeInv, FiniteInv, ScoreInv, NEW r \in rows, Merge(r), NEW c \in Customers
    PROVE  /\ IsFiniteSet(Due(c)')
           /\ failures = 0 => score'[c].cnt + Cardinality(Due(c)') <= 2 * Cardinality(Soft(c)')
<1>1. /\ \A q \in collect' : \/ q \in collect /\ q.id # r.id
                             \/ q.id = r.id /\ q.customer = r.customer /\ q.merged = r.merged + 1
      /\ r \in collect /\ r.id \in Nat /\ r.merged \in Nat /\ r.customer \in Customers
  BY MergeResult DEF TypeOK, Row, MergeInv
<1>2. Due(c)' \subseteq Due(c)
  <2> SUFFICES ASSUME NEW i \in Nat, NEW k \in {1, 2}, <<i, k>> \in Due(c)' PROVE <<i, k>> \in Due(c)
    BY DEF Due
  <2>1. PICK q \in collect' : q.id = i /\ q.customer = c /\ q.merged < k
    BY DEF Due
  <2>2. \E p \in collect : p.id = i /\ p.customer = c /\ p.merged < k
    BY <1>1, <2>1
  <2> QED BY <2>2 DEF Due
<1>3. Soft(c)' = Soft(c)
  BY DEF Soft, Merge
<1>4. IsFiniteSet(Due(c)) /\ Cardinality(Due(c)) \in Nat /\ Cardinality(Soft(c)) \in Nat /\ score[c].cnt \in Nat
  BY SoftCounts DEF FiniteInv
<1>5. IsFiniteSet(Due(c)') /\ Cardinality(Due(c)') <= Cardinality(Due(c))
  BY <1>2, <1>4, FS_Subset
<1>6. CASE c # r.customer
  <2>1. score'[c] = score[c]
    BY <1>6 DEF Merge, TypeOK
  <2> QED BY <1>2, <1>3, <1>4, <1>5, <2>1, ScoreKept
<1>7. ASSUME c = r.customer, failures = 0
      PROVE  score'[c].cnt + Cardinality(Due(c)') <= 2 * Cardinality(Soft(c)')
  <2>1. score'[c].cnt = score[c].cnt + 1
    BY <1>1, <1>7 DEF Merge, TypeOK
  <2>2. r.merged + 1 \in {1, 2}
    <3>1. r.merged <= failures + Once(Oldest(r)) + Once(pc = "merge" /\ r \notin rows)
      BY <1>1 DEF MergeInv, MergedInv
    <3> QED BY <1>1, <1>7, <3>1 DEF Once
  <2> DEFINE m == <<r.id, r.merged + 1>>
  <2>3. m \in Due(c)
    BY <1>1, <1>7, <2>2 DEF Due
  <2>4. m \notin Due(c)'
    <3> SUFFICES ASSUME m \in Due(c)' PROVE FALSE
      OBVIOUS
    <3>1. PICK q \in collect' : q.id = r.id /\ q.customer = c /\ q.merged < r.merged + 1
      BY DEF Due
    <3> QED BY <1>1, <3>1
  <2> HIDE DEF m
  <2>5. Due(c)' \subseteq Due(c) \ {m}
    BY <1>2, <2>4
  <2>6. IsFiniteSet(Due(c) \ {m}) /\ Cardinality(Due(c) \ {m}) = Cardinality(Due(c)) - 1
    BY <1>4, <2>3, FS_RemoveElement
  <2>7. Cardinality(Due(c)') <= Cardinality(Due(c)) - 1 /\ Cardinality(Due(c)') \in Nat
    BY <1>5, <2>5, <2>6, FS_Subset, FS_CardinalityType
  <2>8. score[c].cnt + Cardinality(Due(c)) <= 2 * Cardinality(Soft(c))
    BY <1>7 DEF ScoreInv
  <2> QED BY <1>3, <1>4, <2>1, <2>7, <2>8
<1> QED BY <1>5, <1>6, <1>7

\* Every step keeps the account: only Insert and Merge change it on both sides.
LEMMA EvidenceStep ==
    TypeOK /\ TypeOK' /\ WindowInv /\ MergeInv /\ EvidenceInv /\ [Next]_vars => EvidenceInv'
<1> SUFFICES ASSUME TypeOK, TypeOK', WindowInv, MergeInv, EvidenceInv, [Next]_vars PROVE EvidenceInv'
  OBVIOUS
<1> USE BounceAssumption, LimitAssumption
<1>a. FiniteInv /\ ScoreInv /\ JudgeInv /\ GivenUpOnEvidence
  BY DEF EvidenceInv
<1>b. failures \in Nat /\ failures' \in Nat
  BY DEF TypeOK
<1>c. \A c \in Customers : IsFiniteSet(Arrived(c)')
  <2> SUFFICES ASSUME NEW c \in Customers PROVE IsFiniteSet(Arrived(c)')
    OBVIOUS
  <2>1. CASE at' = at
    BY <1>a, <2>1 DEF FiniteInv, Arrived
  <2>2. ASSUME NEW b \in Bounces, Arrive(b) PROVE IsFiniteSet(Arrived(c)')
    BY <1>a, <2>2, ArrivedMore DEF FiniteInv
  <2>3. at' = at \/ \E b \in Bounces : Arrive(b)
    BY DEF Next, JobStep, Tick, Start, Kill, Mark, Sleep, Read, Insert, MoveOn, MaxRow, Merge, Purge, List,
           Judge, GiveUp, Forget, Stop, Fail, vars, tableVars
  <2> QED BY <2>1, <2>2, <2>3
<1>d. \/ \E c \in Customers : Insert(c)
      \/ \E r \in rows : Merge(r)
      \/ /\ collected' = collected
         /\ collect' \subseteq collect
         /\ \A c \in Customers : score'[c].cnt = score[c].cnt \/ score'[c] = NoScore
  <2>1. CASE Kill
    BY <2>1 DEF Kill, TypeOK
  <2>2. CASE Forget
    BY <2>2 DEF Forget, TypeOK
  <2>3. CASE Purge
    BY <2>3 DEF Purge
  <2>4. CASE \/ Tick \/ (\E b \in Bounces : Arrive(b)) \/ Start \/ Mark \/ Sleep \/ Read \/ MoveOn \/ MaxRow
             \/ List \/ (\E c \in Customers : Judge(c)) \/ GiveUp \/ Stop \/ Fail \/ UNCHANGED vars
    BY <2>4 DEF Tick, Arrive, Start, Mark, Sleep, Read, MoveOn, MaxRow, List, Judge, GiveUp, Stop, Fail,
                vars, tableVars
  <2> QED BY <2>1, <2>2, <2>3, <2>4 DEF Next, JobStep
<1>e. failures' = 0 => failures = 0
  <2>1. failures' = failures \/ failures' = failures + 1
    BY DEF Next, JobStep, Tick, Arrive, Start, Kill, Mark, Sleep, Read, Insert, MoveOn, MaxRow, Merge, Purge,
           List, Judge, GiveUp, Forget, Stop, Fail, vars
  <2> QED BY <1>b, <2>1
<1>1. \A c \in Customers :
        /\ IsFiniteSet(Due(c)')
        /\ failures' = 0 => score'[c].cnt + Cardinality(Due(c)') <= 2 * Cardinality(Soft(c)')
  <2> SUFFICES ASSUME NEW c \in Customers
               PROVE  /\ IsFiniteSet(Due(c)')
                      /\ failures' = 0 => score'[c].cnt + Cardinality(Due(c)') <= 2 * Cardinality(Soft(c)')
    OBVIOUS
  <2>1. ASSUME NEW d \in Customers, Insert(d)
        PROVE  /\ IsFiniteSet(Due(c)')
               /\ failures' = 0 => score'[c].cnt + Cardinality(Due(c)') <= 2 * Cardinality(Soft(c)')
    <3>1. score' = score
      BY <2>1 DEF Insert
    <3> QED BY <1>a, <1>e, <2>1, <3>1, InsertCounts
  <2>2. ASSUME NEW r \in rows, Merge(r)
        PROVE  /\ IsFiniteSet(Due(c)')
               /\ failures' = 0 => score'[c].cnt + Cardinality(Due(c)') <= 2 * Cardinality(Soft(c)')
    BY <1>a, <1>e, <2>2, MergeCounts
  <2>3. CASE /\ collected' = collected
             /\ collect' \subseteq collect
             /\ score'[c].cnt = score[c].cnt \/ score'[c] = NoScore
    <3>1. Due(c)' \subseteq Due(c) /\ Soft(c)' = Soft(c)
      BY <2>3 DEF Due, Soft
    <3>2. score'[c].cnt \in Nat /\ score'[c].cnt <= score[c].cnt
      BY <2>3 DEF TypeOK, Score, NoScore
    <3>3. IsFiniteSet(Due(c)')
      BY <1>a, <3>1, FS_Subset DEF FiniteInv
    <3> QED BY <1>a, <1>e, <3>1, <3>2, <3>3, ScoreKept
  <2> QED BY <1>d, <2>1, <2>2, <2>3
<1>2. FiniteInv' /\ ScoreInv'
  BY <1>c, <1>1 DEF FiniteInv, ScoreInv
<1>3. JudgeInv'
  <2> USE <1>a DEF JudgeInv
  <2>1. CASE List
    BY <2>1 DEF List, High, TypeOK, UnsubStates, tableVars
  <2>2. ASSUME NEW c \in Customers, Judge(c) PROVE JudgeInv'
    BY <2>2 DEF Judge, tableVars, TypeOK
  <2>3. CASE GiveUp
    BY <2>3 DEF GiveUp, localVars
  <2>4. CASE Forget
    BY <2>4 DEF Forget, TypeOK
  <2>5. CASE Purge \/ Fail
    BY <2>5 DEF Purge, Fail, Reset, TypeOK, NextSection
  <2>6. CASE \/ Start \/ Kill \/ Mark \/ Sleep \/ Read \/ (\E c \in Customers : Insert(c)) \/ MoveOn \/ MaxRow
             \/ (\E r \in rows : Merge(r)) \/ Stop
    <3>1. todo' = todo /\ who' = who /\ pc' \notin {"judge", "giveup", "forget"}
      BY <2>6 DEF Start, Kill, Mark, Sleep, Read, Insert, MoveOn, MaxRow, Merge, Stop, localVars
    <3> QED BY <3>1
  <2>7. CASE Tick \/ (\E b \in Bounces : Arrive(b)) \/ UNCHANGED vars
    BY <2>7 DEF Tick, Arrive, vars, tableVars, localVars
  <2> QED BY <2>1, <2>2, <2>3, <2>4, <2>5, <2>6, <2>7 DEF Next, JobStep
<1>4. GivenUpOnEvidence'
  <2> SUFFICES ASSUME failures' = 0, NEW c \in Customers, status'[c] = "softbounced"
               PROVE  2 * Cardinality(Arrived(c)') > Limit
    BY DEF GivenUpOnEvidence, Arrived
  <2>1. failures = 0
    BY <1>e
  <2>2. Cardinality(Arrived(c)) \in Nat /\ Cardinality(Arrived(c)') \in Nat
    BY <1>a, <1>c, FS_CardinalityType DEF FiniteInv
  <2>3. Cardinality(Arrived(c)) <= Cardinality(Arrived(c)')
    <3>1. CASE at' = at
      BY <2>2, <3>1 DEF Arrived
    <3>2. ASSUME NEW b \in Bounces, Arrive(b) PROVE Cardinality(Arrived(c)) <= Cardinality(Arrived(c)')
      BY <1>a, <3>2, ArrivedMore DEF FiniteInv
    <3>3. at' = at \/ \E b \in Bounces : Arrive(b)
      BY DEF Next, JobStep, Tick, Start, Kill, Mark, Sleep, Read, Insert, MoveOn, MaxRow, Merge, Purge, List,
             Judge, GiveUp, Forget, Stop, Fail, vars, tableVars
    <3> QED BY <3>1, <3>2, <3>3
  <2>4. CASE status[c] = "softbounced"
    <3>1. 2 * Cardinality(Arrived(c)) > Limit
      BY <1>a, <2>1, <2>4 DEF GivenUpOnEvidence, Arrived
    <3> QED BY <2>2, <2>3, <3>1
  <2>5. CASE status[c] # "softbounced"
    <3>1. GiveUp /\ c = who
      <4>1. status' # status /\ ~ \E b \in Bounces : Arrive(b)
        BY <2>5 DEF Arrive, TypeOK
      <4>2. GiveUp
        BY <4>1 DEF Next, JobStep, Tick, Start, Kill, Mark, Sleep, Read, Insert, MoveOn, MaxRow, Merge, Purge,
                    List, Judge, Forget, Stop, Fail, vars, tableVars
      <4> QED BY <2>5, <4>2 DEF GiveUp, TypeOK
    <3>2. score[c].cnt > Limit
      BY <1>a, <3>1 DEF GiveUp, JudgeInv
    <3>3. score[c].cnt + Cardinality(Due(c)) <= 2 * Cardinality(Soft(c))
      BY <1>a, <2>1 DEF ScoreInv
    <3>4. /\ Cardinality(Soft(c)) \in Nat /\ Cardinality(Due(c)) \in Nat /\ score[c].cnt \in Nat
          /\ Cardinality(Soft(c)) <= Cardinality(Arrived(c))
      BY <1>a, SoftCounts
    <3> QED BY <2>2, <2>3, <3>2, <3>3, <3>4
  <2> QED BY <2>4, <2>5
<1> QED BY <1>2, <1>3, <1>4 DEF EvidenceInv

\* Nobody is given up for the bounces of others, nor for the same bounce over and over again.
THEOREM JudgedOnEvidence == Spec => []GivenUpOnEvidence
<1>1. Init => WindowInv /\ MergeInv
  BY WindowInit DEF Init, MergeInv, IdsInv, MergedInv, SectionInv
<1>2. Init => EvidenceInv
  <2> SUFFICES ASSUME Init PROVE EvidenceInv
    OBVIOUS
  <2>1. \A c \in Customers : Arrived(c) = {} /\ Due(c) = {} /\ Soft(c) = {} /\ score[c].cnt = 0
    BY DEF Init, Arrived, Due, Soft, NoScore
  <2>2. FiniteInv /\ ScoreInv
    <3>1. IsFiniteSet({}) /\ Cardinality({}) = 0
      BY FS_EmptySet
    <3>2. \A c \in Customers : Cardinality(Due(c)) = 0 /\ Cardinality(Soft(c)) = 0
      BY <2>1, <3>1
    <3>3. FiniteInv
      BY <2>1, <3>1 DEF FiniteInv
    <3> QED BY <2>1, <3>2, <3>3 DEF ScoreInv
  <2> QED BY <2>2 DEF Init, EvidenceInv, JudgeInv, GivenUpOnEvidence
<1>3. EvidenceInv => GivenUpOnEvidence
  BY DEF EvidenceInv
<1> QED BY <1>1, <1>2, <1>3, WindowStep, MergeStep, EvidenceStep, TypeCorrect, PTL DEF Spec

============================================================================
