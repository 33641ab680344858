-------------------------- MODULE Pickdist_proofs --------------------------
(***************************************************************************)
(* Proofs about Pickdist: no block is turned into messages twice, none     *)
(* without a final file of its mailing and none before an earlier one of   *)
(* its generation, and each block that is lost had a failure of its own,   *)
(* whatever the writers of the directory do and whenever the daemon dies.  *)
(***************************************************************************)
EXTENDS Pickdist, FiniteSetTheorems, TLAPS

----------------------------------------------------------------------------
(* Types                                                                   *)

\* A block that is open has a number.
OpenInv == \A d \in Drops, t \in Runs : work[d][t].at = "open" => work[d][t].nr > 0

\* A place in the queue is kept for the block at hand.
RoomInv == ppc = "mail" => queue < QueueLimit

TypeInv == TypeOK /\ OpenInv /\ RoomInv

\* Blocks and their stamps are files of their own.
LEMMA Files ==
    /\ \A b \in Block : b \in File /\ b.ext = "xml"
    /\ \A f \in File, e \in {"xml", "stamp", "final"} :
         /\ With(f, e) \in File /\ With(f, e).ext = e
         /\ With(f, e).drop = f.drop /\ With(f, e).run = f.run /\ With(f, e).nr = f.nr
    /\ \A d \in Drops, t \in Runs, n \in 1 .. MaxBlocks, e \in {"xml", "stamp", "final"} :
         SpoolFile(d, t, n, e) \in File
    /\ NoBlock \notin Block
  BY PickdistAssumption DEF Block, File, With, SpoolFile

\* The types hold in the initial state.
LEMMA TypeInit == Init => TypeInv
<1> SUFFICES ASSUME Init PROVE TypeInv
  OBVIOUS
<1>1. work \in [Drops -> [Runs -> {[at |-> "new", nr |-> 0]}]]
  BY DEF Init, SpoolInit
<1>2. [at |-> "new", nr |-> 0] \in Work
  BY SpoolAssumption DEF Work
<1>3. SpoolTypeOK /\ OpenInv
  BY <1>1, <1>2 DEF Init, SpoolInit, SpoolTypeOK, OpenInv
<1>4. due \in [Drops -> [Runs -> {0}]] /\ 0 \in 0 .. MaxBlocks /\ 0 \in 0 .. QueueLimit /\ 0 \in 0 .. MaxFailures
  BY SpoolAssumption, PickdistAssumption DEF Init
<1>5. handed \in [Block -> Nat] /\ filed \in [Shelves -> SUBSET File]
  BY DEF Init
<1> QED
  BY <1>3, <1>4, <1>5 DEF Init, TypeInv, TypeOK, RoomInv

\* A step of a generation changes this generation only.
LEMMA WorkChange ==
    ASSUME SpoolTypeOK, NEW d \in Drops, NEW t \in Runs, NEW to \in Work,
           work' = [work EXCEPT ![d][t] = to]
    PROVE  /\ work' \in [Drops -> [Runs -> Work]]
           /\ \A e \in Drops, u \in Runs : work'[e][u] = IF e = d /\ u = t THEN to ELSE work[e][u]
  BY DEF SpoolTypeOK

\* What a step of the writers does to the generations: one of them goes on, all come to
\* an end, or none is concerned; which file is new, and which are gone.
Onward(from, to) ==
    \/ from.at = "new" /\ to = [at |-> "write", nr |-> 0]
    \/ from.at = "write" /\ to = [at |-> "open", nr |-> from.nr + 1]
    \/ from.at = "open" /\ to = [at |-> "write", nr |-> from.nr]
    \/ from.at \in Active /\ to.at \in {"failed", "over"}

FileChange(d, t, to) ==
    LET n == work[d][t].nr
        fresh == {f \in meta' : f \notin meta}
    IN  /\ \A f \in fresh : f.drop = d /\ f.run = t /\ f \in File
        /\ \A f \in fresh : f.ext = "xml" => to = [at |-> "open", nr |-> f.nr]
        /\ \A f \in fresh : f.ext = "stamp" =>
              /\ work[d][t] = [at |-> "open", nr |-> f.nr]
              /\ to = [at |-> "write", nr |-> f.nr]
        /\ \A f \in fresh : f.ext = "final" =>
              work[d][t] = [at |-> "write", nr |-> f.nr] /\ to = Over /\ KindOf[d] # "T"
        /\ work[d][t].at = "open" /\ to.at = "write" /\ KindOf[d] # "T" => SpoolFile(d, t, n, "stamp") \in meta'
        /\ \A f \in meta \ meta' :
              \/ f.ext = "xml" /\ KindOf[d] = "T" /\ f.drop = d
              \/ \A g \in meta' : MailingOf[g.drop] # MailingOf[f.drop]

\* Every step of one generation is such a change.
LEMMA GenerationSteps ==
    ASSUME SpoolTypeOK, OpenInv, NEW d \in Drops, NEW t \in Runs,
           \/ Begin(d, t) \/ StartBlock(d, t) \/ EndBlock(d, t) \/ Finish(d, t) \/ GiveUp(d, t) \/ Destroy(d, t)
    PROVE  \E to \in Work : /\ work' = [work EXCEPT ![d][t] = to]
                            /\ Onward(work[d][t], to) /\ (to.at = "open" => to.nr > 0)
                            /\ FileChange(d, t, to)
                            /\ deleted' = deleted
<1>1. MaxBlocks \in Nat /\ 1 <= MaxBlocks
  BY SpoolAssumption
<1>2. work[d][t] \in Work /\ work[d][t].nr \in 0 .. MaxBlocks
  BY DEF SpoolTypeOK, Work
<1>3. work[d][t] = [at |-> work[d][t].at, nr |-> work[d][t].nr]
  BY <1>2 DEF Work
<1>4. Over \in Work
  BY <1>1 DEF Over, Work
<1> USE DEF Advance
<1>5. CASE Begin(d, t)
  <2>1. [at |-> "write", nr |-> 0] \in Work
    BY <1>1 DEF Work
  <2> QED BY <1>5, <2>1 DEF Begin, FileChange, Onward
<1>6. CASE StartBlock(d, t)
  <2> DEFINE n == work[d][t].nr + 1
             to == [at |-> "open", nr |-> n]
             file == SpoolFile(d, t, n, "xml")
  <2>1. n \in 1 .. MaxBlocks
    BY <1>1, <1>2, <1>6 DEF StartBlock
  <2>2. to \in Work /\ to.at = "open" /\ to.nr > 0
    BY <2>1 DEF Work
  <2>3. file \in File /\ file.drop = d /\ file.run = t /\ file.nr = n /\ file.ext = "xml"
    BY <2>1 DEF SpoolFile, File
  <2>4. Onward(work[d][t], to)
    BY <1>6 DEF StartBlock, Onward
  <2>5. work' = [work EXCEPT ![d][t] = to] /\ meta' = meta \cup {file} /\ deleted' = deleted
    BY <1>6 DEF StartBlock
  <2>6. FileChange(d, t, to)
    BY <2>3, <2>5 DEF FileChange
  <2> QED BY <2>2, <2>4, <2>5, <2>6
<1>7. CASE EndBlock(d, t)
  <2> DEFINE n == work[d][t].nr
             to == [at |-> "write", nr |-> n]
             file == SpoolFile(d, t, n, "stamp")
  <2>1. n \in 1 .. MaxBlocks /\ work[d][t].at = "open"
    BY <1>1, <1>2, <1>7 DEF EndBlock, OpenInv
  <2>2. to \in Work /\ to.at # "open"
    BY <2>1 DEF Work
  <2>3. file \in File /\ file.drop = d /\ file.run = t /\ file.nr = n /\ file.ext = "stamp"
    BY <2>1 DEF SpoolFile, File
  <2>4. Onward(work[d][t], to)
    BY <2>1 DEF Onward
  <2>5. work' = [work EXCEPT ![d][t] = to] /\ meta' \subseteq meta \cup {file} /\ deleted' = deleted
    BY <1>7 DEF EndBlock
  <2>6. FileChange(d, t, to)
    <3>1. meta \subseteq meta' /\ (KindOf[d] # "T" => file \in meta')
      BY <1>7 DEF EndBlock
    <3> QED BY <1>3, <2>1, <2>3, <2>5, <3>1 DEF FileChange
  <2> QED BY <2>2, <2>4, <2>5, <2>6
<1>8. CASE Finish(d, t)
  <2> DEFINE n == work[d][t].nr
             file == SpoolFile(d, t, n, "final")
  <2>1. n > 0 => file \in File /\ file.drop = d /\ file.run = t /\ file.nr = n /\ file.ext = "final"
    BY <1>1, <1>2 DEF SpoolFile, File
  <2>2. work[d][t].at = "write" /\ Onward(work[d][t], Over) /\ Over.at # "open"
    BY <1>8 DEF Finish, Onward, Active, Over
  <2>3. /\ meta' \subseteq (IF n > 0 /\ KindOf[d] # "T" THEN meta \cup {file} ELSE meta)
        /\ \A f \in meta \ meta' : f.ext = "xml" /\ KindOf[d] = "T" /\ f.drop = d
    <3>1. CASE KindOf[d] = "T"
      BY <1>8, <3>1 DEF Finish, SpoolFile
    <3>2. CASE KindOf[d] # "T"
      BY <1>2, <1>8, <3>2 DEF Finish
    <3> QED BY <3>1, <3>2
  <2>4. work' = [work EXCEPT ![d][t] = Over] /\ deleted' = deleted
    BY <1>8 DEF Finish
  <2>5. FileChange(d, t, Over)
    <3>1. Over.at # "write"
      BY DEF Over
    <3>2. \A f \in meta' : f \notin meta => f = file /\ n > 0 /\ KindOf[d] # "T"
      BY <2>3
    <3> HIDE DEF file
    <3> QED BY <1>3, <2>1, <2>2, <2>3, <3>1, <3>2 DEF FileChange
  <2> QED BY <1>4, <2>2, <2>4, <2>5
<1>9. CASE GiveUp(d, t)
  <2>1. [work[d][t] EXCEPT !.at = "failed"] \in Work
    BY <1>2 DEF Work
  <2>2. PICK to \in {[work[d][t] EXCEPT !.at = "failed"], Over} : work' = [work EXCEPT ![d][t] = to]
    BY <1>9 DEF GiveUp
  <2>3. to \in Work /\ to.at \in {"failed", "over"}
    BY <1>2, <1>4, <2>1, <2>2 DEF Work, Over
  <2>4. work[d][t].at \in Active /\ meta' = meta /\ deleted' = deleted
    BY <1>9 DEF GiveUp
  <2> QED BY <2>2, <2>3, <2>4 DEF Onward, FileChange
<1>10. CASE Destroy(d, t)
  BY <1>4, <1>10 DEF Destroy, FileChange, Onward, Active, Over
<1> QED BY <1>5, <1>6, <1>7, <1>8, <1>9, <1>10

\* Every step of the writers is one of a generation, or brings no file.
LEMMA SpoolSteps ==
    ASSUME SpoolTypeOK, OpenInv, SpoolNext
    PROVE  \/ \E d \in Drops, t \in Runs, to \in Work :
                 /\ work' = [work EXCEPT ![d][t] = to]
                 /\ Onward(work[d][t], to) /\ (to.at = "open" => to.nr > 0)
                 /\ FileChange(d, t, to)
                 /\ deleted' = deleted
           \/ Halt
           \/ \E m \in Mailings : Delete(m)
  BY GenerationSteps DEF SpoolNext

\* The writers keep their types.
LEMMA SpoolTypeStep == SpoolTypeOK /\ OpenInv /\ SpoolNext => SpoolTypeOK' /\ OpenInv'
<1> SUFFICES ASSUME SpoolTypeOK, OpenInv, SpoolNext PROVE SpoolTypeOK' /\ OpenInv'
  OBVIOUS
<1>1. MaxBlocks \in Nat /\ 1 <= MaxBlocks
  BY SpoolAssumption
<1>2. CASE Halt
  BY <1>1, <1>2 DEF Halt, SpoolTypeOK, OpenInv, Work, Over
<1>3. CASE \E m \in Mailings : Delete(m)
  BY <1>3 DEF Delete, SpoolTypeOK, OpenInv
<1>4. ASSUME NEW d \in Drops, NEW t \in Runs, NEW to \in Work, work' = [work EXCEPT ![d][t] = to],
             to.at = "open" => to.nr > 0, FileChange(d, t, to), deleted' = deleted
      PROVE  SpoolTypeOK' /\ OpenInv'
  <2>1. work' \in [Drops -> [Runs -> Work]] /\ OpenInv'
    BY <1>4, WorkChange DEF OpenInv
  <2>2. meta' \subseteq File
    BY <1>4 DEF FileChange, SpoolTypeOK
  <2> QED BY <1>4, <2>1, <2>2 DEF SpoolTypeOK
<1> QED BY <1>2, <1>3, <1>4, SpoolSteps

\* What moveTo does, whether or not a file has vanished.
LEMMA Moves ==
    ASSUME TypeOK, NEW files \in SUBSET File, NEW shelf \in Shelves, NEW C \in BOOLEAN,
           MoveAll(files, shelf, C)
    PROVE  /\ meta' \subseteq meta
           /\ filed' \in [Shelves -> SUBSET File]
           /\ C \/ Die
  BY DEF TypeOK, SpoolTypeOK, MoveAll

\* The steps of the daemon keep the types.
LEMMA TypeDaemon == TypeInv /\ (DaemonStep \/ Kill) => TypeInv'
<1> SUFFICES ASSUME TypeInv, DaemonStep \/ Kill PROVE TypeInv'
  OBVIOUS
<1>1. QueueLimit \in Nat /\ MaxFailures \in Nat /\ NoBlock \notin Block
  BY Files, PickdistAssumption
<1>2. TypeOK /\ OpenInv /\ RoomInv
  BY DEF TypeInv
<1>3. Gone \subseteq File /\ Finals \subseteq File /\ Usable \subseteq Block
  BY <1>2 DEF TypeOK, Gone, Finals, Ready, Usable
<1>4. \A s \in {"DELETED", "ARCHIVE", "RECOVER"} : s \in Shelves
  BY DEF Shelves
<1>5. UNCHANGED <<work, deleted, due, finished>>
  BY DEF DaemonStep, Start, List, Clean, Select, TakeBlock, QueueFull, Mail, FileAway, Kill, spoolVars
<1>6. OpenInv'
  BY <1>2, <1>5 DEF OpenInv
<1>7. ASSUME Die \/ Sleep PROVE /\ listing' \subseteq File /\ data' \subseteq Block /\ cur' = NoBlock
                               /\ ppc' \in {"down", "sleep"}
  BY <1>7 DEF Die, Sleep
<1> USE <1>1, <1>5, <1>6, <1>7 DEF TypeInv, TypeOK, SpoolTypeOK, RoomInv, spoolVars
<1>8. CASE Start \/ List \/ QueueFull \/ Kill
  BY <1>2, <1>8 DEF Start, List, QueueFull, Kill, Fails
<1>9. CASE Clean
  <2>1. CASE MoveAll(Gone, "DELETED",
                     ppc' = "select" /\ listing' = listing \ Gone /\ UNCHANGED <<data, cur>>)
             /\ UNCHANGED failures
    <3>1. meta' \subseteq meta /\ filed' \in [Shelves -> SUBSET File]
          /\ ((ppc' = "select" /\ listing' = listing \ Gone /\ UNCHANGED <<data, cur>>) \/ Die)
      BY <1>2, <1>3, <1>4, <2>1, Moves
    <3> QED BY <1>2, <1>9, <2>1, <3>1 DEF Clean
  <2>2. CASE Fails /\ Sleep /\ UNCHANGED <<meta, filed>>
    BY <1>2, <1>9, <2>2 DEF Clean, Fails
  <2> QED BY <1>9, <2>1, <2>2 DEF Clean
<1>10. CASE Select
  <2>1. PICK finals \in SUBSET Finals :
           MoveAll(Finals \ finals, "ARCHIVE",
                   IF Usable = {} THEN Sleep
                   ELSE ppc' = "work" /\ data' = Usable /\ listing' = {} /\ UNCHANGED cur)
    BY <1>10 DEF Select
  <2>2. meta' \subseteq meta /\ filed' \in [Shelves -> SUBSET File]
        /\ (Sleep \/ (ppc' = "work" /\ data' = Usable /\ listing' = {} /\ UNCHANGED cur) \/ Die)
    BY <1>2, <1>3, <1>4, <2>1, Moves DEF Sleep
  <2> QED BY <1>2, <1>3, <1>10, <2>2 DEF Select
<1>11. ASSUME NEW b \in data, TakeBlock(b) PROVE TypeInv'
  BY <1>2, <1>11 DEF TakeBlock
<1>12. CASE Mail
  <2>1. cur \in meta => handed' \in [Block -> Nat] /\ queue' \in 0 .. QueueLimit
    BY <1>2, <1>12 DEF Mail
  <2> QED BY <1>2, <1>12, <2>1 DEF Mail, Fails
<1>13. CASE FileAway
  <2>1. {cur} \in SUBSET File /\ ppc \in Shelves
    BY <1>2, <1>13, Files DEF FileAway, Shelves
  <2>2. MoveAll({cur}, ppc,
                IF data = {} THEN Sleep ELSE ppc' = "work" /\ cur' = NoBlock /\ UNCHANGED <<listing, data>>)
    BY <1>13 DEF FileAway
  <2>3. meta' \subseteq meta /\ filed' \in [Shelves -> SUBSET File]
        /\ (Sleep \/ (ppc' = "work" /\ cur' = NoBlock /\ UNCHANGED <<listing, data>>) \/ Die)
    BY <1>2, <2>1, <2>2, Moves DEF Sleep
  <2> QED BY <1>2, <1>13, <2>3 DEF FileAway
<1> QED BY <1>8, <1>9, <1>10, <1>11, <1>12, <1>13 DEF DaemonStep

\* The environment keeps the types: only the stamps of files that are there pass.
LEMMA TypeWorld ==
    ASSUME TypeInv, \/ Writer \/ Drain \/ UNCHANGED vars
                    \/ \E d \in Drops, t \in Runs : Pass(d, t)
    PROVE  TypeInv'
<1> USE DEF TypeInv, TypeOK, RoomInv
<1>1. CASE Writer
  <2>1. SpoolTypeOK' /\ OpenInv'
    BY <1>1, SpoolTypeStep DEF Writer
  <2>2. finished' \subseteq Drops \X Runs
    BY <1>1, <2>1 DEF Writer, SpoolTypeOK, File
  <2> QED BY <1>1, <2>1, <2>2 DEF Writer, daemonVars
<1>2. CASE Drain
  BY <1>2, PickdistAssumption DEF Drain, spoolVars, daemonVars, SpoolTypeOK, OpenInv
<1>3. ASSUME NEW d \in Drops, NEW t \in Runs, Pass(d, t) PROVE TypeInv'
  <2>1. MaxBlocks \in Nat
    BY SpoolAssumption
  <2>2. PICK f \in meta : f.drop = d /\ f.run = t /\ f.nr > due[d][t]
    BY <1>3 DEF Pass
  <2>3. f.nr \in 1 .. MaxBlocks
    BY <2>2 DEF SpoolTypeOK, File
  <2>4. due[d][t] \in 0 .. MaxBlocks /\ due[d][t] + 1 \in 0 .. MaxBlocks
    BY <2>1, <2>2, <2>3
  <2>5. due' \in [Drops -> [Runs -> 0 .. MaxBlocks]]
    BY <1>3, <2>4 DEF Pass
  <2> QED BY <1>3, <2>5 DEF Pass, spoolVars, daemonVars, SpoolTypeOK, OpenInv
<1>4. CASE UNCHANGED vars
  BY <1>4 DEF vars, spoolVars, daemonVars, SpoolTypeOK, OpenInv
<1> QED BY <1>1, <1>2, <1>3, <1>4

\* TypeInv is an invariant.
LEMMA TypeInvariant == Spec => []TypeInv
<1>1. TypeInv /\ [Next]_vars => TypeInv'
  BY TypeDaemon, TypeWorld DEF Next
<1> QED BY <1>1, TypeInit, PTL DEF Spec

\* The daemon has a block at hand from the removal of its stamp until it is filed away, and
\* there is room in the queue for it, for any generations, blocks and limits.
THEOREM PickdistTypeCorrect == Spec => []TypeOK
<1>1. TypeInv => TypeOK
  BY DEF TypeInv
<1> QED BY <1>1, TypeInvariant, PTL

----------------------------------------------------------------------------
(* No block is turned into messages twice                                  *)

\* The generation is beyond the block: it will not write its stamp again.
Past(b) ==
    LET g == work[b.drop][b.run] IN
    \/ g.at \in {"failed", "over"}
    \/ g.at = "write" /\ b.nr <= g.nr
    \/ g.at = "open" /\ b.nr < g.nr

(* A block whose messages were written, or that is at hand, has no stamp,  *)
(* and nobody will write one; and without a stamp it is not taken again.   *)
Once(b) ==
    /\ handed[b] <= 1
    /\ With(b, "stamp") \in meta => Past(b)
    /\ handed[b] > 0 \/ cur = b => Past(b) /\ With(b, "stamp") \notin meta
    /\ ppc = "mail" /\ cur = b => handed[b] = 0

OnceInv == \A b \in Block : Once(b)

\* OnceInv holds in the initial state.
LEMMA OnceInit == Init => OnceInv
  BY Files DEF Init, SpoolInit, OnceInv, Once

\* The writers write the stamp of a block once, and are beyond the block then.
LEMMA StampOnce ==
    ASSUME TypeInv, SpoolNext, NEW b \in Block
    PROVE  /\ Past(b) => Past(b)'
           /\ With(b, "stamp") \in meta' => With(b, "stamp") \in meta \/ (~Past(b) /\ Past(b)')
<1>1. SpoolTypeOK /\ OpenInv
  BY DEF TypeInv, TypeOK
<1>2. /\ b.drop \in Drops /\ b.run \in Runs /\ b.nr \in 1 .. MaxBlocks /\ MaxBlocks \in Nat
      /\ With(b, "stamp").drop = b.drop /\ With(b, "stamp").run = b.run
      /\ With(b, "stamp").nr = b.nr /\ With(b, "stamp").ext = "stamp"
  BY SpoolAssumption DEF Block, File, With
<1>3. work[b.drop][b.run].nr \in 0 .. MaxBlocks
  BY <1>1, <1>2 DEF SpoolTypeOK, Work
<1>4. CASE Halt
  BY <1>1, <1>2, <1>4 DEF Halt, SpoolTypeOK, Past, Active, Over
<1>5. CASE \E m \in Mailings : Delete(m)
  BY <1>5 DEF Delete, Past
<1>6. ASSUME NEW d \in Drops, NEW t \in Runs, NEW to \in Work, work' = [work EXCEPT ![d][t] = to],
             Onward(work[d][t], to), FileChange(d, t, to)
      PROVE  /\ Past(b) => Past(b)'
             /\ With(b, "stamp") \in meta' => With(b, "stamp") \in meta \/ (~Past(b) /\ Past(b)')
  <2>1. work'[b.drop][b.run] = IF b.drop = d /\ b.run = t THEN to ELSE work[b.drop][b.run]
    BY <1>1, <1>2, <1>6, WorkChange
  <2>2. Past(b) => Past(b)'
    BY <1>2, <1>3, <1>6, <2>1 DEF Past, Onward, Active
  <2>3. With(b, "stamp") \in meta' /\ With(b, "stamp") \notin meta =>
          /\ b.drop = d /\ b.run = t
          /\ work[d][t] = [at |-> "open", nr |-> b.nr] /\ to = [at |-> "write", nr |-> b.nr]
    BY <1>2, <1>6 DEF FileChange
  <2> QED BY <1>2, <2>1, <2>2, <2>3 DEF Past
<1> QED BY <1>1, <1>4, <1>5, <1>6, SpoolSteps

\* The steps of the daemon keep OnceInv: the stamp goes before xmlback is called.
LEMMA OnceDaemon == TypeInv /\ OnceInv /\ (DaemonStep \/ Kill) => OnceInv'
<1> SUFFICES ASSUME TypeInv, OnceInv, DaemonStep \/ Kill, NEW b \in Block PROVE Once(b)'
  BY DEF OnceInv
<1>1. Once(b) /\ TypeOK /\ NoBlock # b
  BY Files DEF OnceInv, TypeInv
<1>2. work' = work /\ (Past(b) <=> Past(b)')
  BY DEF DaemonStep, Start, List, Clean, Select, TakeBlock, QueueFull, Mail, FileAway, Kill, spoolVars, Past
<1>3. ASSUME meta' \subseteq meta, handed' = handed, cur' \in {cur, NoBlock}, ppc' # "mail"
      PROVE  Once(b)'
  BY <1>1, <1>2, <1>3 DEF Once
<1> USE DEF spoolVars, Die, Sleep
<1>4. CASE Start \/ List \/ QueueFull \/ Kill
  BY <1>3, <1>4 DEF Start, List, QueueFull, Kill
<1>5. CASE Clean
  <2>1. meta' \subseteq meta /\ handed' = handed /\ cur' \in {cur, NoBlock} /\ ppc' # "mail"
    BY <1>5 DEF Clean, MoveAll
  <2> QED BY <1>3, <2>1
<1>6. CASE Select
  <2>1. meta' \subseteq meta /\ handed' = handed /\ cur' \in {cur, NoBlock} /\ ppc' # "mail"
    BY <1>6 DEF Select, MoveAll
  <2> QED BY <1>3, <2>1
<1>7. CASE FileAway
  <2>1. meta' \subseteq meta /\ handed' = handed /\ cur' \in {cur, NoBlock} /\ ppc' # "mail"
    BY <1>7 DEF FileAway, MoveAll
  <2> QED BY <1>3, <2>1
<1>8. ASSUME NEW c \in data, TakeBlock(c) PROVE Once(b)'
  <2>1. CASE With(c, "stamp") \in meta
    BY <1>1, <1>2, <1>8, <2>1 DEF TakeBlock, Once, TypeOK
  <2>2. CASE With(c, "stamp") \notin meta
    BY <1>3, <1>8, <2>2 DEF TakeBlock
  <2> QED BY <2>1, <2>2
<1>9. CASE Mail
  <2>1. meta' = meta /\ cur' = cur /\ ppc = "mail" /\ ppc' # "mail"
    BY <1>9 DEF Mail
  <2>2. handed'[b] = handed[b] \/ (cur = b /\ handed'[b] = handed[b] + 1)
    BY <1>1, <1>9 DEF Mail, TypeOK
  <2> QED BY <1>1, <1>2, <2>1, <2>2 DEF Once
<1> QED BY <1>4, <1>5, <1>6, <1>7, <1>8, <1>9 DEF DaemonStep

\* The environment keeps OnceInv.
LEMMA OnceWorld ==
    ASSUME TypeInv, OnceInv, \/ Writer \/ Drain \/ UNCHANGED vars
                             \/ \E d \in Drops, t \in Runs : Pass(d, t)
    PROVE  OnceInv'
<1>1. CASE Writer
  BY <1>1, StampOnce DEF Writer, OnceInv, Once, daemonVars
<1>2. CASE Drain \/ UNCHANGED vars \/ \E d \in Drops, t \in Runs : Pass(d, t)
  BY <1>2 DEF Drain, Pass, vars, spoolVars, daemonVars, OnceInv, Once, Past
<1> QED BY <1>1, <1>2

\* OnceInv is an invariant.
LEMMA OnceInvariant == Spec => []OnceInv
<1>1. TypeInv /\ OnceInv /\ [Next]_vars => OnceInv'
  BY OnceDaemon, OnceWorld DEF Next
<1> QED BY <1>1, OnceInit, TypeInvariant, PTL DEF Spec

\* No block is turned into messages twice, however often and wherever the daemon dies, and
\* whatever the writers and the Destroyer do meanwhile.
THEOREM BlockHandedOnce == Spec => []HandedOnce
<1>2. OnceInv => HandedOnce
  BY DEF OnceInv, Once, HandedOnce
<1> QED BY <1>2, OnceInvariant, PTL

----------------------------------------------------------------------------
(* Only blocks with a final file of their mailing                          *)

Vouched(b) == \E g \in finished : MailingOf[g[1]] = MailingOf[b.drop]

(* Every final file there is, or that was listed, belongs to a generation  *)
(* that has finished, and the blocks that were selected are vouched for.   *)
VouchInv ==
    /\ \A f \in meta \cup listing : f.ext = "final" => <<f.drop, f.run>> \in finished
    /\ \A b \in data : Vouched(b)
    /\ cur # NoBlock => Vouched(cur)
    /\ OnlyFinalised

\* VouchInv holds in the initial state.
LEMMA VouchInit == Init => VouchInv
  BY DEF Init, SpoolInit, VouchInv, OnlyFinalised

\* The steps of the daemon keep VouchInv.
LEMMA VouchDaemon == TypeInv /\ VouchInv /\ (DaemonStep \/ Kill) => VouchInv'
<1> SUFFICES ASSUME TypeInv, VouchInv, DaemonStep \/ Kill PROVE VouchInv'
  OBVIOUS
<1>1. finished' = finished
  BY DEF DaemonStep, Start, List, Clean, Select, TakeBlock, QueueFull, Mail, FileAway, Kill
<1>2. ASSUME NEW b \in Usable PROVE Vouched(b)
  <2>1. PICK final \in listing : final.ext = "final" /\ MailingOf[final.drop] = MailingOf[b.drop]
    BY DEF Usable, Finals, Ready, IsFinalFor
  <2>2. <<final.drop, final.run>> \in finished
    BY <2>1 DEF VouchInv
  <2> QED BY <2>1, <2>2 DEF Vouched
<1> USE <1>1 DEF VouchInv, Vouched, OnlyFinalised, spoolVars, Die, Sleep
<1>3. CASE Start \/ List \/ QueueFull \/ Kill
  BY <1>3 DEF Start, List, QueueFull, Kill
<1>4. CASE Clean
  BY <1>4 DEF Clean, MoveAll
<1>5. CASE Select
  BY <1>2, <1>5 DEF Select, MoveAll
<1>6. ASSUME NEW b \in data, TakeBlock(b) PROVE VouchInv'
  BY <1>6 DEF TakeBlock
<1>7. CASE Mail
  <2>1. \A b \in Block : handed'[b] > 0 => handed[b] > 0 \/ b = cur
    BY <1>7 DEF Mail, TypeInv, TypeOK
  <2>2. cur # NoBlock
    BY <1>7 DEF Mail, TypeInv, TypeOK
  <2> QED BY <1>7, <2>1, <2>2 DEF Mail
<1>8. CASE FileAway
  BY <1>8 DEF FileAway, MoveAll
<1> QED BY <1>3, <1>4, <1>5, <1>6, <1>7, <1>8 DEF DaemonStep

\* The environment keeps VouchInv.
LEMMA VouchWorld ==
    ASSUME VouchInv, \/ Writer \/ Drain \/ UNCHANGED vars
                     \/ \E d \in Drops, t \in Runs : Pass(d, t)
    PROVE  VouchInv'
<1> USE DEF VouchInv, Vouched, OnlyFinalised
<1>1. CASE Writer
  <2>1. finished \subseteq finished' /\ UNCHANGED <<listing, data, cur, handed>>
    BY <1>1 DEF Writer, daemonVars
  <2>2. \A f \in meta' : f.ext = "final" => <<f.drop, f.run>> \in finished'
    BY <1>1 DEF Writer
  <2> QED BY <2>1, <2>2
<1>2. CASE Drain \/ UNCHANGED vars \/ \E d \in Drops, t \in Runs : Pass(d, t)
  BY <1>2 DEF Drain, Pass, vars, spoolVars, daemonVars
<1> QED BY <1>1, <1>2

\* No block is turned into messages for which no final file of its mailing was written.
THEOREM FinalisedOnly == Spec => []OnlyFinalised
<1>1. TypeInv /\ VouchInv /\ [Next]_vars => VouchInv'
  BY VouchDaemon, VouchWorld DEF Next
<1>2. VouchInv => OnlyFinalised
  BY DEF VouchInv
<1> QED BY <1>1, <1>2, VouchInit, TypeInvariant, PTL DEF Spec

----------------------------------------------------------------------------
(* The blocks of a generation go in order                                  *)

\* A block comes before another one of its generation.
Earlier(a, b) == a.drop = b.drop /\ a.run = b.run /\ a.nr < b.nr

Complete(b, files) == b \in files /\ With(b, "stamp") \in files

(* Blocks the daemon knows to be complete were left behind by their        *)
(* generation.  An earlier block that is still complete was complete when  *)
(* the directory was listed, and so it is due as well and waits for its    *)
(* turn; and none is left when a block has got its turn.                   *)
OrderInv ==
    /\ \A b \in Block : With(b, "stamp") \in listing => Past(b)
    /\ \A b \in data : Past(b)
    /\ cur # NoBlock => Past(cur)
    /\ \A a, b \in Block : Earlier(a, b) /\ Complete(a, meta) =>
          /\ With(b, "stamp") \in listing => Complete(a, listing)
          /\ b \in data => a \in data
          /\ b # cur

\* OrderInv holds in the initial state.
LEMMA OrderInit == Init => OrderInv
  BY Files DEF Init, SpoolInit, OrderInv, Complete

\* What a generation is beyond, it is beyond with all that comes before.
LEMMA PastEarlier ==
    ASSUME TypeInv, NEW a \in Block, NEW b \in Block, Earlier(a, b), Past(b)
    PROVE  Past(a)
<1>1. a.nr \in Nat /\ b.nr \in Nat /\ work[b.drop][b.run].nr \in Nat
  BY SpoolAssumption DEF Block, File, TypeInv, TypeOK, SpoolTypeOK, Work
<1> QED BY <1>1 DEF Past, Earlier

\* The writers do not complete a block that they are beyond.
LEMMA NotAgain ==
    ASSUME TypeInv, SpoolNext, NEW a \in Block, Past(a), Complete(a, meta')
    PROVE  Complete(a, meta)
<1>1. SpoolTypeOK /\ OpenInv
  BY DEF TypeInv, TypeOK
<1>2. /\ a.drop \in Drops /\ a.run \in Runs /\ a.nr \in Nat /\ a.ext = "xml"
      /\ work[a.drop][a.run].nr \in Nat
  BY <1>1, SpoolAssumption DEF Block, File, SpoolTypeOK, Work
<1>3. With(a, "stamp") \in meta
  BY StampOnce DEF Complete
<1>4. CASE Halt \/ \E m \in Mailings : Delete(m)
  BY <1>4 DEF Halt, Delete, Complete
<1>5. ASSUME NEW d \in Drops, NEW t \in Runs, NEW to \in Work,
             Onward(work[d][t], to), FileChange(d, t, to), a \notin meta
      PROVE  FALSE
  <2>1. a.drop = d /\ a.run = t /\ to = [at |-> "open", nr |-> a.nr]
    BY <1>2, <1>5 DEF FileChange, Complete
  <2>2. work[d][t].at = "write" /\ to = [at |-> "open", nr |-> work[d][t].nr + 1]
    BY <1>5, <2>1 DEF Onward
  <2>3. a.nr = work[d][t].nr + 1
    BY <2>1, <2>2
  <2> QED BY <1>2, <2>1, <2>2, <2>3 DEF Past
<1> QED BY <1>1, <1>3, <1>4, <1>5, SpoolSteps DEF Complete

\* The steps of the daemon keep OrderInv.
LEMMA OrderDaemon == TypeInv /\ OnceInv /\ OrderInv /\ (DaemonStep \/ Kill) => OrderInv'
<1> SUFFICES ASSUME TypeInv, OnceInv, OrderInv, DaemonStep \/ Kill PROVE OrderInv'
  OBVIOUS
<1>1. work' = work /\ \A b \in Block : Past(b)' <=> Past(b)
  BY DEF DaemonStep, Start, List, Clean, Select, TakeBlock, QueueFull, Mail, FileAway, Kill, spoolVars, Past
<1>2. /\ NoBlock \notin Block /\ data \subseteq Block /\ (cur # NoBlock => cur \in Block)
  BY Files DEF TypeInv, TypeOK
<1>3. ASSUME meta' \subseteq meta PROVE \A a \in Block : Complete(a, meta') => Complete(a, meta)
  BY <1>3 DEF Complete
<1>4. ASSUME meta' \subseteq meta, listing' \in {listing, {}}, data' \in {data, {}}, cur' \in {cur, NoBlock}
      PROVE  OrderInv'
  BY <1>1, <1>2, <1>3, <1>4 DEF OrderInv
<1>5. CASE Start \/ QueueFull \/ Mail \/ Kill
  BY <1>4, <1>5 DEF Start, QueueFull, Mail, Kill, Sleep, Die, spoolVars
<1>6. CASE List
  <2>1. meta' = meta /\ listing' = meta /\ data' = data /\ cur' = cur
    BY <1>6 DEF List, spoolVars
  <2>2. \A b \in Block : With(b, "stamp") \in meta => Past(b)
    BY DEF OnceInv, Once
  <2> QED BY <1>1, <1>2, <2>1, <2>2 DEF OrderInv
<1>7. CASE Clean
  <2>1. \/ meta' \subseteq meta /\ listing' = {} /\ data' = {} /\ cur' = NoBlock
        \/ meta' \subseteq meta /\ listing' = listing \ Gone /\ UNCHANGED <<data, cur>>
    BY <1>7 DEF Clean, MoveAll, Die, Sleep
  <2>2. ASSUME meta' \subseteq meta, listing' = listing \ Gone, UNCHANGED <<data, cur>> PROVE OrderInv'
    <3>1. ASSUME NEW a \in Block, NEW b \in Block, Earlier(a, b), Complete(a, listing),
                 With(b, "stamp") \in listing \ Gone
          PROVE  Complete(a, listing \ Gone)
      <4>1. With(b, "stamp").drop = b.drop /\ With(a, "stamp").drop = a.drop
        BY Files
      <4>2. MailingOf[b.drop] \notin deleted /\ a.drop = b.drop
        BY <3>1, <4>1 DEF Gone, Earlier
      <4> QED BY <3>1, <4>1, <4>2 DEF Gone, Complete
    <3> QED BY <1>1, <1>2, <1>3, <2>2, <3>1 DEF OrderInv
  <2> QED BY <1>4, <2>1, <2>2
<1>8. CASE Select
  <2>1. \/ meta' \subseteq meta /\ listing' = {} /\ data' = {} /\ cur' = NoBlock
        \/ meta' \subseteq meta /\ listing' = {} /\ data' = Usable /\ UNCHANGED cur
    BY <1>8 DEF Select, MoveAll, Die, Sleep
  <2>2. ASSUME meta' \subseteq meta, listing' = {}, data' = Usable, UNCHANGED cur PROVE OrderInv'
    <3>1. ASSUME NEW b \in Usable
          PROVE  /\ b \in Block /\ With(b, "stamp") \in listing
                 /\ b.nr <= due[b.drop][b.run]
                 /\ \E final \in Finals : IsFinalFor(final, b)
      BY DEF Usable, Ready, ReadyToSend
    <3>2. ASSUME NEW a \in Block, NEW b \in Usable, Earlier(a, b), Complete(a, listing)
          PROVE  a \in Usable
      <4>1. a.nr \in Nat /\ b.nr \in Nat /\ due[b.drop][b.run] \in Nat
        BY <3>1, SpoolAssumption DEF Block, File, TypeInv, TypeOK
      <4>2. a \in Ready
        BY <3>1, <3>2, <4>1 DEF Ready, ReadyToSend, Earlier, Complete
      <4> QED BY <3>1, <3>2, <4>2 DEF Usable, Earlier, Complete, IsFinalFor
    <3> QED BY <1>1, <1>2, <1>3, <2>2, <3>1, <3>2 DEF OrderInv
  <2> QED BY <1>4, <2>1, <2>2
<1>9. ASSUME NEW b \in data, TakeBlock(b) PROVE OrderInv'
  <2>1. CASE With(b, "stamp") \in meta
    <3>1. meta' = meta \ {With(b, "stamp")} /\ cur' = b /\ data' = data \ {b} /\ listing' = listing
      BY <1>9, <2>1 DEF TakeBlock
    <3>2. ASSUME NEW a \in Block, Earlier(a, b), a \in data PROVE FALSE
      BY <1>9, <3>2 DEF TakeBlock, Before, Earlier
    <3>3. ~Complete(b, meta')
      BY <3>1 DEF Complete
    <3> QED BY <1>1, <1>2, <1>3, <3>1, <3>2, <3>3 DEF OrderInv
  <2>2. CASE With(b, "stamp") \notin meta
    BY <1>4, <1>9, <2>2 DEF TakeBlock, Die
  <2> QED BY <2>1, <2>2
<1>10. CASE FileAway
  <2>1. meta' \subseteq meta /\ listing' \in {listing, {}} /\ data' \in {data, {}} /\ cur' = NoBlock
    BY <1>10 DEF FileAway, MoveAll, Die, Sleep
  <2> QED BY <1>4, <2>1
<1> QED BY <1>5, <1>6, <1>7, <1>8, <1>9, <1>10 DEF DaemonStep

\* The environment keeps OrderInv.
LEMMA OrderWorld ==
    ASSUME TypeInv, OrderInv, \/ Writer \/ Drain \/ UNCHANGED vars
                              \/ \E d \in Drops, t \in Runs : Pass(d, t)
    PROVE  OrderInv'
<1>1. CASE Writer
  <2>1. SpoolNext /\ UNCHANGED <<listing, data, cur>>
    BY <1>1 DEF Writer, daemonVars
  <2>2. \A b \in Block : Past(b) => Past(b)'
    BY <2>1, StampOnce
  <2>3. data \subseteq Block /\ (cur # NoBlock => cur \in Block) /\ NoBlock \notin Block
    BY Files DEF TypeInv, TypeOK
  <2>4. ASSUME NEW a \in Block, NEW b \in Block, Earlier(a, b), Complete(a, meta'),
               With(b, "stamp") \in listing \/ b \in data \/ b = cur
        PROVE  Complete(a, meta)
    <3>1. Past(b)
      BY <2>3, <2>4 DEF OrderInv
    <3>2. Past(a)
      BY <2>4, <3>1, PastEarlier
    <3> QED BY <2>1, <2>4, <3>2, NotAgain
  <2> QED BY <2>1, <2>2, <2>3, <2>4 DEF OrderInv
<1>2. CASE Drain \/ UNCHANGED vars \/ \E d \in Drops, t \in Runs : Pass(d, t)
  BY <1>2 DEF Drain, Pass, vars, spoolVars, daemonVars, OrderInv, Past
<1> QED BY <1>1, <1>2

\* OrderInv is an invariant.
LEMMA OrderInvariant == Spec => []OrderInv
<1>1. TypeInv /\ OnceInv /\ OrderInv /\ [Next]_vars => OrderInv'
  BY OrderDaemon, OrderWorld DEF Next
<1> QED BY <1>1, OrderInit, TypeInvariant, OnceInvariant, PTL DEF Spec

\* A block is handed over only when no complete one with a lower number of its generation
\* waits in the directory: the listing is old, but the writers go in order as well.
THEOREM HandedInOrder == Spec => InOrder
<1> DEFINE Ordered ==
       \A b \in Block : handed'[b] # handed[b] =>
          ~ \E a \in meta : /\ a.drop = b.drop /\ a.run = b.run /\ a.nr < b.nr
                            /\ a.ext = "stamp" /\ With(a, "xml") \in meta
<1>1. ASSUME TypeInv, OrderInv, [Next]_vars PROVE [Ordered]_vars
  <2>1. ASSUME NEW b \in Block, handed'[b] # handed[b] PROVE ppc = "mail" /\ b = cur
    BY <1>1, <2>1 DEF TypeInv, TypeOK, Next, DaemonStep, Start, List, Clean, Select, TakeBlock, QueueFull,
                      Mail, FileAway, Kill, Writer, Pass, Drain, vars
  <2>2. ASSUME NEW a \in meta, a.ext = "stamp", With(a, "xml") \in meta, NEW b \in Block,
               a.drop = b.drop, a.run = b.run, a.nr < b.nr
        PROVE  b # cur
    <3> DEFINE block == With(a, "xml")
    <3>1. a \in File
      BY <1>1 DEF TypeInv, TypeOK, SpoolTypeOK
    <3>2. block \in Block /\ Earlier(block, b)
      BY <2>2, <3>1, Files DEF Block, Earlier
    <3>3. With(block, "stamp") = a
      BY <2>2, <3>1 DEF With, File
    <3> QED BY <1>1, <2>2, <3>2, <3>3 DEF OrderInv, Complete
  <2> QED BY <2>1, <2>2
<1> QED BY <1>1, TypeInvariant, OrderInvariant, PTL DEF Spec, InOrder

----------------------------------------------------------------------------
(* A kill costs one block, and nothing else costs any                      *)

\* Files of one generation.
Together(f, b) == f.drop = b.drop /\ f.run = b.run

Finished(b) == <<b.drop, b.run>> \in finished
Kept(b) == MailingOf[b.drop] \notin deleted

\* A production block that was completed by a generation still at work.
Alive(b) ==
    LET g == work[b.drop][b.run] IN
    /\ KindOf[b.drop] # "T"
    /\ \/ g.at = "write" /\ b.nr <= g.nr
       \/ g.at = "open" /\ b.nr < g.nr

(* Complete blocks that have lost their stamp and are not at hand: those   *)
(* of finished generations, and those that will be.                        *)
Orphans ==
    {b \in Block : /\ b \in meta /\ With(b, "stamp") \notin meta
                   /\ b # cur /\ Kept(b) /\ (Alive(b) \/ Finished(b))}

(* What the writers leave: blocks up to their number, and up to the number *)
(* of the final file.                                                      *)
WrittenInv ==
    /\ \A d \in Drops, t \in Runs : <<d, t>> \in finished => work[d][t].at = "over"
    /\ \A b \in Block : b \in meta =>
          LET g == work[b.drop][b.run] IN g.at # "new" /\ (g.at \in {"write", "open"} => b.nr <= g.nr)
    /\ \A f \in meta, b \in Block : f.ext = "final" /\ b \in meta /\ Together(f, b) => b.nr <= f.nr

\* Files that are there are due, or the final file of their generation is there.
DueInv ==
    \A b \in Block : b \in meta /\ Finished(b) /\ Kept(b) =>
        \/ b.nr <= due[b.drop][b.run]
        \/ \E f \in meta : f.ext = "final" /\ Together(f, b)

\* Some final file vouches for a complete block of a finished generation.
VouchedInv ==
    \A b \in Block : Complete(b, meta) /\ Finished(b) /\ Kept(b) => \E f \in meta : IsFinalFor(f, b)

(* The listing is old: what is complete in the directory is complete in    *)
(* the listing, or the final file of its generation is not in it; and when *)
(* a final file has vanished the Destroyer took the blocks as well.        *)
ListedInv ==
    /\ \A b \in Block : ppc \in {"clean", "select"} /\ Complete(b, meta) /\ Finished(b) /\ Kept(b) =>
          \/ Complete(b, listing)
          \/ \E f \in meta \ listing : f.ext = "final" /\ Together(f, b)
    /\ \A f \in listing \ meta, b \in Block : IsFinalFor(f, b) /\ Complete(b, listing) => ~Complete(b, meta)

CountInv == IsFiniteSet(Orphans) /\ Cardinality(Orphans) <= failures

LossInv == WrittenInv /\ DueInv /\ VouchedInv /\ ListedInv /\ CountInv

\* LossInv holds in the initial state.
LEMMA LossInit == Init => LossInv
<1> SUFFICES ASSUME Init PROVE LossInv
  OBVIOUS
<1>1. Orphans = {} /\ failures = 0
  BY DEF Init, SpoolInit, Orphans
<1>2. CountInv
  BY <1>1, FS_EmptySet DEF CountInv
<1>3. WrittenInv /\ DueInv /\ VouchedInv /\ ListedInv
  BY DEF Init, SpoolInit, WrittenInv, DueInv, VouchedInv, ListedInv, Complete
<1> QED BY <1>2, <1>3 DEF LossInv

\* Fewer orphans, or one more and one more failure.
LEMMA Counting ==
    ASSUME CountInv, failures \in Nat, failures' \in Nat, NEW x,
           \/ Orphans' \subseteq Orphans /\ failures <= failures'
           \/ Orphans' \subseteq Orphans \cup {x} /\ failures' = failures + 1
    PROVE  CountInv'
<1>1. IsFiniteSet(Orphans) /\ Cardinality(Orphans) \in Nat /\ Cardinality(Orphans) <= failures
  BY FS_CardinalityType DEF CountInv
<1>2. CASE Orphans' \subseteq Orphans /\ failures <= failures'
  <2>1. IsFiniteSet(Orphans') /\ Cardinality(Orphans') <= Cardinality(Orphans)
    BY <1>1, <1>2, FS_Subset
  <2>2. Cardinality(Orphans') \in Nat
    BY <2>1, FS_CardinalityType
  <2> QED BY <1>1, <1>2, <2>1, <2>2 DEF CountInv
<1>3. CASE Orphans' \subseteq Orphans \cup {x} /\ failures' = failures + 1
  <2>1. /\ IsFiniteSet(Orphans \cup {x}) /\ Cardinality(Orphans \cup {x}) \in Nat
        /\ Cardinality(Orphans \cup {x}) <= Cardinality(Orphans) + 1
    <3> DEFINE S == Orphans
    <3>1. IsFiniteSet(S) /\ Cardinality(S) \in Nat
      BY <1>1
    <3> HIDE DEF S
    <3>2. IsFiniteSet(S \cup {x})
      BY <3>1, FS_AddElement
    <3>3. Cardinality(S \cup {x}) = IF x \in S THEN Cardinality(S) ELSE Cardinality(S) + 1
      BY <3>1, FS_AddElement
    <3>4. Cardinality(S \cup {x}) \in Nat /\ Cardinality(S \cup {x}) <= Cardinality(S) + 1
      BY <3>1, <3>3
    <3> QED BY <3>2, <3>4 DEF S
  <2>2. IsFiniteSet(Orphans') /\ Cardinality(Orphans') <= Cardinality(Orphans \cup {x})
    BY <1>3, <2>1, FS_Subset
  <2>3. Cardinality(Orphans') \in Nat
    BY <2>2, FS_CardinalityType
  <2> QED BY <1>1, <1>3, <2>1, <2>2, <2>3 DEF CountInv
<1> QED BY <1>2, <1>3

\* A step of one generation keeps LossInv: its files come in order, the final file last.
LEMMA LossGeneration ==
    ASSUME TypeInv, OrderInv, VouchInv, LossInv, Writer,
           NEW d \in Drops, NEW t \in Runs, NEW to \in Work, work' = [work EXCEPT ![d][t] = to],
           Onward(work[d][t], to), FileChange(d, t, to), deleted' = deleted
    PROVE  LossInv'
<1>1. SpoolTypeOK /\ OpenInv /\ SpoolNext /\ UNCHANGED <<due, ppc, listing, data, cur, failures>>
  BY DEF TypeInv, TypeOK, Writer, daemonVars
<1>2. \A b \in Block :
        /\ b \in File /\ b.drop \in Drops /\ b.run \in Runs /\ b.nr \in Nat /\ 1 <= b.nr /\ b.ext = "xml"
        /\ work[b.drop][b.run] \in Work /\ work[b.drop][b.run].nr \in Nat
        /\ With(b, "stamp").drop = b.drop
  BY <1>1, SpoolAssumption DEF Block, File, SpoolTypeOK, Work, With
<1>3. \A e \in Drops, u \in Runs : work'[e][u] = IF e = d /\ u = t THEN to ELSE work[e][u]
  BY <1>1, WorkChange
<1>4. finished \subseteq finished' /\ \A f \in meta' : f.ext = "final" => <<f.drop, f.run>> \in finished'
  BY DEF Writer
<1>5. ASSUME NEW e \in Drops, NEW u \in Runs, <<e, u>> \in finished', <<e, u>> \notin finished
      PROVE  /\ e = d /\ u = t /\ work[d][t].at = "write" /\ to = Over /\ KindOf[d] # "T"
             /\ \E f \in meta' : /\ f \notin meta /\ f.ext = "final" /\ f.drop = e /\ f.run = u
                                  /\ f.nr = work[d][t].nr
  <2>1. PICK f \in meta' : f.ext = "final" /\ <<e, u>> = <<f.drop, f.run>>
    BY <1>5 DEF Writer
  <2>2. f \notin meta
    BY <1>5, <2>1 DEF VouchInv
  <2>3. e = f.drop /\ u = f.run
    BY <2>1
  <2>4. f.drop = d /\ f.run = t
    BY <2>1, <2>2 DEF FileChange
  <2>5. work[d][t] = [at |-> "write", nr |-> f.nr] /\ to = Over /\ KindOf[d] # "T"
    BY <2>1, <2>2 DEF FileChange
  <2>6. work[d][t].at = "write" /\ work[d][t].nr = f.nr
    BY <2>5
  <2> QED BY <2>1, <2>2, <2>3, <2>4, <2>5, <2>6
<1>6. ASSUME NEW b \in Block, b \in meta', b \notin meta
      PROVE  b.drop = d /\ b.run = t /\ to = [at |-> "open", nr |-> b.nr] /\ work[d][t].at = "write"
  <2>1. b.drop = d /\ b.run = t /\ to = [at |-> "open", nr |-> b.nr]
    BY <1>2, <1>6 DEF FileChange
  <2> QED BY <2>1 DEF Onward
<1>7. ASSUME NEW b \in Block, b \in meta', NEW f \in meta, f.ext # "xml", MailingOf[f.drop] = MailingOf[b.drop]
      PROVE  f \in meta'
  BY <1>7 DEF FileChange
<1>8. ASSUME NEW b \in Block, Finished(b) PROVE work[b.drop][b.run].at = "over"
  BY <1>2, <1>8 DEF LossInv, WrittenInv, Finished
<1>9. ASSUME NEW b \in Block, Finished(b), b \in meta' PROVE b \in meta
  BY <1>6, <1>8, <1>9
<1>10. ASSUME NEW b \in Block, Past(b), Complete(b, meta') PROVE Complete(b, meta)
  BY <1>1, <1>10, NotAgain
<1>11. \A b \in Block : Kept(b)' => Kept(b)
  BY DEF Kept
<1>12. WrittenInv'
  <2>1. ASSUME NEW e \in Drops, NEW u \in Runs, <<e, u>> \in finished' PROVE work'[e][u].at = "over"
    <3>1. CASE <<e, u>> \in finished
      <4>1. work[e][u].at = "over"
        BY <3>1 DEF LossInv, WrittenInv
      <4> QED BY <1>3, <4>1 DEF Onward, Active
    <3>2. CASE <<e, u>> \notin finished
      BY <1>3, <1>5, <2>1, <3>2 DEF Over
    <3> QED BY <3>1, <3>2
  <2>2. ASSUME NEW b \in Block, b \in meta'
        PROVE  LET g == work'[b.drop][b.run] IN g.at # "new" /\ (g.at \in {"write", "open"} => b.nr <= g.nr)
    <3>1. CASE b \in meta
      <4>1. /\ work[b.drop][b.run].at # "new"
            /\ work[b.drop][b.run].at \in {"write", "open"} => b.nr <= work[b.drop][b.run].nr
        BY <3>1 DEF LossInv, WrittenInv
      <4> QED BY <1>2, <1>3, <4>1 DEF Onward, Active
    <3>2. CASE b \notin meta
      BY <1>2, <1>3, <1>6, <2>2, <3>2
    <3> QED BY <3>1, <3>2
  <2>3. ASSUME NEW f \in meta', NEW b \in Block, f.ext = "final", b \in meta', Together(f, b)
        PROVE  b.nr <= f.nr
    <3>1. CASE f \in meta
      <4>1. Finished(b)
        BY <2>3, <3>1 DEF VouchInv, Finished, Together
      <4> QED BY <1>9, <2>3, <3>1, <4>1 DEF LossInv, WrittenInv
    <3>2. CASE f \notin meta
      <4>1. work[d][t] = [at |-> "write", nr |-> f.nr] /\ to = Over /\ b.drop = d /\ b.run = t
        BY <2>3, <3>2 DEF FileChange, Together
      <4>2. b \in meta
        BY <1>6, <2>3, <4>1 DEF Over
      <4> QED BY <4>1, <4>2 DEF LossInv, WrittenInv
    <3> QED BY <3>1, <3>2
  <2> QED BY <2>1, <2>2, <2>3 DEF WrittenInv
<1>13. DueInv'
  <2> SUFFICES ASSUME NEW b \in Block, b \in meta', Finished(b)', Kept(b)'
               PROVE  \/ b.nr <= due[b.drop][b.run]
                      \/ \E f \in meta' : f.ext = "final" /\ Together(f, b)
    BY <1>1 DEF DueInv, Together
  <2>1. CASE Finished(b)
    <3>1. b \in meta /\ Kept(b)
      BY <1>9, <1>11, <2>1
    <3>2. CASE b.nr <= due[b.drop][b.run]
      BY <3>2
    <3>3. ASSUME NEW f \in meta, f.ext = "final", Together(f, b) PROVE f \in meta'
      BY <1>7, <3>3 DEF Together
    <3> QED BY <2>1, <3>1, <3>2, <3>3 DEF LossInv, DueInv
  <2>2. CASE ~Finished(b)
    BY <1>2, <1>5, <2>2 DEF Finished, Together
  <2> QED BY <2>1, <2>2
<1>14. VouchedInv'
  <2> SUFFICES ASSUME NEW b \in Block, Complete(b, meta'), Finished(b)', Kept(b)'
               PROVE  \E f \in meta' : IsFinalFor(f, b)
    BY DEF VouchedInv, Complete
  <2>1. CASE Finished(b)
    <3>1. Complete(b, meta) /\ Kept(b)
      BY <1>8, <1>10, <1>11, <2>1 DEF Past
    <3>2. PICK f \in meta : IsFinalFor(f, b)
      BY <2>1, <3>1 DEF LossInv, VouchedInv
    <3> QED BY <1>7, <3>2 DEF IsFinalFor, Complete
  <2>2. CASE ~Finished(b)
    BY <1>2, <1>5, <2>2 DEF Finished, IsFinalFor
  <2> QED BY <2>1, <2>2
<1>15. ListedInv'
  <2>1. ASSUME NEW b \in Block, ppc' \in {"clean", "select"}, Complete(b, meta'), Finished(b)', Kept(b)'
        PROVE  \/ Complete(b, listing')
               \/ \E f \in meta' \ listing' : f.ext = "final" /\ Together(f, b)
    <3>1. CASE Finished(b)
      <4>1. Complete(b, meta) /\ Kept(b)
        BY <1>8, <1>10, <1>11, <2>1, <3>1 DEF Past
      <4>2. CASE Complete(b, listing)
        BY <1>1, <4>2
      <4>3. ASSUME NEW f \in meta \ listing, f.ext = "final", Together(f, b) PROVE f \in meta' \ listing'
        BY <1>1, <1>7, <2>1, <4>3 DEF Together, Complete
      <4> QED BY <1>1, <2>1, <3>1, <4>1, <4>2, <4>3 DEF LossInv, ListedInv
    <3>2. CASE ~Finished(b)
      <4>1. PICK f \in meta' : f.ext = "final" /\ f.drop = b.drop /\ f.run = b.run
        BY <1>2, <1>5, <2>1, <3>2 DEF Finished
      <4>2. f \notin listing
        BY <3>2, <4>1 DEF VouchInv, Finished
      <4> QED BY <1>1, <4>1, <4>2 DEF Together
    <3> QED BY <3>1, <3>2
  <2>2. ASSUME NEW f \in listing \ meta', NEW b \in Block, IsFinalFor(f, b), Complete(b, listing)
        PROVE  ~Complete(b, meta')
    <3>1. Past(b)
      BY <2>2 DEF OrderInv, Complete
    <3>2. CASE f \in meta
      BY <1>7, <2>2, <3>2 DEF IsFinalFor, Complete
    <3>3. CASE f \notin meta
      BY <1>10, <2>2, <3>1, <3>3 DEF LossInv, ListedInv
    <3> QED BY <3>2, <3>3
  <2> QED BY <1>1, <2>1, <2>2 DEF ListedInv, Complete
<1>16. Orphans' \subseteq Orphans
  <2> SUFFICES ASSUME NEW b \in Block, b \in meta', With(b, "stamp") \notin meta', b # cur, Kept(b)',
                      Alive(b)' \/ Finished(b)'
               PROVE  b \in Orphans
    BY <1>1 DEF Orphans
  <2> DEFINE g == work[b.drop][b.run]
  <2>1. With(b, "stamp") \notin meta
    BY <1>2, <1>7, Files
  <2>2. b \in meta
    <3>1. CASE Alive(b)'
      BY <1>2, <1>3, <1>6, <3>1 DEF Alive
    <3>2. CASE Finished(b)'
      BY <1>2, <1>5, <1>6, <1>9, <3>2 DEF Finished, Over
    <3> QED BY <3>1, <3>2
  <2>3. g.at \in {"write", "open"} => b.nr <= g.nr
    BY <2>2 DEF LossInv, WrittenInv
  <2>4. Alive(b) \/ Finished(b)
    <3>1. CASE Alive(b)' /\ b.drop = d /\ b.run = t
      <4>1. KindOf[d] # "T" /\ to.at \in {"write", "open"}
        BY <1>2, <1>3, <3>1 DEF Alive
      <4>2. CASE g.at = "new"
        <5>1. to = [at |-> "write", nr |-> 0]
          BY <3>1, <4>1, <4>2 DEF Onward, Active
        <5>2. work'[b.drop][b.run] = to
          BY <1>2, <1>3, <3>1
        <5> QED BY <1>2, <3>1, <5>1, <5>2 DEF Alive
      <4>3. CASE g.at = "write"
        BY <2>3, <3>1, <4>1, <4>3 DEF Alive
      <4>4. CASE g.at = "open"
        <5>1. With(b, "stamp") = SpoolFile(b.drop, b.run, b.nr, "stamp")
          BY <1>2 DEF With, SpoolFile, File
        <5>2. to = [at |-> "write", nr |-> g.nr]
          BY <3>1, <4>1, <4>4 DEF Onward
        <5>3. b.nr # g.nr
          BY <3>1, <4>1, <4>4, <5>1, <5>2 DEF FileChange
        <5> QED BY <1>2, <2>3, <3>1, <4>1, <4>4, <5>3 DEF Alive
      <4> QED BY <3>1, <4>1, <4>2, <4>3, <4>4 DEF Onward, Active
    <3>2. CASE Alive(b)' /\ ~(b.drop = d /\ b.run = t)
      BY <1>2, <1>3, <3>2 DEF Alive
    <3>3. CASE Finished(b)'
      BY <1>2, <1>5, <2>3, <3>3 DEF Alive, Finished
    <3> QED BY <3>1, <3>2, <3>3
  <2> QED BY <1>11, <2>1, <2>2, <2>4 DEF Orphans
<1>17. CountInv'
  <2>1. failures \in Nat /\ failures' = failures
    BY <1>1, PickdistAssumption DEF TypeInv, TypeOK
  <2> QED BY <1>16, <2>1, Counting DEF LossInv
<1> QED BY <1>12, <1>13, <1>14, <1>15, <1>17 DEF LossInv

\* The writers keep LossInv.
LEMMA LossWriter ==
    ASSUME TypeInv, OrderInv, VouchInv, LossInv, Writer
    PROVE  LossInv'
<1>1. SpoolTypeOK /\ OpenInv /\ SpoolNext /\ UNCHANGED <<due, ppc, listing, data, cur, failures>>
  BY DEF TypeInv, TypeOK, Writer, daemonVars
<1>2. \A b \in Block : b.drop \in Drops /\ b.run \in Runs
  BY DEF Block, File
<1>3. ASSUME meta' = meta, deleted \subseteq deleted',
             \A d \in Drops, t \in Runs :
               work'[d][t] = work[d][t] \/ (work[d][t].at # "over" /\ work'[d][t].at = "over")
      PROVE  LossInv'
  <2>1. finished' = finished
    BY <1>3 DEF Writer, VouchInv
  <2>2. \A b \in Block : (Kept(b)' => Kept(b)) /\ (Finished(b)' <=> Finished(b)) /\ (Alive(b)' => Alive(b))
    BY <1>2, <1>3, <2>1 DEF Kept, Finished, Alive
  <2>3. WrittenInv'
    <3>1. ASSUME NEW d \in Drops, NEW t \in Runs, <<d, t>> \in finished PROVE work'[d][t].at = "over"
      BY <1>3, <3>1 DEF LossInv, WrittenInv
    <3>2. ASSUME NEW b \in Block, b \in meta
          PROVE  LET g == work'[b.drop][b.run] IN g.at # "new" /\ (g.at \in {"write", "open"} => b.nr <= g.nr)
      BY <1>2, <1>3, <3>2 DEF LossInv, WrittenInv
    <3>3. \A f \in meta, b \in Block : f.ext = "final" /\ b \in meta /\ Together(f, b) => b.nr <= f.nr
      BY DEF LossInv, WrittenInv
    <3> QED BY <1>3, <2>1, <3>1, <3>2, <3>3 DEF WrittenInv, Together
  <2>4. DueInv' /\ VouchedInv' /\ ListedInv'
    BY <1>1, <1>3, <2>2 DEF LossInv, DueInv, VouchedInv, ListedInv, Complete, Together
  <2>5. Orphans' \subseteq Orphans
    BY <1>1, <1>3, <2>2 DEF Orphans
  <2>6. failures \in Nat /\ failures' = failures
    BY <1>1, PickdistAssumption DEF TypeInv, TypeOK
  <2>7. CountInv'
    BY <2>5, <2>6, Counting DEF LossInv
  <2> QED BY <2>3, <2>4, <2>7 DEF LossInv
<1>4. CASE Halt
  BY <1>1, <1>3, <1>4 DEF Halt, SpoolTypeOK, Active, Over
<1>5. CASE \E m \in Mailings : Delete(m)
  BY <1>3, <1>5 DEF Delete
<1> QED BY <1>1, <1>4, <1>5, LossGeneration, SpoolSteps

\* What the daemon takes out of the directory, and when it lets go of the block at hand.
LEMMA Takes ==
    ASSUME TypeInv, DaemonStep \/ Kill
    PROVE  /\ UNCHANGED <<work, deleted, due, finished>>
           /\ meta' \subseteq meta
           /\ \A f \in meta \ meta' :
                \/ MailingOf[f.drop] \in deleted /\ f \notin listing'
                \/ Select /\ f \in Finals
                \/ cur' \in Block /\ f = With(cur', "stamp")
                \/ cur \in Block /\ f = cur
           /\ Kill \/ cur' = cur \/ cur = NoBlock \/ cur \notin meta'
           /\ failures \in Nat /\ failures' \in Nat /\ failures <= failures'
           /\ Kill => failures' = failures + 1
           /\ \/ listing' = {} /\ ppc' \notin {"clean", "select"}
              \/ listing' = meta /\ meta' = meta
              \/ /\ listing' \subseteq listing
                 /\ \A f \in listing \ listing' : MailingOf[f.drop] \in deleted
                 /\ ppc' \in {"clean", "select"} => ppc \in {"clean", "select"}
<1>1. failures \in Nat /\ (cur \in Block \/ cur = NoBlock) /\ data \subseteq Block
  BY PickdistAssumption DEF TypeInv, TypeOK
<1>2. cur # NoBlock => ppc \in {"mail", "ARCHIVE", "RECOVER"}
  BY DEF TypeInv, TypeOK
<1>0. Kill => failures' = failures + 1
  BY DEF Kill, Fails
<1> USE <1>0, <1>1, <1>2 DEF spoolVars, Die, Sleep, Fails
<1>3. CASE Start
  BY <1>3 DEF Start
<1>4. CASE List
  BY <1>4 DEF List
<1>5. CASE QueueFull
  BY <1>5 DEF QueueFull
<1>6. CASE Kill
  BY <1>6 DEF Kill
<1>7. CASE Mail
  BY <1>7 DEF Mail
<1>8. CASE Clean
  <2>1. \A f \in Gone : MailingOf[f.drop] \in deleted
    BY DEF Gone
  <2>2. \/ /\ meta' \subseteq meta /\ meta \ meta' \subseteq Gone /\ failures' = failures
           /\ \/ ppc' = "select" /\ listing' = listing \ Gone /\ UNCHANGED <<data, cur>>
              \/ Die
        \/ Fails /\ Sleep /\ UNCHANGED meta
    BY <1>8 DEF Clean, MoveAll
  <2>3. ppc = "clean" /\ UNCHANGED <<work, deleted, due, finished>>
    BY <1>8 DEF Clean
  <2> HIDE DEF Gone
  <2> QED BY <2>1, <2>2, <2>3
<1>9. CASE Select
  <2>1. /\ meta' \subseteq meta /\ meta \ meta' \subseteq Finals
        /\ listing' = {} /\ cur' \in {cur, NoBlock} /\ failures' = failures
        /\ UNCHANGED <<work, deleted, due, finished>>
        /\ ppc = "select" /\ ppc' \notin {"clean", "select"}
    BY <1>9 DEF Select, MoveAll
  <2> QED BY <1>9, <2>1
<1>10. ASSUME NEW b \in data, TakeBlock(b)
       PROVE  /\ UNCHANGED <<work, deleted, due, finished, failures>>
              /\ meta' = meta \ {With(b, "stamp")}
              /\ ppc = "work"
              /\ \/ With(b, "stamp") \in meta /\ cur' = b /\ listing' = listing /\ ppc' = "mail"
                 \/ With(b, "stamp") \notin meta /\ Die
  BY <1>10 DEF TakeBlock
<1>11. CASE FileAway
  <2>1. /\ UNCHANGED <<work, deleted, due, finished, failures>>
        /\ meta' \subseteq meta /\ meta \ meta' \subseteq {cur} /\ cur \notin meta'
        /\ cur' = NoBlock /\ ppc' \notin {"clean", "select"} /\ listing' \in {{}, listing}
    BY <1>11 DEF FileAway, MoveAll
  <2>2. cur \in Block
    BY <1>11, Files DEF FileAway, TypeInv, TypeOK
  <2> QED BY <2>1, <2>2
<1> QED BY <1>3, <1>4, <1>5, <1>6, <1>7, <1>8, <1>9, <1>10, <1>11 DEF DaemonStep

\* Sorting out the final files leaves one for every complete block: a block that is not used
\* in this scan either is not due, or the final file of its generation came too late for it.
LEMMA SelectVouches ==
    ASSUME TypeInv, LossInv, Select, NEW b \in Block, Complete(b, meta'), Finished(b), Kept(b)
    PROVE  \E f \in meta' : IsFinalFor(f, b)
<1>1. PICK finals \in SUBSET Finals : Counted(finals) /\ meta' \subseteq meta /\ meta \ meta' \subseteq Finals \ finals
  BY DEF Select, MoveAll
<1>2. /\ Finals \subseteq listing /\ finals \subseteq Finals
      /\ \A f \in Finals : f.ext = "final" /\ f.nr <= due[f.drop][f.run]
  BY <1>1 DEF Finals, Ready, ReadyToSend
<1>3. Complete(b, meta) /\ ppc = "select"
  BY <1>1 DEF Complete, Select
<1>4. PICK g \in meta : IsFinalFor(g, b)
  BY <1>3 DEF LossInv, VouchedInv
<1>5. CASE g \in meta'
  BY <1>4, <1>5
<1>6. ASSUME NEW f \in meta', f.ext = "final", Together(f, b) PROVE \E h \in meta' : IsFinalFor(h, b)
  BY <1>6 DEF Together, IsFinalFor
<1>7. ASSUME g \in Finals, \A f \in meta' : f.ext = "final" => ~Together(f, b)
      PROVE  \E h \in meta' : IsFinalFor(h, b)
  <2>1. Complete(b, listing)
    BY <1>1, <1>2, <1>3, <1>7 DEF LossInv, ListedInv
  <2>2. b.nr <= due[b.drop][b.run]
    <3>1. ASSUME NEW f \in meta, f.ext = "final", Together(f, b) PROVE b.nr <= due[b.drop][b.run]
      <4>1. f \in Finals
        BY <1>1, <1>7, <3>1
      <4>2. b.nr <= f.nr
        BY <1>3, <3>1 DEF LossInv, WrittenInv, Complete
      <4>3. f.nr <= due[b.drop][b.run]
        BY <1>2, <3>1, <4>1 DEF Together
      <4>4. b.nr \in Nat /\ f.nr \in Nat /\ due[b.drop][b.run] \in Nat
        BY SpoolAssumption, <3>1 DEF Block, File, TypeInv, TypeOK, SpoolTypeOK
      <4> QED BY <4>2, <4>3, <4>4
    <3> QED BY <1>3, <3>1 DEF LossInv, DueInv, Complete
  <2>3. b \in Usable
    BY <1>4, <1>7, <2>1, <2>2 DEF Usable, Ready, ReadyToSend, Complete
  <2>4. MailingOf[b.drop] \in MailingsOf(Usable) /\ MailingOf[b.drop] \in MailingsOf(Finals)
    BY <1>4, <1>7, <2>3 DEF MailingsOf, IsFinalFor
  <2>5. PICK h \in finals : MailingOf[h.drop] = MailingOf[b.drop]
    <3>1. MailingOf[b.drop] \in MailingsOf(finals)
      BY <1>1, <2>4 DEF Counted
    <3> QED BY <3>1 DEF MailingsOf
  <2>6. h \in listing /\ IsFinalFor(h, b)
    BY <1>2, <2>5 DEF IsFinalFor
  <2>7. h \in meta
    BY <1>3, <2>1, <2>6 DEF LossInv, ListedInv
  <2> QED BY <1>1, <2>6, <2>7
<1> QED BY <1>1, <1>5, <1>6, <1>7

\* The steps of the daemon keep LossInv.
LEMMA LossDaemon ==
    ASSUME TypeInv, OrderInv, LossInv, DaemonStep \/ Kill
    PROVE  LossInv'
<1>1. UNCHANGED <<work, deleted, due, finished>> /\ meta' \subseteq meta
  BY Takes
<1>2. \A b \in Block : Complete(b, meta') => Complete(b, meta)
  BY <1>1 DEF Complete
<1>3. \A b \in Block : /\ b \in File /\ b.ext = "xml" /\ With(b, "stamp").ext = "stamp"
                       /\ With(b, "stamp").drop = b.drop
                       /\ (Kept(b)' <=> Kept(b)) /\ (Finished(b)' <=> Finished(b)) /\ (Alive(b)' <=> Alive(b))
  BY <1>1, Files DEF Kept, Finished, Alive
<1>4. ASSUME NEW f \in meta \ meta', MailingOf[f.drop] \notin deleted, f.ext = "final"
      PROVE  Select /\ f \in Finals
  BY <1>3, <1>4, Takes
<1>5. Finals \subseteq listing /\ \A f \in Finals : f.nr <= due[f.drop][f.run]
  BY DEF Finals, Ready, ReadyToSend
<1>6. WrittenInv'
  BY <1>1 DEF LossInv, WrittenInv, Together
<1>7. DueInv'
  <2> SUFFICES ASSUME NEW b \in Block, b \in meta', Finished(b), Kept(b)
               PROVE  \/ b.nr <= due[b.drop][b.run]
                      \/ \E f \in meta' : f.ext = "final" /\ Together(f, b)
    BY <1>1, <1>3 DEF DueInv, Together
  <2>1. ASSUME NEW f \in meta, f \notin meta', f.ext = "final", Together(f, b)
        PROVE  b.nr <= due[b.drop][b.run]
    <3>1. f \in Finals
      BY <1>4, <2>1 DEF Kept, Together
    <3>2. b.nr <= f.nr
      BY <1>1, <2>1 DEF LossInv, WrittenInv
    <3>3. f.nr <= due[b.drop][b.run]
      BY <1>5, <2>1, <3>1 DEF Together
    <3>4. b.nr \in Nat /\ f.nr \in Nat /\ due[b.drop][b.run] \in Nat
      BY SpoolAssumption, <2>1 DEF Block, File, TypeInv, TypeOK, SpoolTypeOK
    <3> QED BY <3>2, <3>3, <3>4
  <2> QED BY <1>1, <2>1 DEF LossInv, DueInv
<1>8. VouchedInv'
  <2> SUFFICES ASSUME NEW b \in Block, Complete(b, meta'), Finished(b), Kept(b)
               PROVE  \E f \in meta' : IsFinalFor(f, b)
    BY <1>3 DEF VouchedInv, Complete
  <2>1. CASE Select
    BY <2>1, SelectVouches
  <2>2. CASE ~Select
    <3>1. PICK f \in meta : IsFinalFor(f, b)
      BY <1>2 DEF LossInv, VouchedInv
    <3>2. f \in meta'
      BY <1>4, <2>2, <3>1 DEF IsFinalFor, Kept
    <3> QED BY <3>1, <3>2
  <2> QED BY <2>1, <2>2
<1>9. ListedInv'
  <2>1. ASSUME NEW b \in Block, ppc' \in {"clean", "select"}, Complete(b, meta'), Finished(b), Kept(b)
        PROVE  \/ Complete(b, listing')
               \/ \E f \in meta' \ listing' : f.ext = "final" /\ Together(f, b)
    <3>1. CASE listing' = meta /\ meta' = meta
      BY <2>1, <3>1
    <3>2. CASE /\ listing' \subseteq listing
               /\ \A f \in listing \ listing' : MailingOf[f.drop] \in deleted
               /\ ppc' \in {"clean", "select"} => ppc \in {"clean", "select"}
      <4>1. CASE Complete(b, listing)
        BY <1>3, <2>1, <3>2, <4>1 DEF Complete, Kept
      <4>2. ASSUME NEW f \in meta \ listing, f.ext = "final", Together(f, b) PROVE f \in meta' \ listing'
        BY <1>4, <1>5, <2>1, <3>2, <4>2 DEF Together, Kept
      <4> QED BY <1>2, <2>1, <3>2, <4>1, <4>2 DEF LossInv, ListedInv
    <3> QED BY <2>1, <3>1, <3>2, Takes
  <2>2. ASSUME NEW f \in listing' \ meta', NEW b \in Block, IsFinalFor(f, b), Complete(b, listing')
        PROVE  ~Complete(b, meta')
    <3>1. listing' \subseteq listing /\ \A g \in listing \ listing' : MailingOf[g.drop] \in deleted
      BY <2>2, Takes
    <3>2. CASE f \notin meta
      BY <1>2, <2>2, <3>1, <3>2 DEF LossInv, ListedInv, Complete
    <3>3. CASE f \in meta
      <4>1. ~Select
        BY <2>2 DEF Select, MoveAll, Sleep, Die
      <4>2. f.ext = "final"
        BY <2>2 DEF IsFinalFor
      <4> QED BY <1>3, <2>2, <3>3, <4>1, <4>2, Takes
    <3> QED BY <3>2, <3>3
  <2> QED BY <1>3, <2>1, <2>2 DEF ListedInv, Complete
<1>10. Orphans' \subseteq IF Kill THEN Orphans \cup {cur} ELSE Orphans
  <2> SUFFICES ASSUME NEW b \in Block, b \in meta', With(b, "stamp") \notin meta', b # cur', Kept(b),
                      Alive(b) \/ Finished(b), b # cur \/ ~Kill
               PROVE  b \in Orphans
    BY <1>3 DEF Orphans
  <2>1. b # cur
    <3>1. NoBlock \notin Block
      BY Files
    <3> QED BY <3>1, Takes
  <2>2. With(b, "stamp") \notin meta
    <3>1. ASSUME NEW c \in Block, With(b, "stamp") = With(c, "stamp") PROVE b = c
      BY <3>1 DEF Block, File, With
    <3>2. With(b, "stamp") \notin Finals /\ \A c \in Block : With(b, "stamp") # c
      BY <1>3 DEF Finals
    <3>3. MailingOf[With(b, "stamp").drop] \notin deleted
      BY <1>3 DEF Kept
    <3> QED BY <3>1, <3>2, <3>3, Takes
  <2> QED BY <1>1, <2>1, <2>2 DEF Orphans
<1>11. CountInv'
  <2>1. failures \in Nat /\ failures' \in Nat /\ failures <= failures' /\ (Kill => failures' = failures + 1)
    BY Takes
  <2>2. \/ Orphans' \subseteq Orphans /\ failures <= failures'
        \/ Orphans' \subseteq Orphans \cup {cur} /\ failures' = failures + 1
    BY <1>10, <2>1
  <2> QED BY <2>1, <2>2, Counting DEF LossInv
<1> QED BY <1>6, <1>7, <1>8, <1>9, <1>11 DEF LossInv

\* Time passes, and the queue is drained.
LEMMA LossWorld ==
    ASSUME TypeInv, LossInv, \/ Drain \/ UNCHANGED vars
                             \/ \E d \in Drops, t \in Runs : Pass(d, t)
    PROVE  LossInv'
<1>1. UNCHANGED <<meta, work, deleted, finished, ppc, listing, cur, failures>>
  BY DEF Drain, Pass, vars, spoolVars, daemonVars
<1>2. \A b \in Block : /\ b.nr \in Nat /\ due[b.drop][b.run] \in Nat /\ due'[b.drop][b.run] \in Nat
                       /\ due[b.drop][b.run] <= due'[b.drop][b.run]
  <2>1. \A b \in Block : b.drop \in Drops /\ b.run \in Runs /\ b.nr \in Nat
    BY DEF Block, File
  <2>2. due \in [Drops -> [Runs -> Nat]]
    BY SpoolAssumption DEF TypeInv, TypeOK
  <2>3. \/ due' = due
        \/ \E d \in Drops, t \in Runs : due' = [due EXCEPT ![d][t] = @ + 1]
    BY DEF Drain, Pass, vars
  <2> QED BY <2>1, <2>2, <2>3
<1>3. WrittenInv' /\ VouchedInv' /\ ListedInv'
  BY <1>1 DEF LossInv, WrittenInv, VouchedInv, ListedInv, Complete, Together, Finished, Kept
<1>4. DueInv'
  BY <1>1, <1>2 DEF LossInv, DueInv, Together, Finished, Kept
<1>5. CountInv'
  <2>1. Orphans' = Orphans
    BY <1>1 DEF Orphans, Kept, Alive, Finished
  <2> QED BY <1>1, <2>1 DEF LossInv, CountInv
<1> QED BY <1>3, <1>4, <1>5 DEF LossInv

\* LossInv is an invariant.
LEMMA LossInvariant == Spec => []LossInv
<1>1. TypeInv /\ OrderInv /\ VouchInv /\ LossInv /\ [Next]_vars => LossInv'
  BY LossWriter, LossDaemon, LossWorld DEF Next
<1>2. TypeInv /\ VouchInv /\ [Next]_vars => VouchInv'
  BY VouchDaemon, VouchWorld DEF Next
<1> QED BY <1>1, <1>2, LossInit, VouchInit, TypeInvariant, OrderInvariant, PTL DEF Spec

\* A kill costs at most the one block at hand, and nothing else costs a block: however often
\* final files are sorted out, moved away or late, no complete block is left that nobody
\* will ever look at again.
THEOREM LossBounded == Spec => []BoundedLoss
<1>1. TypeInv /\ LossInv => BoundedLoss
  <2> SUFFICES ASSUME TypeInv, LossInv PROVE BoundedLoss
    OBVIOUS
  <2>1. Stranded \subseteq Orphans
    <3> SUFFICES ASSUME NEW b \in Stranded PROVE b \in Orphans
      OBVIOUS
    <3>1. b \in Block /\ b \in meta /\ Finished(b) /\ Kept(b) /\ b # cur
      BY DEF Stranded, Finished, Kept
    <3>2. With(b, "stamp") \notin meta
      BY <3>1 DEF Stranded, LossInv, VouchedInv, Complete
    <3> QED BY <3>1, <3>2 DEF Orphans
  <2>2. IsFiniteSet(Orphans) /\ Cardinality(Orphans) <= failures
    BY DEF LossInv, CountInv
  <2>3. Cardinality(Orphans) \in Nat /\ Cardinality(Stranded) \in Nat
        /\ Cardinality(Stranded) <= Cardinality(Orphans)
    BY <2>1, <2>2, FS_Subset, FS_CardinalityType
  <2>4. failures \in Nat
    BY PickdistAssumption DEF TypeInv, TypeOK
  <2> QED BY <2>2, <2>3, <2>4 DEF BoundedLoss
<1> QED BY <1>1, TypeInvariant, LossInvariant, PTL
============================================================================
