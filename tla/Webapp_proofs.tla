---------------------------- MODULE Webapp_proofs ----------------------------
(***************************************************************************)
(* Proofs about the parts of the web application, one after the other and  *)
(* together.                                                               *)
(*                                                                         *)
(* Event mailings: how long a mailing goes on after it was stopped, and    *)
(* whose customer gets the mail of a request.                              *)
(*                                                                         *)
(* Undo levels of the HTML editor, for any number of levels, of keys and   *)
(* of edits: that what is in no level can only be on top of them, and that *)
(* a redo undoes an undo.                                                  *)
(*                                                                         *)
(* Spelling dialog: whatever is answered and taken back, the text is the   *)
(* original one with the values of the words in their places, and the      *)
(* flags say which values those are.                                       *)
(*                                                                         *)
(* The parts share nothing, so that together they keep what each keeps.    *)
(***************************************************************************)
EXTENDS Webapp, FCKGrid_proofs, Induction, SequenceTheorems, FiniteSetTheorems, TLAPS

----------------------------------------------------------------------------
(* Event mailings: types, and who has a Mailgun.                           *)

HasGun(r) == epc[r] \in {"put", "execute", "select", "done"}

GunInv ==
    \A r \in Requests :
        /\ HasGun(r) => gun[r] \in Requests
        /\ epc[r] = "put" => gun[r] = r
        /\ r \in Mailed => epc[r] = "done"

EventTypeInv == EventTypeOK /\ GunInv

\* The types hold in the initial state.
LEMMA EventTypeInit == EventInit => EventTypeInv
<1> SUFFICES ASSUME EventInit PROVE EventTypeInv
  OBVIOUS
<1>1. /\ epc \in [Requests -> {"idle"}] /\ gun \in [Requests -> {Nobody}]
      /\ customer \in [Requests -> {Nobody}] /\ pass \in [Requests -> {0}]
      /\ started \in [Requests -> {0}] /\ mail \in [Requests -> {NoMail}]
  BY DEF EventInit
<1>2. GunInv
  BY <1>1 DEF GunInv, HasGun, Mailed
<1>3. mail \in [Requests -> [customer : Customers \cup {Nobody}, pass : Nat]]
  BY <1>1 DEF NoMail
<1>4. 0 \in 0 .. MaxClock
  BY EventAssumption
<1> QED
  BY <1>1, <1>2, <1>3, <1>4 DEF EventInit, EventTypeInv, EventTypeOK

\* Every step keeps the types.
LEMMA EventTypeStep == EventTypeInv /\ [EventNext]_eventVars => EventTypeInv'
<1> SUFFICES ASSUME EventTypeInv, [EventNext]_eventVars PROVE EventTypeInv'
  OBVIOUS
<1> USE EventAssumption DEF EventTypeInv, EventTypeOK, GunInv, HasGun, EventGoto, dataVars
<1>0. mail' = mail => Mailed' = Mailed
  BY DEF Mailed
<1>1. CASE UNCHANGED eventVars
  BY <1>0, <1>1 DEF eventVars
<1>2. CASE Tick \/ StopMailing \/ DeleteMailing
  <2>1. inFlight' \subseteq Requests
    BY <1>2 DEF Tick, StopMailing, DeleteMailing
  <2>2. CASE Tick
    BY <1>0, <2>2 DEF Tick
  <2>3. CASE StopMailing
    BY <1>0, <2>1, <2>3 DEF StopMailing
  <2>4. CASE DeleteMailing
    BY <1>0, <2>4 DEF DeleteMailing
  <2> QED BY <1>2, <2>2, <2>3, <2>4
<1>3. ASSUME NEW r \in Requests, LoadMailing(r) \/ SelectNobody(r) PROVE EventTypeInv'
  BY <1>0, <1>3 DEF LoadMailing, SelectNobody
<1>4. ASSUME NEW r \in Requests, AskCache(r) PROVE EventTypeInv'
  BY <1>0, <1>4 DEF AskCache, Fresh
<1>5. ASSUME NEW r \in Requests, PrepareMailgun(r) PROVE EventTypeInv'
  BY <1>0, <1>5 DEF PrepareMailgun
<1>6. ASSUME NEW r \in Requests, PutInCache(r) PROVE EventTypeInv'
  BY <1>0, <1>6 DEF PutInCache
<1>7. ASSUME NEW r \in Requests, Options(r) PROVE EventTypeInv'
  <2>1. gun[r] \in Requests
    BY <1>7 DEF Options
  <2>2. /\ customer' \in [Requests -> Customers \cup {Nobody}]
        /\ pass' \in [Requests -> Nat]
    BY <1>7, <2>1 DEF Options
  <2> QED BY <1>0, <1>7, <2>2 DEF Options
<1>8. ASSUME NEW r \in Requests, SelectCustomer(r) PROVE EventTypeInv'
  BY <1>8 DEF SelectCustomer, Mailed
<1> QED
  BY <1>1, <1>2, <1>3, <1>4, <1>5, <1>6, <1>7, <1>8 DEF EventNext

\* A request that has a Mailgun has one of those that were prepared.
THEOREM EventTypeCorrect == EventSpec => []EventTypeOK
<1>1. EventTypeInv => EventTypeOK
  BY DEF EventTypeInv
<1> QED BY <1>1, EventTypeInit, EventTypeStep, PTL DEF EventSpec

----------------------------------------------------------------------------
(* After the mailing was stopped.                                          *)

(* A request that asked before the stop, or within the lifetime after it.  *)
InTime(r) == started[r] <= stopped \/ started[r] < stopped + Lifetime

(* The clock has passed the stop; what is put into the cache later was in  *)
(* flight, and what is in the cache else has its time stamp from before.   *)
StopInv ==
    /\ stamp <= clock
    /\ \A r \in Requests : started[r] <= clock
    /\ stopped # Nobody =>
         /\ stopped <= clock
         /\ \A r \in Requests : epc[r] = "put" => r \in inFlight
         /\ cached \notin inFlight \cup {Nobody} => stamp <= stopped
         /\ \A r \in Requests : HasGun(r) /\ gun[r] \notin inFlight => InTime(r)

\* StopInv holds in the initial state.
LEMMA StopInit == EventInit => StopInv
  BY EventAssumption DEF EventInit, StopInv

\* Every step keeps StopInv.
LEMMA StopStep == EventTypeInv /\ StopInv /\ [EventNext]_eventVars => StopInv'
<1> SUFFICES ASSUME EventTypeInv, StopInv, [EventNext]_eventVars PROVE StopInv'
  OBVIOUS
<1> USE EventAssumption
    DEF EventTypeInv, EventTypeOK, GunInv, HasGun, EventGoto, Mailed, dataVars, StopInv, InTime
<1>1. CASE UNCHANGED eventVars
  BY <1>1 DEF eventVars
<1>2. CASE Tick \/ StopMailing \/ DeleteMailing
  BY <1>2 DEF Tick, StopMailing, DeleteMailing
<1>3. ASSUME NEW r \in Requests, LoadMailing(r) \/ SelectNobody(r) PROVE StopInv'
  BY <1>3 DEF LoadMailing, SelectNobody
<1>4. ASSUME NEW r \in Requests, AskCache(r) PROVE StopInv'
  BY <1>4 DEF AskCache, Fresh
<1>5. ASSUME NEW r \in Requests, PrepareMailgun(r) PROVE StopInv'
  BY <1>5 DEF PrepareMailgun
<1>6. ASSUME NEW r \in Requests, PutInCache(r) PROVE StopInv'
  BY <1>6 DEF PutInCache
<1>7. ASSUME NEW r \in Requests, Options(r) PROVE StopInv'
  BY <1>7 DEF Options
<1>8. ASSUME NEW r \in Requests, SelectCustomer(r) PROVE StopInv'
  BY <1>8 DEF SelectCustomer
<1> QED
  BY <1>1, <1>2, <1>3, <1>4, <1>5, <1>6, <1>7, <1>8 DEF EventNext

\* No request that comes later than the lifetime of the cache after the stop is
\* answered by the mailing, but with a Mailgun that was in flight.
THEOREM StoppedInTime == EventSpec => []StopsWithinLifetime
<1>1. EventTypeInv /\ StopInv => StopsWithinLifetime
  BY DEF EventTypeInv, EventTypeOK, GunInv, HasGun, Mailed, StopInv, InTime, StopsWithinLifetime
<1> QED BY <1>1, EventTypeInit, EventTypeStep, StopInit, StopStep, PTL DEF EventSpec

----------------------------------------------------------------------------
(* The customer of a request.                                              *)

(* One request at a time is between its options and its query, so that its *)
(* own customer is still there, and the pass is its own: no mail of this   *)
(* Mailgun has a later one, or this one before.                            *)
CustomerInv ==
    /\ \A q, r \in Requests :
         epc[q] = "select" /\ epc[r] = "select" /\ gun[q] = gun[r] => q = r
    /\ \A r \in Requests : epc[r] = "select" => customer[gun[r]] = CustomerOf[r]
    /\ \A q \in Mailed : mail[q].pass <= pass[gun[q]]
    /\ \A q \in Mailed, r \in Requests :
         epc[r] = "select" /\ gun[q] = gun[r] => mail[q].pass < pass[gun[r]]

\* CustomerInv and the property hold in the initial state.
LEMMA CustomerInit == EventInit => CustomerInv /\ OwnMail
  BY DEF EventInit, CustomerInv, Mailed, OwnMail

\* A step that leaves the mails and the Data alone keeps them, if it brings nobody
\* to his query and leaves those who are there, or were, their Mailguns.
LEMMA CustomerQuiet ==
    /\ EventTypeInv /\ CustomerInv /\ OwnMail
    /\ UNCHANGED <<mail, dataVars>>
    /\ \A q \in Requests : epc'[q] = "select" => epc[q] = "select"
    /\ \A q \in Requests : epc[q] \in {"select", "done"} => gun'[q] = gun[q]
    => CustomerInv' /\ OwnMail'
<1> SUFFICES ASSUME EventTypeInv, CustomerInv, OwnMail, UNCHANGED <<mail, dataVars>>,
                    \A q \in Requests : epc'[q] = "select" => epc[q] = "select",
                    \A q \in Requests : epc[q] \in {"select", "done"} => gun'[q] = gun[q]
             PROVE  CustomerInv' /\ OwnMail'
  OBVIOUS
<1>1. Mailed' = Mailed /\ Mailed \subseteq Requests
  BY DEF Mailed
<1>2. \A q \in Mailed : gun'[q] = gun[q]
  BY <1>1 DEF EventTypeInv, GunInv
<1>3. OwnMail'
  BY <1>1, <1>2 DEF OwnMail
<1>4. CustomerInv'
  BY <1>1, <1>2 DEF CustomerInv, dataVars
<1> QED BY <1>3, <1>4

\* Every step keeps them.
LEMMA CustomerStep ==
    EventTypeInv /\ CustomerInv /\ OwnMail /\ [EventNext]_eventVars
        => CustomerInv' /\ OwnMail'
<1> SUFFICES ASSUME EventTypeInv, CustomerInv, OwnMail, [EventNext]_eventVars
             PROVE  CustomerInv' /\ OwnMail'
  OBVIOUS
<1> USE DEF EventGoto
<1>1. CASE UNCHANGED eventVars
  BY <1>1, CustomerQuiet DEF eventVars
<1>2. CASE Tick \/ StopMailing \/ DeleteMailing
  BY <1>2, CustomerQuiet DEF Tick, StopMailing, DeleteMailing
<1>3. epc \in [Requests -> {"idle", "ask", "prepare", "put", "execute", "select", "done", "failed"}]
      /\ gun \in [Requests -> Requests \cup {Nobody}]
  BY DEF EventTypeInv, EventTypeOK
<1>4. ASSUME NEW r \in Requests,
             \/ LoadMailing(r) \/ AskCache(r) \/ PrepareMailgun(r) \/ PutInCache(r) \/ SelectNobody(r)
      PROVE  CustomerInv' /\ OwnMail'
  <2>1. /\ UNCHANGED <<mail, dataVars>>
        /\ \A q \in Requests : epc'[q] = "select" => epc[q] = "select"
    BY <1>3, <1>4 DEF LoadMailing, AskCache, PrepareMailgun, PutInCache, SelectNobody
  <2>2. \A q \in Requests : epc[q] \in {"select", "done"} => gun'[q] = gun[q]
    BY <1>3, <1>4 DEF LoadMailing, AskCache, PrepareMailgun, PutInCache, SelectNobody
  <2> QED BY <2>1, <2>2, CustomerQuiet
<1>5. ASSUME NEW r \in Requests, Options(r) PROVE CustomerInv' /\ OwnMail'
  <2>1. /\ gun[r] \in Requests /\ gun' = gun /\ mail' = mail
        /\ \A q \in Requests : epc[q] = "select" => gun[q] # gun[r]
    BY <1>5 DEF Options, MonitorFree, EventTypeInv, GunInv, HasGun
  <2>2. /\ \A g \in Requests : customer'[g] = IF g = gun[r] THEN CustomerOf[r] ELSE customer[g]
        /\ \A g \in Requests : pass'[g] \in Nat /\ pass[g] \in Nat /\ pass[g] <= pass'[g]
        /\ \A q \in Requests \ {r} : epc'[q] = epc[q]
        /\ epc'[r] = "select" => pass'[gun[r]] = pass[gun[r]] + 1
    BY <1>3, <1>5, <2>1 DEF Options, EventTypeInv, EventTypeOK
  <2>3. /\ Mailed' = Mailed
        /\ \A q \in Mailed : q \in Requests /\ gun[q] \in Requests /\ mail[q].pass \in Nat
    BY <2>1 DEF Mailed, EventTypeInv, EventTypeOK, GunInv, HasGun
  <2>4. OwnMail'
    BY <2>1, <2>3 DEF OwnMail
  <2>5. \A q \in Requests : epc[q] = "select" => gun[q] \in Requests
    BY DEF EventTypeInv, GunInv, HasGun
  <2>6. \A p, q \in Requests :
          epc'[p] = "select" /\ epc'[q] = "select" /\ gun[p] = gun[q] => p = q
    BY <2>1, <2>2 DEF CustomerInv
  <2>7. \A q \in Requests : epc'[q] = "select" => customer'[gun[q]] = CustomerOf[q]
    BY <2>1, <2>2, <2>5 DEF CustomerInv
  <2>8. \A q \in Mailed : mail[q].pass <= pass'[gun[q]]
    BY <2>2, <2>3 DEF CustomerInv
  <2>9. ASSUME NEW q \in Mailed, NEW t \in Requests, epc'[t] = "select", gun[q] = gun[t]
        PROVE  mail[q].pass < pass'[gun[t]]
    <3>1. CASE t = r
      BY <2>1, <2>2, <2>3, <2>9, <3>1 DEF CustomerInv
    <3>2. CASE t # r
      BY <2>2, <2>3, <2>5, <2>9, <3>2 DEF CustomerInv
    <3> QED BY <3>1, <3>2
  <2> QED BY <2>1, <2>3, <2>4, <2>6, <2>7, <2>8, <2>9 DEF CustomerInv
<1>6. ASSUME NEW r \in Requests, SelectCustomer(r) PROVE CustomerInv' /\ OwnMail'
  BY <1>6, EventAssumption
  DEF SelectCustomer, Mailed, NoMail, EventTypeInv, EventTypeOK, GunInv, HasGun, dataVars,
      CustomerInv, OwnMail
<1> QED
  BY <1>1, <1>2, <1>4, <1>5, <1>6 DEF EventNext

\* A mail goes to the customer of its own request, whoever else has the same Mailgun,
\* and no Mailgun uses the same pass for the same customer again.
THEOREM OwnCustomer == EventSpec => []OwnMail
BY EventTypeInit, EventTypeStep, CustomerInit, CustomerStep, PTL DEF EventSpec

----------------------------------------------------------------------------
(* Undo levels                                                             *)

(* The elements of a JavaScript array, whatever properties it has besides. *)
Elements(array) == {i \in DOMAIN array : i >= 0}

(* An array of levels: its n elements have the indices 0 .. n - 1.         *)
Dense(array, n) ==
    /\ \A i \in DOMAIN array : array[i] \in Level
    /\ DOMAIN array \subseteq -MaxIdle .. MaxUndoLevels - 1
    /\ n \in Nat /\ Elements(array) = 0 .. n - 1

(* The current level exists, or lies below all levels once idle is set;    *)
(* while keys are typed it is the newest one; and the document that the    *)
(* last undo took away is in the level above.                              *)
LevelsInv ==
    \E n \in Nat :
        /\ Dense(SavedData, n)
        /\ CurrentIndex <= n - 1
        /\ ~idle => /\ CurrentIndex >= 0
                    /\ Typing => CurrentIndex = n - 1
                    /\ SavedData[CurrentIndex].html = doc \/ (CurrentIndex = n - 1 /\ Changed)
                    /\ undone # Nothing => CurrentIndex < n - 1 /\ SavedData[CurrentIndex + 1].html = undone

UndoInv == UndoTypeOK /\ LevelsInv

\* The length of an array of levels.
LEMMA DenseLength ==
    ASSUME NEW array, NEW n, Dense(array, n)
    PROVE  Length(array) = n /\ \A i \in 0 .. n - 1 : i \in DOMAIN array
<1>1. n \in Nat /\ {i \in DOMAIN array : i >= 0} = 0 .. n - 1
  BY DEF Dense, Elements
<1>2. Cardinality(0 .. n - 1) = n
  <2>1. 0 \in Int /\ n - 1 \in Int
    BY <1>1
  <2>2. Cardinality(0 .. n - 1) = IF 0 > n - 1 THEN 0 ELSE (n - 1) - 0 + 1
    BY <2>1, FS_Interval
  <2> QED BY <1>1, <2>2
<1>3. \A i \in 0 .. n - 1 : i \in DOMAIN array
  BY <1>1
<1> QED BY <1>1, <1>2, <1>3 DEF Length

\* The initial document is the first level.
LEMMA InitUndoInv == UndoInit => UndoInv
<1> SUFFICES ASSUME UndoInit PROVE UndoInv
  OBVIOUS
<1>2. DOMAIN SavedData = {0} /\ SavedData[0] = [html |-> 0, bookmark |-> caret]
  BY DEF UndoInit
<1>a. MaxEdits \in Nat /\ MaxIdle \in Nat /\ MaxUndoLevels \in Nat /\ MaxUndoLevels >= 1 /\ MaxTypes \in Nat
  BY UndoAssumption
<1>b. caret \in Carets
  BY UndoAssumption DEF UndoInit
<1>c. SavedData[0] \in Level
  BY <1>2, <1>a, <1>b DEF Level, Document
<1>d. 0 \in -MaxIdle .. MaxUndoLevels - 1
  BY <1>a
<1>1. UndoTypeOK
  <2>1. doc = 0 /\ edits = 0 /\ CurrentIndex = 0 /\ TypesCount = 0 /\ undone = Nothing
        /\ Changed = FALSE /\ Typing = FALSE /\ idle = FALSE
    BY DEF UndoInit
  <2>2. {doc, edits} \subseteq Document /\ TypesCount \in 0 .. MaxTypes /\ undone \in Document \cup {Nothing}
    BY <1>a, <2>1 DEF Document
  <2>3. {Changed, Typing, idle} \subseteq BOOLEAN
    BY <2>1
  <2> QED BY <1>2, <1>b, <1>c, <1>d, <2>1, <2>2, <2>3 DEF UndoTypeOK
<1>3. Dense(SavedData, 1)
  BY <1>1, <1>2 DEF Dense, Elements, UndoTypeOK
<1>4. LevelsInv
  <2>1. SavedData[0].html = 0 /\ doc = 0 /\ CurrentIndex = 0 /\ undone = Nothing
    BY <1>2 DEF UndoInit
  <2>2. 1 \in Nat /\ 0 <= 1 - 1 /\ 0 = 1 - 1
    OBVIOUS
  <2> QED BY <1>3, <2>1, <2>2 DEF LevelsInv
<1> QED BY <1>1, <1>4 DEF UndoInv

(* What a save leaves: the document in the level at index, the newest one  *)
(* unless CurrentIndex was below the first level.                          *)
Saved(array, index, n) ==
    /\ Dense(array, n)
    /\ index \in -MaxIdle .. MaxUndoLevels - 1
    /\ index <= n - 1
    /\ CurrentIndex >= 0 => index >= 0 /\ n = index + 1 /\ array[index].html = doc

\* SaveUndoStep cuts the array, may drop its oldest level, and adds one.
LEMMA SaveMakes ==
    ASSUME UndoInv
    PROVE  \E n \in Nat : Saved(AfterSave.array, AfterSave.index, n)
<1> USE UndoAssumption
<1>1. PICK k \in Nat : Dense(SavedData, k) /\ CurrentIndex <= k - 1
  BY DEF UndoInv, LevelsInv
<1>2. Length(SavedData) = k /\ \A i \in 0 .. k - 1 : i \in DOMAIN SavedData
  BY <1>1, DenseLength
<1>3. /\ CurrentIndex \in -MaxIdle .. MaxUndoLevels - 1 /\ CurrentIndex \in Int
      /\ MaxIdle \in Nat /\ MaxUndoLevels \in Nat /\ MaxUndoLevels >= 1
  BY DEF UndoInv, UndoTypeOK
<1> DEFINE now == [html |-> doc, bookmark |-> caret]
<1>4. now \in Level /\ now.html = doc
  BY DEF UndoInv, UndoTypeOK, Level
<1> HIDE DEF now
<1> DEFINE m == IF CurrentIndex + 1 >= 0 THEN CurrentIndex + 1 ELSE k + (CurrentIndex + 1)
           shrunk == Shrunk
<1>5. /\ DOMAIN shrunk = DOMAIN SavedData \cap 0 .. m - 1
      /\ \A i \in DOMAIN shrunk : shrunk[i] = SavedData[i]
  BY <1>2 DEF Shrunk, Slice
<1>6. m <= k /\ m \in Int
  BY <1>1, <1>3
<1>7. /\ DOMAIN shrunk = 0 .. m - 1
      /\ \A i \in 0 .. m - 1 : shrunk[i] \in Level
      /\ m - 1 <= MaxUndoLevels - 1
  <2>1. DOMAIN shrunk = 0 .. m - 1
    BY <1>2, <1>5, <1>6
  <2>2. \A i \in 0 .. m - 1 : shrunk[i] \in Level
    BY <1>1, <1>5, <2>1 DEF Dense
  <2>3. m - 1 <= MaxUndoLevels - 1
    <3>1. CASE m <= 0
      BY <1>3, <1>6, <3>1
    <3>2. CASE m > 0
      <4>1. m - 1 \in DOMAIN SavedData
        BY <1>5, <1>6, <2>1, <3>2
      <4> QED BY <1>1, <1>3, <4>1 DEF Dense
    <3> QED BY <1>6, <3>1, <3>2
  <2> QED BY <2>1, <2>2, <2>3
<1> DEFINE same == CurrentIndex > 0 /\ shrunk[CurrentIndex] = now
           first == CurrentIndex = 0 /\ 0 \in DOMAIN shrunk /\ shrunk[0].html = doc
           index == IF Full THEN CurrentIndex ELSE CurrentIndex + 1
           shifted == IF Full THEN [i \in 0 .. Length(shrunk) - 2 |-> shrunk[i + 1]] ELSE shrunk
           added == [i \in DOMAIN shifted \cup {index} |-> IF i = index THEN now ELSE shifted[i]]
<1>8. AfterSave = IF same THEN [array |-> shrunk, index |-> CurrentIndex]
                  ELSE IF first THEN [array |-> [shrunk EXCEPT ![0] = now], index |-> 0]
                  ELSE [array |-> added, index |-> index]
  BY DEF AfterSave, now
<1> HIDE DEF shrunk
<1>9. CurrentIndex >= 0 => m = CurrentIndex + 1
  BY <1>3
<1>10. CASE same
  <2>1. m = CurrentIndex + 1 /\ CurrentIndex > 0 /\ shrunk[CurrentIndex] = now
    BY <1>3, <1>10
  <2> HIDE DEF m
  <2>2. Dense(shrunk, m)
    BY <1>3, <1>6, <1>7, <2>1 DEF Dense, Elements
  <2>3. Saved(shrunk, CurrentIndex, m)
    BY <1>3, <1>4, <1>6, <2>1, <2>2 DEF Saved
  <2>4. AfterSave.array = shrunk /\ AfterSave.index = CurrentIndex
    BY <1>8, <1>10
  <2> QED BY <1>3, <2>1, <2>3, <2>4
<1>11. CASE ~same /\ first
  <2> DEFINE new == [shrunk EXCEPT ![0] = now]
  <2>1. m = 1 /\ CurrentIndex = 0
    BY <1>11
  <2> HIDE DEF m
  <2>2. DOMAIN new = {0} /\ new[0] = now
    BY <1>7, <2>1
  <2>3. AfterSave.array = new /\ AfterSave.index = 0
    BY <1>8, <1>11
  <2> HIDE DEF new
  <2>4. Dense(new, 1)
    BY <1>3, <1>4, <2>2 DEF Dense, Elements
  <2>5. Saved(new, 0, 1)
    BY <1>3, <1>4, <2>1, <2>2, <2>4 DEF Saved
  <2> QED BY <2>3, <2>5
<1>12. CASE ~same /\ ~first
  <2>1. AfterSave.array = added /\ AfterSave.index = index
    BY <1>8, <1>12
  <2>2. index \in -MaxIdle .. MaxUndoLevels - 1 /\ index \in Int
    BY <1>3 DEF Full
  <2>3. ASSUME NEW j \in Int, DOMAIN shifted = 0 .. j - 1, j <= MaxUndoLevels, index <= j,
               index >= 0 => index = j,
               \A i \in 0 .. j - 1 : shifted[i] \in Level
        PROVE  \E n \in Nat : Dense(added, n) /\ index <= n - 1 /\ (index >= 0 => n = index + 1 /\ added[index] = now)
    <3> HIDE DEF shifted, index
    <3>1. DOMAIN added = 0 .. j - 1 \cup {index}
      BY <2>3
    <3>2. \A i \in DOMAIN added : added[i] = IF i = index THEN now ELSE shifted[i]
      OBVIOUS
    <3> HIDE DEF added
    <3>3. \A i \in DOMAIN added : added[i] \in Level
      BY <1>4, <2>3, <3>1, <3>2
    <3>4. DOMAIN added \subseteq -MaxIdle .. MaxUndoLevels - 1
      BY <1>3, <2>2, <2>3, <3>1
    <3>5. CASE index >= 0
      <4>1. Elements(added) = 0 .. (index + 1) - 1
        BY <2>2, <2>3, <3>1, <3>5 DEF Elements
      <4>2. index + 1 \in Nat /\ added[index] = now
        BY <2>2, <3>1, <3>2, <3>5
      <4>3. Dense(added, index + 1)
        BY <3>3, <3>4, <4>1, <4>2 DEF Dense
      <4> QED BY <2>2, <4>2, <4>3
    <3>6. CASE index < 0 /\ j >= 0
      <4>1. Elements(added) = 0 .. j - 1
        BY <2>2, <2>3, <3>1, <3>6 DEF Elements
      <4>2. Dense(added, j)
        BY <3>3, <3>4, <3>6, <4>1 DEF Dense
      <4> QED BY <2>2, <3>6, <4>2
    <3>7. CASE index < 0 /\ j < 0
      <4>1. Elements(added) = 0 .. 0 - 1
        BY <2>2, <2>3, <3>1, <3>7 DEF Elements
      <4>2. Dense(added, 0)
        BY <3>3, <3>4, <4>1 DEF Dense
      <4> QED BY <2>2, <3>7, <4>2
    <3> QED BY <2>2, <2>3, <3>5, <3>6, <3>7
  <2>4. \E j \in Int : /\ DOMAIN shifted = 0 .. j - 1 /\ j <= MaxUndoLevels /\ index <= j
                       /\ index >= 0 => index = j
                       /\ \A i \in 0 .. j - 1 : shifted[i] \in Level
    <3>1. CASE Full
      <4>1. CurrentIndex = MaxUndoLevels - 1 /\ CurrentIndex >= 0 /\ m = CurrentIndex + 1 /\ index = CurrentIndex
        BY <1>3, <1>9, <3>1 DEF Full
      <4> HIDE DEF m
      <4>2. Dense(shrunk, m)
        BY <1>3, <1>6, <1>7, <4>1 DEF Dense, Elements
      <4>3. Length(shrunk) = m
        BY <4>2, DenseLength
      <4>4. shifted = [i \in 0 .. CurrentIndex - 1 |-> shrunk[i + 1]]
        <5>1. m - 2 = CurrentIndex - 1
          BY <1>3, <4>1
        <5> QED BY <3>1, <4>3, <5>1
      <4>5. \A i \in 0 .. CurrentIndex - 1 : shifted[i] \in Level
        <5>1. \A i \in 0 .. CurrentIndex - 1 : i + 1 \in 0 .. m - 1
          BY <1>3, <4>1
        <5>2. \A i \in 0 .. CurrentIndex - 1 : shifted[i] = shrunk[i + 1]
          BY <4>4
        <5> HIDE DEF shifted
        <5> QED BY <1>7, <5>1, <5>2
      <4>6. DOMAIN shifted = 0 .. CurrentIndex - 1
        BY <4>4
      <4> QED BY <1>3, <4>1, <4>5, <4>6
    <3>2. CASE ~Full
      <4>1. shifted = shrunk /\ index = CurrentIndex + 1
        BY <3>2
      <4>2. CASE CurrentIndex + 1 >= 0
        <5>1. m = index
          BY <4>1, <4>2
        <5> HIDE DEF m
        <5> QED BY <1>6, <1>7, <4>1, <5>1, <1>3
      <4>3. CASE ~(CurrentIndex + 1 >= 0)
        <5>1. index < 0 /\ index <= m
          BY <1>3, <4>1, <4>3
        <5> HIDE DEF m
        <5> QED BY <1>3, <1>6, <1>7, <4>1, <5>1
      <4> QED BY <4>2, <4>3
    <3> QED BY <3>1, <3>2
  <2>5. \E n \in Nat : Dense(added, n) /\ index <= n - 1 /\ (index >= 0 => n = index + 1 /\ added[index] = now)
    <3> HIDE DEF added, shifted, index
    <3> QED BY <2>3, <2>4
  <2>6. CurrentIndex >= 0 => index >= 0
    BY <1>3
  <2> HIDE DEF added, index
  <2> QED BY <1>4, <2>1, <2>2, <2>5, <2>6 DEF Saved
<1> QED BY <1>10, <1>11, <1>12

\* A save, and whatever changes the document after it.
LEMMA SaveStep ==
    ASSUME UndoInv, SaveUndoStep, Changed' \in BOOLEAN, ~idle => Changed', undone' = Nothing, idle' = idle,
           Typing' \in BOOLEAN,
           TypesCount' \in 0 .. MaxTypes, caret' = caret, {doc', edits'} \subseteq Document
    PROVE  UndoInv'
<1>1. PICK n \in Nat : Saved(AfterSave.array, AfterSave.index, n)
  BY SaveMakes
<1>2. Saved(SavedData', CurrentIndex', n)
  BY <1>1 DEF SaveUndoStep
<1>3. /\ \A i \in DOMAIN SavedData' : SavedData'[i] \in Level
      /\ DOMAIN SavedData' \subseteq -MaxIdle .. MaxUndoLevels - 1
      /\ CurrentIndex' \in -MaxIdle .. MaxUndoLevels - 1
  BY <1>2 DEF Saved, Dense
<1>4. UndoTypeOK'
  BY <1>3 DEF UndoInv, UndoTypeOK, Document, Level
<1>5. Dense(SavedData', n) /\ CurrentIndex' <= n - 1
  BY <1>2 DEF Saved
<1>6. ~idle => CurrentIndex' >= 0 /\ CurrentIndex' = n - 1
  <2>1. ~idle => CurrentIndex >= 0
    BY DEF UndoInv, LevelsInv
  <2>2. CurrentIndex' \in Int
    BY <1>3, UndoAssumption
  <2>3. CurrentIndex >= 0 => CurrentIndex' >= 0 /\ n = CurrentIndex' + 1
    <3> DEFINE array == SavedData'
               index == CurrentIndex'
    <3>1. Saved(array, index, n)
      BY <1>2
    <3> HIDE DEF array, index
    <3>2. CurrentIndex >= 0 => index >= 0 /\ n = index + 1
      BY <3>1 DEF Saved
    <3> QED BY <3>2 DEF array, index
  <2>4. ASSUME CurrentIndex >= 0 PROVE CurrentIndex' >= 0 /\ CurrentIndex' = n - 1
    <3>1. CurrentIndex' >= 0 /\ n = CurrentIndex' + 1
      BY <2>3, <2>4
    <3> DEFINE index == CurrentIndex'
    <3>2. index \in Int /\ n = index + 1
      BY <2>2, <3>1
    <3> HIDE DEF index
    <3>3. index = n - 1
      BY <3>2
    <3> QED BY <3>1, <3>3 DEF index
  <2> QED BY <2>1, <2>4
<1>7. LevelsInv'
  BY <1>5, <1>6 DEF LevelsInv, Dense, Elements, Level
<1> QED BY <1>4, <1>7 DEF UndoInv

\* Going to a level, or to none.
LEMMA ApplyTypes ==
    ASSUME UndoTypeOK, NEW array, NEW level, NEW changed \in BOOLEAN, ApplyUndoLevel(array, level, changed),
           \A i \in DOMAIN array : array[i].html \in Document /\ array[i].bookmark \in Carets
    PROVE  /\ doc' \in Document /\ caret' \in Carets /\ TypesCount' \in 0 .. MaxTypes
           /\ Changed' \in BOOLEAN /\ Typing' \in BOOLEAN
<1>1. 0 \in 0 .. MaxTypes
  BY UndoAssumption
<1>2. CASE level \in DOMAIN array
  BY <1>1, <1>2 DEF ApplyUndoLevel
<1>3. CASE level \notin DOMAIN array
  BY <1>3 DEF ApplyUndoLevel, UndoTypeOK
<1> QED BY <1>2, <1>3

\* Every step keeps the levels in order.
LEMMA UndoInvStep == UndoInv /\ [UndoNext]_undoVars => UndoInv'
<1> SUFFICES ASSUME UndoInv, [UndoNext]_undoVars PROVE UndoInv'
  OBVIOUS
<1>a. /\ UndoTypeOK /\ MaxEdits \in Nat /\ MaxIdle \in Nat /\ MaxUndoLevels \in Nat /\ MaxTypes \in Nat
      /\ edits \in Nat /\ MaxTypes >= 1
  BY UndoAssumption DEF UndoInv, UndoTypeOK, Document
<1>b. PICK n \in Nat :
        /\ Dense(SavedData, n)
        /\ CurrentIndex <= n - 1
        /\ ~idle => /\ CurrentIndex >= 0
                    /\ Typing => CurrentIndex = n - 1
                    /\ SavedData[CurrentIndex].html = doc \/ (CurrentIndex = n - 1 /\ Changed)
                    /\ undone # Nothing => CurrentIndex < n - 1 /\ SavedData[CurrentIndex + 1].html = undone
  BY DEF UndoInv, LevelsInv
<1>c. /\ Length(SavedData) = n /\ (\A i \in 0 .. n - 1 : i \in DOMAIN SavedData)
      /\ \A i \in DOMAIN SavedData : SavedData[i] \in Level
      /\ CurrentIndex \in Int /\ CurrentIndex \in -MaxIdle .. MaxUndoLevels - 1
  <2>1. CurrentIndex \in -MaxIdle .. MaxUndoLevels - 1
    BY <1>a DEF UndoTypeOK
  <2>2. CurrentIndex \in Int
    BY <1>a, <2>1
  <2>3. \A i \in DOMAIN SavedData : SavedData[i] \in Level
    BY <1>a DEF UndoTypeOK
  <2> QED BY <1>b, <2>1, <2>2, <2>3, DenseLength
<1>1. CASE MoveCaret
  <2>1. caret' \in Carets /\ UNCHANGED <<doc, edits, SavedData, CurrentIndex, TypesCount, Changed, Typing, idle, undone>>
    BY <1>1 DEF MoveCaret
  <2>2. LevelsInv'
    BY <1>b, <2>1 DEF LevelsInv, Dense, Elements, Level
  <2> QED BY <1>a, <2>1, <2>2 DEF UndoInv, UndoTypeOK, Document, Level
<1>2. ASSUME NEW changes \in BOOLEAN, ExecuteCommand(changes) PROVE UndoInv'
  <2>1. {doc', edits'} \subseteq Document
    BY <1>a, <1>2 DEF ExecuteCommand, Edit, UndoTypeOK, Document
  <2>2. Changed' \in BOOLEAN /\ (~idle => Changed')
    <3>1. ~idle => Length(SavedData) > 0
      BY <1>b, <1>c
    <3> QED BY <1>a, <1>2, <3>1 DEF ExecuteCommand, ChangedBySave, UndoTypeOK
  <2>3. SaveUndoStep /\ undone' = Nothing /\ UNCHANGED <<caret, TypesCount, Typing, idle>>
    BY <1>2 DEF ExecuteCommand
  <2>4. Typing' \in BOOLEAN /\ TypesCount' \in 0 .. MaxTypes
    BY <1>a, <2>3 DEF UndoTypeOK
  <2> QED BY <2>1, <2>2, <2>3, <2>4, SaveStep
<1>3. ASSUME NEW changes \in BOOLEAN, KeyDown(changes) PROVE UndoInv'
  <2>1. /\ {doc', edits'} \subseteq Document /\ TypesCount' \in 0 .. MaxTypes
        /\ Changed' = TRUE /\ Typing' = TRUE /\ undone' = Nothing /\ UNCHANGED <<caret, idle>>
    <3>1. TypesCount \in 0 .. MaxTypes
      BY <1>a DEF UndoTypeOK
    <3>2. TypesCount' \in 0 .. MaxTypes
      BY <1>a, <1>3, <3>1 DEF KeyDown
    <3>3. {doc', edits'} \subseteq Document
      BY <1>a, <1>3 DEF KeyDown, Edit, UndoTypeOK, Document
    <3> QED BY <1>3, <3>2, <3>3 DEF KeyDown
  <2>2. CASE SaveUndoStep
    BY <2>1, <2>2, SaveStep
  <2>3. CASE UNCHANGED <<SavedData, CurrentIndex>> /\ Typing
    <3>1. UndoTypeOK'
      BY <1>a, <2>1, <2>3 DEF UndoTypeOK, Document, Level
    <3>2. LevelsInv'
      BY <1>b, <2>1, <2>3 DEF LevelsInv, Dense, Elements, Level
    <3> QED BY <3>1, <3>2 DEF UndoInv
  <2> QED BY <1>3, <2>2, <2>3 DEF KeyDown
<1>4. CASE Undo
  <2>1. \E array, index : \E k \in Nat :
          /\ SavedData' = array /\ CurrentIndex' = index - 1 /\ index > -MaxIdle
          /\ Dense(array, k) /\ index \in -MaxIdle .. MaxUndoLevels - 1 /\ index <= k - 1
          /\ ~idle => index >= 0 /\ array[index].html = doc
          /\ \E changed \in BOOLEAN : ApplyUndoLevel(array, index - 1, changed)
    <3>1. CASE AtNewest
      <4>1. PICK k \in Nat : Saved(AfterSave.array, AfterSave.index, k)
        BY SaveMakes
      <4>2. ~idle => CurrentIndex >= 0
        BY <1>b
      <4>3. ChangedBySave \in BOOLEAN
        BY <1>a DEF ChangedBySave, UndoTypeOK
      <4> HIDE DEF AfterSave
      <4>4. /\ SavedData' = AfterSave.array /\ CurrentIndex' = AfterSave.index - 1 /\ AfterSave.index > -MaxIdle
            /\ ApplyUndoLevel(AfterSave.array, AfterSave.index - 1, ChangedBySave)
        BY <1>4, <3>1 DEF Undo
      <4> QED BY <4>1, <4>2, <4>3, <4>4 DEF Saved
    <3>2. CASE ~AtNewest
      <4>1. ~idle => CurrentIndex >= 0 /\ SavedData[CurrentIndex].html = doc
        BY <1>b, <1>c, <3>2 DEF AtNewest
      <4>2. Changed \in BOOLEAN
        BY <1>a DEF UndoTypeOK
      <4>3. /\ SavedData' = SavedData /\ CurrentIndex' = CurrentIndex - 1 /\ CurrentIndex > -MaxIdle
            /\ ApplyUndoLevel(SavedData, CurrentIndex - 1, Changed)
        BY <1>4, <3>2 DEF Undo
      <4> QED BY <1>b, <1>c, <4>1, <4>2, <4>3
    <3> QED BY <3>1, <3>2
  <2>a. PICK array, index : \E k \in Nat, changed \in BOOLEAN :
          /\ SavedData' = array /\ CurrentIndex' = index - 1 /\ index > -MaxIdle
          /\ Dense(array, k) /\ index \in -MaxIdle .. MaxUndoLevels - 1 /\ index <= k - 1
          /\ ~idle => index >= 0 /\ array[index].html = doc
          /\ ApplyUndoLevel(array, index - 1, changed)
    BY <2>1
  <2>2. PICK k \in Nat, changed \in BOOLEAN :
          /\ SavedData' = array /\ CurrentIndex' = index - 1 /\ index > -MaxIdle
          /\ Dense(array, k) /\ index \in -MaxIdle .. MaxUndoLevels - 1 /\ index <= k - 1
          /\ ~idle => index >= 0 /\ array[index].html = doc
          /\ ApplyUndoLevel(array, index - 1, changed)
    BY <2>a
  <2>3. idle' = (idle \/ index - 1 < 0) /\ undone' = doc /\ edits' = edits
    <3>1. idle' = (idle \/ CurrentIndex' < 0)
      BY <1>4 DEF Undo
    <3> QED BY <1>4, <2>2, <3>1 DEF Undo
  <2>4. /\ \A i \in DOMAIN array : array[i] \in Level /\ array[i].html \in Document /\ array[i].bookmark \in Carets
        /\ \A i \in 0 .. k - 1 : i \in DOMAIN array
    BY <2>2, DenseLength DEF Dense, Level
  <2>5. CurrentIndex' \in -MaxIdle .. MaxUndoLevels - 1 /\ CurrentIndex' \in Int /\ index \in Int
    BY <1>a, <2>2
  <2>6. UndoTypeOK'
    <3>1. doc' \in Document /\ caret' \in Carets /\ TypesCount' \in 0 .. MaxTypes /\ Changed' \in BOOLEAN /\ Typing' \in BOOLEAN
      BY <1>a, <2>2, <2>4, ApplyTypes
    <3>2. idle' \in BOOLEAN /\ undone' \in Document /\ edits' \in Document
      BY <1>a, <2>3 DEF UndoTypeOK
    <3>3. DOMAIN SavedData' \subseteq -MaxIdle .. MaxUndoLevels - 1 /\ \A i \in DOMAIN SavedData' : SavedData'[i] \in Level
      BY <2>2 DEF Dense
    <3> QED BY <2>5, <3>1, <3>2, <3>3 DEF UndoTypeOK, Document, Level
  <2>7. ~idle' => /\ CurrentIndex' >= 0 /\ Typing' = FALSE
                  /\ SavedData'[CurrentIndex'].html = doc'
                  /\ CurrentIndex' < k - 1 /\ SavedData'[CurrentIndex' + 1].html = undone'
    <3> SUFFICES ASSUME ~idle' PROVE /\ CurrentIndex' >= 0 /\ Typing' = FALSE
                                     /\ SavedData'[CurrentIndex'].html = doc'
                                     /\ CurrentIndex' < k - 1 /\ SavedData'[CurrentIndex' + 1].html = undone'
      OBVIOUS
    <3>1. ~idle /\ ~(index - 1 < 0)
      BY <2>3
    <3>2. index - 1 \in 0 .. k - 1 /\ index - 1 < k - 1 /\ (index - 1) + 1 = index
      BY <2>2, <2>5, <3>1
    <3>3. doc' = array[index - 1].html /\ Typing' = FALSE
      BY <2>2, <2>4, <3>2 DEF ApplyUndoLevel
    <3> QED BY <2>2, <2>3, <3>1, <3>2, <3>3
  <2>8. Dense(SavedData', k) /\ CurrentIndex' <= k - 1
    BY <2>2, <2>5
  <2>9. LevelsInv'
    BY <2>7, <2>8 DEF LevelsInv, Dense, Elements, Level
  <2> QED BY <2>6, <2>9 DEF UndoInv
<1>5. CASE Redo
  <2>1. /\ CurrentIndex < n - 1 /\ CurrentIndex' = CurrentIndex + 1 /\ undone' = Nothing
        /\ UNCHANGED <<edits, SavedData, idle>>
        /\ ApplyUndoLevel(SavedData, CurrentIndex + 1, Changed)
    BY <1>c, <1>5 DEF Redo, CheckRedoState
  <2>2. \A i \in DOMAIN SavedData : SavedData[i].html \in Document /\ SavedData[i].bookmark \in Carets
    BY <1>c DEF Level
  <2>3. CurrentIndex' \in -MaxIdle .. MaxUndoLevels - 1 /\ CurrentIndex' <= n - 1
    <3>1. CASE n = 0
      BY <1>a, <1>c, <2>1, <3>1
    <3>2. CASE n # 0
      <4>1. n - 1 \in DOMAIN SavedData
        BY <1>c, <3>2
      <4> QED BY <1>a, <1>c, <2>1, <4>1 DEF UndoTypeOK
    <3> QED BY <3>1, <3>2
  <2>4. UndoTypeOK'
    <3>1. doc' \in Document /\ caret' \in Carets /\ TypesCount' \in 0 .. MaxTypes /\ Changed' \in BOOLEAN /\ Typing' \in BOOLEAN
      <4>1. Changed \in BOOLEAN
        BY <1>a DEF UndoTypeOK
      <4> QED BY <1>a, <2>1, <2>2, <4>1, ApplyTypes
    <3>2. idle' \in BOOLEAN /\ undone' = Nothing /\ edits' \in Document
      BY <1>a, <2>1 DEF UndoTypeOK
    <3>3. DOMAIN SavedData' \subseteq -MaxIdle .. MaxUndoLevels - 1 /\ \A i \in DOMAIN SavedData' : SavedData'[i] \in Level
      BY <1>a, <2>1 DEF UndoTypeOK
    <3> QED BY <2>3, <3>1, <3>2, <3>3 DEF UndoTypeOK, Document, Level
  <2>5. ~idle' => /\ CurrentIndex' >= 0 /\ Typing' = FALSE
                  /\ SavedData'[CurrentIndex'].html = doc'
    <3> SUFFICES ASSUME ~idle PROVE CurrentIndex' >= 0 /\ Typing' = FALSE /\ SavedData[CurrentIndex'].html = doc'
      BY <2>1
    <3>1. CurrentIndex + 1 \in 0 .. n - 1
      BY <1>b, <1>c, <2>1
    <3> QED BY <1>c, <2>1, <3>1 DEF ApplyUndoLevel
  <2>6. Dense(SavedData', n)
    BY <1>b, <2>1
  <2>7. LevelsInv'
    BY <2>1, <2>3, <2>5, <2>6 DEF LevelsInv, Dense, Elements, Level
  <2> QED BY <2>4, <2>7 DEF UndoInv
<1>6. CASE UNCHANGED undoVars
  <2>1. UNCHANGED <<doc, caret, edits, SavedData, CurrentIndex, TypesCount, Changed, Typing, idle, undone>>
    BY <1>6 DEF undoVars
  <2>2. LevelsInv'
    BY <1>b, <2>1 DEF LevelsInv, Dense, Elements, Level
  <2> QED BY <1>a, <2>1, <2>2 DEF UndoInv, UndoTypeOK, Document, Level
<1> QED BY <1>1, <1>2, <1>3, <1>4, <1>5, <1>6 DEF UndoNext

\* The levels are typed, and fill the array from its start.
THEOREM UndoTypeCorrect == UndoSpec => []UndoTypeOK
<1>1. UndoInv => UndoTypeOK
  BY DEF UndoInv
<1> QED BY <1>1, InitUndoInv, UndoInvStep, PTL DEF UndoSpec

\* What is in no level is the document on top of all of them, whatever commands,
\* keys, undos and redos came before and whatever levels were dropped.
THEOREM UnsavedOnTop == UndoSpec => []UnsavedOnTopOnly
<1>1. UndoInv => UnsavedOnTopOnly
  <2> SUFFICES ASSUME UndoInv, ~idle PROVE UnsavedOnTopOnly
    BY DEF UnsavedOnTopOnly
  <2>1. PICK n \in Nat :
          /\ Dense(SavedData, n) /\ CurrentIndex <= n - 1 /\ CurrentIndex >= 0
          /\ SavedData[CurrentIndex].html = doc \/ (CurrentIndex = n - 1 /\ Changed)
    BY DEF UndoInv, LevelsInv
  <2>2. Length(SavedData) = n /\ CurrentIndex \in Int
    BY <2>1, DenseLength, UndoAssumption DEF UndoInv, UndoTypeOK
  <2> QED BY <2>1, <2>2 DEF UnsavedOnTopOnly
<1> QED BY <1>1, InitUndoInv, UndoInvStep, PTL DEF UndoSpec

\* A redo right after an undo gives back what the undo took away, saved by it or before.
THEOREM RedoUndoesUndo == UndoSpec => RedoGivesBack
<1>1. UndoInv /\ [UndoNext]_undoVars => [Redo /\ undone # Nothing /\ ~idle => doc' = undone]_undoVars
  <2> SUFFICES ASSUME UndoInv, Redo, undone # Nothing, ~idle PROVE doc' = undone
    OBVIOUS
  <2>1. PICK n \in Nat :
          /\ Dense(SavedData, n) /\ CurrentIndex >= 0
          /\ CurrentIndex < n - 1 /\ SavedData[CurrentIndex + 1].html = undone
    BY DEF UndoInv, LevelsInv
  <2>2. CurrentIndex + 1 \in DOMAIN SavedData
    <3>1. CurrentIndex \in Int
      BY UndoAssumption DEF UndoInv, UndoTypeOK
    <3>2. CurrentIndex + 1 \in 0 .. n - 1
      BY <2>1, <3>1
    <3> QED BY <2>1, <3>2, DenseLength
  <2> QED BY <2>1, <2>2 DEF Redo, ApplyUndoLevel
<1> QED BY <1>1, InitUndoInv, UndoInvStep, PTL DEF UndoSpec, RedoGivesBack

----------------------------------------------------------------------------
(* Spelling dialog: the text and where its words are                       *)

Char == Letters \cup {"_"}

\* P[i] is the text up to the gap behind the word i.
TextPrefixes(P, words) ==
    /\ P \in [0 .. LastWord -> Seq(Char)]
    /\ P[0] = Gap
    /\ \A i \in WordNo : P[i] = P[i - 1] \o words[i] \o Gap

Windows == [text : Seq(Char), indexes : [WordNo -> Nat], value : [WordNo -> Seq(Letters)]]

\* The text is that of the values, and every index says where its value begins.
Fits(w, P) ==
    /\ TextPrefixes(P, w.value)
    /\ w.text = P[LastWord]
    /\ \A i \in WordNo : w.indexes[i] = Len(P[i - 1])

FittingWindow == {w \in Windows : \E P : Fits(w, P)}

\* The words are numbered from 1, and there is a first.
LEMMA WordNumbers ==
    /\ LastWord \in Nat \ {0}
    /\ WordNo = 1 .. LastWord
    /\ OriginalSpellings \in [WordNo -> Seq(Letters)]
    /\ \A i \in WordNo : i - 1 \in 0 .. LastWord /\ i \in 0 .. LastWord
<1> DEFINE W == Seq(Letters) \ {<<>>}
<1>1. OriginalSpellings \in Seq(W) /\ OriginalSpellings # <<>>
  BY SpellAssumption
<1>2. Len(OriginalSpellings) \in Nat \ {0} /\ DOMAIN OriginalSpellings = 1 .. Len(OriginalSpellings)
      /\ OriginalSpellings \in [1 .. Len(OriginalSpellings) -> W]
  <2> HIDE DEF W
  <2> QED BY <1>1, LenProperties, EmptySeq
<1> QED BY <1>2 DEF LastWord, WordNo

\* A word and what is around it is text.
LEMMA WordIsText ==
    /\ Gap \in Seq(Char) /\ Len(Gap) = 1
    /\ \A x \in Seq(Letters) : x \in Seq(Char)
<1>1. "_" \in Char /\ Letters \subseteq Char
  BY DEF Char
<1>2. \A x \in Seq(Letters) : x \in Seq(Char)
  BY <1>1, SeqMonotonic
<1>3. \A c \in Char : <<c>> \in Seq(Char) /\ Len(<<c>>) = 1
  OBVIOUS
<1> QED BY <1>1, <1>2, <1>3 DEF Gap

\* The recursion of TextOf has a solution, and only one.
LEMMA PrefixesExist ==
    ASSUME NEW words \in [WordNo -> Seq(Letters)]
    PROVE  \E P : TextPrefixes(P, words)
<1> DEFINE step == [i \in 1 .. LastWord |-> [t \in Seq(Char) |-> t \o words[i] \o Gap]]
<1>1. \A i \in WordNo : \A t \in Seq(Char) : t \o words[i] \o Gap \in Seq(Char)
  BY WordIsText, WordNumbers, ConcatProperties
<1>2. step \in [1 .. LastWord -> [Seq(Char) -> Seq(Char)]]
  BY <1>1, WordNumbers
<1>3. PICK P : Solves(P, LastWord, Seq(Char), Gap, step)
  <2> HIDE DEF step
  <2>1. LastWord \in Nat /\ Gap \in Seq(Char)
    BY WordNumbers, WordIsText
  <2> QED BY <1>2, <2>1, RecursionHasSolution
<1>4. ASSUME NEW i \in WordNo PROVE P[i] = P[i - 1] \o words[i] \o Gap
  BY <1>3, WordNumbers DEF Solves
<1>5. TextPrefixes(P, words)
  BY <1>3, <1>4 DEF TextPrefixes, Solves
<1> QED BY <1>5

\* The recursion says what each prefix is, so there are no two solutions.
LEMMA PrefixesUnique ==
    ASSUME NEW words, NEW P, NEW Q,
           TextPrefixes(P, words),
           Q = [i \in 0 .. LastWord |-> IF i = 0 THEN Gap ELSE Q[i - 1] \o words[i] \o Gap]
    PROVE  P = Q
<1> DEFINE S == {i \in 0 .. LastWord : P[i] = Q[i]}
<1>1. 0 \in S
  BY WordNumbers DEF TextPrefixes
<1>2. ASSUME NEW i \in 0 + 1 .. LastWord, i - 1 \in S PROVE i \in S
  <2>1. i \in WordNo /\ i \in 0 .. LastWord /\ i # 0
    BY WordNumbers
  <2>2. Q[i] = Q[i - 1] \o words[i] \o Gap
    BY <2>1
  <2> QED BY <1>2, <2>1, <2>2 DEF TextPrefixes
<1>3. \A i \in 0 .. LastWord : i \in S
  <2> HIDE DEF S
  <2> QED BY <1>1, <1>2, UpTo, WordNumbers
<1>4. P \in [0 .. LastWord -> Seq(Char)]
  BY DEF TextPrefixes
<1> QED BY <1>3, <1>4

\* The text of the words is the last of the prefixes.
LEMMA TextIsLastPrefix ==
    ASSUME NEW words \in [WordNo -> Seq(Letters)], NEW P, TextPrefixes(P, words)
    PROVE  TextOf(words) = P[LastWord]
<1> DEFINE Recursive(Q) == Q = [i \in 0 .. LastWord |-> IF i = 0 THEN Gap ELSE Q[i - 1] \o words[i] \o Gap]
<1>1. Recursive(P)
  <2>1. ASSUME NEW i \in 0 .. LastWord PROVE P[i] = IF i = 0 THEN Gap ELSE P[i - 1] \o words[i] \o Gap
    <3>1. CASE i = 0
      BY <3>1 DEF TextPrefixes
    <3>2. CASE i # 0
      <4>1. i \in WordNo
        BY <3>2, WordNumbers
      <4> QED BY <3>2, <4>1 DEF TextPrefixes
    <3> QED BY <3>1, <3>2
  <2> QED BY <2>1 DEF TextPrefixes
<1>2. Recursive(CHOOSE Q : Recursive(Q))
  <2> HIDE DEF Recursive
  <2> QED BY <1>1
<1>3. TextOf(words) = (CHOOSE Q : Recursive(Q))[LastWord]
  BY DEF TextOf
<1>4. (CHOOSE Q : Recursive(Q)) = P
  BY <1>2, PrefixesUnique
<1> QED BY <1>3, <1>4
\* What stands before and behind the middle part of a text.
LEMMA Parts ==
    ASSUME NEW S, NEW a \in Seq(S), NEW b \in Seq(S), NEW x \in Seq(S), NEW t, t = (a \o b) \o x
    PROVE  /\ SubSeq(t, 1, Len(a)) = a
           /\ SubSeq(t, Len(a) + Len(b) + 1, Len(t)) = x
           /\ Len(t) = Len(a) + Len(b) + Len(x)
<1>1. /\ a \o b \in Seq(S) /\ Len(a \o b) = Len(a) + Len(b)
      /\ \A i \in 1 .. Len(a) : (a \o b)[i] = a[i]
  BY ConcatProperties
<1>2. /\ t \in Seq(S) /\ Len(t) = Len(a) + Len(b) + Len(x)
      /\ \A i \in 1 .. Len(a) : t[i] = a[i]
      /\ \A i \in 1 .. Len(x) : t[Len(a) + Len(b) + i] = x[i]
  BY <1>1, ConcatProperties
<1>3. \A i \in 1 .. Len(t) : t[i] \in S
  BY <1>2, ElementOfSeq
<1>4. Len(a) \in Nat /\ Len(b) \in Nat /\ Len(x) \in Nat
  BY LenProperties
<1>5. SubSeq(t, 1, Len(a)) = a
  <2> DEFINE u == SubSeq(t, 1, Len(a))
  <2>1. \A i \in 1 .. Len(a) : t[i] \in S
    BY <1>2, <1>3, <1>4
  <2>2. u \in Seq(S) /\ Len(u) = Len(a) /\ \A i \in 1 .. Len(a) : u[i] = t[i]
    BY <2>1, <1>4, SubSeqProperties
  <2> HIDE DEF u
  <2> QED BY <1>2, <2>2, SeqEqual
<1>6. SubSeq(t, Len(a) + Len(b) + 1, Len(t)) = x
  <2> DEFINE s == a \o b
             m == Len(s) + 1
             n == Len(s) + Len(x)
  <2>1. s \in Seq(S) /\ Len(s) = Len(a) + Len(b) /\ t = s \o x /\ Len(t) = n
        /\ Len(s) \in Nat /\ m \in Nat /\ n \in Nat
    BY <1>1, <1>2, <1>4
  <2> HIDE DEF s
  <2>2. CASE x = <<>>
    <3>1. n < m
      BY <1>4, <2>1, <2>2, EmptySeq
    <3>2. SubSeq(t, m, n) = <<>>
      BY <2>1, <3>1, SubSeqEmpty
    <3> QED BY <2>1, <2>2, <3>2
  <2>3. CASE x # <<>>
    <3>1. Len(x) >= 1
      BY <2>3, EmptySeq
    <3>2. m \in Len(s) + 1 .. Len(s) + Len(x) /\ n \in Len(s) + 1 .. Len(s) + Len(x)
      BY <1>4, <2>1, <3>1
    <3>3. m - Len(s) = 1 /\ n - Len(s) = Len(x)
      BY <1>4, <2>1
    <3>4. SubSeq(s \o x, m, n) = SubSeq(x, 1, Len(x))
      <4> HIDE DEF m, n
      <4>1. SubSeq(s \o x, m, n) = SubSeq(x, m - Len(s), n - Len(s))
        BY <2>1, <3>2, SubSeqOfConcat2
      <4> QED BY <3>3, <4>1
    <3>5. SubSeq(x, 1, Len(x)) = x
      BY SubSeqFull
    <3> QED BY <2>1, <3>4, <3>5
  <2> QED BY <2>2, <2>3
<1> QED BY <1>2, <1>5, <1>6

\* Texts can be put together in any order.
LEMMA TextConcat ==
    /\ \A s, t \in Seq(Char) : s \o t \in Seq(Char) /\ Len(s \o t) = Len(s) + Len(t)
    /\ \A s, t, u \in Seq(Char) : (s \o t) \o u = s \o (t \o u)
<1>1. ASSUME NEW s \in Seq(Char), NEW t \in Seq(Char)
      PROVE  s \o t \in Seq(Char) /\ Len(s \o t) = Len(s) + Len(t)
  BY ConcatProperties
<1>2. ASSUME NEW s \in Seq(Char), NEW t \in Seq(Char), NEW u \in Seq(Char)
      PROVE  (s \o t) \o u = s \o (t \o u)
  BY ConcatAssociative, SMTT(60)
<1> QED BY <1>1, <1>2

\* Q is P with the word i, which was old, replaced by new.
WordReplaced(P, Q, i, old, new) ==
    /\ \A j \in 0 .. i - 1 : Q[j] = P[j]
    /\ \A j \in i .. LastWord : \E x \in Seq(Char) :
          P[j] = (P[i - 1] \o old) \o x /\ Q[j] = (P[i - 1] \o new) \o x

\* Before and behind a word that is replaced both texts are the same.
LEMMA SameBehindWord ==
    ASSUME NEW words \in [WordNo -> Seq(Letters)], NEW i \in WordNo, NEW new \in Seq(Letters),
           NEW P, NEW Q, TextPrefixes(P, words), TextPrefixes(Q, [words EXCEPT ![i] = new])
    PROVE  WordReplaced(P, Q, i, words[i], new)
<1> DEFINE other == [words EXCEPT ![i] = new]
           Same == {j \in 0 .. i - 1 : Q[j] = P[j]}
           Moved == {j \in i .. LastWord : \E x \in Seq(Char) :
                        P[j] = (P[i - 1] \o words[i]) \o x /\ Q[j] = (P[i - 1] \o new) \o x}
<1>0. /\ i \in Nat /\ i - 1 \in Nat /\ i \in 1 .. LastWord /\ LastWord \in Nat
      /\ \A j \in 1 .. i - 1 : j \in WordNo /\ j # i
      /\ \A j \in i + 1 .. LastWord : j \in WordNo /\ j # i /\ j - 1 \in i .. LastWord
  BY WordNumbers
<1>1. \A j \in WordNo : j # i => other[j] = words[j]
  OBVIOUS
<1>2. other[i] = new
  OBVIOUS
<1>3. /\ \A j \in WordNo : P[j] = P[j - 1] \o words[j] \o Gap /\ Q[j] = Q[j - 1] \o other[j] \o Gap
      /\ P[0] = Gap /\ Q[0] = Gap
      /\ \A j \in 0 .. LastWord : P[j] \in Seq(Char) /\ Q[j] \in Seq(Char)
  BY DEF TextPrefixes
<1> HIDE DEF other
<1>4. \A j \in 0 .. i - 1 : j \in Same
  <2>1. 0 \in Same
    BY <1>0, <1>3
  <2>2. ASSUME NEW j \in 0 + 1 .. i - 1, j - 1 \in Same PROVE j \in Same
    <3>1. j \in WordNo /\ other[j] = words[j] /\ j \in 0 .. i - 1
      BY <1>0, <1>1
    <3>2. Q[j - 1] = P[j - 1]
      BY <2>2
    <3>3. Q[j] = P[j]
      BY <1>3, <3>1, <3>2
    <3> QED BY <3>1, <3>3
  <2> HIDE DEF Same
  <2> QED BY <1>0, <2>1, <2>2, UpTo
<1>5. P[i - 1] \in Seq(Char) /\ words[i] \in Seq(Char) /\ new \in Seq(Char) /\ Q[i - 1] = P[i - 1]
  <2>1. i - 1 \in 0 .. i - 1 /\ i - 1 \in 0 .. LastWord
    BY <1>0
  <2> QED BY <2>1, <1>3, <1>4, WordIsText
<1>6. \A j \in i .. LastWord : j \in Moved
  <2>1. i \in Moved
    <3>1. P[i] = (P[i - 1] \o words[i]) \o Gap /\ Q[i] = (P[i - 1] \o new) \o Gap
      BY <1>2, <1>3, <1>5
    <3>2. Gap \in Seq(Char) /\ i \in i .. LastWord
      BY <1>0, WordIsText
    <3> QED BY <3>1, <3>2
  <2>2. ASSUME NEW j \in i + 1 .. LastWord, j - 1 \in Moved PROVE j \in Moved
    <3> DEFINE a == P[i - 1] \o words[i]
               b == P[i - 1] \o new
    <3>1. PICK x \in Seq(Char) : P[j - 1] = a \o x /\ Q[j - 1] = b \o x
      BY <2>2
    <3>2. a \in Seq(Char) /\ b \in Seq(Char)
      BY <1>5, ConcatProperties
    <3>3. words[j] \in Seq(Char) /\ Gap \in Seq(Char)
      BY <1>0, WordIsText
    <3>4. P[j] = ((a \o x) \o words[j]) \o Gap /\ Q[j] = ((b \o x) \o words[j]) \o Gap
      BY <1>0, <1>1, <1>3, <3>1
    <3> DEFINE y == (x \o words[j]) \o Gap
    <3>5. x \o words[j] \in Seq(Char) /\ y \in Seq(Char)
      BY <3>3, ConcatProperties
    <3>6. ASSUME NEW c \in Seq(Char) PROVE ((c \o x) \o words[j]) \o Gap = c \o y
      <4>1. (c \o x) \o words[j] = c \o (x \o words[j])
        BY <3>3, TextConcat
      <4>2. (c \o (x \o words[j])) \o Gap = c \o y
        <5> DEFINE v == x \o words[j]
        <5>1. v \in Seq(Char) /\ Gap \in Seq(Char)
          BY <3>3, <3>5
        <5> HIDE DEF v
        <5>2. (c \o v) \o Gap = c \o (v \o Gap)
          BY <5>1, TextConcat
        <5> QED BY <5>2 DEF v
      <4> QED BY <4>1, <4>2
    <3>7. P[j] = a \o y /\ Q[j] = b \o y
      BY <3>2, <3>4, <3>6
    <3>8. j \in i .. LastWord
      BY <1>0
    <3> HIDE DEF y
    <3> QED BY <3>5, <3>7, <3>8
  <2> HIDE DEF Moved
  <2> QED BY <1>0, <2>1, <2>2, UpTo
<1> QED BY <1>4, <1>6 DEF WordReplaced
\* setText keeps the text and the indexes right, whatever is put in place of a word.
LEMMA SetTextFits ==
    ASSUME NEW w \in FittingWindow, NEW i \in WordNo, NEW new \in Seq(Letters)
    PROVE  /\ SetText(w, i, new) \in FittingWindow
           /\ SetText(w, i, new).value = [w.value EXCEPT ![i] = new]
<1> DEFINE words == w.value
           other == [words EXCEPT ![i] = new]
           v == SetText(w, i, new)
<1>1. /\ w.text \in Seq(Char) /\ w.indexes \in [WordNo -> Nat]
      /\ words \in [WordNo -> Seq(Letters)] /\ other \in [WordNo -> Seq(Letters)]
  BY DEF FittingWindow, Windows
<1>2. PICK P : Fits(w, P)
  BY DEF FittingWindow
<1>3. TextPrefixes(P, words) /\ w.text = P[LastWord] /\ \A j \in WordNo : w.indexes[j] = Len(P[j - 1])
  BY <1>2 DEF Fits
<1>4. PICK Q : TextPrefixes(Q, other)
  <2> HIDE DEF words, other
  <2> QED BY <1>1, PrefixesExist
<1>5. /\ \A j \in 0 .. i - 1 : Q[j] = P[j]
      /\ \A j \in i .. LastWord : \E x \in Seq(Char) :
            P[j] = (P[i - 1] \o words[i]) \o x /\ Q[j] = (P[i - 1] \o new) \o x
  <2> HIDE DEF words
  <2>1. WordReplaced(P, Q, i, words[i], new)
    BY <1>1, <1>3, <1>4, SameBehindWord
  <2> QED BY <2>1 DEF WordReplaced
<1>6. P[i - 1] \in Seq(Char) /\ words[i] \in Seq(Char) /\ new \in Seq(Char) /\ w.indexes[i] = Len(P[i - 1])
  <2>1. P[i - 1] \in Seq(Char)
    BY <1>3, WordNumbers DEF TextPrefixes
  <2> QED BY <2>1, <1>1, <1>3, WordIsText
<1> DEFINE a == P[i - 1]
<1>7. Len(a) \in Nat /\ Len(words[i]) \in Nat /\ Len(new) \in Nat
  <2> HIDE DEF words, a
  <2> QED BY <1>6, LenProperties DEF a
<1>8. /\ v.text = SubSeq(w.text, 1, Len(a)) \o new \o SubSeq(w.text, Len(a) + Len(words[i]) + 1, Len(w.text))
      /\ v.indexes = [j \in WordNo |-> IF j > i THEN w.indexes[j] + (Len(new) - Len(words[i])) ELSE w.indexes[j]]
      /\ v.value = other
      /\ v = [text |-> v.text, indexes |-> v.indexes, value |-> v.value]
  BY <1>6 DEF SetText, AdjustIndexes
<1> HIDE DEF v
<1>9. v.text = Q[LastWord] /\ v.text \in Seq(Char)
  <2>1. LastWord \in i .. LastWord
    BY WordNumbers
  <2>2. PICK x \in Seq(Char) : P[LastWord] = (a \o words[i]) \o x /\ Q[LastWord] = (a \o new) \o x
    BY <1>5, <2>1
  <2>3. SubSeq(w.text, 1, Len(a)) = a /\ SubSeq(w.text, Len(a) + Len(words[i]) + 1, Len(w.text)) = x
    <3> DEFINE b == words[i]
    <3>1. a \in Seq(Char) /\ b \in Seq(Char) /\ w.text = (a \o b) \o x
      BY <1>3, <1>6, <2>2
    <3> HIDE DEF a, b
    <3>2. SubSeq(w.text, 1, Len(a)) = a /\ SubSeq(w.text, Len(a) + Len(b) + 1, Len(w.text)) = x
      BY <3>1, Parts
    <3> QED BY <3>2 DEF b
  <2>4. v.text = Q[LastWord]
    BY <1>8, <2>2, <2>3
  <2>5. LastWord \in 0 .. LastWord
    BY WordNumbers
  <2> QED BY <1>4, <2>4, <2>5 DEF TextPrefixes
<1>10. ASSUME NEW j \in WordNo PROVE v.indexes[j] \in Nat /\ v.indexes[j] = Len(Q[j - 1])
  <2>1. w.indexes[j] = Len(P[j - 1]) /\ w.indexes[j] \in Nat
    BY <1>1, <1>3
  <2>2. CASE j <= i
    <3>1. j - 1 \in 0 .. i - 1 /\ ~(j > i)
      BY <2>2, WordNumbers
    <3> QED BY <1>5, <1>8, <2>1, <3>1
  <2>3. CASE j > i
    <3>1. j - 1 \in i .. LastWord
      BY <2>3, WordNumbers
    <3>2. PICK x \in Seq(Char) : P[j - 1] = (a \o words[i]) \o x /\ Q[j - 1] = (a \o new) \o x
      BY <1>5, <3>1
    <3>3. ASSUME NEW b \in Seq(Char) PROVE Len((a \o b) \o x) = Len(a) + Len(b) + Len(x)
      <4>1. a \o b \in Seq(Char) /\ Len(a \o b) = Len(a) + Len(b)
        BY <1>6, TextConcat
      <4> QED BY <4>1, TextConcat
    <3>4. Len(P[j - 1]) = Len(a) + Len(words[i]) + Len(x) /\ Len(Q[j - 1]) = Len(a) + Len(new) + Len(x)
      BY <1>6, <3>2, <3>3
    <3>5. Len(x) \in Nat
      BY LenProperties
    <3>6. v.indexes[j] = w.indexes[j] + (Len(new) - Len(words[i]))
      BY <1>8, <2>3
    <3>7. v.indexes[j] = Len(Q[j - 1])
      <4>1. PICK p \in Nat, q \in Nat, r \in Nat, s \in Nat :
                p = Len(a) /\ q = Len(words[i]) /\ r = Len(new) /\ s = Len(x)
        BY <1>7, <3>5
      <4>2. v.indexes[j] = (p + q + s) + (r - q) /\ Len(Q[j - 1]) = p + r + s
        BY <2>1, <3>4, <3>6, <4>1
      <4> QED BY <4>2
    <3>8. Len(Q[j - 1]) \in Nat
      BY <1>7, <3>4, <3>5
    <3> QED BY <3>7, <3>8
  <2> QED BY <2>2, <2>3, WordNumbers
<1>11. v.indexes \in [WordNo -> Nat]
  BY <1>8, <1>10
<1>12. v \in Windows
  BY <1>1, <1>8, <1>9, <1>11 DEF Windows
<1>13. Fits(v, Q)
  BY <1>4, <1>8, <1>9, <1>10 DEF Fits
<1> QED BY <1>8, <1>12, <1>13 DEF FittingWindow, v

\* The texts of several words are set, and no other word's.
LEMMA SetTextsFits ==
    ASSUME win \in FittingWindow, NEW S, NEW new \in [WordNo -> Seq(Letters)]
    PROVE  /\ SetTexts(S, new) \in FittingWindow
           /\ SetTexts(S, new).value = [j \in WordNo |-> IF j \in S THEN new[j] ELSE win.value[j]]
<1> DEFINE Recursive(f) == f = [i \in 0 .. LastWord |->
                IF i = 0 THEN win ELSE IF i \in S THEN SetText(f[i - 1], i, new[i]) ELSE f[i - 1]]
           step == [i \in 1 .. LastWord |-> [w \in FittingWindow |-> IF i \in S THEN SetText(w, i, new[i]) ELSE w]]
           After(i) == [j \in WordNo |-> IF j \in S /\ j <= i THEN new[j] ELSE win.value[j]]
<1>1. step \in [1 .. LastWord -> [FittingWindow -> FittingWindow]]
  BY SetTextFits, WordNumbers
<1>2. \E f : Recursive(f)
  <2>1. PICK f : Solves(f, LastWord, FittingWindow, win, step)
    <3> HIDE DEF step
    <3> QED BY <1>1, RecursionHasSolution, WordNumbers
  <2>2. ASSUME NEW i \in 0 .. LastWord
        PROVE  f[i] = (IF i = 0 THEN win ELSE IF i \in S THEN SetText(f[i - 1], i, new[i]) ELSE f[i - 1])
    <3>1. CASE i = 0
      BY <2>1, <3>1 DEF Solves
    <3>2. CASE i # 0
      <4>1. i \in 1 .. LastWord /\ i - 1 \in 0 .. LastWord
        BY <3>2, WordNumbers
      <4>2. f[i] = step[i][f[i - 1]] /\ f[i - 1] \in FittingWindow
        <5> HIDE DEF step
        <5> QED BY <2>1, <4>1 DEF Solves
      <4> QED BY <3>2, <4>1, <4>2
    <3> QED BY <3>1, <3>2
  <2>3. Recursive(f)
    <3>1. f \in [0 .. LastWord -> FittingWindow]
      BY <2>1 DEF Solves
    <3> HIDE DEF step
    <3> QED BY <2>2, <3>1
  <2> HIDE DEF Recursive
  <2> QED BY <2>3
<1> DEFINE g == CHOOSE f : Recursive(f)
<1>3. Recursive(g)
  <2> HIDE DEF Recursive
  <2> QED BY <1>2
<1>4. SetTexts(S, new) = g[LastWord]
  BY DEF SetTexts
<1> HIDE DEF g
<1>5. g[0] = win
  BY <1>3, WordNumbers
<1>6. ASSUME NEW i \in WordNo
      PROVE  g[i] = IF i \in S THEN SetText(g[i - 1], i, new[i]) ELSE g[i - 1]
  BY <1>3, WordNumbers
<1>7. win.value \in [WordNo -> Seq(Letters)]
  BY DEF FittingWindow, Windows
<1> DEFINE R == {i \in 0 .. LastWord : g[i] \in FittingWindow /\ g[i].value = After(i)}
<1>8. 0 \in R
  <2>1. win.value = After(0)
    BY <1>7, WordNumbers
  <2> HIDE DEF After
  <2> QED BY <1>5, <2>1, WordNumbers
<1>9. ASSUME NEW i \in 0 + 1 .. LastWord, i - 1 \in R PROVE i \in R
  <2>1. i \in WordNo /\ i \in 0 .. LastWord /\ new[i] \in Seq(Letters)
    BY WordNumbers
  <2>2. g[i - 1] \in FittingWindow /\ g[i - 1].value = After(i - 1)
    BY <1>9
  <2>3. CASE i \in S
    <3>1. g[i] = SetText(g[i - 1], i, new[i])
      BY <1>6, <2>1, <2>3
    <3>2. g[i] \in FittingWindow /\ g[i].value = [After(i - 1) EXCEPT ![i] = new[i]]
      <4> HIDE DEF After
      <4> QED BY <2>1, <2>2, <3>1, SetTextFits
    <3>3. [After(i - 1) EXCEPT ![i] = new[i]] = After(i)
      <4> DEFINE before == After(i - 1)
      <4>1. ASSUME NEW j \in WordNo PROVE [before EXCEPT ![i] = new[i]][j] = After(i)[j]
        <5>1. j # i => ((j <= i - 1) = (j <= i))
          BY <2>1, WordNumbers
        <5> QED BY <2>1, <2>3, <5>1
      <4>2. [before EXCEPT ![i] = new[i]] = [j \in WordNo |-> [before EXCEPT ![i] = new[i]][j]]
        OBVIOUS
      <4> QED BY <4>1, <4>2
    <3> HIDE DEF After
    <3> QED BY <2>1, <3>2, <3>3
  <2>4. CASE i \notin S
    <3>1. After(i - 1) = After(i)
      BY <2>1, <2>4, WordNumbers
    <3> HIDE DEF After
    <3> QED BY <1>6, <2>1, <2>2, <2>4, <3>1
  <2> QED BY <2>3, <2>4
<1>10. LastWord \in R
  <2> HIDE DEF R
  <2>1. \A i \in 0 .. LastWord : i \in R
    BY <1>8, <1>9, UpTo, WordNumbers
  <2> QED BY <2>1, WordNumbers
<1>11. After(LastWord) = [j \in WordNo |-> IF j \in S THEN new[j] ELSE win.value[j]]
  BY WordNumbers
<1> HIDE DEF After
<1> QED BY <1>4, <1>10, <1>11
----------------------------------------------------------------------------
(* Spelling dialog: the flags                                              *)

Leaders == {"replaceAll", "ignoreAll"}
FollowerOf(leader) == IF leader = "replaceAll" THEN "fromReplaceAll" ELSE "fromIgnoreAll"

\* The flags of a word that has its original spelling.
Kept == {"none", "ignored", "ignoreAll", "fromIgnoreAll"}

Alike(i, j) == OriginalSpellings[i] = OriginalSpellings[j]

KeptIsOriginal == \A i \in WordNo : wordFlags[i] \in Kept => win.value[i] = OriginalSpellings[i]

Leads(j, i) ==
    /\ wordFlags[j] \in Leaders
    /\ wordFlags[i] = FollowerOf(wordFlags[j])
    /\ Alike(i, j)
    /\ win.value[j] = win.value[i]

FollowersLed == \A i \in WordNo : wordFlags[i] \in Followers => \E j \in 1 .. i - 1 : Leads(j, i)

\* An answer for all goes to every later word that was spelled like it.
LeadersFollowed ==
    \A i \in WordNo : wordFlags[i] \in Leaders =>
        \A j \in WordNo : j > i /\ Alike(i, j) => wordFlags[j] = FollowerOf(wordFlags[i])

\* What is answered is before the current word, and nothing else but the
\* words that follow one of the answers.
AnsweredBefore ==
    /\ \A i \in WordNo : i < currentWord => wordFlags[i] # "none"
    /\ \A i \in WordNo : i > currentWord => wordFlags[i] \in {"none"} \cup Followers
    /\ currentWord \in WordNo => wordFlags[currentWord] = "none"

SpellTypes ==
    /\ win \in FittingWindow
    /\ wordFlags \in [WordNo -> WordFlag]
    /\ currentWord \in 1 .. LastWord + 1
    /\ undoEnabled \in BOOLEAN

SpellIInv == SpellTypes /\ KeptIsOriginal /\ FollowersLed /\ LeadersFollowed /\ AnsweredBefore

\* _spellcheck stops at the next word without a flag.
LEMMA SpellcheckStops ==
    ASSUME NEW from \in 1 .. LastWord + 1, NEW enabled \in BOOLEAN, Spellcheck(from, enabled)
    PROVE  /\ currentWord' \in 1 .. LastWord + 1
           /\ from <= currentWord'
           /\ undoEnabled' \in BOOLEAN
           /\ \A i \in WordNo : from <= i /\ i < currentWord' => wordFlags'[i] # "none"
           /\ currentWord' \in WordNo => wordFlags'[currentWord'] = "none"
<1> DEFINE todo == {i \in WordNo : i >= from /\ wordFlags'[i] = "none"}
           first == CHOOSE i \in todo : \A j \in todo : i <= j
<1>1. todo \in SUBSET Nat
  BY WordNumbers
<1>2. CASE todo = {}
  <2>1. currentWord' = LastWord + 1 /\ undoEnabled' \in BOOLEAN
    BY <1>2 DEF Spellcheck
  <2>2. LastWord + 1 \notin WordNo /\ LastWord + 1 \in 1 .. LastWord + 1 /\ from <= LastWord + 1
    BY WordNumbers
  <2> QED BY <1>2, <2>1, <2>2
<1>3. CASE todo # {}
  <2>1. first \in todo /\ \A j \in todo : first <= j
    <3> HIDE DEF todo
    <3> QED BY <1>1, <1>3, LeastNumber
  <2>2. currentWord' = first /\ undoEnabled' \in BOOLEAN
    BY <1>3 DEF Spellcheck
  <2> HIDE DEF first
  <2>3. currentWord' \in WordNo /\ currentWord' >= from /\ wordFlags'[currentWord'] = "none"
    BY <2>1, <2>2
  <2>4. ASSUME NEW i \in WordNo, from <= i, i < currentWord' PROVE wordFlags'[i] # "none"
    <3>1. i \notin todo
      BY <2>1, <2>2, <2>4, WordNumbers
    <3> QED BY <2>4, <3>1, WordNumbers
  <2> QED BY <2>2, <2>3, <2>4, WordNumbers
<1> QED BY <1>2, <1>3
\* Words behind the current one that were spelled like it have no flag yet.
LEMMA LaterIsAlike ==
    ASSUME SpellIInv, currentWord \in WordNo
    PROVE  /\ wordFlags[currentWord] = "none"
           /\ win.value[currentWord] = OriginalSpellings[currentWord]
           /\ Later(currentWord) = {j \in WordNo : j > currentWord /\ Alike(currentWord, j)}
           /\ \A j \in Later(currentWord) : wordFlags[j] = "none" /\ win.value[j] = OriginalSpellings[j]
<1> DEFINE c == currentWord
<1>1. wordFlags[c] = "none" /\ win.value[c] = OriginalSpellings[c]
  BY DEF SpellIInv, AnsweredBefore, KeptIsOriginal, Kept
<1>2. ASSUME NEW j \in Later(c)
      PROVE  wordFlags[j] = "none" /\ win.value[j] = OriginalSpellings[j] /\ j \in WordNo /\ j > c /\ Alike(c, j)
  BY <1>1, <1>2 DEF SpellIInv, KeptIsOriginal, Kept, Later, Alike
<1>3. ASSUME NEW j \in WordNo, j > c, Alike(c, j) PROVE j \in Later(c)
  <2>1. wordFlags[j] = "none"
    <3> SUFFICES ASSUME wordFlags[j] \in Followers PROVE FALSE
      BY <1>3 DEF SpellIInv, AnsweredBefore
    <3>1. PICK k \in 1 .. j - 1 : Leads(k, j)
      BY DEF SpellIInv, FollowersLed
    <3>2. k \in WordNo /\ wordFlags[k] \in Leaders /\ Alike(j, k)
      BY <3>1, WordNumbers DEF Leads
    <3>3. k < c
      <4>1. wordFlags[k] \notin {"none"} \cup Followers
        BY <3>2 DEF Leaders, Followers
      <4>2. ~(k > c) /\ k # c
        BY <1>1, <3>2, <4>1 DEF SpellIInv, AnsweredBefore
      <4> QED BY <3>2, <4>2, WordNumbers
    <3>4. wordFlags[c] = FollowerOf(wordFlags[k])
      BY <1>3, <3>2, <3>3 DEF SpellIInv, LeadersFollowed, Alike
    <3> QED BY <1>1, <3>4 DEF FollowerOf
  <2>2. win.value[j] = OriginalSpellings[j]
    BY <2>1 DEF SpellIInv, KeptIsOriginal, Kept
  <2> QED BY <1>1, <1>3, <2>1, <2>2 DEF Later, Alike
<1> QED BY <1>1, <1>2, <1>3

\* An answer to the current word: it gets a flag, and with an answer for all so do
\* the later words that were spelled like it; only those may get a new value.
Answered(others, flag, otherFlag) ==
    /\ currentWord \in WordNo
    /\ \/ flag \in {"ignored", "replaced"} /\ others = {}
       \/ flag \in Leaders /\ others = Later(currentWord) /\ otherFlag = FollowerOf(flag)
    /\ wordFlags' = [j \in WordNo |-> IF j = currentWord THEN flag
                                      ELSE IF j \in others THEN otherFlag ELSE wordFlags[j]]
    /\ \A j \in WordNo : j \notin {currentWord} \cup others => win'.value[j] = win.value[j]
    /\ \A j \in others : win'.value[j] = win'.value[currentWord]
    /\ flag \in Kept => win'.value = win.value
    /\ Spellcheck(currentWord + 1, undoEnabled)

\* Such an answer keeps the invariant of the flags.
LEMMA AnsweredKeepsFlags ==
    ASSUME SpellIInv, NEW others, NEW flag, NEW otherFlag, Answered(others, flag, otherFlag), win' \in FittingWindow
    PROVE  SpellIInv'
<1> DEFINE c == currentWord
<1>1. /\ c \in WordNo /\ c \in Nat /\ c + 1 \in 1 .. LastWord + 1
      /\ undoEnabled \in BOOLEAN /\ wordFlags \in [WordNo -> WordFlag]
      /\ \A i \in WordNo : i \in Nat
  BY WordNumbers DEF Answered, SpellIInv, SpellTypes
<1>2. /\ wordFlags[c] = "none" /\ win.value[c] = OriginalSpellings[c]
      /\ Later(c) = {j \in WordNo : j > c /\ Alike(c, j)}
      /\ \A j \in Later(c) : wordFlags[j] = "none" /\ win.value[j] = OriginalSpellings[j]
  BY <1>1, LaterIsAlike
<1>3. /\ others \subseteq WordNo
      /\ \A j \in others : j > c /\ Alike(c, j) /\ wordFlags[j] = "none" /\ win.value[j] = OriginalSpellings[j]
      /\ \A j \in others : otherFlag = FollowerOf(flag) /\ flag \in Leaders
  BY <1>2 DEF Answered
<1>4. /\ wordFlags'[c] = flag /\ flag \in {"ignored", "replaced", "replaceAll", "ignoreAll"}
      /\ \A j \in others : wordFlags'[j] = FollowerOf(flag) /\ flag \in Leaders
      /\ \A j \in WordNo : j # c /\ j \notin others => wordFlags'[j] = wordFlags[j]
  BY <1>1, <1>3 DEF Answered, Leaders
<1>5. wordFlags' \in [WordNo -> WordFlag]
  <2>1. ASSUME NEW j \in WordNo PROVE (IF j = c THEN flag ELSE IF j \in others THEN otherFlag ELSE wordFlags[j]) \in WordFlag
    BY <1>1, <1>3, <1>4 DEF WordFlag, FollowerOf
  <2> QED BY <2>1 DEF Answered
<1>6. /\ currentWord' \in 1 .. LastWord + 1
      /\ c + 1 <= currentWord'
      /\ undoEnabled' \in BOOLEAN
      /\ \A i \in WordNo : c + 1 <= i /\ i < currentWord' => wordFlags'[i] # "none"
      /\ currentWord' \in WordNo => wordFlags'[currentWord'] = "none"
  BY <1>1, SpellcheckStops DEF Answered
<1>7. SpellTypes'
  BY <1>5, <1>6 DEF SpellTypes
<1>8. KeptIsOriginal'
  <2> SUFFICES ASSUME NEW i \in WordNo, wordFlags'[i] \in Kept PROVE win'.value[i] = OriginalSpellings[i]
    BY DEF KeptIsOriginal
  <2>1. CASE i \in {c} \cup others
    <3>1. flag \in Kept
      BY <1>4, <2>1 DEF Kept, Leaders, FollowerOf
    <3>2. win'.value = win.value
      BY <3>1 DEF Answered
    <3> QED BY <1>2, <1>3, <2>1, <3>2
  <2>2. CASE i \notin {c} \cup others
    <3>1. wordFlags'[i] = wordFlags[i] /\ win'.value[i] = win.value[i]
      BY <1>4, <2>2 DEF Answered
    <3> QED BY <3>1 DEF SpellIInv, KeptIsOriginal
  <2> QED BY <2>1, <2>2
<1>9. FollowersLed'
  <2> SUFFICES ASSUME NEW i \in WordNo, wordFlags'[i] \in Followers PROVE \E j \in 1 .. i - 1 : Leads(j, i)'
    BY DEF FollowersLed
  <2>1. i # c
    BY <1>4 DEF Followers
  <2>2. CASE i \in others
    <3>0. PICK k \in WordNo : k = c
      BY <1>1
    <3>1. k \in 1 .. i - 1 /\ Alike(i, k)
      BY <3>0, <1>1, <1>3, <2>2, WordNumbers DEF Alike
    <3>2. wordFlags'[k] \in Leaders /\ wordFlags'[i] = FollowerOf(wordFlags'[k])
      BY <1>4, <2>2, <3>0
    <3>3. win'.value[k] = win'.value[i]
      BY <2>2, <3>0 DEF Answered
    <3>4. Leads(k, i)'
      BY <3>1, <3>2, <3>3 DEF Leads, Alike, FollowerOf, Leaders
    <3> QED BY <3>1, <3>4
  <2>3. CASE i \notin others
    <3>1. wordFlags'[i] = wordFlags[i] /\ win'.value[i] = win.value[i]
      BY <1>4, <2>1, <2>3 DEF Answered
    <3>2. PICK j \in 1 .. i - 1 : Leads(j, i)
      BY <2>3, <3>1 DEF SpellIInv, FollowersLed
    <3>3. j \in WordNo
      BY <3>2, WordNumbers
    <3>4. j # c /\ j \notin others
      BY <1>2, <1>3, <3>2 DEF Leads, Leaders
    <3>5. wordFlags'[j] = wordFlags[j] /\ win'.value[j] = win.value[j]
      BY <1>4, <3>3, <3>4 DEF Answered
    <3>6. Leads(j, i)'
      BY <3>1, <3>2, <3>5 DEF Leads, Alike, FollowerOf, Leaders
    <3> QED BY <3>2, <3>6
  <2> QED BY <2>2, <2>3
<1>10. LeadersFollowed'
  <2> SUFFICES ASSUME NEW i \in WordNo, wordFlags'[i] \in Leaders, NEW j \in WordNo, j > i, Alike(i, j)
               PROVE  wordFlags'[j] = FollowerOf(wordFlags'[i])
    BY DEF LeadersFollowed, Alike, FollowerOf, Leaders
  <2>1. i \notin others
    BY <1>4 DEF Leaders, FollowerOf
  <2>2. CASE i = c
    <3>1. others = Later(c)
      BY <1>4, <2>2 DEF Answered, Leaders
    <3>2. j \in others
      BY <1>2, <2>2, <3>1
    <3> QED BY <1>4, <2>2, <3>2
  <2>3. CASE i # c
    <3>1. wordFlags'[i] = wordFlags[i]
      BY <1>4, <2>1, <2>3
    <3>2. wordFlags[j] = FollowerOf(wordFlags[i])
      BY <3>1 DEF SpellIInv, LeadersFollowed
    <3>3. wordFlags[j] # "none"
      BY <3>2 DEF FollowerOf
    <3>4. j # c /\ j \notin others
      BY <1>2, <1>3, <3>3
    <3> QED BY <1>4, <3>1, <3>2, <3>4
  <2> QED BY <2>2, <2>3
<1>11. AnsweredBefore'
  <2>1. ASSUME NEW i \in WordNo, i < currentWord' PROVE wordFlags'[i] # "none"
    <3>1. CASE i < c
      BY <1>3, <1>4, <3>1, <1>1 DEF SpellIInv, AnsweredBefore
    <3>2. CASE i = c
      BY <1>4, <3>2
    <3>3. CASE i > c
      BY <1>1, <1>6, <2>1, <3>3
    <3> QED BY <3>1, <3>2, <3>3, <1>1
  <2>2. ASSUME NEW i \in WordNo, i > currentWord' PROVE wordFlags'[i] \in {"none"} \cup Followers
    <3>1. i > c /\ i # c
      BY <1>1, <1>6, <2>2, WordNumbers
    <3>2. CASE i \in others
      BY <1>4, <3>2 DEF FollowerOf, Followers
    <3>3. CASE i \notin others
      BY <1>4, <3>1, <3>3 DEF SpellIInv, AnsweredBefore
    <3> QED BY <3>2, <3>3
  <2> QED BY <2>1, <2>2, <1>6 DEF AnsweredBefore
<1> QED BY <1>7, <1>8, <1>9, <1>10, <1>11 DEF SpellIInv
\* Undo takes the answer to the word i back, and with it what it did to others.
Undone(i, cleared) ==
    /\ i \in WordNo /\ i < currentWord
    /\ wordFlags[i] \notin {"none"} \cup Followers
    /\ \A k \in WordNo : k > i /\ k < currentWord => wordFlags[k] \in Followers
    /\ cleared = {i} \cup (IF wordFlags[i] \in Leaders THEN SameBehind(i) ELSE {})
    /\ wordFlags' = [j \in WordNo |-> IF j \in cleared THEN "none" ELSE wordFlags[j]]
    /\ \A j \in WordNo : win'.value[j] = IF j \in cleared THEN OriginalSpellings[j] ELSE win.value[j]
    /\ Spellcheck(i, i > 1)

\* Taking back keeps the invariant of the flags: the words that followed the answer
\* are those that were spelled like it, and no other answer led any of them.
LEMMA UndoneKeepsFlags ==
    ASSUME SpellIInv, NEW i, NEW cleared, Undone(i, cleared), win' \in FittingWindow
    PROVE  SpellIInv'
<1> DEFINE c == currentWord
<1>1. /\ i \in WordNo /\ i \in 1 .. LastWord + 1 /\ i < c /\ c \in Nat /\ (i > 1) \in BOOLEAN
      /\ wordFlags \in [WordNo -> WordFlag]
      /\ \A j \in WordNo : j \in Nat
  BY WordNumbers DEF Undone, SpellIInv, SpellTypes
<1>2. /\ cleared \subseteq WordNo /\ i \in cleared
      /\ \A j \in cleared : j = i \/ (j > i /\ Alike(i, j) /\ wordFlags[i] \in Leaders)
      /\ wordFlags[i] \in Leaders => \A j \in WordNo : j > i /\ Alike(i, j) => j \in cleared
  BY <1>1 DEF Undone, SameBehind, Alike
<1>3. \A j \in cleared : j # i => wordFlags[j] \in Followers
  BY <1>2 DEF SpellIInv, LeadersFollowed, FollowerOf, Followers
<1>4. /\ \A j \in cleared : wordFlags'[j] = "none" /\ win'.value[j] = OriginalSpellings[j]
      /\ \A j \in WordNo : j \notin cleared => wordFlags'[j] = wordFlags[j] /\ win'.value[j] = win.value[j]
  BY <1>2 DEF Undone
<1>5. wordFlags' \in [WordNo -> WordFlag]
  BY <1>1 DEF Undone, WordFlag
<1>6. /\ i <= currentWord' /\ currentWord' \in 1 .. LastWord + 1 /\ undoEnabled' \in BOOLEAN
      /\ \A j \in WordNo : i <= j /\ j < currentWord' => wordFlags'[j] # "none"
  BY <1>1, SpellcheckStops DEF Undone
<1>7. currentWord' = i
  <2>1. wordFlags'[i] = "none"
    BY <1>2, <1>4
  <2> QED BY <1>1, <1>6, <2>1
<1>8. SpellTypes'
  BY <1>5, <1>6 DEF SpellTypes
<1>9. KeptIsOriginal'
  BY <1>4 DEF SpellIInv, KeptIsOriginal
<1>10. FollowersLed'
  <2> SUFFICES ASSUME NEW j \in WordNo, wordFlags'[j] \in Followers PROVE \E k \in 1 .. j - 1 : Leads(k, j)'
    BY DEF FollowersLed
  <2>1. j \notin cleared /\ wordFlags[j] \in Followers
    BY <1>4 DEF Followers
  <2>2. PICK k \in 1 .. j - 1 : Leads(k, j)
    BY <2>1 DEF SpellIInv, FollowersLed
  <2>3. k \in WordNo /\ wordFlags[k] \in Leaders /\ Alike(j, k) /\ k < j
    BY <2>2, WordNumbers DEF Leads
  <2>4. k \notin cleared
    <3>1. CASE k = i
      BY <1>2, <2>1, <2>3, <3>1 DEF Alike
    <3>2. CASE k # i
      BY <1>3, <2>3, <3>2 DEF Leaders, Followers
    <3> QED BY <3>1, <3>2
  <2>5. wordFlags'[k] = wordFlags[k] /\ win'.value[k] = win.value[k]
        /\ wordFlags'[j] = wordFlags[j] /\ win'.value[j] = win.value[j]
    BY <1>4, <2>1, <2>3, <2>4
  <2>6. Leads(k, j)'
    BY <2>2, <2>5 DEF Leads, Alike, FollowerOf, Leaders
  <2> QED BY <2>2, <2>6
<1>11. LeadersFollowed'
  <2> SUFFICES ASSUME NEW m \in WordNo, wordFlags'[m] \in Leaders, NEW j \in WordNo, j > m, Alike(m, j)
               PROVE  wordFlags'[j] = FollowerOf(wordFlags'[m])
    BY DEF LeadersFollowed, Alike, FollowerOf, Leaders
  <2>1. m \notin cleared /\ wordFlags[m] \in Leaders /\ wordFlags'[m] = wordFlags[m]
    BY <1>4 DEF Leaders
  <2>2. wordFlags[j] = FollowerOf(wordFlags[m])
    BY <2>1 DEF SpellIInv, LeadersFollowed
  <2>3. j \notin cleared
    <3> SUFFICES ASSUME j \in cleared PROVE FALSE
      OBVIOUS
    <3>1. j # i
      BY <2>2 DEF Undone, FollowerOf, Followers
    <3>2. j > i /\ Alike(i, j) /\ wordFlags[i] \in Leaders /\ Alike(m, i) /\ Alike(i, m)
      BY <1>2, <3>1 DEF Alike
    <3>3. m # i
      BY <1>2, <2>1
    <3>4. CASE m < i
      <4>1. wordFlags[i] = FollowerOf(wordFlags[m])
        BY <1>1, <2>1, <3>2, <3>4 DEF SpellIInv, LeadersFollowed
      <4> QED BY <4>1 DEF Undone, FollowerOf, Followers
    <3>5. CASE m > i
      BY <1>2, <2>1, <3>2, <3>5
    <3> QED BY <1>1, <3>3, <3>4, <3>5
  <2> QED BY <1>4, <2>1, <2>2, <2>3
<1>12. AnsweredBefore'
  <2>1. ASSUME NEW k \in WordNo, k < i PROVE wordFlags'[k] # "none"
    <3>1. k \notin cleared
      BY <1>1, <1>2, <2>1
    <3> QED BY <1>1, <1>4, <2>1, <3>1 DEF SpellIInv, AnsweredBefore
  <2>2. ASSUME NEW k \in WordNo, k > i PROVE wordFlags'[k] \in {"none"} \cup Followers
    <3>1. wordFlags[k] \in {"none"} \cup Followers
      <4>1. CASE k < c
        BY <2>2, <4>1 DEF Undone
      <4>2. CASE k = c
        BY <4>2 DEF SpellIInv, AnsweredBefore
      <4>3. CASE k > c
        BY <4>3 DEF SpellIInv, AnsweredBefore
      <4> QED BY <1>1, <4>1, <4>2, <4>3
    <3> QED BY <1>4, <3>1
  <2>3. wordFlags'[i] = "none"
    BY <1>2, <1>4
  <2> QED BY <1>7, <2>1, <2>2, <2>3 DEF AnsweredBefore
<1> QED BY <1>8, <1>9, <1>10, <1>11, <1>12 DEF SpellIInv

\* Words are replaced by the same new value.
LEMMA ReplaceIsAnswer ==
    ASSUME SpellIInv, NEW new \in Replacements, NEW others, NEW flag, NEW otherFlag,
           \/ flag = "replaced" /\ others = {}
           \/ flag = "replaceAll" /\ others = Later(currentWord) /\ otherFlag = "fromReplaceAll",
           ReplaceWith(new, others, flag, otherFlag)
    PROVE  Answered(others, flag, otherFlag) /\ win' \in FittingWindow
<1> DEFINE S == {currentWord} \cup others
           f == [j \in WordNo |-> new]
<1>1. currentWord \in WordNo
  BY WordNumbers DEF SpellIInv, SpellTypes, ReplaceWith, Checking
<1>2. new \in Seq(Letters) /\ f \in [WordNo -> Seq(Letters)]
  BY SpellAssumption
<1>3. win' = SetTexts(S, f)
  BY DEF ReplaceWith
<1>4. win' \in FittingWindow /\ win'.value = [j \in WordNo |-> IF j \in S THEN f[j] ELSE win.value[j]]
  <2> HIDE DEF S, f
  <2> QED BY <1>2, <1>3, SetTextsFits DEF SpellIInv, SpellTypes
<1>5. others \subseteq WordNo
  BY DEF Later
<1>6. /\ \A j \in WordNo : j \notin S => win'.value[j] = win.value[j]
      /\ \A j \in S : win'.value[j] = new
  BY <1>1, <1>4, <1>5
<1> QED BY <1>1, <1>4, <1>6 DEF Answered, ReplaceWith, Leaders, FollowerOf, Kept

\* The text is not touched.
LEMMA IgnoreIsAnswer ==
    ASSUME SpellIInv, NEW others, NEW flag, NEW otherFlag,
           \/ flag = "ignored" /\ others = {}
           \/ flag = "ignoreAll" /\ others = Later(currentWord) /\ otherFlag = "fromIgnoreAll",
           IgnoreWith(others, flag, otherFlag)
    PROVE  Answered(others, flag, otherFlag) /\ win' \in FittingWindow
<1>1. currentWord \in WordNo
  BY WordNumbers DEF SpellIInv, SpellTypes, IgnoreWith, Checking
<1>2. win' = win /\ win \in FittingWindow
  BY DEF IgnoreWith, SpellIInv, SpellTypes
<1>3. \A j \in others : win'.value[j] = win'.value[currentWord]
  BY <1>1, <1>2, LaterIsAlike DEF Alike
<1> QED BY <1>1, <1>2, <1>3 DEF Answered, IgnoreWith, Leaders, FollowerOf, Kept
\* The loop of undo always finds an answer, as the first word follows no other, and
\* the originals it puts back are those of the words whose flags it clears.
LEMMA UndoIsUndone ==
    ASSUME SpellIInv, SpellUndo
    PROVE  (\E i, cleared : Undone(i, cleared)) /\ win' \in FittingWindow
<1> DEFINE answered == {j \in 1 .. currentWord - 1 : wordFlags[j] \notin Followers}
           last == CHOOSE j \in answered : \A k \in answered : k <= j
           reverted == CASE wordFlags[last] = "replaceAll" -> SameBehind(last)
                         [] wordFlags[last] = "replaced" -> {last}
                         [] OTHER -> {}
           cleared == {last} \cup (IF wordFlags[last] \in {"replaceAll", "ignoreAll"} THEN SameBehind(last) ELSE {})
<1>1. /\ currentWord \in WordNo /\ currentWord > 1
      /\ win' = SetTexts(reverted, OriginalSpellings)
      /\ wordFlags' = [j \in WordNo |-> IF j \in cleared THEN "none" ELSE wordFlags[j]]
      /\ Spellcheck(last, last > 1)
  BY WordNumbers DEF SpellUndo, Checking, SpellIInv, SpellTypes
<1>2. answered # {} /\ answered \subseteq 0 .. currentWord - 1 /\ currentWord - 1 \in Nat
      /\ \A j \in answered : j \in WordNo
  <2>1. 1 \in WordNo /\ 1 \in 1 .. currentWord - 1 /\ 1 .. (1 - 1) = {}
    BY <1>1, WordNumbers
  <2>2. wordFlags[1] \notin Followers
    BY <2>1 DEF SpellIInv, FollowersLed
  <2>3. 1 \in answered
    BY <2>1, <2>2
  <2>4. currentWord \in Nat /\ \A j \in 1 .. currentWord - 1 : j \in WordNo /\ j \in 0 .. currentWord - 1
    BY <1>1, WordNumbers
  <2> QED BY <1>1, <2>3, <2>4
<1>3. last \in answered /\ \A k \in answered : k <= last
  <2> HIDE DEF answered
  <2> QED BY <1>2, GreatestNumber
<1> HIDE DEF last
<1>4. PICK i \in WordNo : i = last
  BY <1>2, <1>3
<1>5. i < currentWord /\ wordFlags[i] \notin {"none"} \cup Followers
  BY <1>1, <1>3, <1>4, WordNumbers DEF SpellIInv, AnsweredBefore
<1>6. ASSUME NEW k \in WordNo, k > i, k < currentWord PROVE wordFlags[k] \in Followers
  <2>1. k \in 1 .. currentWord - 1
    BY <1>1, <1>6, WordNumbers
  <2> SUFFICES ASSUME wordFlags[k] \notin Followers PROVE FALSE
    OBVIOUS
  <2>2. k \in answered
    BY <2>1
  <2> QED BY <1>3, <1>4, <1>6, <2>2, WordNumbers
<1>7. wordFlags[i] \in WordFlag
  BY DEF SpellIInv, SpellTypes
<1>8. win \in FittingWindow /\ OriginalSpellings \in [WordNo -> Seq(Letters)]
  BY WordNumbers DEF SpellIInv, SpellTypes
<1>9. /\ win' \in FittingWindow
      /\ \A j \in WordNo : win'.value[j] = IF j \in reverted THEN OriginalSpellings[j] ELSE win.value[j]
  <2> HIDE DEF reverted
  <2> DEFINE w == SetTexts(reverted, OriginalSpellings)
  <2>1. w \in FittingWindow
        /\ w.value = [j \in WordNo |-> IF j \in reverted THEN OriginalSpellings[j] ELSE win.value[j]]
    BY <1>8, SetTextsFits
  <2>2. win' = w
    BY <1>1
  <2> HIDE DEF w
  <2> QED BY <2>1, <2>2
<1>10. cleared = {i} \cup (IF wordFlags[i] \in Leaders THEN SameBehind(i) ELSE {})
  BY <1>4 DEF Leaders
<1>11. ASSUME NEW j \in WordNo
       PROVE  win'.value[j] = IF j \in cleared THEN OriginalSpellings[j] ELSE win.value[j]
  <2>1. CASE wordFlags[i] = "replaceAll"
    <3>1. reverted = SameBehind(i)
      BY <1>4, <2>1
    <3>2. i \in SameBehind(i)
      BY WordNumbers DEF SameBehind
    <3>3. cleared = reverted
      BY <1>10, <2>1, <3>1, <3>2 DEF Leaders
    <3> QED BY <1>9, <3>3
  <2>2. CASE wordFlags[i] = "replaced"
    <3>1. reverted = {i} /\ cleared = {i}
      BY <1>4, <1>10, <2>2 DEF Leaders
    <3> QED BY <1>9, <3>1
  <2>3. CASE wordFlags[i] = "ignored" \/ wordFlags[i] = "ignoreAll"
    <3>1. reverted = {}
      BY <1>4, <2>3
    <3>2. win'.value[j] = win.value[j]
      BY <1>9, <3>1
    <3>3. ASSUME j \in cleared PROVE wordFlags[j] \in Kept
      <4>1. CASE j = i
        BY <2>3, <4>1 DEF Kept
      <4>2. CASE j # i
        <5>1. wordFlags[i] \in Leaders /\ j \in SameBehind(i)
          BY <1>10, <3>3, <4>2
        <5>2. j > i /\ Alike(i, j)
          BY <4>2, <5>1, WordNumbers DEF SameBehind, Alike
        <5>3. wordFlags[j] = FollowerOf(wordFlags[i])
          BY <5>1, <5>2 DEF SpellIInv, LeadersFollowed
        <5> QED BY <2>3, <5>3 DEF FollowerOf, Kept
      <4> QED BY <4>1, <4>2
    <3>4. j \in cleared => win.value[j] = OriginalSpellings[j]
      BY <3>3 DEF SpellIInv, KeptIsOriginal
    <3> QED BY <3>2, <3>4
  <2> QED BY <1>5, <1>7, <2>1, <2>2, <2>3 DEF WordFlag, Followers
<1>12. Undone(i, cleared)
  <2> HIDE DEF cleared
  <2> QED BY <1>1, <1>4, <1>5, <1>6, <1>10, <1>11 DEF Undone
<1> QED BY <1>9, <1>12

\* writeBody finds each word behind the one before, where the text has it.
LEMMA LocatedFits ==
    ASSUME NEW P, TextPrefixes(P, OriginalSpellings), NEW i \in WordNo
    PROVE  Located[i] = Len(P[i - 1])
<1> DEFINE Recursive(f) == f = [j \in 0 .. LastWord |->
                              IF j = 0 THEN 1 ELSE f[j - 1] + Len(OriginalSpellings[j]) + 1]
           g == [j \in 0 .. LastWord |-> Len(P[j])]
           h == CHOOSE f : Recursive(f)
<1>1. ASSUME NEW j \in WordNo PROVE g[j] = g[j - 1] + Len(OriginalSpellings[j]) + 1
  <2>1. P[j] = P[j - 1] \o OriginalSpellings[j] \o Gap /\ P[j - 1] \in Seq(Char)
    BY WordNumbers DEF TextPrefixes
  <2>2. OriginalSpellings[j] \in Seq(Char) /\ Gap \in Seq(Char) /\ Len(Gap) = 1
    BY WordNumbers, WordIsText
  <2>3. Len(P[j]) = (Len(P[j - 1]) + Len(OriginalSpellings[j])) + Len(Gap)
    <3> DEFINE t == P[j - 1] \o OriginalSpellings[j]
    <3>1. t \in Seq(Char) /\ Len(t) = Len(P[j - 1]) + Len(OriginalSpellings[j])
      BY <2>1, <2>2, TextConcat
    <3>2. P[j] = t \o Gap
      BY <2>1
    <3> HIDE DEF t
    <3>3. Len(t \o Gap) = Len(t) + Len(Gap)
      BY <2>2, <3>1, TextConcat
    <3> QED BY <3>1, <3>2, <3>3
  <2> QED BY <2>2, <2>3, WordNumbers
<1>2. g[0] = 1
  BY WordNumbers, WordIsText DEF TextPrefixes
<1>3. Recursive(g)
  <2>1. ASSUME NEW j \in 0 .. LastWord
        PROVE  g[j] = (IF j = 0 THEN 1 ELSE g[j - 1] + Len(OriginalSpellings[j]) + 1)
    <3>1. j # 0 => j \in WordNo
      BY WordNumbers
    <3> HIDE DEF g
    <3> QED BY <1>1, <1>2, <3>1
  <2> DEFINE r == [j \in 0 .. LastWord |-> IF j = 0 THEN 1 ELSE g[j - 1] + Len(OriginalSpellings[j]) + 1]
  <2>2. DOMAIN g = 0 .. LastWord /\ g = [j \in DOMAIN g |-> g[j]]
    OBVIOUS
  <2> HIDE DEF g
  <2> QED BY <2>1, <2>2
<1>4. Recursive(h)
  <2> HIDE DEF Recursive, g
  <2> QED BY <1>3
<1> DEFINE S == {j \in 0 .. LastWord : g[j] = h[j]}
<1>5. /\ h[0] = 1
      /\ \A j \in WordNo : h[j] = h[j - 1] + Len(OriginalSpellings[j]) + 1
  <2> HIDE DEF h
  <2> QED BY <1>4, WordNumbers
<1>6. 0 \in S
  <2> HIDE DEF h, g
  <2> QED BY <1>2, <1>5, WordNumbers
<1>7. ASSUME NEW j \in 0 + 1 .. LastWord, j - 1 \in S PROVE j \in S
  <2> HIDE DEF h, g
  <2>1. j \in WordNo /\ j \in 0 .. LastWord /\ g[j - 1] = h[j - 1]
    BY <1>7, WordNumbers
  <2>2. g[j] = h[j]
    BY <1>1, <1>5, <2>1
  <2> QED BY <2>1, <2>2
<1>8. i - 1 \in S
  <2> HIDE DEF S
  <2>1. \A j \in 0 .. LastWord : j \in S
    BY <1>6, <1>7, UpTo, WordNumbers
  <2> QED BY <2>1, WordNumbers
<1>9. Located[i] = h[i - 1]
  BY DEF Located
<1>10. g[i - 1] = Len(P[i - 1])
  BY WordNumbers
<1> QED BY <1>8, <1>9, <1>10

\* The dialog begins with the original text and no answer.
LEMMA SpellInitInv == SpellInit => SpellIInv
<1> SUFFICES ASSUME SpellInit PROVE SpellIInv
  OBVIOUS
<1>1. OriginalSpellings \in [WordNo -> Seq(Letters)]
  BY WordNumbers
<1>2. PICK P : TextPrefixes(P, OriginalSpellings)
  BY <1>1, PrefixesExist
<1>3. TextOf(OriginalSpellings) = P[LastWord] /\ P[LastWord] \in Seq(Char)
  <2>1. TextOf(OriginalSpellings) = P[LastWord]
    BY <1>1, <1>2, TextIsLastPrefix
  <2> QED BY <1>2, <2>1, WordNumbers DEF TextPrefixes
<1>4. \A i \in WordNo : Located[i] = Len(P[i - 1])
  BY <1>2, LocatedFits
<1>5. \A i \in WordNo : Len(P[i - 1]) \in Nat
  <2>1. ASSUME NEW i \in WordNo PROVE Len(P[i - 1]) \in Nat
    <3>1. P[i - 1] \in Seq(Char)
      BY <1>2, WordNumbers DEF TextPrefixes
    <3> QED BY <3>1, LenProperties
  <2> QED BY <2>1
<1>6. Located \in [WordNo -> Nat]
  <2>1. Located = [i \in WordNo |-> Located[i]]
    BY DEF Located
  <2> QED BY <1>4, <1>5, <2>1
<1>7. win = [text |-> TextOf(OriginalSpellings), indexes |-> Located, value |-> OriginalSpellings]
  BY DEF SpellInit
<1>8. win \in Windows
  BY <1>1, <1>3, <1>6, <1>7 DEF Windows
<1>9. Fits(win, P)
  BY <1>2, <1>3, <1>4, <1>7 DEF Fits
<1>10. currentWord = 1
  BY DEF SpellInit
<1>11. SpellTypes
  <2>1. win \in FittingWindow
    BY <1>8, <1>9 DEF FittingWindow
  <2>2. wordFlags \in [WordNo -> WordFlag] /\ undoEnabled \in BOOLEAN
    BY DEF SpellInit, WordFlag
  <2>3. currentWord \in 1 .. LastWord + 1
    BY <1>10, WordNumbers
  <2> QED BY <2>1, <2>2, <2>3 DEF SpellTypes
<1>12. \A i \in WordNo : wordFlags[i] = "none" /\ win.value[i] = OriginalSpellings[i]
  BY <1>7 DEF SpellInit
<1>13. KeptIsOriginal /\ FollowersLed /\ LeadersFollowed
  BY <1>12 DEF KeptIsOriginal, FollowersLed, LeadersFollowed, Followers, Leaders
<1>14. AnsweredBefore
  BY <1>12, <1>10, WordNumbers DEF AnsweredBefore
<1> QED BY <1>11, <1>13, <1>14 DEF SpellIInv

\* Every answer and every undo keeps the invariant.
LEMMA SpellStepKeeps == SpellIInv /\ [SpellNext]_spellVars => SpellIInv'
<1> SUFFICES ASSUME SpellIInv, [SpellNext]_spellVars PROVE SpellIInv'
  OBVIOUS
<1>1. CASE IgnoreWord
  BY <1>1, IgnoreIsAnswer, AnsweredKeepsFlags DEF IgnoreWord
<1>2. CASE IgnoreAllWords
  BY <1>2, IgnoreIsAnswer, AnsweredKeepsFlags DEF IgnoreAllWords
<1>3. CASE SpellUndo
  BY <1>3, UndoIsUndone, UndoneKeepsFlags
<1>4. ASSUME NEW new \in Replacements, ReplaceWord(new) PROVE SpellIInv'
  BY <1>4, ReplaceIsAnswer, AnsweredKeepsFlags DEF ReplaceWord
<1>5. ASSUME NEW new \in Replacements, ReplaceAllWords(new) PROVE SpellIInv'
  BY <1>5, ReplaceIsAnswer, AnsweredKeepsFlags DEF ReplaceAllWords
<1>6. CASE UNCHANGED spellVars
  BY <1>6 DEF spellVars, SpellIInv, SpellTypes, KeptIsOriginal, FollowersLed, Leads, LeadersFollowed, AnsweredBefore
<1> QED BY <1>1, <1>2, <1>3, <1>4, <1>5, <1>6 DEF SpellNext

\* What the invariant says of the types and of the flags.
LEMMA SpellInvImplies == SpellIInv => SpellTypeOK /\ TextMatchesFlags
<1> SUFFICES ASSUME SpellIInv PROVE SpellTypeOK /\ TextMatchesFlags
  OBVIOUS
<1>1. win \in Windows /\ \E P : Fits(win, P)
  BY DEF SpellIInv, SpellTypes, FittingWindow
<1>2. PICK P : TextPrefixes(P, win.value) /\ win.text = P[LastWord]
  BY <1>1 DEF Fits
<1>3. win.text = TextOf(win.value)
  BY <1>1, <1>2, TextIsLastPrefix DEF Windows
<1>4. SpellTypeOK
  BY <1>1 DEF SpellIInv, SpellTypes, SpellTypeOK, Windows, Char
<1>5. ASSUME NEW i \in WordNo, wordFlags[i] \in Followers
      PROVE  \E j \in 1 .. i - 1 :
                /\ wordFlags[j] = (IF wordFlags[i] = "fromReplaceAll" THEN "replaceAll" ELSE "ignoreAll")
                /\ OriginalSpellings[j] = OriginalSpellings[i]
                /\ win.value[j] = win.value[i]
  <2>1. PICK j \in 1 .. i - 1 : Leads(j, i)
    BY <1>5 DEF SpellIInv, FollowersLed
  <2> QED BY <2>1 DEF Leads, Leaders, FollowerOf, Alike
<1> QED BY <1>3, <1>4, <1>5 DEF TextMatchesFlags, SpellIInv, KeptIsOriginal, Kept

----------------------------------------------------------------------------

\* In every state of the dialog its variables have their types.
THEOREM SpellTypeCorrect == SpellSpec => []SpellTypeOK
<1>1. SpellIInv => SpellTypeOK
  BY SpellInvImplies
<1> QED BY <1>1, SpellInitInv, SpellStepKeeps, PTL DEF SpellSpec

\* In every state of the dialog, for any words and answers, the text is the
\* original with the values of the words in their places, unanswered and ignored
\* words have their spelling, and each word that follows an answer has its value.
THEOREM TextAlwaysMatches == SpellSpec => []TextMatchesFlags
<1>1. SpellIInv => TextMatchesFlags
  BY SpellInvImplies
<1> QED BY <1>1, SpellInitInv, SpellStepKeeps, PTL DEF SpellSpec

----------------------------------------------------------------------------
(* The parts together                                                      *)

\* A behaviour of the parts is one of each of them: what one does not do it leaves
\* alone.  Without the table commands there is no table, and no command for one.
LEMMA PartsOfWebapp ==
    WebSpec => EventSpec /\ TableSafety /\ UndoSpec /\ SpellSpec
<1>1. WebInit => EventInit /\ (TableInit \/ NoTable) /\ UndoInit /\ SpellInit
  BY DEF WebInit
<1>2. ASSUME [WebNext]_webVars
      PROVE  /\ [EventNext]_eventVars /\ [TableNext]_tableVars
             /\ [UndoNext]_undoVars /\ [SpellNext]_spellVars
  <2>1. CASE UNCHANGED webVars
    BY <2>1 DEF webVars
  <2>2. CASE WebNext
    BY <2>2 DEF WebNext
  <2> QED BY <1>2, <2>1, <2>2
<1> QED BY <1>1, <1>2, PTL DEF WebSpec, EventSpec, TableSafety, UndoSpec, SpellSpec

\* The parts keep their types together.
THEOREM WebTypeCorrect == WebSpec => []WebTypeOK
<1>1. WebInit => webPart \in {"event", "table", "undo", "spelling"}
  BY DEF WebInit
<1>2. ASSUME webPart \in {"event", "table", "undo", "spelling"}, [WebNext]_webVars
      PROVE  (webPart \in {"event", "table", "undo", "spelling"})'
  BY <1>2 DEF WebNext, webVars
<1>3. WebSpec => [](webPart \in {"event", "table", "undo", "spelling"})
  BY <1>1, <1>2, PTL DEF WebSpec
<1>4. /\ webPart \in {"event", "table", "undo", "spelling"}
      /\ EventTypeOK /\ TableTypeOK /\ UndoTypeOK /\ SpellTypeOK
      => WebTypeOK
  BY DEF WebTypeOK
<1> QED
  BY <1>3, <1>4, PartsOfWebapp, EventTypeCorrect, TableTypeCorrect, UndoTypeCorrect, SpellTypeCorrect, PTL

\* What is proved of each part holds of the web application: an event mailing stops in
\* time and goes to the customers of its requests, the commands keep a table a grid and its text, rectangles
\* of cells are offered for merging, what is in no undo level is on top of them, a redo
\* gives back what the undo took away, and the spelling dialog keeps what it shows in step
\* with the text.
THEOREM WebappCorrect ==
    WebSpec => /\ []StopsWithinLifetime
               /\ []OwnMail
               /\ []RectangleRecognised
               /\ []GridKept
               /\ []TextKept
               /\ []UnsavedOnTopOnly
               /\ RedoGivesBack
               /\ []TextMatchesFlags
BY PartsOfWebapp, StoppedInTime, OwnCustomer, RectanglesAreRecognised, GridIsKept, TextIsKept,
   UnsavedOnTop, RedoUndoesUndo, TextAlwaysMatches

=============================================================================
