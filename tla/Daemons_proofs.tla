---------------------------- MODULE Daemons_proofs ---------------------------
(***************************************************************************)
(* Proofs about the daemons, one after the other and together.             *)
(*                                                                         *)
(* Delivery reports: no report of the mail log is skipped, none is         *)
(* repeated but by a kill, and none is lost on its way from extbounce.log  *)
(* to the table.                                                           *)
(*                                                                         *)
(* Process lock: at most one daemon runs that has not had its file removed *)
(* by another, this takes two starters at once, and a starter that is      *)
(* alone gets the lock.                                                    *)
(*                                                                         *)
(* Mail queue: what becomes of a message that no scan has met beside its   *)
(* thread, and why it leaves the spool.                                    *)
(*                                                                         *)
(* The daemons share nothing, so that together they keep what each keeps.  *)
(***************************************************************************)
EXTENDS Daemons, FiniteSetTheorems, TLAPS

----------------------------------------------------------------------------
(* Delivery reports: the initial states and the steps.  No invariant       *)
(* rests on the fairness of LogSpec.                                       *)

LogSafety == LogInit /\ [][LogNext]_logVars

\* What the theorems say of LogSafety holds of LogSpec.
LEMMA LogSpecSafe == LogSpec => LogSafety
BY PTL DEF LogSpec, LogSafety

----------------------------------------------------------------------------
(* Reports                                                                 *)

\* The constants are numbers.
LEMMA Bounds ==
    /\ MaxFiles \in Nat /\ 1 \in MailLog
    /\ \A f \in MailLog : f \in Nat /\ 1 <= f /\ f <= MaxFiles
    /\ \A f \in MailLog : f < MaxFiles => f + 1 \in MailLog
    /\ Checkpoint \in Nat /\ 1 <= Checkpoint
    /\ MaxMishaps \in Nat
    /\ \A f \in MailLog : MaxLines[f] \in Nat
  BY LogAssumption DEF MailLog

\* A report is a place in a mail log.
LEMMA ReportPlaces ==
    /\ \A r \in Report : /\ r = <<r[1], r[2]>> /\ r[1] \in MailLog
                         /\ r[2] \in Nat /\ 1 <= r[2] /\ r[2] <= MaxLines[r[1]]
    /\ \A f \in MailLog, i \in Nat : 1 <= i /\ i <= MaxLines[f] => <<f, i>> \in Report
<1>1. \A f \in MailLog : MaxLines[f] \in Nat
  BY LogAssumption
<1>2. ASSUME NEW r \in Report
      PROVE  /\ r = <<r[1], r[2]>> /\ r[1] \in MailLog
             /\ r[2] \in Nat /\ 1 <= r[2] /\ r[2] <= MaxLines[r[1]]
  <2>1. PICK f \in MailLog : r \in {f} \X (1 .. MaxLines[f])
    BY DEF Report
  <2>2. r = <<r[1], r[2]>> /\ r[1] = f /\ r[2] \in 1 .. MaxLines[f]
    BY <2>1
  <2> QED BY <1>1, <2>2
<1>3. ASSUME NEW f \in MailLog, NEW i \in Nat, 1 <= i, i <= MaxLines[f] PROVE <<f, i>> \in Report
  <2>1. <<f, i>> \in {f} \X (1 .. MaxLines[f])
    BY <1>1, <1>3
  <2> QED BY <2>1 DEF Report
<1> QED BY <1>2, <1>3

\* The empty bag, the sum of two bags, and a bag with one report more.
LEMMA BagFacts ==
    /\ NoReports \in [Report -> Nat] /\ \A r \in Report : NoReports[r] = 0
    /\ \A a, b \in [Report -> Nat] : a (+) b \in [Report -> Nat]
    /\ \A a, b \in [Report -> Nat], r \in Report : (a (+) b)[r] = a[r] + b[r]
    /\ \A a \in [Report -> Nat], r \in Report : Plus(a, r) \in [Report -> Nat]
    /\ \A a \in [Report -> Nat], q, r \in Report :
         Plus(a, r)[q] = IF q = r THEN a[r] + 1 ELSE a[q]
  BY DEF NoReports, (+), Plus

----------------------------------------------------------------------------
(* Positions                                                               *)

\* The scanner has a line at hand: it is the last one it has read.
AtHand == scanner \in {"save", "line", "append"}
Line == <<fd.file, fd.pos>>

(* No position is beyond what was written, a saved one not beyond the one  *)
(* it was saved from, and the file open for appending is the scanner's.    *)
PosInv ==
    /\ \A f \in MailLog : logLen[f] <= MaxLines[f] /\ (f > logPath => logLen[f] = 0)
    /\ logTo <= logPath
    /\ fd.file <= logPath
    /\ fd.pos <= logLen[fd.file]
    /\ AtHand => fd.pos > 0
    /\ info.file <= logPath
    /\ info \in Position => info.pos <= logLen[info.file]
    /\ LogOpen /\ info.file = fd.file => info.pos <= fd.pos
    /\ LogOpen => info.file <= fd.file
    /\ LogOpen /\ scanner # "save" => since < Checkpoint
    /\ handle # "none" <=> scanner = "append"
    /\ handle = "temp" => update = "sleep"
    /\ scanKills <= mishaps

LogTypeInv == LogTypeOK /\ PosInv

\* LogTypeInv holds in the initial state.
LEMMA LogTypeInit == LogInit => LogTypeInv
<1> SUFFICES ASSUME LogInit PROVE LogTypeInv
  OBVIOUS
<1>1. logLen \in [MailLog -> {0}]
  BY DEF LogInit
<1>2. NoReports \in [Report -> Nat]
  BY BagFacts
<1>3. LogTypeOK
  <2>1. logLen \in [MailLog -> Nat]
    BY <1>1
  <2>2. fd \in Position
    BY Bounds DEF LogInit, Position
  <2>3. since \in 0 .. Checkpoint /\ 0 \in 0 .. MaxMishaps /\ logPath \in MailLog /\ logTo \in MailLog
    BY Bounds DEF LogInit
  <2> QED BY <1>2, <2>1, <2>2, <2>3 DEF LogInit, LogTypeOK
<1>4. info \notin Position
  <2>1. info.file = 0
    BY DEF LogInit, NoInfo
  <2> QED BY <2>1, Bounds DEF Position
<1>5. PosInv
  BY <1>1, <1>4, Bounds DEF LogInit, PosInv, NoInfo, AtHand, LogOpen
<1> QED BY <1>3, <1>5 DEF LogTypeInv

\* The steps of the mail log keep LogTypeInv.
LEMMA LogTypeMailLog == LogTypeInv /\ (Deliver \/ Rotate \/ Reopened) => LogTypeInv'
<1> SUFFICES ASSUME LogTypeInv, Deliver \/ Rotate \/ Reopened PROVE LogTypeInv'
  OBVIOUS
<1> USE Bounds
    DEF LogTypeInv, LogTypeOK, PosInv, Position, NoInfo, Torn, AtHand, LogOpen,
        scannerVars, updateVars, logHistoryVars
<1>1. CASE Deliver
  <2>1. logTo \in MailLog /\ logLen[logTo] \in Nat /\ logLen[logTo] < MaxLines[logTo]
    BY <1>1 DEF Deliver
  <2>2. <<logTo, logLen[logTo] + 1>> \in Report
    BY <2>1, ReportPlaces
  <2> QED BY <1>1, <2>2 DEF Deliver
<1>2. CASE Rotate
  <2>1. Unread(logPath) \subseteq Report
    BY ReportPlaces DEF Unread
  <2> QED BY <1>2, <2>1 DEF Rotate
<1>3. CASE Reopened
  BY <1>3 DEF Reopened
<1> QED BY <1>1, <1>2, <1>3

\* The steps of the scanner keep LogTypeInv.
LEMMA LogTypeScanner ==
    LogTypeInv /\ (ScannerStep \/ ScanDrop \/ ScanStop \/ ScanKill) => LogTypeInv'
<1> SUFFICES ASSUME LogTypeInv, ScannerStep \/ ScanDrop \/ ScanStop \/ ScanKill PROVE LogTypeInv'
  OBVIOUS
<1> USE Bounds
    DEF LogTypeInv, LogTypeOK, PosInv, Position, NoInfo, Torn, AtHand, LogOpen, Mishap,
        AllButScannerUnchanged, mailLogVars, updateVars, logHistoryVars
<1>0. CASE ScanStart
  BY <1>0 DEF ScanStart
<1>1. CASE ScanStop
  <2>1. Unread(fd.file) \subseteq Report
    BY ReportPlaces DEF Unread
  <2>2. excused' \subseteq Report
    BY <1>1, <2>1 DEF ScanStop
  <2> QED BY <1>1, <2>2 DEF ScanStop
<1>2. CASE ScanOpen
  BY <1>2 DEF ScanOpen, SavedPos
<1>3. CASE ScanRead
  BY <1>3 DEF ScanRead
<1>4. CASE ScanClose
  BY <1>4 DEF ScanClose
<1>5. CASE ScanSaved
  BY <1>5 DEF ScanSaved
<1>6. CASE ScanAppend
  BY <1>6 DEF ScanAppend
<1>7. AtHand => <<fd.file, fd.pos>> \in Report
  BY ReportPlaces
<1>8. CASE ScanWrite
  <2> DEFINE line == <<fd.file, fd.pos>>
  <2>1. \A bag \in [Report -> Nat] : Plus(bag, line) \in [Report -> Nat]
    BY <1>7, <1>8, BagFacts DEF ScanWrite
  <2> QED BY <1>8, <2>1 DEF ScanWrite
<1>9. CASE ScanDrop
  BY <1>7, <1>9 DEF ScanDrop
<1>10. CASE ScanKill
  <2>1. Unread(fd.file) \subseteq Report
    BY ReportPlaces DEF Unread
  <2> QED BY <1>7, <1>10, <2>1 DEF ScanKill
<1> QED
  BY <1>0, <1>1, <1>2, <1>3, <1>4, <1>5, <1>6, <1>8, <1>9, <1>10 DEF ScannerStep

\* What update reads and writes, and what it may do.
UpdateAct ==
    \/ UpdateStep \/ OpenFails \/ UpdateKill
    \/ \E r \in Report : UnsubscribeFails(r) \/ \E imported \in BOOLEAN : SaveFails(r, imported)

\* The steps of update keep LogTypeInv.
LEMMA LogTypeUpdate == LogTypeInv /\ UpdateAct => LogTypeInv'
<1> SUFFICES ASSUME LogTypeInv, UpdateAct PROVE LogTypeInv'
  OBVIOUS
<1> USE Bounds
    DEF LogTypeInv, LogTypeOK, PosInv, AtHand, LogOpen, Mishap,
        AllButUpdateUnchanged, WriterNow, mailLogVars, scannerVars, logHistoryVars
<1>1. CASE UpdateStart \/ RemoveFile
  BY <1>1, BagFacts DEF UpdateStart, RemoveFile
<1>2. CASE RenameToTemp
  BY <1>2, BagFacts DEF RenameToTemp
<1>3. CASE ReadLines
  <2>1. handle = "temp" => <<fd.file, fd.pos>> \in Report
    BY ReportPlaces DEF Position
  <2> QED BY <1>3, <2>1 DEF ReadLines, SleptLongEnough
<1>4. CASE OpenFails
  BY <1>4, BagFacts DEF OpenFails
<1>5. CASE UpdateKill
  BY <1>5, BagFacts DEF UpdateKill
<1>6. ASSUME NEW r \in Report, NextLine(r) PROVE rest' \in [Report -> Nat]
  BY <1>6 DEF NextLine
<1>7. ASSUME NEW r \in Report, UpdateLine(r) \/ LineFails(r) \/ UnsubscribeFails(r) PROVE LogTypeInv'
  <2>1. rest' \in [Report -> Nat] /\ Plus(bounces, r) \in [Report -> Nat] /\ Plus(failed, r) \in [Report -> Nat]
    BY <1>6, <1>7, BagFacts DEF UpdateLine, LineFails, UnsubscribeFails
  <2>2. CASE UpdateLine(r)
    BY <2>1, <2>2 DEF UpdateLine, NextLine
  <2>3. CASE LineFails(r)
    BY <2>1, <2>3 DEF LineFails, NextLine
  <2>4. CASE UnsubscribeFails(r)
    BY <2>1, <2>4 DEF UnsubscribeFails, NextLine
  <2> QED BY <1>7, <2>2, <2>3, <2>4
<1>8. ASSUME NEW r \in Report, NEW imported \in BOOLEAN, SaveFails(r, imported) PROVE LogTypeInv'
  <2>1. rest' \in [Report -> Nat] /\ Plus(bounces, r) \in [Report -> Nat]
    BY <1>6, <1>8, BagFacts DEF SaveFails
  <2> QED BY <1>8, <2>1 DEF SaveFails, NextLine
<1> QED
  BY <1>1, <1>2, <1>3, <1>4, <1>5, <1>7, <1>8 DEF UpdateAct, UpdateStep

\* Every step is one of the mail log, of the scanner, or of update.
LEMMA LogSteps ==
    LogNext <=> \/ Deliver \/ Rotate \/ Reopened
                \/ ScannerStep \/ ScanDrop \/ ScanStop \/ ScanKill
                \/ UpdateAct
  BY DEF LogNext, UpdateAct

\* A step that changes nothing keeps LogTypeInv.
LEMMA LogTypeStutter == LogTypeInv /\ UNCHANGED logVars => LogTypeInv'
  BY DEF LogTypeInv, LogTypeOK, PosInv, AtHand, LogOpen, logVars, mailLogVars, scannerVars,
         updateVars, logHistoryVars

\* LogTypeInv is an invariant.
LEMMA LogTypeInvariant == LogSafety => []LogTypeInv
<1>1. LogTypeInv /\ [LogNext]_logVars => LogTypeInv'
  BY LogSteps, LogTypeMailLog, LogTypeScanner, LogTypeUpdate, LogTypeStutter
<1> QED BY <1>1, LogTypeInit, PTL DEF LogSafety

\* Positions are places in a mail log, or the two marks of an info file without one, and
\* files are bags of reports, for any mail logs and any Checkpoint.
THEOREM LogTypeCorrect == LogSafety => []LogTypeOK
<1>1. LogTypeInv => LogTypeOK
  BY DEF LogTypeInv
<1> QED BY <1>1, LogTypeInvariant, PTL

----------------------------------------------------------------------------
(* No report is skipped                                                    *)

\* It was written to its mail log.
Logged(r) == r[2] <= logLen[r[1]]

\* It was handed on, or there is a cause for its loss, or it is at hand.
Handled(r) == appended[r] > 0 \/ r \in excused \/ (AtHand /\ r = Line)

(* What the scanner has read is handled, and so is what the saved position *)
(* says it has read; when a rotated mail log is closed, what is unread in  *)
(* it has a cause.  The rest is ahead.                                     *)
Followed(r) ==
    /\ r[1] = fd.file /\ r[2] <= fd.pos => Handled(r)
    /\ r[1] = info.file /\ r[2] <= info.pos => Handled(r)
    /\ Logged(r) => Handled(r) \/ Ahead(r)
    /\ scanner \in {"close", "stop"} /\ fd.file # logPath /\ Logged(r) =>
          (r[1] = fd.file /\ r[2] > fd.pos => r \in excused)

FollowInv == \A r \in Report : Followed(r)

\* FollowInv holds in the initial state.
LEMMA FollowInit == LogInit => FollowInv
<1> SUFFICES ASSUME LogInit, NEW r \in Report PROVE Followed(r)
  BY DEF FollowInv
<1>1. r[1] \in MailLog /\ r[1] # 0 /\ r[2] \in Nat /\ 1 <= r[2]
  BY ReportPlaces, Bounds
<1>2. ~Logged(r)
  BY <1>1 DEF LogInit, Logged
<1> QED
  BY <1>1, <1>2 DEF LogInit, NoInfo, Followed

\* The reports the scanner has not read.
LEMMA UnreadReports ==
    ASSUME LogTypeInv, NEW f \in MailLog
    PROVE  /\ Unread(f) \subseteq Report
           /\ \A r \in Report : r \in Unread(f) <=>
                 Logged(r) /\ r[1] = f /\ (f = fd.file => r[2] > fd.pos)
<1>1. logLen[f] \in Nat /\ logLen[f] <= MaxLines[f] /\ MaxLines[f] \in Nat /\ fd.pos \in Nat
  BY Bounds DEF LogTypeInv, LogTypeOK, PosInv, Position
<1>2. \A i \in Nat : <<f, i>> \in Unread(f) <=> 1 <= i /\ i <= logLen[f] /\ (f = fd.file => i > fd.pos)
  BY <1>1 DEF Unread
<1>3. \A x \in Unread(f) : \E i \in Nat : x = <<f, i>>
  BY <1>1 DEF Unread
<1>4. Unread(f) \subseteq Report
  BY <1>1, <1>2, <1>3, ReportPlaces
<1>5. ASSUME NEW r \in Report
      PROVE r \in Unread(f) <=> Logged(r) /\ r[1] = f /\ (f = fd.file => r[2] > fd.pos)
  BY <1>2, <1>3, ReportPlaces DEF Logged
<1> QED BY <1>4, <1>5

\* The steps of the mail log keep FollowInv: what is written to a mail log, or is still
\* in one that is rotated, will be read, or it is given up.
LEMMA FollowMailLog == LogTypeInv /\ FollowInv /\ (Deliver \/ Rotate \/ Reopened) => FollowInv'
<1> SUFFICES ASSUME LogTypeInv, FollowInv, Deliver \/ Rotate \/ Reopened, NEW r \in Report
             PROVE  Followed(r)'
  BY DEF FollowInv
<1>1. r = <<r[1], r[2]>> /\ r[1] \in MailLog /\ r[1] \in Nat /\ r[2] \in Nat /\ 1 <= r[2]
  BY ReportPlaces, Bounds
<1>2. /\ UNCHANGED <<scanner, fd, info, appended>>
      /\ excused \subseteq excused'
  BY DEF Deliver, Rotate, Reopened, scannerVars, logHistoryVars
<1>3. Handled(r) => Handled(r)'
  BY <1>2 DEF Handled, AtHand, Line
<1>4. Followed(r)
  BY DEF FollowInv
<1>5. r \in Unread(logPath) <=> Logged(r) /\ r[1] = logPath /\ (logPath = fd.file => r[2] > fd.pos)
  BY UnreadReports DEF LogTypeInv, LogTypeOK
<1> USE DEF LogTypeInv, LogTypeOK, PosInv, Position, NoInfo, Torn, Ahead, Blind, LogOpen, Following, SavedPos,
            Followed, Logged
<1>6. CASE Deliver
  <2>1. logPath' = logPath /\ logLen' = [logLen EXCEPT ![logTo] = logLen[logTo] + 1]
    BY <1>6 DEF Deliver
  <2>2. CASE Logged(r) \/ ~Logged(r)'
    BY <1>1, <1>2, <1>3, <1>4, <2>1, <2>2, Bounds
  <2>3. CASE ~Logged(r) /\ Logged(r)'
    <3>1. r[1] = logTo /\ r[2] = logLen[logTo] + 1
      BY <1>1, <2>1, <2>3
    <3>2. \/ r \in excused'
          \/ logTo = logPath
          \/ Following /\ fd.file = logTo
      BY <1>1, <1>6, <3>1 DEF Deliver
    <3> QED BY <1>1, <1>2, <1>3, <1>4, <2>1, <3>1, <3>2, Bounds DEF Handled
  <2> QED BY <2>2, <2>3
<1>7. CASE Rotate
  <2>1. logPath' = logPath + 1 /\ logLen' = logLen
    BY <1>7 DEF Rotate
  <2>2. Logged(r) => r[1] <= logPath
    BY <1>1, Bounds
  <2>3. Logged(r) /\ r[1] = logPath /\ (fd.file = logPath => r[2] > fd.pos) =>
          r \in excused' \/ (Following /\ fd.file = logPath)
    BY <1>5, <1>7 DEF Rotate
  <2>4. CASE Handled(r)
    <3>1. Handled(r)'
      BY <1>3, <2>4
    <3> QED BY <1>1, <1>2, <1>4, <1>5, <1>7, <2>1, <2>3, <3>1
  <2>5. CASE ~Handled(r)
    <3>1. ~(r[1] = fd.file /\ r[2] <= fd.pos) /\ ~(r[1] = info.file /\ r[2] <= info.pos)
      BY <1>4, <2>5
    <3>2. Logged(r) /\ r[1] = logPath => r \in excused' \/ (Following /\ fd.file = logPath)
      BY <1>1, <2>3, <3>1
    <3> QED BY <1>1, <1>2, <1>4, <2>1, <2>2, <2>3, <2>5, <3>1, <3>2 DEF Handled
  <2> QED BY <2>4, <2>5
<1>8. CASE Reopened
  BY <1>2, <1>3, <1>4, <1>8 DEF Reopened
<1> QED BY <1>6, <1>7, <1>8

\* The steps of the scanner keep FollowInv: it goes through a mail log line by line, and
\* takes it up where the saved position says, or at its beginning.
LEMMA FollowScanner ==
    LogTypeInv /\ FollowInv /\ (ScannerStep \/ ScanDrop \/ ScanStop \/ ScanKill) => FollowInv'
<1> SUFFICES ASSUME LogTypeInv, FollowInv, ScannerStep \/ ScanDrop \/ ScanStop \/ ScanKill,
                    NEW r \in Report
             PROVE  Followed(r)'
  BY DEF FollowInv
<1>1. r = <<r[1], r[2]>> /\ r[1] \in MailLog /\ r[1] \in Nat /\ r[2] \in Nat /\ 1 <= r[2]
  BY ReportPlaces, Bounds
<1>2. Followed(r) /\ logLen' = logLen /\ logPath' = logPath
  BY DEF FollowInv, ScannerStep, ScanStart, ScanOpen, ScanRead, ScanClose, ScanSaved, ScanAppend,
         ScanWrite, ScanDrop, ScanStop, ScanKill, AllButScannerUnchanged, mailLogVars
<1>3. r \in Unread(fd.file) <=> Logged(r) /\ r[1] = fd.file /\ r[2] > fd.pos
  BY UnreadReports DEF LogTypeInv, LogTypeOK, Position
<1> USE <1>1, <1>2, Bounds
    DEF LogTypeInv, LogTypeOK, PosInv, Position, NoInfo, Torn, Ahead, Blind, LogOpen, SavedPos,
        Followed, Logged, Handled, AtHand, Line, logHistoryVars
<1>4. CASE ScanStart
  BY <1>4 DEF ScanStart
<1>13. CASE ScanStop
  <2>1. CASE scanner = "closed"
    BY <1>13, <2>1 DEF ScanStop
  <2>2. CASE scanner = "read"
    <3>1. scanner' = "stop" /\ info' = Torn /\ UNCHANGED <<fd, appended>> /\ excused \subseteq excused'
      BY <1>13, <2>2 DEF ScanStop
    <3>2. fd.file # logPath /\ Logged(r) /\ r[1] = fd.file /\ r[2] > fd.pos => r \in excused'
      BY <1>3, <1>13, <2>2 DEF ScanStop
    <3> QED BY <2>2, <3>1, <3>2
  <2> QED BY <1>13, <2>1, <2>2 DEF ScanStop
<1>5. CASE ScanOpen
  BY <1>5 DEF ScanOpen
<1>6. CASE ScanRead
  BY <1>6 DEF ScanRead
<1>7. CASE ScanClose
  BY <1>7 DEF ScanClose
<1>8. CASE ScanSaved
  BY <1>8 DEF ScanSaved
<1>9. CASE ScanAppend
  BY <1>9 DEF ScanAppend
<1>10. CASE ScanWrite
  <2>1. appended' = Plus(appended, Line)
    BY <1>10 DEF ScanWrite
  <2>2. appended'[r] = IF r = Line THEN appended[r] + 1 ELSE appended[r]
    BY <2>1 DEF Plus
  <2> QED BY <1>10, <2>2 DEF ScanWrite
<1>11. CASE ScanDrop
  BY <1>11 DEF ScanDrop
<1>12. CASE ScanKill
  <2>1. scanner' = "down" /\ UNCHANGED <<fd, info, appended>> /\ excused \subseteq excused'
    BY <1>12 DEF ScanKill
  <2>2. AtHand /\ r = Line => r \in excused'
    BY <1>12 DEF ScanKill
  <2>3. LogOpen /\ fd.file # logPath /\ Logged(r) /\ r[1] = fd.file /\ r[2] > fd.pos => r \in excused'
    BY <1>3, <1>12 DEF ScanKill
  <2> QED BY <2>1, <2>2, <2>3
<1> QED
  BY <1>4, <1>5, <1>6, <1>7, <1>8, <1>9, <1>10, <1>11, <1>12, <1>13 DEF ScannerStep

\* The steps of update keep FollowInv: nothing the scanner goes by is theirs.
LEMMA FollowUpdate == LogTypeInv /\ FollowInv /\ UpdateAct => FollowInv'
<1> SUFFICES ASSUME LogTypeInv, FollowInv, UpdateAct, NEW r \in Report PROVE Followed(r)'
  BY DEF FollowInv
<1>1. UNCHANGED <<mailLogVars, scannerVars, appended>> /\ excused \subseteq excused'
  BY DEF UpdateAct, UpdateStep, UpdateStart, RenameToTemp, ReadLines, RemoveFile, OpenFails, UpdateKill,
         UpdateLine, LineFails, UnsubscribeFails, SaveFails, NextLine, AllButUpdateUnchanged, logHistoryVars
<1> QED
  BY <1>1 DEF FollowInv, Followed, Handled, Ahead, Blind, LogOpen, SavedPos, Logged, AtHand, Line,
              mailLogVars, scannerVars

\* FollowInv is an invariant.
LEMMA FollowInvariant == LogSafety => []FollowInv
<1>1. FollowInv /\ UNCHANGED logVars => FollowInv'
  BY DEF FollowInv, Followed, Handled, Ahead, Blind, LogOpen, SavedPos, Logged, AtHand, Line,
         logVars, mailLogVars, scannerVars, logHistoryVars
<1>2. LogTypeInv /\ FollowInv /\ [LogNext]_logVars => FollowInv'
  BY <1>1, LogSteps, FollowMailLog, FollowScanner, FollowUpdate
<1> QED BY <1>2, FollowInit, LogTypeInvariant, PTL DEF LogSafety

\* No line of the mail log is skipped, however its rotation, the scanner, its saved
\* position and its kills are interleaved, for any number of mail logs and lines.
THEOREM NoReportSkipped == LogSafety => []LinesFollowed
<1>1. FollowInv => LinesFollowed
  BY DEF FollowInv, Followed, LinesFollowed, Delivered, Logged, Handled, AtHand, Line, Ahead
<1> QED BY <1>1, FollowInvariant, PTL

----------------------------------------------------------------------------
(* None is repeated but by a kill                                          *)

\* A report the scanner will read with the position it has, or will start from, or
\* that it has at hand.
Coming(r) ==
    IF LogOpen
    THEN \/ r[1] > fd.file
         \/ r[1] = fd.file /\ r[2] > fd.pos
         \/ AtHand /\ r = Line
    ELSE \/ r[1] > info.file
         \/ r[1] = info.file /\ r[2] > info.pos

Repeated(r) ==
    /\ appended[r] <= 1 + scanKills
    /\ Coming(r) => appended[r] <= scanKills

RepeatInv == \A r \in Report : Repeated(r)

\* RepeatInv holds in the initial state.
LEMMA RepeatInit == LogInit => RepeatInv
  BY BagFacts DEF LogInit, RepeatInv, Repeated

\* The steps of the scanner keep RepeatInv: a line that may have been handed on is read
\* again only after a kill.
LEMMA RepeatScanner ==
    LogTypeInv /\ RepeatInv /\ (ScannerStep \/ ScanDrop \/ ScanStop \/ ScanKill) => RepeatInv'
<1> SUFFICES ASSUME LogTypeInv, RepeatInv, ScannerStep \/ ScanDrop \/ ScanStop \/ ScanKill,
                    NEW r \in Report
             PROVE  Repeated(r)'
  BY DEF RepeatInv
<1>1. r = <<r[1], r[2]>> /\ r[1] \in MailLog /\ r[1] \in Nat /\ r[2] \in Nat /\ 1 <= r[2]
  BY ReportPlaces, Bounds
<1>2. Repeated(r) /\ appended[r] \in Nat /\ scanKills \in Nat
  BY Bounds DEF RepeatInv, LogTypeInv, LogTypeOK
<1> USE <1>1, <1>2, Bounds
    DEF LogTypeInv, LogTypeOK, PosInv, Position, NoInfo, Torn, LogOpen, SavedPos,
        Repeated, Coming, AtHand, Line, logHistoryVars
<1>3. CASE ScanStart \/ ScanStop
  BY <1>3 DEF ScanStart, ScanStop
<1>4. CASE ScanOpen
  BY <1>4 DEF ScanOpen, AllButScannerUnchanged, mailLogVars
<1>5. CASE ScanRead
  BY <1>5 DEF ScanRead
<1>6. CASE ScanClose
  BY <1>6 DEF ScanClose
<1>7. CASE ScanSaved
  BY <1>7 DEF ScanSaved
<1>8. CASE ScanAppend
  BY <1>8 DEF ScanAppend
<1>9. CASE ScanWrite
  <2>1. appended' = Plus(appended, Line)
    BY <1>9 DEF ScanWrite
  <2>2. appended'[r] = IF r = Line THEN appended[r] + 1 ELSE appended[r]
    BY <2>1 DEF Plus
  <2> QED BY <1>9, <2>2 DEF ScanWrite
<1>10. CASE ScanDrop
  BY <1>10 DEF ScanDrop
<1>11. CASE ScanKill
  BY <1>11 DEF ScanKill
<1> QED
  BY <1>3, <1>4, <1>5, <1>6, <1>7, <1>8, <1>9, <1>10, <1>11 DEF ScannerStep

\* RepeatInv is an invariant.
LEMMA RepeatInvariant == LogSafety => []RepeatInv
<1>1. Deliver \/ Rotate \/ Reopened \/ UpdateAct \/ UNCHANGED logVars =>
        UNCHANGED <<scanner, fd, info, appended, scanKills>>
  BY DEF Deliver, Rotate, Reopened, UpdateAct, UpdateStep, UpdateStart, RenameToTemp, ReadLines, RemoveFile,
         OpenFails, UpdateKill, UpdateLine, LineFails, UnsubscribeFails, SaveFails, NextLine,
         AllButUpdateUnchanged, scannerVars, logHistoryVars, logVars
<1>2. RepeatInv /\ UNCHANGED <<scanner, fd, info, appended, scanKills>> => RepeatInv'
  BY DEF RepeatInv, Repeated, Coming, LogOpen, AtHand, Line
<1>3. LogTypeInv /\ RepeatInv /\ [LogNext]_logVars => RepeatInv'
  BY <1>1, <1>2, LogSteps, RepeatScanner
<1> QED BY <1>3, RepeatInit, LogTypeInvariant, PTL DEF LogSafety

----------------------------------------------------------------------------
(* No more rows than lines                                                 *)

\* The lines of the renamed file that are not yet rows.
Waiting(r) == IF update = "import" THEN rest[r] ELSE temp[r]

(* A line that was written is in extbounce.log, in the renamed file or in  *)
(* the table, and in one of them only.                                     *)
RowInv ==
    /\ \A r \in Report : ext[r] + Waiting(r) + bounces[r] <= appended[r]
    /\ update \in {"down", "idle"} => temp = NoReports

\* RowInv holds in the initial state.
LEMMA RowInit == LogInit => RowInv
  BY BagFacts DEF LogInit, RowInv, Waiting

\* What a step of update does to the lines.
LEMMA RowUpdate == LogTypeInv /\ RowInv /\ UpdateAct => RowInv'
<1> SUFFICES ASSUME LogTypeInv, RowInv, UpdateAct PROVE RowInv'
  OBVIOUS
<1>1. \A r \in Report : /\ ext[r] \in Nat /\ temp[r] \in Nat /\ rest[r] \in Nat
                        /\ bounces[r] \in Nat /\ appended[r] \in Nat
  BY DEF LogTypeInv, LogTypeOK
<1> USE <1>1 DEF RowInv, Waiting, logHistoryVars, WriterNow
<1>2. \A r \in Report : NoReports[r] = 0
  BY BagFacts
<1>3. CASE UpdateStart \/ RemoveFile
  BY <1>2, <1>3 DEF UpdateStart, RemoveFile
<1>4. CASE RenameToTemp
  BY <1>2, <1>4 DEF RenameToTemp
<1>5. CASE ReadLines
  BY <1>5 DEF ReadLines
<1>6. CASE OpenFails \/ UpdateKill
  BY <1>2, <1>6 DEF OpenFails, UpdateKill
<1>7. ASSUME NEW q \in Report, NextLine(q), bounces' = bounces \/ bounces' = Plus(bounces, q)
      PROVE  RowInv'
  <2>1. update = "import" /\ update' = "import" /\ ext' = ext /\ appended' = appended
    BY <1>7 DEF NextLine
  <2>2. ASSUME NEW r \in Report PROVE rest'[r] + bounces'[r] <= rest[r] + bounces[r]
    <3>1. rest'[r] = IF r = q THEN rest[q] - 1 ELSE rest[r]
      BY <1>7 DEF NextLine, LogTypeInv, LogTypeOK
    <3>2. bounces'[r] = bounces[r] \/ bounces'[r] = IF r = q THEN bounces[q] + 1 ELSE bounces[r]
      BY <1>7 DEF Plus, LogTypeInv, LogTypeOK
    <3>3. r = q => rest[q] > 0
      BY <1>7 DEF NextLine
    <3> QED BY <3>1, <3>2, <3>3
  <2>3. ASSUME NEW r \in Report PROVE rest'[r] \in Nat /\ bounces'[r] \in Nat
    BY <1>7 DEF NextLine, Plus, LogTypeInv, LogTypeOK
  <2> QED BY <2>1, <2>2, <2>3
<1>8. ASSUME NEW q \in Report,
             UpdateLine(q) \/ LineFails(q) \/ UnsubscribeFails(q)
             \/ \E imported \in BOOLEAN : SaveFails(q, imported)
      PROVE  RowInv'
  BY <1>7, <1>8 DEF UpdateLine, LineFails, UnsubscribeFails, SaveFails
<1> QED BY <1>3, <1>4, <1>5, <1>6, <1>8 DEF UpdateAct, UpdateStep

\* What a step of the scanner does to the lines.
LEMMA RowScanner ==
    LogTypeInv /\ RowInv /\ (ScannerStep \/ ScanDrop \/ ScanStop \/ ScanKill) => RowInv'
<1> SUFFICES ASSUME LogTypeInv, RowInv, ScannerStep \/ ScanDrop \/ ScanStop \/ ScanKill PROVE RowInv'
  OBVIOUS
<1> USE DEF RowInv, Waiting
<1>1. CASE ScanWrite
  <2>1. UNCHANGED <<update, rest, bounces>>
    BY <1>1 DEF ScanWrite, updateVars
  <2>2. handle = "temp" => update = "sleep"
    BY DEF LogTypeInv, PosInv
  <2>3. ASSUME NEW r \in Report PROVE ext'[r] + Waiting(r)' + bounces'[r] <= appended'[r]
    <3>1. /\ ext[r] \in Nat /\ temp[r] \in Nat /\ rest[r] \in Nat /\ bounces[r] \in Nat
          /\ appended[r] \in Nat
      BY DEF LogTypeInv, LogTypeOK
    <3>2. /\ appended'[r] = IF r = Line THEN appended[r] + 1 ELSE appended[r]
          /\ ext'[r] = IF handle = "path" /\ r = Line THEN ext[r] + 1 ELSE ext[r]
          /\ temp'[r] = IF handle = "temp" /\ r = Line THEN temp[r] + 1 ELSE temp[r]
      BY <1>1 DEF ScanWrite, Plus, Line, LogTypeInv, LogTypeOK
    <3> QED BY <2>1, <2>2, <3>1, <3>2
  <2>4. update \in {"down", "idle"} => temp' = temp
    BY <1>1, <2>2 DEF ScanWrite
  <2> QED BY <2>1, <2>3, <2>4
<1>2. CASE ScanStart \/ ScanOpen \/ ScanRead \/ ScanClose \/ ScanSaved \/ ScanAppend
           \/ ScanDrop \/ ScanStop \/ ScanKill
  BY <1>2 DEF ScanStart, ScanOpen, ScanRead, ScanClose, ScanSaved, ScanAppend, ScanDrop, ScanStop, ScanKill,
              AllButScannerUnchanged, updateVars, logHistoryVars
<1> QED BY <1>1, <1>2 DEF ScannerStep

\* RowInv is an invariant.
LEMMA RowInvariant == LogSafety => []RowInv
<1>1. RowInv /\ (Deliver \/ Rotate \/ Reopened \/ UNCHANGED logVars) => RowInv'
  BY DEF RowInv, Waiting, Deliver, Rotate, Reopened, logVars, updateVars, logHistoryVars
<1>2. LogTypeInv /\ RowInv /\ [LogNext]_logVars => RowInv'
  BY <1>1, LogSteps, RowScanner, RowUpdate
<1> QED BY <1>2, RowInit, LogTypeInvariant, PTL DEF LogSafety

\* A report is handed on once, and once more for every kill of the scanner; and no line
\* of extbounce.log becomes two rows, whoever holds the file open when it is renamed.
THEOREM ReportCountedOnce == LogSafety => []CountedOnce
<1>1. LogTypeInv /\ RepeatInv /\ RowInv => CountedOnce
  <2> SUFFICES ASSUME LogTypeInv, RepeatInv, RowInv, NEW r \in Report
               PROVE  appended[r] <= 1 + scanKills /\ bounces[r] <= appended[r]
    BY DEF CountedOnce
  <2>1. /\ ext[r] \in Nat /\ temp[r] \in Nat /\ rest[r] \in Nat /\ bounces[r] \in Nat
        /\ appended[r] \in Nat
    BY DEF LogTypeInv, LogTypeOK
  <2> QED BY <2>1 DEF RepeatInv, Repeated, RowInv, Waiting
<1> QED BY <1>1, LogTypeInvariant, RepeatInvariant, RowInvariant, PTL

----------------------------------------------------------------------------
(* None is lost between extbounce.log and the table                        *)

\* A report that was written is in a file, in the table or in extbounce.fail, or there is a
\* cause for its loss.
Somewhere(r) ==
    appended[r] > 0 => r \in excused \/ ext[r] + temp[r] + left[r] + bounces[r] + failed[r] > 0

(* A line that was read from the renamed file waits for its turn, or has   *)
(* left a row or a line in extbounce.fail, or the file will be left.       *)
Kept(r) ==
    /\ Somewhere(r)
    /\ update = "import" /\ temp[r] > 0 => rest[r] > 0 \/ bounces[r] + failed[r] > 0 \/ keep

KeptInv ==
    /\ \A r \in Report : Kept(r)
    /\ handle = "late" => Line \in excused

\* KeptInv holds in the initial state.
LEMMA KeptInit == LogInit => KeptInv
  BY BagFacts DEF LogInit, KeptInv, Kept, Somewhere

\* The steps of update keep KeptInv: the renamed file is removed when every line of it has
\* left a trace.
LEMMA KeptUpdate == LogTypeInv /\ RowInv /\ KeptInv /\ UpdateAct => KeptInv'
<1> SUFFICES ASSUME LogTypeInv, RowInv, KeptInv, UpdateAct PROVE KeptInv'
  OBVIOUS
<1>1. (handle = "late" => Line \in excused)'
  BY DEF KeptInv, Line, UpdateAct, UpdateStep, UpdateStart, RenameToTemp, ReadLines, SleptLongEnough, RemoveFile,
         OpenFails, UpdateKill, WriterNow, UpdateLine, LineFails, UnsubscribeFails, SaveFails, NextLine,
         AllButUpdateUnchanged, scannerVars, logHistoryVars
<1> SUFFICES ASSUME NEW r \in Report PROVE Kept(r)'
  BY <1>1 DEF KeptInv
<1>2. Kept(r)
  BY DEF KeptInv
<1>3. /\ ext[r] \in Nat /\ temp[r] \in Nat /\ rest[r] \in Nat /\ bounces[r] \in Nat
      /\ failed[r] \in Nat /\ left[r] \in Nat /\ appended[r] \in Nat
  BY DEF LogTypeInv, LogTypeOK
<1>4. NoReports[r] = 0 /\ (left (+) temp)[r] = left[r] + temp[r]
  BY DEF NoReports, (+)
<1> USE <1>2, <1>3, <1>4 DEF Kept, Somewhere, logHistoryVars
<1>5. CASE UpdateStart
  BY <1>5 DEF UpdateStart
<1>6. CASE RenameToTemp
  <2>1. temp[r] = 0
    BY <1>6 DEF RenameToTemp, RowInv
  <2> QED BY <1>6, <2>1 DEF RenameToTemp
<1>7. CASE ReadLines
  BY <1>7 DEF ReadLines
<1>8. CASE RemoveFile
  BY <1>8 DEF RemoveFile
<1>9. CASE OpenFails \/ UpdateKill
  BY <1>9 DEF OpenFails, UpdateKill
<1>10. ASSUME NEW q \in Report, NextLine(q),
              \/ bounces' = Plus(bounces, q) /\ failed' = failed /\ keep' = keep
              \/ bounces' = bounces /\ failed' = Plus(failed, q) /\ keep' = keep
              \/ bounces' = Plus(bounces, q) /\ failed' = Plus(failed, q) /\ keep' = keep
              \/ bounces' \in {bounces, Plus(bounces, q)} /\ failed' = failed /\ keep' = TRUE
       PROVE  Kept(r)'
  <2>1. /\ Plus(bounces, q)[r] = IF r = q THEN bounces[r] + 1 ELSE bounces[r]
        /\ Plus(failed, q)[r] = IF r = q THEN failed[r] + 1 ELSE failed[r]
    BY BagFacts DEF LogTypeInv, LogTypeOK
  <2>2. r # q => rest'[r] = rest[r]
    BY <1>10 DEF NextLine, LogTypeInv, LogTypeOK
  <2>3. UNCHANGED <<ext, temp, left, update, appended, excused>>
    BY <1>10 DEF NextLine
  <2> QED BY <1>10, <2>1, <2>2, <2>3
<1>11. ASSUME NEW q \in Report,
              UpdateLine(q) \/ LineFails(q) \/ UnsubscribeFails(q)
              \/ \E imported \in BOOLEAN : SaveFails(q, imported)
       PROVE  Kept(r)'
  BY <1>10, <1>11 DEF UpdateLine, LineFails, UnsubscribeFails, SaveFails
<1> QED BY <1>5, <1>6, <1>7, <1>8, <1>9, <1>11 DEF UpdateAct, UpdateStep

\* The steps of the scanner keep KeptInv: it writes to the file it has open, and who comes
\* too late is excused.
LEMMA KeptScanner ==
    LogTypeInv /\ KeptInv /\ (ScannerStep \/ ScanDrop \/ ScanStop \/ ScanKill) => KeptInv'
<1> SUFFICES ASSUME LogTypeInv, KeptInv, ScannerStep \/ ScanDrop \/ ScanStop \/ ScanKill PROVE KeptInv'
  OBVIOUS
<1>1. handle # "none" <=> scanner = "append"
  BY DEF LogTypeInv, PosInv
<1>2. CASE ScanWrite
  <2>1. handle' = "none" /\ UNCHANGED <<update, rest, keep, bounces, failed, excused>>
    BY <1>2 DEF ScanWrite, updateVars
  <2>2. handle \in {"path", "temp", "left", "late"} /\ (handle = "temp" => update = "sleep")
    BY <1>1, <1>2 DEF ScanWrite, LogTypeInv, LogTypeOK, PosInv
  <2>3. ASSUME NEW r \in Report PROVE Kept(r)'
    <3>1. /\ ext[r] \in Nat /\ temp[r] \in Nat /\ rest[r] \in Nat /\ bounces[r] \in Nat
          /\ failed[r] \in Nat /\ left[r] \in Nat /\ appended[r] \in Nat
      BY DEF LogTypeInv, LogTypeOK
    <3>2. /\ appended'[r] = IF r = Line THEN appended[r] + 1 ELSE appended[r]
          /\ ext'[r] = IF handle = "path" /\ r = Line THEN ext[r] + 1 ELSE ext[r]
          /\ temp'[r] = IF handle = "temp" /\ r = Line THEN temp[r] + 1 ELSE temp[r]
          /\ left'[r] = IF handle = "left" /\ r = Line THEN left[r] + 1 ELSE left[r]
      BY <1>2 DEF ScanWrite, Plus, Line, LogTypeInv, LogTypeOK
    <3>3. Kept(r) /\ (handle = "late" => Line \in excused)
      BY DEF KeptInv
    <3> QED BY <2>1, <2>2, <3>1, <3>2, <3>3 DEF Kept, Somewhere
  <2> QED BY <2>1, <2>3 DEF KeptInv
<1>3. CASE ScanStart \/ ScanOpen \/ ScanRead \/ ScanClose \/ ScanSaved \/ ScanAppend
           \/ ScanDrop \/ ScanStop \/ ScanKill
  <2>1. /\ UNCHANGED <<ext, temp, left, update, rest, keep, bounces, failed, appended>>
        /\ excused \subseteq excused'
    BY <1>3 DEF ScanStart, ScanOpen, ScanRead, ScanClose, ScanSaved, ScanAppend, ScanDrop, ScanStop, ScanKill,
                AllButScannerUnchanged, updateVars, logHistoryVars
  <2>2. (handle = "late" => Line \in excused)'
    BY <1>1, <1>3 DEF KeptInv, Line, logHistoryVars,
       ScanStart, ScanOpen, ScanRead, ScanClose, ScanSaved, ScanAppend, ScanDrop, ScanStop, ScanKill
  <2> QED BY <2>1, <2>2 DEF KeptInv, Kept, Somewhere
<1> QED BY <1>2, <1>3 DEF ScannerStep

\* KeptInv is an invariant.
LEMMA KeptInvariant == LogSafety => []KeptInv
<1>1. KeptInv /\ (Deliver \/ Rotate \/ Reopened \/ UNCHANGED logVars) => KeptInv'
  BY DEF KeptInv, Kept, Somewhere, Line, Deliver, Rotate, Reopened, logVars, scannerVars, updateVars,
         logHistoryVars
<1>2. LogTypeInv /\ RowInv /\ KeptInv /\ [LogNext]_logVars => KeptInv'
  BY <1>1, LogSteps, KeptScanner, KeptUpdate
<1> QED BY <1>2, KeptInit, LogTypeInvariant, RowInvariant, PTL DEF LogSafety

\* What the scanner has written to extbounce.log is in one of the files, in the table or in
\* extbounce.fail, through renames, failures and kills, but for who wrote too late.
THEOREM ReportKept == LogSafety => []ReportsKept
<1>1. KeptInv => ReportsKept
  BY DEF KeptInv, Kept, Somewhere, ReportsKept
<1> QED BY <1>1, KeptInvariant, PTL

----------------------------------------------------------------------------
(* Process lock: types, and the tries a process has made where it is.      *)

TriesInv ==
    \A p \in Starters :
        /\ lpc[p] = "off" => tries[p] = 0
        /\ lpc[p] = "create" => tries[p] \in 0 .. 1
        /\ lpc[p] \in {"read", "check", "unlink", "write"} => tries[p] \in 1 .. 2

LockTypeInv == LockTypeOK /\ TriesInv

\* The types hold in the initial state.
LEMMA LockTypeInit == LockInit => LockTypeInv
<1> SUFFICES ASSUME LockInit PROVE LockTypeInv
  OBVIOUS
<1>1. lpc \in [Starters -> {"off"}] /\ tries \in [Starters -> {0}] /\ seen \in [Starters -> {NoFile}]
  BY DEF LockInit
<1>2. TriesInv
  BY <1>1 DEF TriesInv
<1>3. together \in BOOLEAN
  BY DEF LockInit
<1>4. lpc \in [Starters -> Trying \cup {"off", "hold", "gaveUp", "released", "dead"}]
  BY <1>1
<1>5. tries \in [Starters -> 0 .. 3]
  BY <1>1
<1>6. seen \in [Starters -> Starters \cup {NoFile}]
  BY <1>1
<1> QED
  BY <1>2, <1>3, <1>4, <1>5, <1>6 DEF LockInit, LockTypeInv, LockTypeOK

\* No process is the number that stands for no file.
LEMMA NoFileNoStarter == NoFile \notin Starters
  BY LockAssumption DEF NoFile, Starters

\* Every step keeps the types and the tries.
LEMMA LockTypeStep == LockTypeInv /\ [LockNext]_lockVars => LockTypeInv'
<1> SUFFICES ASSUME LockTypeInv, [LockNext]_lockVars PROVE LockTypeInv'
  OBVIOUS
<1> USE NoFileNoStarter DEF LockTypeInv, LockTypeOK, TriesInv, Trying, LockGoto, lockHistoryVars
<1>1. CASE UNCHANGED lockVars
  BY <1>1 DEF lockVars
<1>2. ASSUME NEW p \in Starters, StartProcess(p) PROVE LockTypeInv'
  BY <1>2 DEF StartProcess
<1>3. ASSUME NEW p \in Starters, Create(p) PROVE LockTypeInv'
  BY <1>3 DEF Create
<1>4. ASSUME NEW p \in Starters, WritePid(p) PROVE LockTypeInv'
  BY <1>4 DEF WritePid
<1>5. ASSUME NEW p \in Starters, ReadPid(p) PROVE LockTypeInv'
  BY <1>5 DEF ReadPid, TryAgain
<1>6. ASSUME NEW p \in Starters, CheckOwner(p) PROVE LockTypeInv'
  BY <1>6 DEF CheckOwner, TryAgain
<1>7. ASSUME NEW p \in Starters, RemoveStale(p) PROVE LockTypeInv'
  BY <1>7 DEF RemoveStale, TryAgain, Rob
<1>8. ASSUME NEW p \in Starters, Unlock(p) PROVE LockTypeInv'
  BY <1>8 DEF Unlock, Rob
<1>9. ASSUME NEW p \in Starters, Die(p) PROVE LockTypeInv'
  BY <1>9 DEF Die, LockActive
<1>10. ASSUME NEW p \in Starters, ReusePid(p) PROVE LockTypeInv'
  BY <1>10 DEF ReusePid
<1> QED
  BY <1>1, <1>2, <1>3, <1>4, <1>5, <1>6, <1>7, <1>8, <1>9, <1>10 DEF LockNext

\* No process asks more than three times, whatever the others do.
THEOREM LockTypeCorrect == LockSpec => []LockTypeOK
<1>1. LockTypeInv => LockTypeOK
  BY DEF LockTypeInv
<1> QED BY <1>1, LockTypeInit, LockTypeStep, PTL DEF LockSpec

----------------------------------------------------------------------------
(* Who has the file.                                                       *)

(* The file at the path belongs to somebody who created it and has not     *)
(* released it, and whoever holds the lock has it, unless he was robbed.   *)
FileInv ==
    /\ lockFile # NoFile => lpc[lockFile] \in {"write", "hold", "dead"}
    /\ \A p \in Starters : lpc[p] \in {"write", "hold"} /\ p \notin robbed => lockFile = p

(* What a process has read was written by an owner that has not come back.  *)
SeenInv ==
    \A p \in Starters :
        /\ seen[p] # NoFile => lpc[seen[p]] \in {"write", "hold", "dead", "released"}
        /\ lpc[p] \in {"check", "unlink"} => seen[p] \in written
        /\ lpc[p] = "unlink" => ~LockActive(seen[p])

LockInv == FileInv /\ SeenInv

\* FileInv and SeenInv hold in the initial state.
LEMMA LockInvInit == LockInit => LockInv
  BY DEF LockInit, LockInv, FileInv, SeenInv

\* Every step keeps FileInv: a file leaves the path with its owner, or robs him.
LEMMA FileStep == LockTypeInv /\ FileInv /\ [LockNext]_lockVars => FileInv'
<1> SUFFICES ASSUME LockTypeInv, FileInv, [LockNext]_lockVars PROVE FileInv'
  OBVIOUS
<1> USE NoFileNoStarter DEF LockTypeInv, LockTypeOK, FileInv, LockGoto, lockHistoryVars
<1>1. CASE UNCHANGED lockVars
  BY <1>1 DEF lockVars
<1>2. ASSUME NEW p \in Starters, StartProcess(p) PROVE FileInv'
  BY <1>2 DEF StartProcess
<1>3. ASSUME NEW p \in Starters, Create(p) PROVE FileInv'
  BY <1>3 DEF Create, MayCreate
<1>4. ASSUME NEW p \in Starters, WritePid(p) PROVE FileInv'
  BY <1>4 DEF WritePid
<1>5. ASSUME NEW p \in Starters, ReadPid(p) PROVE FileInv'
  BY <1>5 DEF ReadPid, TryAgain
<1>6. ASSUME NEW p \in Starters, CheckOwner(p) PROVE FileInv'
  BY <1>6 DEF CheckOwner, TryAgain
<1>7. ASSUME NEW p \in Starters, RemoveStale(p) PROVE FileInv'
  BY <1>7 DEF RemoveStale, TryAgain, Rob, LockActive, Trying
<1>8. ASSUME NEW p \in Starters, Unlock(p) PROVE FileInv'
  BY <1>8 DEF Unlock, Rob, LockActive, Trying
<1>9. ASSUME NEW p \in Starters, Die(p) PROVE FileInv'
  BY <1>9 DEF Die
<1>10. ASSUME NEW p \in Starters, ReusePid(p) PROVE FileInv'
  BY <1>10 DEF ReusePid
<1> QED
  BY <1>1, <1>2, <1>3, <1>4, <1>5, <1>6, <1>7, <1>8, <1>9, <1>10 DEF LockNext

\* Every step keeps SeenInv: a process that has ended does not come back.
LEMMA SeenStep == LockTypeInv /\ LockInv /\ [LockNext]_lockVars => SeenInv'
<1> SUFFICES ASSUME LockTypeInv, LockInv, [LockNext]_lockVars PROVE SeenInv'
  OBVIOUS
<1> USE NoFileNoStarter
    DEF LockTypeInv, LockTypeOK, LockInv, FileInv, SeenInv, LockGoto, lockHistoryVars, LockActive, Trying
<1>1. CASE UNCHANGED lockVars
  BY <1>1 DEF lockVars
<1>2. ASSUME NEW p \in Starters, StartProcess(p) PROVE SeenInv'
  BY <1>2 DEF StartProcess
<1>3. ASSUME NEW p \in Starters, Create(p) PROVE SeenInv'
  BY <1>3 DEF Create, MayCreate
<1>4. ASSUME NEW p \in Starters, WritePid(p) PROVE SeenInv'
  BY <1>4 DEF WritePid
<1>5. ASSUME NEW p \in Starters, ReadPid(p) PROVE SeenInv'
  BY <1>5 DEF ReadPid, TryAgain
<1>6. ASSUME NEW p \in Starters, CheckOwner(p) PROVE SeenInv'
  BY <1>6 DEF CheckOwner, TryAgain, OwnerRuns
<1>7. ASSUME NEW p \in Starters, RemoveStale(p) PROVE SeenInv'
  BY <1>7 DEF RemoveStale, TryAgain, Rob
<1>8. ASSUME NEW p \in Starters, Unlock(p) PROVE SeenInv'
  BY <1>8 DEF Unlock, Rob
<1>9. ASSUME NEW p \in Starters, Die(p) PROVE SeenInv'
  BY <1>9 DEF Die
<1>10. ASSUME NEW p \in Starters, ReusePid(p) PROVE SeenInv'
  BY <1>10 DEF ReusePid
<1> QED
  BY <1>1, <1>2, <1>3, <1>4, <1>5, <1>6, <1>7, <1>8, <1>9, <1>10 DEF LockNext

\* Both hold always.
LEMMA LockInvariant == LockSpec => [](LockTypeInv /\ LockInv)
<1>1. LockTypeInv /\ LockInv /\ [LockNext]_lockVars => LockInv'
  BY FileStep, SeenStep DEF LockInv
<1> QED BY <1>1, LockTypeInit, LockTypeStep, LockInvInit, PTL DEF LockSpec

\* Of the daemons that have not been robbed of their file one runs at most:
\* they would all own the one file at the path.
THEOREM OneDaemon == LockSpec => []OneHolder
<1>1. ASSUME LockInv PROVE OneHolder
  <2>1. Holders \ robbed \subseteq {lockFile}
    BY <1>1 DEF LockInv, FileInv, Holders
  <2>2. IsFiniteSet({lockFile}) /\ Cardinality({lockFile}) = 1
    BY FS_Singleton
  <2>3. Cardinality(Holders \ robbed) \in Nat /\ Cardinality(Holders \ robbed) <= 1
    BY <2>1, <2>2, FS_Subset, FS_CardinalityType
  <2> QED BY <2>3 DEF OneHolder
<1> QED BY <1>1, LockInvariant, PTL

----------------------------------------------------------------------------
(* Races.                                                                  *)

(* Without a race the one starter there is finds the file it has read about, *)
(* or none.                                                                *)
RaceInv ==
    ~together =>
        /\ robbed = {}
        /\ \A p, q \in Starters : lpc[p] \in Trying /\ lpc[q] \in Trying => p = q
        /\ \A p \in Starters : lpc[p] \in {"check", "unlink"} => lockFile \in {NoFile, seen[p]}

\* RaceInv holds in the initial state.
LEMMA RaceInit == LockInit => RaceInv
  BY DEF LockInit, RaceInv, Trying

\* Every step keeps RaceInv: the file of somebody alive is never the one that was
\* found to be stale.
LEMMA RaceStep ==
    LockTypeInv /\ LockInv /\ RaceInv /\ [LockNext]_lockVars => RaceInv'
<1> SUFFICES ASSUME LockTypeInv, LockInv, RaceInv, [LockNext]_lockVars PROVE RaceInv'
  OBVIOUS
<1> USE NoFileNoStarter
    DEF LockTypeInv, LockTypeOK, LockInv, FileInv, SeenInv, RaceInv, LockGoto, lockHistoryVars, Trying
<1>1. CASE UNCHANGED lockVars
  BY <1>1 DEF lockVars
<1>2. ASSUME NEW p \in Starters, StartProcess(p) PROVE RaceInv'
  BY <1>2 DEF StartProcess
<1>3. ASSUME NEW p \in Starters, Create(p) PROVE RaceInv'
  BY <1>3 DEF Create, MayCreate
<1>4. ASSUME NEW p \in Starters, WritePid(p) PROVE RaceInv'
  BY <1>4 DEF WritePid
<1>5. ASSUME NEW p \in Starters, ReadPid(p) PROVE RaceInv'
  BY <1>5 DEF ReadPid, TryAgain
<1>6. ASSUME NEW p \in Starters, CheckOwner(p) PROVE RaceInv'
  BY <1>6 DEF CheckOwner, TryAgain
<1>7. ASSUME NEW p \in Starters, RemoveStale(p) PROVE RaceInv'
  <2>1. ~together => robbed' = robbed
    BY <1>7 DEF RemoveStale, Rob
  <2>2. /\ UNCHANGED <<seen, together>> /\ lockFile' = NoFile
        /\ \A q \in Starters : lpc'[q] \in Trying => lpc[q] \in Trying
    BY <1>7 DEF RemoveStale, TryAgain
  <2> QED BY <2>1, <2>2
<1>8. ASSUME NEW p \in Starters, Unlock(p) PROVE RaceInv'
  BY <1>8 DEF Unlock, Rob
<1>9. ASSUME NEW p \in Starters, Die(p) PROVE RaceInv'
  BY <1>9 DEF Die
<1>10. ASSUME NEW p \in Starters, ReusePid(p) PROVE RaceInv'
  BY <1>10 DEF ReusePid
<1> QED
  BY <1>1, <1>2, <1>3, <1>4, <1>5, <1>6, <1>7, <1>8, <1>9, <1>10 DEF LockNext

\* It takes two starters at once for one to lose its file to the other.
THEOREM RobbedByRace == LockSpec => []RobbedInRaceOnly
<1>1. RaceInv => RobbedInRaceOnly
  BY DEF RaceInv, RobbedInRaceOnly
<1> QED BY <1>1, RaceInit, RaceStep, LockInvariant, PTL DEF LockSpec

----------------------------------------------------------------------------
(* A starter that is alone.                                                *)

(* Nobody is beside it; it finds a file at most once, of an owner that is  *)
(* dead, and when it has removed this file it creates its own.             *)
Undisturbed(p) ==
    /\ LockActive(p) => \A q \in Starters \ {p} : ~LockActive(q)
    /\ lpc[p] = "create" => tries[p] = 0 \/ (tries[p] = 1 /\ lockFile = NoFile)
    /\ lpc[p] \in {"read", "check", "unlink"} => tries[p] = 1
    /\ lpc[p] = "read" => lockFile # NoFile
    /\ lpc[p] = "check" => lpc[seen[p]] = "dead"
    /\ lpc[p] = "gaveUp" =>
         /\ seen[p] # NoFile /\ lpc[seen[p]] = "dead"
         /\ seen[p] \notin written \/ seen[p] \in reused

AloneInv == \A p \in alone : Undisturbed(p)

\* AloneInv holds in the initial state.
LEMMA AloneInit == LockInit => AloneInv
  BY DEF LockInit, AloneInv, Undisturbed, LockActive, Trying

\* Every step keeps AloneInv.
LEMMA AloneStep ==
    LockTypeInv /\ LockInv /\ AloneInv /\ [LockNext]_lockVars => AloneInv'
<1> SUFFICES ASSUME LockTypeInv, LockInv, AloneInv, [LockNext]_lockVars PROVE AloneInv'
  OBVIOUS
<1> USE NoFileNoStarter
    DEF LockTypeInv, LockTypeOK, TriesInv, LockInv, FileInv, SeenInv, AloneInv, Undisturbed, LockGoto, lockHistoryVars,
        LockActive, Trying
<1>1. CASE UNCHANGED lockVars
  BY <1>1 DEF lockVars
<1>2. ASSUME NEW p \in Starters, StartProcess(p) PROVE AloneInv'
  BY <1>2 DEF StartProcess
<1>3. ASSUME NEW p \in Starters, Create(p) PROVE AloneInv'
  BY <1>3 DEF Create, MayCreate
<1>4. ASSUME NEW p \in Starters, WritePid(p) PROVE AloneInv'
  BY <1>4 DEF WritePid
<1>5. ASSUME NEW p \in Starters, ReadPid(p) PROVE AloneInv'
  BY <1>5 DEF ReadPid, TryAgain
<1>6. ASSUME NEW p \in Starters, CheckOwner(p) PROVE AloneInv'
  BY <1>6 DEF CheckOwner, TryAgain, OwnerRuns
<1>7. ASSUME NEW p \in Starters, RemoveStale(p) PROVE AloneInv'
  BY <1>7 DEF RemoveStale, TryAgain, Rob
<1>8. ASSUME NEW p \in Starters, Unlock(p) PROVE AloneInv'
  BY <1>8 DEF Unlock, Rob
<1>9. ASSUME NEW p \in Starters, Die(p) PROVE AloneInv'
  BY <1>9 DEF Die
<1>10. ASSUME NEW p \in Starters, ReusePid(p) PROVE AloneInv'
  BY <1>10 DEF ReusePid
<1> QED
  BY <1>1, <1>2, <1>3, <1>4, <1>5, <1>6, <1>7, <1>8, <1>9, <1>10 DEF LockNext

\* A starter beside which nobody is alive gives up only over a file without an id,
\* or over the id of a dead owner that is in use again.
THEOREM LockForTheAlone == LockSpec => []AloneGetsTheLock
<1>1. AloneInv => AloneGetsTheLock
  BY DEF AloneInv, Undisturbed, AloneGetsTheLock
<1> QED BY <1>1, AloneInit, AloneStep, LockInvariant, PTL DEF LockSpec

----------------------------------------------------------------------------
(* Mail queue: types                                                       *)

\* The types hold in the initial state.
LEMMA QueueTypeInit == QueueInit => QueueTypeOK
<1> SUFFICES ASSUME QueueInit PROVE QueueTypeOK
  OBVIOUS
<1>1. qf \in [Messages -> {"whole"}] /\ accepted \in [Messages -> {0}] /\ threads \in [Slots -> {NoThread}]
  BY DEF QueueInit
<1>2. entry \in Messages
  BY QueueAssumption DEF QueueInit
<1>3. 0 \in 0 .. MaxTrouble
  BY QueueAssumption
<1> QED
  BY <1>1, <1>2, <1>3 DEF QueueInit, QueueTypeOK

\* What an action of a thread does to the slots: it goes on with its message, or ends.
ThreadChange(s) ==
    \E t \in QueueThread \cup {NoThread} :
        /\ threads' = [threads EXCEPT ![s] = t]
        /\ t # NoThread => t.msg = threads[s].msg

\* Every action of a thread is such a change, of a slot that has a thread.
LEMMA ThreadSteps ==
    ASSUME QueueTypeOK, NEW s \in Slots,
           \/ SmtpAccepted(s) \/ SmtpQuit(s) \/ QuitFails(s) \/ SmtpRefused(s)
           \/ SmtpUnreachable(s) \/ SmtpDeferred(s) \/ ReportFinal(s) \/ ReportDeferred(s) \/ UpdateQF(s)
    PROVE  threads[s] \in QueueThread /\ threads[s] # NoThread /\ ThreadChange(s)
<1>1. threads[s] \in QueueThread /\ threads[s] # NoThread
  BY DEF QueueTypeOK, SmtpAccepted, SmtpQuit, QuitFails, SmtpRefused, SmtpUnreachable, SmtpDeferred,
         ReportFinal, ReportDeferred, UpdateQF, InThread
<1>2. ASSUME NEW step \in ThreadStep, ThreadGoto(s, step) PROVE ThreadChange(s)
  <2>1. [threads[s] EXCEPT !.step = step] \in QueueThread
    BY <1>1 DEF QueueThread
  <2>2. threads' = [threads EXCEPT ![s] = [threads[s] EXCEPT !.step = step]]
    BY <1>2 DEF ThreadGoto
  <2>3. [threads[s] EXCEPT !.step = step].msg = threads[s].msg
    BY <1>1 DEF QueueThread
  <2> QED BY <2>1, <2>2, <2>3 DEF ThreadChange
<1>3. ASSUME NextRelay(s) PROVE ThreadChange(s)
  <2> DEFINE old == threads[s]
  <2> DEFINE next == [msg |-> old.msg, relay |-> old.relay + 1, step |-> "send"]
  <2> DEFINE last == [old EXCEPT !.step = "deferred"]
  <2>1. old.relay < Relays => next \in QueueThread /\ next.msg = old.msg
    BY <1>1, QueueAssumption DEF QueueThread, ThreadStep
  <2>2. last \in QueueThread /\ last.msg = old.msg
    BY <1>1 DEF QueueThread, ThreadStep
  <2>3. threads' = [threads EXCEPT ![s] = IF old.relay < Relays THEN next ELSE last]
    BY <1>3 DEF NextRelay
  <2> HIDE DEF next, last
  <2> QED BY <2>1, <2>2, <2>3 DEF ThreadChange
<1>4. ASSUME ThreadEnds(s) PROVE ThreadChange(s)
  BY <1>4 DEF ThreadEnds, ThreadChange
<1> QED
  BY <1>1, <1>2, <1>3, <1>4 DEF SmtpAccepted, SmtpQuit, QuitFails, SmtpRefused, SmtpUnreachable,
     SmtpDeferred, ReportFinal, ReportDeferred, UpdateQF, ThreadStep

\* Every step keeps the types.
LEMMA QueueTypeStep == QueueTypeOK /\ [QueueNext]_queueVars => QueueTypeOK'
<1> SUFFICES ASSUME QueueTypeOK, [QueueNext]_queueVars PROVE QueueTypeOK'
  OBVIOUS
<1> USE QueueAssumption
    DEF QueueTypeOK, QueueFilesUnchanged, ScanUnchanged, QueueHistoryUnchanged, Removed, Trouble
<1>1. CASE UNCHANGED queueVars
  BY <1>1 DEF queueVars
<1>2. CASE QueueStart \/ ListSpool \/ EndScan \/ Discard \/ SkipEntry \/ DueNow
  BY <1>2 DEF QueueStart, ListSpool, EndScan, Discard, SkipEntry, DueNow
<1>3. CASE QueueKill
  BY <1>3 DEF QueueKill
<1>4. ASSUME NEW m \in Messages, Expire(m) \/ Setup(m) PROVE QueueTypeOK'
  BY <1>4 DEF Expire, Setup
<1>5. ASSUME NEW s \in Slots, StartThread(s) PROVE QueueTypeOK'
  <2>1. [msg |-> entry, relay |-> 1, step |-> "send"] \in QueueThread
    BY DEF QueueThread, ThreadStep
  <2> QED BY <1>5, <2>1 DEF StartThread
<1>6. ASSUME NEW s \in Slots,
             \/ SmtpAccepted(s) \/ SmtpQuit(s) \/ QuitFails(s) \/ SmtpRefused(s)
             \/ SmtpUnreachable(s) \/ SmtpDeferred(s) \/ ReportFinal(s) \/ ReportDeferred(s) \/ UpdateQF(s)
      PROVE QueueTypeOK'
  <2>1. threads' \in [Slots -> QueueThread \cup {NoThread}]
    BY <1>6, ThreadSteps DEF ThreadChange
  <2>2. threads[s] \in QueueThread /\ threads[s].msg \in Messages
    BY <1>6, ThreadSteps DEF QueueThread
  <2>3. CASE SmtpAccepted(s)
    BY <2>1, <2>2, <2>3 DEF SmtpAccepted
  <2>4. CASE QuitFails(s)
    BY <2>1, <2>2, <2>4 DEF QuitFails
  <2>5. CASE ReportFinal(s) \/ ReportDeferred(s) \/ UpdateQF(s)
    BY <2>1, <2>2, <2>5 DEF ReportFinal, ReportDeferred, UpdateQF
  <2>6. CASE SmtpQuit(s) \/ SmtpRefused(s) \/ SmtpUnreachable(s) \/ SmtpDeferred(s)
    BY <2>1, <2>2, <2>6 DEF SmtpQuit, SmtpRefused, SmtpUnreachable, SmtpDeferred
  <2> QED BY <1>6, <2>3, <2>4, <2>5, <2>6
<1> QED
  BY <1>1, <1>2, <1>3, <1>4, <1>5, <1>6 DEF QueueNext

\* A slot has a thread that is at one of the relays, or none.
THEOREM QueueTypeCorrect == QueueSpec => []QueueTypeOK
BY QueueTypeInit, QueueTypeStep, PTL DEF QueueSpec

----------------------------------------------------------------------------
(* A message that no scan has met beside its thread                        *)

Delivers(s, m) == threads[s] # NoThread /\ threads[s].msg = m
TakenUp(m) == scan \in {"read", "slot"} /\ entry = m

(* It has one thread, or is at hand in the scan, or neither; and both its  *)
(* files are there, or neither is.                                         *)
OneThread(m) ==
    /\ \A s, t \in Slots : Delivers(s, m) /\ Delivers(t, m) => s = t
    /\ TakenUp(m) => \A s \in Slots : ~Delivers(s, m)
    /\ \A s \in Slots : Delivers(s, m) => m \in df
    /\ scan = "slot" /\ entry = m => m \in df
    /\ qf[m] # "none" => m \in df

OneThreadInv ==
    /\ \A m \in Messages : qf[m] = "none" => m \notin df
    /\ \A m \in Messages \ overtaken : OneThread(m)

\* OneThreadInv holds in the initial state.
LEMMA OneThreadInit == QueueInit => OneThreadInv
  BY DEF QueueInit, OneThreadInv, OneThread, Delivers, TakenUp

\* The steps of the scan keep OneThreadInv: who takes up a message beside its thread
\* has overtaken it.
LEMMA OneThreadScan ==
    ASSUME QueueTypeOK, OneThreadInv,
           \/ QueueStart \/ ListSpool \/ EndScan \/ Discard \/ SkipEntry \/ DueNow \/ QueueKill
           \/ \E m \in Messages : Expire(m) \/ Setup(m)
           \/ \E s \in Slots : StartThread(s)
    PROVE  OneThreadInv'
<1> USE QueueAssumption
    DEF QueueTypeOK, QueueFilesUnchanged, ScanUnchanged, QueueHistoryUnchanged, Removed, Trouble,
        OneThreadInv, OneThread, Delivers, TakenUp
<1>1. CASE QueueStart \/ ListSpool \/ EndScan \/ SkipEntry
  BY <1>1 DEF QueueStart, ListSpool, EndScan, SkipEntry
<1>2. CASE Discard
  BY <1>2 DEF Discard
<1>3. CASE DueNow
  BY <1>3 DEF DueNow
<1>4. CASE QueueKill
  BY <1>4 DEF QueueKill
<1>5. ASSUME NEW m \in Messages, Expire(m) PROVE OneThreadInv'
  BY <1>5 DEF Expire
<1>6. ASSUME NEW m \in Messages, Setup(m) PROVE OneThreadInv'
  BY <1>6 DEF Setup, Busy
<1>7. ASSUME NEW s \in Slots, StartThread(s) PROVE OneThreadInv'
  <2> DEFINE new == [msg |-> entry, relay |-> 1, step |-> "send"]
  <2>1. new \in QueueThread /\ new.msg = entry
    BY DEF QueueThread, ThreadStep
  <2>2. scan = "slot" /\ scan' = "next" /\ threads' = [threads EXCEPT ![s] = new]
        /\ UNCHANGED <<qf, df, entry>>
        /\ overtaken' = IF Busy(entry) THEN overtaken \cup {entry} ELSE overtaken
    BY <1>7 DEF StartThread
  <2> HIDE DEF new
  <2>3. \A t \in Slots, m \in Messages : Delivers(t, m)' => Delivers(t, m) \/ (t = s /\ m = entry)
    BY <2>1, <2>2
  <2> QED BY <2>1, <2>2, <2>3 DEF Busy
<1> QED BY <1>1, <1>2, <1>3, <1>4, <1>5, <1>6, <1>7

\* So do the steps of a thread.
LEMMA OneThreadThread ==
    ASSUME QueueTypeOK, OneThreadInv, NEW s \in Slots,
           \/ SmtpAccepted(s) \/ SmtpQuit(s) \/ QuitFails(s) \/ SmtpRefused(s)
           \/ SmtpUnreachable(s) \/ SmtpDeferred(s) \/ ReportFinal(s) \/ ReportDeferred(s) \/ UpdateQF(s)
    PROVE  OneThreadInv'
<1> DEFINE m == threads[s].msg
<1>1. m \in Messages /\ Delivers(s, m)
  BY ThreadSteps DEF QueueThread, Delivers
<1>2. \A t \in Slots, n \in Messages : Delivers(t, n)' => Delivers(t, n)
  BY ThreadSteps DEF ThreadChange, Delivers, QueueTypeOK
<1>3. UNCHANGED <<scan, flist, entry, copy, overtaken>>
  BY DEF SmtpAccepted, SmtpQuit, QuitFails, SmtpRefused, SmtpUnreachable, SmtpDeferred,
     ReportFinal, ReportDeferred, UpdateQF, ScanUnchanged, QueueHistoryUnchanged
<1>4. CASE UNCHANGED <<qf, df>>
  BY <1>2, <1>3, <1>4 DEF OneThreadInv, OneThread, TakenUp
<1>5. CASE ReportFinal(s)
  <2>1. Removed(m) /\ threads'[s] = NoThread
    BY <1>5 DEF ReportFinal, ThreadEnds, QueueTypeOK
  <2> QED BY <1>1, <1>2, <1>3, <2>1 DEF OneThreadInv, OneThread, TakenUp, Removed, Delivers, QueueTypeOK
<1>6. CASE ReportDeferred(s) \/ UpdateQF(s)
  <2>1. df' = df /\ \A n \in Messages \ {m} : qf'[n] = qf[n]
    BY <1>6 DEF ReportDeferred, UpdateQF, QueueTypeOK
  <2>2. qf'[m] = "none" => qf[m] = "none"
    BY <1>1, <1>6 DEF ReportDeferred, UpdateQF, QueueTypeOK
  <2>3. m \notin overtaken => m \in df
    BY <1>1 DEF OneThreadInv, OneThread
  <2>4. m \in df => qf[m] # "none"
    BY <1>1 DEF OneThreadInv
  <2>5. qf'[m] = "none" => m \notin df
    BY <2>2, <2>4
  <2> HIDE DEF m
  <2> QED BY <1>1, <1>2, <1>3, <2>1, <2>3, <2>5 DEF OneThreadInv, OneThread, TakenUp
<1> QED
  BY <1>4, <1>5, <1>6 DEF SmtpAccepted, SmtpQuit, QuitFails, SmtpRefused, SmtpUnreachable,
     SmtpDeferred, QueueFilesUnchanged

\* Every step keeps OneThreadInv.
LEMMA OneThreadStep == QueueTypeOK /\ OneThreadInv /\ [QueueNext]_queueVars => OneThreadInv'
<1> SUFFICES ASSUME QueueTypeOK, OneThreadInv, [QueueNext]_queueVars PROVE OneThreadInv'
  OBVIOUS
<1>1. CASE UNCHANGED queueVars
  BY <1>1 DEF queueVars, OneThreadInv, OneThread, Delivers, TakenUp
<1>2. CASE QueueNext
  BY <1>2, OneThreadScan, OneThreadThread DEF QueueNext
<1> QED BY <1>1, <1>2

----------------------------------------------------------------------------
(* ... and that met no kill and no broken connection                       *)

Undecided(m) == accepted[m] = 0 /\ m \notin refused
Decided(m) ==
    \/ accepted[m] = 1 /\ m \notin refused
    \/ accepted[m] = 0 /\ m \in refused

(* Its thread is behind the relay's yes, or nothing has become of it yet;  *)
(* when something has, and the thread has ended, the control file is gone. *)
Once(m) ==
    /\ Undecided(m) \/ Decided(m)
    /\ \A s \in Slots : Delivers(s, m) =>
         IF threads[s].step \in {"quit", "sent"} THEN accepted[m] = 1 ELSE Undecided(m)
    /\ Decided(m) => qf[m] = "none" \/ \E s \in Slots : Delivers(s, m)
    /\ qf[m] = "empty" => \E s \in Slots : Delivers(s, m)
    /\ scan = "read" /\ entry = m => IF copy = "whole" THEN Undecided(m) ELSE qf[m] = "none"
    /\ scan = "slot" /\ entry = m => Undecided(m)
    /\ m \notin df => Decided(m) \/ m \in expired

OnceInv == \A m \in Messages \ (overtaken \cup troubled) : Once(m)

\* OnceInv holds in the initial state.
LEMMA OnceInit == QueueInit => OnceInv
  BY DEF QueueInit, OnceInv, Once, Undecided, Decided, Delivers

\* The steps of the scan keep OnceInv.
LEMMA OnceScan ==
    ASSUME QueueTypeOK, OneThreadInv, OnceInv,
           \/ QueueStart \/ ListSpool \/ EndScan \/ Discard \/ SkipEntry \/ DueNow \/ QueueKill
           \/ \E m \in Messages : Expire(m) \/ Setup(m)
           \/ \E s \in Slots : StartThread(s)
    PROVE  OnceInv'
<1> USE QueueAssumption
    DEF QueueTypeOK, QueueFilesUnchanged, ScanUnchanged, QueueHistoryUnchanged, Removed, Trouble,
        OnceInv, Once, Undecided, Decided, Delivers
<1>1. CASE QueueStart \/ ListSpool \/ EndScan \/ SkipEntry
  BY <1>1 DEF QueueStart, ListSpool, EndScan, SkipEntry
<1>2. CASE Discard
  BY <1>2 DEF Discard, OneThreadInv, OneThread, TakenUp
<1>3. CASE DueNow
  BY <1>3 DEF DueNow
<1>4. CASE QueueKill
  BY <1>4 DEF QueueKill, Busy
<1>5. ASSUME NEW m \in Messages, Expire(m) PROVE OnceInv'
  BY <1>5 DEF Expire
<1>6. ASSUME NEW m \in Messages, Setup(m) PROVE OnceInv'
  BY <1>6 DEF Setup, Busy
<1>7. ASSUME NEW s \in Slots, StartThread(s) PROVE OnceInv'
  <2> DEFINE new == [msg |-> entry, relay |-> 1, step |-> "send"]
  <2>1. new \in QueueThread /\ new.msg = entry /\ new.step = "send"
    BY DEF QueueThread, ThreadStep
  <2>2. /\ scan = "slot" /\ scan' = "next" /\ threads[s] = NoThread
        /\ threads' = [threads EXCEPT ![s] = new]
        /\ UNCHANGED <<qf, df, expired, entry, accepted, refused, troubled>>
        /\ overtaken \subseteq overtaken'
    BY <1>7 DEF StartThread, FreeSlot
  <2> HIDE DEF new
  <2>3. \A t \in Slots, m \in Messages : Delivers(t, m) <=> Delivers(t, m)' /\ t # s
    BY <2>2
  <2>4. \A t \in Slots \ {s} : threads'[t] = threads[t]
    BY <2>2
  <2>5. threads'[s] = new
    BY <2>2
  <2> QED BY <2>1, <2>2, <2>3, <2>4, <2>5
<1> QED BY <1>1, <1>2, <1>3, <1>4, <1>5, <1>6, <1>7

\* The steps of a thread touch its own message only.
LEMMA OtherMessages ==
    ASSUME QueueTypeOK, NEW s \in Slots,
           \/ SmtpAccepted(s) \/ SmtpQuit(s) \/ QuitFails(s) \/ SmtpRefused(s)
           \/ SmtpUnreachable(s) \/ SmtpDeferred(s) \/ ReportFinal(s) \/ ReportDeferred(s) \/ UpdateQF(s),
           NEW n \in Messages, n # threads[s].msg, n \notin overtaken' \cup troubled', OnceInv
    PROVE  Once(n)'
<1>1. UNCHANGED <<scan, entry, copy, expired, overtaken>> /\ troubled \subseteq troubled'
  BY DEF SmtpAccepted, SmtpQuit, QuitFails, SmtpRefused, SmtpUnreachable, SmtpDeferred, Trouble,
     ReportFinal, ReportDeferred, UpdateQF, ScanUnchanged, QueueHistoryUnchanged, QueueFilesUnchanged
<1>2. Once(n)
  BY <1>1 DEF OnceInv
<1>3. \A t \in Slots : (Delivers(t, n)' <=> Delivers(t, n)) /\ (Delivers(t, n) => threads'[t] = threads[t])
  BY ThreadSteps DEF ThreadChange, Delivers, QueueTypeOK
<1>4. accepted'[n] = accepted[n] /\ (n \in refused' <=> n \in refused)
  BY DEF SmtpAccepted, SmtpQuit, QuitFails, SmtpRefused, SmtpUnreachable, SmtpDeferred,
     ReportFinal, ReportDeferred, UpdateQF, QueueHistoryUnchanged, QueueTypeOK
<1>5. qf'[n] = qf[n] /\ (n \in df' <=> n \in df)
  BY DEF SmtpAccepted, SmtpQuit, QuitFails, SmtpRefused, SmtpUnreachable, SmtpDeferred,
     ReportFinal, ReportDeferred, UpdateQF, QueueFilesUnchanged, Removed, QueueTypeOK
<1> QED BY <1>1, <1>2, <1>3, <1>4, <1>5 DEF Once, Undecided, Decided

\* The steps of a thread keep OnceInv.
LEMMA OnceThread ==
    ASSUME QueueTypeOK, OneThreadInv, OnceInv, NEW s \in Slots,
           \/ SmtpAccepted(s) \/ SmtpQuit(s) \/ QuitFails(s) \/ SmtpRefused(s)
           \/ SmtpUnreachable(s) \/ SmtpDeferred(s) \/ ReportFinal(s) \/ ReportDeferred(s) \/ UpdateQF(s)
    PROVE  OnceInv'
<1>0. PICK m \in Messages : m = threads[s].msg
  BY ThreadSteps DEF QueueThread
<1>1. m \in Messages /\ Delivers(s, m)
  BY <1>0, ThreadSteps DEF Delivers
<1> SUFFICES ASSUME m \notin overtaken' \cup troubled' PROVE Once(m)'
  BY <1>0, OtherMessages DEF OnceInv
<1>2. UNCHANGED <<scan, entry, copy, expired, overtaken>> /\ troubled \subseteq troubled'
  BY DEF SmtpAccepted, SmtpQuit, QuitFails, SmtpRefused, SmtpUnreachable, SmtpDeferred, Trouble,
     ReportFinal, ReportDeferred, UpdateQF, ScanUnchanged, QueueHistoryUnchanged, QueueFilesUnchanged
<1>3. Once(m) /\ OneThread(m)
  BY <1>1, <1>2 DEF OnceInv, OneThreadInv
<1>4. \A t \in Slots : Delivers(t, m) => t = s
  BY <1>1, <1>3 DEF OneThread
<1>5. scan \in {"read", "slot"} => entry # m
  BY <1>1, <1>3 DEF OneThread, TakenUp
<1>6. IF threads[s].step \in {"quit", "sent"} THEN accepted[m] = 1 ELSE Undecided(m)
  BY <1>1, <1>3 DEF Once
<1>7. m \in df
  BY <1>1, <1>3 DEF OneThread
<1>8. threads \in [Slots -> QueueThread \cup {NoThread}] /\ threads[s] \in QueueThread
  BY ThreadSteps DEF QueueTypeOK
<1>9. ASSUME NEW step \in ThreadStep, ThreadGoto(s, step)
      PROVE  /\ threads'[s].step = step /\ Delivers(s, m)'
             /\ \A t \in Slots : Delivers(t, m)' => t = s
  <2>1. threads'[s].step = step /\ threads'[s].msg = m /\ threads'[s] \in QueueThread
    BY <1>0, <1>8, <1>9 DEF ThreadGoto, QueueThread
  <2>2. \A t \in Slots \ {s} : threads'[t] = threads[t]
    BY <1>8, <1>9 DEF ThreadGoto
  <2> QED BY <1>4, <2>1, <2>2, QueueAssumption DEF Delivers
<1>10. ASSUME NextRelay(s)
       PROVE  /\ threads'[s].step \in {"send", "deferred"} /\ Delivers(s, m)'
              /\ \A t \in Slots : Delivers(t, m)' => t = s
  <2>1. /\ threads'[s].step \in {"send", "deferred"}
        /\ \A t \in Slots \ {s} : threads'[t] = threads[t]
    BY <1>8, <1>10 DEF NextRelay, QueueThread
  <2>2. threads'[s] \in QueueThread /\ threads'[s].msg = m
    BY <1>0, <1>8, <1>10, QueueAssumption DEF NextRelay, QueueThread, ThreadStep
  <2> QED BY <1>4, <2>1, <2>2, QueueAssumption DEF Delivers
<1>11. ASSUME ThreadEnds(s) PROVE \A t \in Slots : ~Delivers(t, m)'
  BY <1>4, <1>8, <1>11 DEF ThreadEnds, Delivers
<1> USE DEF Once, Undecided, Decided, QueueHistoryUnchanged, QueueFilesUnchanged, QueueTypeOK
<1>20. CASE SmtpAccepted(s)
  <2>1. accepted' = [accepted EXCEPT ![m] = IF @ < 2 THEN @ + 1 ELSE @] /\ refused' = refused
    BY <1>0, <1>20 DEF SmtpAccepted
  <2>2. threads[s].step = "send" /\ ThreadGoto(s, "quit") /\ UNCHANGED <<qf, df>>
    BY <1>20 DEF SmtpAccepted, InThread
  <2> QED BY <1>1, <1>2, <1>3, <1>5, <1>6, <1>7, <1>9, <2>1, <2>2 DEF ThreadStep
<1>21. CASE SmtpQuit(s)
  <2>1. threads[s].step = "quit" /\ ThreadGoto(s, "sent") /\ UNCHANGED <<qf, df, accepted, refused>>
    BY <1>21 DEF SmtpQuit, InThread
  <2> QED BY <1>1, <1>2, <1>3, <1>5, <1>6, <1>7, <1>9, <2>1 DEF ThreadStep
<1>22. CASE QuitFails(s)
  BY <1>0, <1>22 DEF QuitFails, Trouble
<1>23. CASE SmtpRefused(s) \/ SmtpDeferred(s)
  <2>1. /\ threads[s].step = "send" /\ UNCHANGED <<qf, df, accepted, refused>>
        /\ ThreadGoto(s, "bounced") \/ ThreadGoto(s, "deferred")
    BY <1>23 DEF SmtpRefused, SmtpDeferred, InThread
  <2> QED BY <1>1, <1>2, <1>3, <1>5, <1>6, <1>7, <1>9, <2>1 DEF ThreadStep
<1>24. CASE SmtpUnreachable(s)
  <2>1. threads[s].step = "send" /\ UNCHANGED <<qf, df, accepted, refused>> /\ NextRelay(s)
    BY <1>24 DEF SmtpUnreachable, InThread
  <2> QED BY <1>1, <1>2, <1>3, <1>5, <1>6, <1>7, <1>10, <2>1
<1>25. CASE ReportFinal(s)
  <2>1. /\ threads[s].step \in {"sent", "bounced"} /\ ThreadEnds(s) /\ accepted' = accepted
        /\ refused' = IF threads[s].step = "bounced" THEN refused \cup {m} ELSE refused
        /\ qf'[m] = "none"
    BY <1>0, <1>1, <1>25 DEF ReportFinal, InThread, Removed
  <2> QED BY <1>1, <1>2, <1>3, <1>5, <1>6, <1>11, <2>1
<1>26. CASE ReportDeferred(s)
  <2>1. /\ threads[s].step = "deferred" /\ ThreadGoto(s, "rewrite") /\ df' = df
        /\ UNCHANGED <<accepted, refused>>
    BY <1>26 DEF ReportDeferred, InThread
  <2> QED BY <1>1, <1>2, <1>3, <1>5, <1>6, <1>7, <1>9, <2>1 DEF ThreadStep
<1>27. CASE UpdateQF(s)
  <2>1. /\ threads[s].step = "rewrite" /\ ThreadEnds(s) /\ df' = df
        /\ UNCHANGED <<accepted, refused>> /\ qf'[m] # "empty"
    BY <1>0, <1>1, <1>27 DEF UpdateQF, InThread
  <2> QED BY <1>1, <1>2, <1>3, <1>5, <1>6, <1>7, <1>11, <2>1
<1> QED BY <1>20, <1>21, <1>22, <1>23, <1>24, <1>25, <1>26, <1>27

\* Every step keeps OnceInv.
LEMMA OnceStep ==
    QueueTypeOK /\ OneThreadInv /\ OnceInv /\ [QueueNext]_queueVars => OnceInv'
<1> SUFFICES ASSUME QueueTypeOK, OneThreadInv, OnceInv, [QueueNext]_queueVars PROVE OnceInv'
  OBVIOUS
<1>1. CASE UNCHANGED queueVars
  BY <1>1 DEF queueVars, OnceInv, Once, Undecided, Decided, Delivers
<1>2. CASE QueueNext
  BY <1>2, OnceScan, OnceThread DEF QueueNext
<1> QED BY <1>1, <1>2

\* All of it holds always.
LEMMA QueueInvariant == QueueSpec => [](QueueTypeOK /\ OneThreadInv /\ OnceInv)
BY QueueTypeInit, QueueTypeStep, OneThreadInit, OneThreadStep, OnceInit, OnceStep, PTL DEF QueueSpec

\* Nothing but a scan beside a thread, a kill and a broken connection makes a message
\* go out twice, or bounce as well.
THEOREM DeliveredOnce == QueueSpec => []OneOutcome
<1>1. ASSUME QueueTypeOK, OnceInv PROVE OneOutcome
  BY <1>1 DEF QueueTypeOK, OnceInv, Once, Undecided, Decided, OneOutcome, Outcomes
<1> QED BY <1>1, QueueInvariant, PTL

\* A message leaves the spool with both its files, and only when it was delivered,
\* has bounced or has expired, but for the same exceptions.
THEOREM LeftForAReason == QueueSpec => []GoneForAReason
<1>1. ASSUME QueueTypeOK, OneThreadInv, OnceInv PROVE GoneForAReason
  BY <1>1 DEF QueueTypeOK, OneThreadInv, OneThread, OnceInv, Once, Decided, GoneForAReason, Outcomes
<1> QED BY <1>1, QueueInvariant, PTL

----------------------------------------------------------------------------
(* The daemons together                                                    *)

\* A behaviour of the daemons is one of each of them: what one does not do it
\* leaves alone.
LEMMA PartsOfDaemons == DaemonsSpec => LogSafety /\ LockSpec /\ QueueSpec
<1>1. DaemonsInit => LogInit /\ LockInit /\ QueueInit
  BY DEF DaemonsInit
<1>2. ASSUME [DaemonsNext]_daemonVars
      PROVE  [LogNext]_logVars /\ [LockNext]_lockVars /\ [QueueNext]_queueVars
  <2>1. CASE UNCHANGED daemonVars
    BY <2>1 DEF daemonVars
  <2>2. CASE DaemonsNext
    BY <2>2 DEF DaemonsNext
  <2> QED BY <1>2, <2>1, <2>2
<1> QED BY <1>1, <1>2, PTL DEF DaemonsSpec, LogSafety, LockSpec, QueueSpec

\* The daemons keep their types, for any mail logs, starters, messages and threads.
THEOREM DaemonsTypeCorrect == DaemonsSpec => []DaemonsTypeOK
<1>1. DaemonsInit => daemon \in {"reports", "lock", "queue"}
  BY DEF DaemonsInit
<1>2. daemon \in {"reports", "lock", "queue"} /\ [DaemonsNext]_daemonVars
        => (daemon \in {"reports", "lock", "queue"})'
  BY DEF DaemonsNext, daemonVars
<1>3. LogTypeInv /\ LockTypeInv => LogTypeOK /\ LockTypeOK
  BY DEF LogTypeInv, LockTypeInv
<1>4. daemon \in {"reports", "lock", "queue"} /\ LogTypeOK /\ LockTypeOK /\ QueueTypeOK
        => DaemonsTypeOK
  BY DEF DaemonsTypeOK
<1> QED
  BY <1>1, <1>2, <1>3, <1>4, PartsOfDaemons, LogTypeInvariant, LockInvariant, QueueInvariant, PTL
  DEF DaemonsSpec

\* What the daemons promise holds of them together: no report is skipped, counted
\* twice or lost on its way; of the processes that start at once one runs, and one
\* that is alone does; and a message goes out once, and does not leave the spool
\* without a reason.
THEOREM DaemonsCorrect ==
    DaemonsSpec => [](/\ LinesFollowed /\ CountedOnce /\ ReportsKept
                      /\ OneHolder /\ RobbedInRaceOnly /\ AloneGetsTheLock
                      /\ OneOutcome /\ GoneForAReason)
BY PartsOfDaemons, NoReportSkipped, ReportCountedOnce, ReportKept, OneDaemon, RobbedByRace,
   LockForTheAlone, DeliveredOnce, LeftForAReason, PTL
=============================================================================
