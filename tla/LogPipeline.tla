---------------------------- MODULE LogPipeline ----------------------------
(***************************************************************************)
(* The way of a delivery report from the mail log to the database.         *)
(* slrtscn.py follows the mail log with a Filepos (lib/agn.py), which      *)
(* keeps its position in a file of its own, and appends a line to          *)
(* extbounce.log for every report it finds; update.py renames this file,   *)
(* waits for those who still write to it, and imports it line by line.     *)
(* The mail log is rotated by the system, and both daemons may be killed   *)
(* between any two steps.                                                  *)
(*                                                                         *)
(* A report is named by its place in the mail log.  The order of the lines *)
(* within extbounce.log is left out: a file is a bag of reports.           *)
(***************************************************************************)
EXTENDS Naturals, FiniteSets

CONSTANTS
    MaxFiles,    \* bound: mail logs, the one at the path and the rotated ones
    MaxLines,    \* bound: lines of each mail log
    Checkpoint,  \* lines after which Filepos saves its position (64 in the code)
    HardReports, \* reports of a hard bounce
    BadReports,  \* reports update cannot make a row of
    MaxMishaps   \* bound: kills, stops and failing calls

MailLog == 1 .. MaxFiles
Report == UNION {{f} \X (1 .. MaxLines[f]) : f \in MailLog}

ASSUME LogAssumption ==
    /\ MaxFiles \in Nat \ {0}
    /\ MaxLines \in [MailLog -> Nat \ {0}]
    /\ Checkpoint \in Nat \ {0}
    /\ HardReports \subseteq Report
    /\ BadReports \subseteq Report \ HardReports
    /\ MaxMishaps \in Nat

VARIABLES
    logLen,    \* per mail log (inode): lines written so far
    logPath,   \* the mail log at the path
    logTo,     \* the mail log syslogd writes to
    scanner,   \* control state of slrtscn
    fd,        \* self.fd: the mail log it has open, and the position
    since,     \* self.count, lines since the position was saved
    info,      \* the info file: inode and position, or what is left of it
    handle,    \* where the file slrtscn has opened for appending is now
    ext,       \* extbounce.log
    update,    \* control state of update
    temp,      \* the renamed file
    rest,      \* lines read from it that wait for their turn
    keep,      \* ~removeTemp
    bounces,   \* rows of bounce_tbl
    failed,    \* extbounce.fail
    left,      \* renamed files nobody reads any more
    mishaps,   \* kills, stops and failing calls so far
    excused,   \* history: reports whose loss has a cause, see the actions
    scanKills, \* history: how often slrtscn was killed
    appended   \* history: how often a report was written to extbounce.log

mailLogVars == <<logLen, logPath, logTo>>
scannerVars == <<scanner, fd, since, info>>
updateVars == <<update, rest, keep, bounces, failed>>
logHistoryVars == <<excused, scanKills, appended>>
logVars == <<mailLogVars, scannerVars, handle, ext, updateVars, temp, left,
             mishaps, logHistoryVars>>

----------------------------------------------------------------------------

NoReports == [r \in Report |-> 0]
a (+) b == [r \in Report |-> a[r] + b[r]]
Plus(bag, r) == [bag EXCEPT ![r] = @ + 1]

\* No info file yet; and one that was truncated and not written again.  There
\* is no mail log with the number 0.
NoInfo == [file |-> 0, pos |-> 0]
Torn == [file |-> 0, pos |-> 1]
Position == [file : MailLog, pos : Nat]

LogTypeOK ==
    /\ logLen \in [MailLog -> Nat]
    /\ logPath \in MailLog
    /\ logTo \in MailLog
    /\ scanner \in {"down", "closed", "read", "save", "line", "append", "close", "stop"}
    /\ fd \in Position
    /\ since \in 0 .. Checkpoint
    /\ info \in Position \cup {NoInfo, Torn}
    /\ handle \in {"none", "path", "temp", "left", "late"}
    /\ update \in {"down", "idle", "sleep", "import"}
    /\ ext \in [Report -> Nat] /\ temp \in [Report -> Nat] /\ rest \in [Report -> Nat]
    /\ bounces \in [Report -> Nat] /\ failed \in [Report -> Nat] /\ left \in [Report -> Nat]
    /\ keep \in BOOLEAN
    /\ mishaps \in 0 .. MaxMishaps
    /\ excused \subseteq Report
    /\ scanKills \in 0 .. MaxMishaps
    /\ appended \in [Report -> Nat]

LogInit ==
    /\ logLen = [f \in MailLog |-> 0]
    /\ logPath = 1
    /\ logTo = 1
    /\ scanner = "down"
    /\ fd = [file |-> 1, pos |-> 0]
    /\ since = 0
    /\ info = NoInfo
    /\ handle = "none"
    /\ update = "down"
    /\ ext = NoReports
    /\ temp = NoReports
    /\ rest = NoReports
    /\ keep = FALSE
    /\ bounces = NoReports
    /\ failed = NoReports
    /\ left = NoReports
    /\ mishaps = 0
    /\ excused = {}
    /\ scanKills = 0
    /\ appended = NoReports

Mishap ==
    /\ mishaps < MaxMishaps
    /\ mishaps' = mishaps + 1

\* The scanner has a mail log open.
LogOpen == scanner \notin {"down", "closed"}

\* It will read from it again before it closes it.
Following == LogOpen /\ scanner \notin {"close", "stop"}

\* Reports of a mail log that the scanner has not read yet.
Unread(f) == {<<f, i>> : i \in (IF fd.file = f THEN fd.pos + 1 ELSE 1) .. logLen[f]}

----------------------------------------------------------------------------
(* The mail log *)

\* The mail system reports a delivery.  Nobody follows a rotated mail log the
\* scanner has closed: the reports that still go there are not found.
Deliver ==
    /\ logLen[logTo] < MaxLines[logTo]
    /\ logLen' = [logLen EXCEPT ![logTo] = @ + 1]
    /\ excused' = excused \cup
          (IF logTo # logPath /\ ~(Following /\ fd.file = logTo)
           THEN {<<logTo, logLen[logTo] + 1>>} ELSE {})
    /\ UNCHANGED <<logPath, logTo, scannerVars, handle, ext, updateVars, temp, left,
                   mishaps, scanKills, appended>>

\* The mail log is renamed and a new one put in its place; syslogd goes on
\* writing to the old one until it is told.  What the scanner has not read
\* while it did not have the file open is not found.
Rotate ==
    /\ logPath < MaxFiles
    /\ logTo = logPath
    /\ logPath' = logPath + 1
    /\ excused' = excused \cup
          (IF Following /\ fd.file = logPath THEN {} ELSE Unread(logPath))
    /\ UNCHANGED <<logLen, logTo, scannerVars, handle, ext, updateVars, temp, left,
                   mishaps, scanKills, appended>>

Reopened ==
    /\ logTo # logPath
    /\ logTo' = logPath
    /\ UNCHANGED <<logLen, logPath, scannerVars, handle, ext, updateVars, temp, left,
                   mishaps, logHistoryVars>>

----------------------------------------------------------------------------
(* slrtscn.py *)

AllButScannerUnchanged == UNCHANGED <<mailLogVars, updateVars, temp, left>>

\* agn.lock and the start of the loop.
ScanStart ==
    /\ scanner = "down"
    /\ scanner' = "closed"
    /\ UNCHANGED <<fd, since, info, handle, ext, mishaps, logHistoryVars>>
    /\ AllButScannerUnchanged

\* Mutant: the saved position is used for a new mail log as well.
MutSavedPos == info.pos

\* Mutant: the saved position is not used at all.
MutForgottenPos == 0

\* The position of the mail log at the path: the saved one if it is of this
\* file, else its beginning.
SavedPos == IF info.file = logPath THEN info.pos ELSE 0

\* Filepos.__init__ and __open: an info file without its three parts is an
\* error, and the loop tries again for ever.
ScanOpen ==
    /\ scanner = "closed"
    /\ info # Torn
    /\ fd' = [file |-> logPath, pos |-> SavedPos]
    /\ since' = 0
    /\ scanner' = "read"
    /\ UNCHANGED <<info, handle, ext, mishaps, logHistoryVars>>
    /\ AllButScannerUnchanged

\* readline: with the line that makes Checkpoint lines the position is saved,
\* before the line is looked at; __save truncates the info file first.
ScanRead ==
    /\ scanner = "read"
    /\ fd.pos < logLen[fd.file]
    /\ fd' = [fd EXCEPT !.pos = @ + 1]
    /\ since' = since + 1
    /\ IF since + 1 >= Checkpoint
       THEN scanner' = "save" /\ info' = Torn
       ELSE scanner' = "line" /\ info' = info
    /\ UNCHANGED <<handle, ext, mishaps, logHistoryVars>>
    /\ AllButScannerUnchanged

\* Mutant: the file is closed only when it grew, and never for want of lines.
MutScanClose ==
    /\ scanner = "read"
    /\ fd.file = logPath
    /\ fd.pos = logLen[fd.file]
    /\ info' = Torn
    /\ scanner' = "close"
    /\ UNCHANGED <<fd, since, handle, ext, mishaps, logHistoryVars>>
    /\ AllButScannerUnchanged

\* At the end of the file, and with nothing new for ten seconds (or with a line
\* that came within the second the file was opened in), the file is closed.
ScanClose ==
    /\ scanner = "read"
    /\ fd.pos = logLen[fd.file]
    /\ info' = Torn
    /\ scanner' = "close"
    /\ UNCHANGED <<fd, since, handle, ext, mishaps, logHistoryVars>>
    /\ AllButScannerUnchanged

\* The rest of __save, within readline or close.
ScanSaved ==
    /\ scanner \in {"save", "close", "stop"}
    /\ info' = fd
    /\ since' = 0
    /\ scanner' = CASE scanner = "save" -> "line"
                    [] scanner = "close" -> "closed"
                    [] scanner = "stop" -> "down"
    /\ UNCHANGED <<fd, handle, ext, mishaps, logHistoryVars>>
    /\ AllButScannerUnchanged

\* The line is a report: extbounce.log is opened for appending ...
ScanAppend ==
    /\ scanner = "line"
    /\ handle' = "path"
    /\ scanner' = "append"
    /\ UNCHANGED <<fd, since, info, ext, mishaps, logHistoryVars>>
    /\ AllButScannerUnchanged

\* ... and written to, whatever has become of the file in between.
ScanWrite ==
    LET line == <<fd.file, fd.pos>> IN
    /\ scanner = "append"
    /\ ext' = IF handle = "path" THEN Plus(ext, line) ELSE ext
    /\ temp' = IF handle = "temp" THEN Plus(temp, line) ELSE temp
    /\ left' = IF handle = "left" THEN Plus(left, line) ELSE left
    /\ appended' = Plus(appended, line)
    /\ handle' = "none"
    /\ scanner' = "read"
    /\ UNCHANGED <<mailLogVars, fd, since, info, updateVars, mishaps, excused, scanKills>>

\* Neither the open nor the write of a line is repeated when it fails.
ScanDrop ==
    /\ scanner \in {"line", "append"}
    /\ Mishap
    /\ excused' = excused \cup {<<fd.file, fd.pos>>}
    /\ handle' = "none"
    /\ scanner' = "read"
    /\ UNCHANGED <<fd, since, info, ext, scanKills, appended>>
    /\ AllButScannerUnchanged

\* SIGTERM ends both loops: after the line at hand the file is closed, wherever
\* the position is then.  Nobody comes back for the rest of a rotated mail log.
ScanStop ==
    /\ Mishap
    /\ \/ scanner = "closed" /\ scanner' = "down" /\ UNCHANGED <<info, excused>>
       \/ /\ scanner = "read"
          /\ scanner' = "stop"
          /\ info' = Torn
          /\ excused' = excused \cup (IF fd.file # logPath THEN Unread(fd.file) ELSE {})
    /\ UNCHANGED <<fd, since, handle, ext, scanKills, appended>>
    /\ AllButScannerUnchanged

\* The line at hand is lost if its position was saved, and with a rotated mail
\* log the rest of this file.
ScanKill ==
    /\ scanner # "down"
    /\ Mishap
    /\ scanKills' = scanKills + 1
    /\ excused' = excused
          \cup (IF scanner \in {"save", "line", "append"} THEN {<<fd.file, fd.pos>>} ELSE {})
          \cup (IF LogOpen /\ fd.file # logPath
                THEN Unread(fd.file) ELSE {})
    /\ scanner' = "down"
    /\ handle' = "none"
    /\ since' = 0
    /\ UNCHANGED <<fd, info, ext, appended>>
    /\ AllButScannerUnchanged

ScannerStep == ScanStart \/ ScanOpen \/ ScanRead \/ ScanClose \/ ScanSaved \/ ScanAppend \/ ScanWrite

----------------------------------------------------------------------------
(* update.py *)

AllButUpdateUnchanged == UNCHANGED <<mailLogVars, scannerVars>>

UpdateStart ==
    /\ update = "down"
    /\ update' = "idle"
    /\ UNCHANGED <<handle, ext, temp, rest, keep, bounces, failed, left,
                   mishaps, logHistoryVars>>
    /\ AllButUpdateUnchanged

\* exists and renameToTemp: a writer keeps the file it has open.
RenameToTemp ==
    /\ update = "idle"
    /\ ext # NoReports \/ handle = "path"
    /\ temp' = ext
    /\ ext' = NoReports
    /\ handle' = IF handle = "path" THEN "temp" ELSE handle
    /\ keep' = FALSE
    /\ update' = "sleep"
    /\ UNCHANGED <<rest, bounces, failed, left, mishaps, logHistoryVars>>
    /\ AllButUpdateUnchanged

\* What becomes of a writer that still has the renamed file open: the file has
\* been left to nobody, or read already.
WriterNow(place) == handle' = IF handle = "temp" THEN place ELSE handle

\* Mutant: renameToTemp returns at once.
MutSleptLongEnough == TRUE

\* Ten seconds are enough for a writer to finish its line.
SleptLongEnough == handle # "temp"

\* fd.readlines takes the whole file; a writer that is slower than ten seconds
\* is a mishap.
ReadLines ==
    /\ update = "sleep"
    /\ IF SleptLongEnough THEN mishaps' = mishaps /\ excused' = excused
       ELSE /\ Mishap
            /\ excused' = excused \cup {<<fd.file, fd.pos>>}
    /\ WriterNow("late")
    /\ rest' = temp
    /\ update' = "import"
    /\ UNCHANGED <<ext, temp, keep, bounces, failed, left, scanKills, appended>>
    /\ AllButUpdateUnchanged

\* The renamed file cannot be opened: it stays where it is, and nobody comes back.
OpenFails ==
    /\ update = "sleep"
    /\ Mishap
    /\ WriterNow("left")
    /\ left' = left (+) temp
    /\ temp' = NoReports
    /\ update' = "idle"
    /\ UNCHANGED <<ext, rest, keep, bounces, failed, logHistoryVars>>
    /\ AllButUpdateUnchanged

NextLine(r) ==
    /\ update = "import"
    /\ rest[r] > 0
    /\ rest' = [rest EXCEPT ![r] = @ - 1]
    /\ UNCHANGED <<handle, ext, temp, left, update, logHistoryVars>>
    /\ AllButUpdateUnchanged

\* updateLine inserts the row, for good: the table is MyISAM, and a commit or its
\* absence changes nothing.
UpdateLine(r) ==
    /\ NextLine(r)
    /\ r \notin BadReports
    /\ bounces' = Plus(bounces, r)
    /\ UNCHANGED <<keep, failed, mishaps>>

\* A line that does not parse, or whose row the database refuses, goes to
\* extbounce.fail.
LineFails(r) ==
    /\ NextLine(r)
    /\ IF r \in BadReports THEN mishaps' = mishaps ELSE Mishap
    /\ failed' = Plus(failed, r)
    /\ UNCHANGED <<keep, bounces>>

\* The row is inserted, its customer cannot be unsubscribed: the line goes to
\* extbounce.fail as well.
UnsubscribeFails(r) ==
    /\ NextLine(r)
    /\ r \in HardReports
    /\ Mishap
    /\ bounces' = Plus(bounces, r)
    /\ failed' = Plus(failed, r)
    /\ UNCHANGED keep

\* The daily log cannot be written to after the row was inserted, or extbounce.fail
\* after it was not: the renamed file will not be removed.
SaveFails(r, imported) ==
    /\ NextLine(r)
    /\ Mishap
    /\ keep' = TRUE
    /\ imported => r \notin BadReports
    /\ bounces' = IF imported THEN Plus(bounces, r) ELSE bounces
    /\ UNCHANGED failed

\* After the last line the renamed file is removed, or left behind, and inst.sync
\* has nothing to do.
RemoveFile ==
    /\ update = "import"
    /\ rest = NoReports
    /\ left' = IF keep THEN left (+) temp ELSE left
    /\ temp' = NoReports
    /\ update' = "idle"
    /\ UNCHANGED <<handle, ext, rest, keep, bounces, failed, mishaps, logHistoryVars>>
    /\ AllButUpdateUnchanged

\* A kill leaves the renamed file to nobody.
UpdateKill ==
    /\ update # "down"
    /\ Mishap
    /\ WriterNow("left")
    /\ left' = left (+) temp
    /\ temp' = NoReports
    /\ rest' = NoReports
    /\ update' = "down"
    /\ UNCHANGED <<ext, keep, bounces, failed, logHistoryVars>>
    /\ AllButUpdateUnchanged

UpdateStep ==
    \/ UpdateStart \/ RenameToTemp \/ ReadLines \/ RemoveFile
    \/ \E r \in Report : UpdateLine(r) \/ LineFails(r)

LogNext ==
    \/ Deliver \/ Rotate \/ Reopened
    \/ ScannerStep \/ ScanDrop \/ ScanStop \/ ScanKill
    \/ UpdateStep \/ OpenFails \/ UpdateKill
    \/ \E r \in Report : UnsubscribeFails(r) \/ \E imported \in BOOLEAN : SaveFails(r, imported)

\* Nothing but a stop or a kill keeps the daemons from their next step; the mail system
\* and the rotation owe nothing.
LogSpec == LogInit /\ [][LogNext]_logVars /\ WF_logVars(ScannerStep) /\ WF_logVars(UpdateStep)

----------------------------------------------------------------------------
(* Properties *)

Delivered == {r \in Report : r[2] <= logLen[r[1]]}

\* An info file without a position keeps the scanner from the mail log.
Blind == info = Torn /\ ~LogOpen

\* What the scanner will read with the position it has, or has at hand.
Ahead(r) ==
    \/ Blind /\ r[1] = logPath
    \/ LogOpen /\ r[1] = fd.file /\ r[2] > fd.pos
    \/ scanner \in {"save", "line", "append"} /\ r = <<fd.file, fd.pos>>
    \/ LogOpen /\ r[1] = logPath /\ fd.file # logPath
    \/ ~LogOpen /\ ~Blind /\ r[1] = logPath /\ r[2] > SavedPos

\* No report is skipped: it was handed on, or the scanner will come to it, or its
\* mail log was rotated or written to while the scanner had not got it open, or
\* the scanner was stopped or killed before the end of a rotated mail log, or
\* killed, or failed to write, with this line in its hands (Filepos, slrtscn).
LinesFollowed == \A r \in Delivered : appended[r] > 0 \/ r \in excused \/ Ahead(r)

\* Saving the position only now and then costs repetitions after a kill, and
\* never otherwise: a report is handed on once, and once more for every kill.
\* The renaming gives every line to one import: there are never more rows than
\* lines (Filepos, update).
CountedOnce ==
    \A r \in Report :
        /\ appended[r] <= 1 + scanKills
        /\ bounces[r] <= appended[r]

\* A report in extbounce.log is not lost on its way: it is in a file, in the
\* table or in extbounce.fail, unless a writer was slower than the sleep of
\* renameToTemp.
ReportsKept ==
    \A r \in Report : appended[r] > 0 =>
        \/ r \in excused
        \/ ext[r] + temp[r] + left[r] + bounces[r] + failed[r] > 0

\* Without mishaps every report comes into the table or into extbounce.fail,
\* however the rotation and the two daemons are interleaved.
ReportImported ==
    \A r \in Report :
        r \in Delivered ~> bounces[r] > 0 \/ failed[r] > 0 \/ r \in excused \/ mishaps > 0
============================================================================
