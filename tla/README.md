# OpenEMM in TLA+

OpenEMM is an e-mail marketing server: a Java web application (Struts, Spring,
Hibernate, Quartz) in which mailings are written and started, a *backend* in the
same JVM that generates them into files, a set of Python daemons that turn the
files into mail, read the mail log and clean up after bounces, and some C
programs.  The parts talk through MySQL tables and through directories of files.
All tables are MyISAM: one SQL statement is atomic, two of them never are.

This directory holds TLA+ models of the parts where an order of events nobody
wrote a test for decides whether a mailing goes out once, twice or not at all,
TLC configurations that check them on small instances, and theorems about them
that TLAPS checks for all instances.

## Inventory

| Component | State it keeps | Operations | What is hard about it |
|---|---|---|---|
| Maildrop life cycle: `MailingSendAction`, `EmmWebservice`, `DeliveryStatImpl`, `MailingImpl`, `MailingDaoImpl`, `RulerImpl`, `MailgunImpl`, `Data` | `maildrop_status_tbl` (genstatus, gendate), `mailing_tbl.deleted`, `rulebased_sent_tbl` | create a row, cancel, deactivate, delete, release when due, claim, generate, finish | request threads and the Ruler work on the same rows; check-then-act over several statements; failing statements; crash of the JVM; midnight |
| Generator output: `MailWriter`, `MailWriterMeta`, `Destroyer` | files in `var/spool/META` | start block, end block (stamp), done (final), destroy | readers may look at any moment; one row's clean up meets another row's files |
| `pickdist.py` | the same directory, `ARCHIVE`, `RECOVER`, `DELETED`, the mail queue | scan, clean up, hand a block to `xmlback`, file away | works on a listing that grows old; killed and started again; queue limit; time stamps in file names |
| Log pipeline: `slrtscn.py` (`agn.Filepos`), `update.py` | saved read position, `extbounce.log`, `account.log`, `bounce_tbl` | read on, append, rename and import | crash between two files; log rotation; writers of a renamed file |
| `softbounce.py` | `timestamp_tbl`, `bounce_collect_tbl`, `softbounce_email_tbl`, bindings | collect, merge, unsubscribe | a window of time closed by two statements; crash in between; boundary of the merged ids |
| `agn.lock`, `lock.c` | lock files | lock, unlock, take over | two starters and one stale file |
| `semu.py` (Windows) | mail queue, threads | scan, deliver, accept by SMTP | a file met again while it is delivered; shutdown |
| `bavd.py`, `bav-update.py`, bav milter | configuration, limit files, rules | filter, forward, answer, subscribe | limit recorded before the answer; lock time out |
| HTML editor FCKeditor (JavaScript in the browser): table commands, undo levels, spelling dialog | the table of the document and its map; levels and an index; text, flags and indexes of words | merge, split, insert, delete; save, undo, redo; ignore, replace, undo | long rows of legal commands; spans, holes and selections nobody drew; an index that runs out of its array |
| Event mailings: `MailingImpl.sendEventMailing`, `TimeoutLRUMap`, `preview` | prepared Mailguns | get, put, expire, execute | requests that share one Mailgun; a stale one |
| Actions, forms, subscribers, imports, target groups, statistics, click tracking, web pages | database records | one request each | little: sequential, or text |
| `xmlback`, C library, tag and target text generation | none between runs | convert | sequential |
| Control scripts, upgrade | processes | start, stop | restarts, modelled where they matter |

### How the parts interact

A request (or a web service call) inserts a maildrop row with `genstatus` 0
(wait for `gendate`) or 1 (generate).  For 1, unless the row is date or action
based, the same thread creates a Mailgun and generates at once.  Quartz calls
the two synchronized methods of one Ruler bean: `kickOffSimple` looks for date
based rows of the current hour whose mailing was not sent today, `kickOffDelayed`
for world rows with `genstatus` 0 whose `gendate` has passed; it sets these to 1.
A Mailgun reads `genstatus`, refuses anything but 1, and claims the row by
`UPDATE ... SET genstatus = 2 ... AND genstatus = 1`.  It writes the blocks of
the mailing as files into META: a block, its stamp when it is complete, and one
final file.  At the end the row gets 3, or 1 again when it is date based.
`pickdist` lists META every few seconds, moves files of deleted mailings away,
collects complete blocks of mailings with a due final file, and turns them into
messages of the sendmail queue.  `slrtscn` reads the mail log, `update` imports
what it found, and the nightly `softbounce` evaluates it.  On a system without
sendmail, `semu` keeps the mail queue and writes into the same log of bounces.
Every daemon holds the lock of `agn.lock` while it runs.  An action of a form may
send an event mailing to one customer: the request takes the prepared Mailgun of
the mailing from a cache all requests share.  The page a mailing is written in
contains an HTML editor, which keeps its own state until the page is submitted.

### What makes each component correct

* Maildrop: no row is generated twice for a day; a session gives a mailing one row
  of a kind, and a date based mailing goes out once a day at most; what was begun is brought to an end while nothing
  fails; what waits for its date is generated; only what has not begun can be
  cancelled; an activated mailing is sent.
* META: a block is not touched after its stamp, the final file comes after the
  last stamp and vouches for all of it, files only go as a whole.
* pickdist: no block is sent twice, none before its mailing is complete, blocks
  go in order, what is complete or deleted leaves, a failure costs one block.
* Log pipeline: no line of the mail log is skipped and none counted twice, but
  for a kill; a report that is in `extbounce.log` comes into the table or into
  `extbounce.fail`.
* softbounce: no bounce after the first run is missed, a bounce is collected in
  one run unless one failed, no row is deleted before it was counted, and an
  address is given up only on the evidence of enough bounces of its own.
* Lock: one holder; a starter that is alone gets the lock.
* Mail queue: a message is delivered once or bounces once, and leaves the queue
  for no other reason.
* Event mailings: a mailing that was stopped goes on for the lifetime of the cache
  at most; each request mails its own customer, to a file of its own.
* HTML editor: a table stays a grid and keeps its text, whatever is merged and
  split; undo and redo come to every document again; after any answers and undos
  the text of the spelling dialog is the one the flags tell of.

## Modules

| Module | Models | Depends on |
|---|---|---|
| `Maildrop` | rows, requests, Ruler, Mailgun, Destroyer, failures, days | |
| `Spool` | abstract specification of META | |
| `MaildropSpool` | refinement mapping: Maildrop implements Spool | `Maildrop`, instance of `Spool` |
| `Pickdist` | the daemon, over the directory that `Spool` changes | extends `Spool` |
| `Maildrop_proofs` | theorems about Maildrop and the refinement of Spool | `MaildropSpool`, `TLAPS` |
| `Pickdist_proofs` | theorems about Pickdist | `Pickdist`, `TLAPS` |
| `Softbounce` | the softbounce job and the bounces that arrive | |
| `Softbounce_proofs` | theorems about Softbounce | `Softbounce`, `TLAPS` |
| `LogPipeline` | mail log and its rotation, `slrtscn` with Filepos, `extbounce.log`, `update` | |
| `ProcessLock` | `agn.lock` and `agn.unlock`, several starters | |
| `MailQueue` | the queue of `semu`: scan, threads, relays | |
| `Daemons` | one of these three in each behaviour | `LogPipeline`, `ProcessLock`, `MailQueue` |
| `Daemons_proofs` | theorems about each of the three and about `Daemons` | `Daemons`, `TLAPS` |
| `EventCache` | `sendEventMailing`, `TimeoutLRUMap`, the shared Mailgun | |
| `FCKTable` | the table commands of the HTML editor | |
| `FCKUndo` | its undo levels | |
| `SpellChecker` | its spelling dialog | |
| `Webapp` | one of these four in each behaviour | `EventCache`, `FCKTable`, `FCKUndo`, `SpellChecker` |
| `Induction` | lemmas: induction with sets of numbers, solutions of recursions | `TLAPS` |
| `FCKTable_proofs` | theorems about the map of a table, and about its text | `FCKTable`, `Induction`, `TLAPS` |
| `FCKGrid_proofs` | theorems about its shape, and about rectangles | `FCKTable_proofs` |
| `Webapp_proofs` | theorems about `EventCache`, `FCKUndo`, `SpellChecker` and `Webapp` | `Webapp`, `FCKGrid_proofs`, `Induction` |
| `MCMaildrop`, `MCPickdist`, `MCSoftbounce`, `MCDaemons`, `MCWebapp` | instances for TLC | |

### Maildrop

`gen`, `gendate`, `deleted` and `lastsent` are the columns named above, `meta` the
files.  `genstatus` 0, 1, 2, 3, 4 are "scheduled", "now", "working", "finished",
"deleted"; a row that does not exist yet or any more is "none" or "removed".
Every thread ("worker") has a control state `pc`, the row `job` and the
`blockCount` of its MailWriter `blk`; the Ruler has the list `todo` of its
current job, `mode` (which job holds the monitor) and `rdate`, the local variable
`now` of `kickOff`.  Four history variables: `claims` per row and day, and the causes
by which the code may do what the properties exclude.  `lapsed` are the days that
began during a kick off, which goes on with the day before, or on which its look at
`lastsent` failed.  `loose` are the rows that were saved without a check (by the web
service), or on a check that a row of another session had outdated.  `orphans` are the
rows that were saved after their mailing was deleted.

One action stands for the code between two statements that other threads can
see: `SendMailing` ends where the loaded mailing is checked, `SaveDrop` is the
save; `CancelCheck` the SELECT and `CancelDelete` the DELETE; `ReadState` and
`Claim` the two statements of `queryMailingInformations`, and so on.
`SerializeRequestFilter` is `SessionFree`: requests of one HTTP session exclude
each other; the web service is not behind that filter.  `SaveDrop` stores the row even
if the mailing has been deleted since it was loaded: the row belongs to the loaded
mailing by then, and with `FlushMode.ALWAYS` (`OpenSessionInViewFilter`) the query with
which `saveMailing` looks for the mailing (MailingDaoImpl.java:111) inserts it first.
The save then fails, no Mailgun is started, and the row stays.

Time is counted in days.  `GenDay` of a world row is the day its generation may
start; the hour of a date based row is abstracted to the choice of which due
rows one `KickOff` lists (any non-empty set) and which of the values 0 and 1
`StartGen` gives to a new row.  A failing statement or generation is `Fault`,
the death of the JVM is `Crash`, both bounded by `MaxFailures`.

A row of an admin or test mailing has one block that never gets a stamp and is
removed at the end, as `MailWriterMeta.done` does it.

A file is named by row, run and number.  The names in the code have the mailing, the
time stamp and the number, and no status id: two generations of one mailing with equal
time stamps, which `MailWriter` takes from the clock in seconds, write to the same
files.  `File` in `Spool` and in `Maildrop` cannot show this, and the theorems about
META and `pickdist` are about generations whose time stamps differ.

### Spool, MaildropSpool

`Spool` knows a row, a run (the kick off day, or 0) and how far the generation
is; nothing of tables, threads, days and claims.  The refinement mapping `WorkOf`
computes the progress of a generation from the worker that has the row, and from
`claims` whether it has begun at all.

### Pickdist

The environment is `SpoolNext`, so what holds here holds for every generator that
implements `Spool`, and by `maildrop_spool` for Maildrop.  `due` counts the
blocks of a generation whose time stamp is in the past (it never decreases from
block to block, and the final file has the time stamp of the last block: both
from `MailWriter.startBlock`).  `listing` is one `os.listdir`, taken as atomic;
files that come or go later make it stale.  Between two steps of the daemon
everything else may happen.  The queue is counted in blocks, `QueueLimit` stands
for 5000 messages.  A file that vanishes makes `unlink` raise OSError where
`unpack` catches IOError, and `shutil.move` raise IOError where `moveTo` catches
OSError, so in both cases the daemon ends (`Die`), as the code does.  `handed`
and `finished` are history variables.

### Softbounce

The tables are variables: `at` is `bounce_tbl.change_date` of each bounce, `cur`
and `temp` the marker row of `timestamp_tbl`, `collect` is `bounce_collect_tbl`,
`score` `softbounce_email_tbl`, `status` the `user_status` of the bindings.  One
action stands for one statement, where another process sees or changes what it
touches: marking, sleeping, the window query (`Read`, whose result the client
keeps in `window`), one inserted row per customer (`Insert`), `MoveOn`, the merge
of one row, the purge, the list of high scores, the two updates of an address.
The queries of `MaxRow` and of `Judge` are one action each, since the tables they
read change in the job only, or the answer is arbitrary.  `Arrive` is the import
of a bounce by `update.py`, at any time.  `Fail` is a failing statement, after
which the next section goes on, or the death of the job.

A tick of the clock is a second for the window and a day for the age of a score;
`MinAge` and `KeepFor` are the code's 30 and 179 days, `Limit` its 7.  The start
of a job in the second of its predecessor is excluded: the job is run by a
schedule.  MyISAM fixes `now()` at the start of an insert, which is taken as the
insert itself; the second of sleep covers that too, as long as the insert waits
less.  `first`, `collected` and the field `merged` are history.

Two things the code does are visible in the properties: bounces from before the
first run are never collected (`NoneMissed` starts at `first`), and the row with
the highest id is merged but not deleted, so it is counted once more by the next
merge (`MergedTwiceAtMost`, and the factor 2 of `GivenUpOnEvidence`).

### LogPipeline

A report is named by its place in the mail log: the number of the log (its inode)
and of the line.  `logPath` is the log at the path, `logTo` the one syslogd
writes to, which is still the old one between `Rotate` and `Reopened`.  `fd` and
`since` are the fields of the open Filepos, `info` the info file, which `__save`
truncates (`Torn`) before it writes it, so both are states a kill can leave.
`handle` says where the file is that `slrtscn` has opened for appending: at the
path, renamed, left to nobody, or read already.  The files `ext`, `temp`, `left`
and `failed` and the table are bags of reports.  A row is in the table for good
once it is inserted: `bounce_tbl` is MyISAM, and the commits of `update.py` change
nothing.

Three history variables bound what a failure may cost: `scanKills`, `appended`,
and `excused`, the reports whose loss has a cause.  `LinesFollowed` says that
there is no other cause, `CountedOnce` that a report is repeated by kills only.  One of
the causes is an orderly stop: SIGTERM ends the inner loop of `slrtscn.py` after the
line at hand (90), and `fp.close` saves the position there (158).  A later start goes on
from it, but not if the mail log has been rotated (`ScanStop`): what was unread in the
old one is not read by anybody.
A `Torn` info file is a state the scanner never leaves (`Blind`); the property
counts its reports as still to come, since somebody has to repair the file.

### ProcessLock

Each starter is a process that calls `agn.lock` once.  A lock file is named by
the process that created it; `written` says whether its id is in it.  `TryAgain`
is the counter `n` of the loop.  `robbed` are those whose file was removed by
somebody else while they were alive, `together` and `alone` say who met whom in
the lock.  That two run at once is possible, and `OneHolder` says at which price.

### MailQueue

A message is a control file, which may be `empty` while a thread rewrites it, and
a data file.  `scan` walks through the listing, `copy` is what it read.  A thread
has a message, the relay it is at and the step within `run`.  Whether a message
is due is open.  The queue has two known ways to send twice: a scan that takes a
message up beside a thread (`overtaken`), and a connection that breaks, or a
kill, behind a message that was taken (`troubled`).  `OneOutcome` and
`GoneForAReason` say that there is no third.

### EventCache

One mailing, and requests of several threads.  A Mailgun is named by the request
that prepared it; `customer` and `pass` are fields of its Data: `campaignCustomerID`,
into which each request writes its customer (`Options`), and the counter that goes into
the name of the file of a mail.  `SelectCustomer` reads both, so only the monitor of
`executeMailgun` keeps a mail from going to the customer of another request.  The
mailing can be stopped (its row is removed) and deleted (`sanityCheck` ends an
execution then, before `pass` is counted).

`StopsWithinLifetime` has one exception, the Mailgun that is being prepared when the
row is removed: it comes into the cache later and gets its time stamp there.  `OwnMail`
says that each mail goes to the customer of its request, and that two mails with the
same pass and customer in the names of their files are of two Mailguns.

The user status of a request is left out.  `Data.options` stores it and
`BC.prepareClause` makes a condition of it (244-251), but the clause of an event
mailing is built from the join and the customer's id alone (254, 273): no query uses
the condition, and a customer of any status is mailed.

### FCKTable

A table is a sequence of rows of cells; the map is a function from positions to
cells, so that a hole is a position outside its domain.  Merging and splitting
work on the map, and `InstallTableMap` makes a table of it: spans are the length
of the first run of a cell, and a map with a hole throws when the rows are
already out, which leaves no table.  The other commands copy and remove cells by
their index in the row, without regard to spans.

`crude` and `ragged` name the ways in which the code gives up what the properties
claim.  `crude`, for `GridKept`: a command that ignores spans has met some, a cell
of several columns was split vertically, or cells that fill no rectangle were
merged.  `ragged`, for `TextKept`: such cells were merged, or a map was installed
that has holes or positions that two cells claim.  Without them both properties
hold for every row of commands.

The content of a cell is a set of nodes with text, one per cell at the beginning;
`Enclosed` are those that are elements without the mark `_moz_dirty`, as elements of a
loaded document are.  `MergeCells` (379-384) moves a child only if it is no such element
and takes the others out of their cells with all their text, those of the first cell
included; `MergeRight` and `MergeDown` move everything.  `TextKept` says that a merge
loses the marked out nodes of the selected cells and nothing else: `due`, what must be
there, is reduced by just these.

`RectangleRecognised` says what `_CheckIsSelectionRectangular` is good for: every
selection that fills a rectangle passes; one that hangs together and passes fills
one if the row or the column through its first cell is at most two positions long.

### FCKUndo

A document is named by the edit that made it.  `SavedData` is a JavaScript array:
an index below 0 adds a property that `length` does not count, and `Slice` is
`Array.slice` with its meaning for a negative end.  Both matter because
`CurrentIndex` falls below 0 when undo is asked for with nothing to undo while
`Changed` is set; `idle` marks this, and the properties hold until then.

### SpellChecker

Words are sequences of letters of different lengths, so that every replacement
moves the indexes of the words behind it.  Flags have the names of the code's
properties.  The whole text is rebuilt with every answer by `SetText`, as
`wordWindow.js` does it with `indexes`; `TextMatchesFlags` compares it with the
text one would write down from the values.

### Daemons, Webapp

The parts of `Daemons` share no state with each other, and neither do those of
`Webapp`; a variable chooses at the start which of them runs, so that one run
explores each of them alone.  `DaemonsCorrect` and `WebappCorrect` carry the
theorems about the parts over to these specifications.  What they do share with modelled parts is a file or a table that only grows:
`bounce_tbl`, filled by `LogPipeline`, is what `Softbounce!Arrive` stands for.

## Runs

| Run | Question | Bounds |
|---|---|---|
| `maildrop` | type, one generation per day, nothing stuck | 3 rows (world for tomorrow, test of the same mailing, date based), 1 request thread, 1 block, 2 days, 1 failure |
| `maildrop_pairs` | one row per session, one dispatch a day | 2 date based rows of one mailing, 2 threads of one session, one of another and the web service, 1 block, 2 days, 1 failure |
| `maildrop_live` | a scheduled mailing is dealt with | as `maildrop`, no failure |
| `maildrop_spool` | Maildrop implements Spool, final files vouch for their blocks | a world and a date based row of one mailing from the web service, 2 blocks, 2 days, 1 failure |
| `maildrop_cancel` | (violated) only what has not begun is cancelled | 2 world rows, a web thread and the web service |
| `maildrop_rule` | (violated) an activated mailing is sent | 1 date based row |
| `pickdist` | once, in order, only complete mailings, bounded loss, everything leaves META | a world and a test row of one mailing, 2 blocks, limit 1, 1 failure |
| `pickdist_step` | (violated) a block goes when its time has come | 2 world rows, 2 blocks, limit 1, no failure |
| `softbounce` | no bounce missed, repeated counts bounded, no row lost, no one given up without bounces | 4 bounces (3 of one customer, one of them hard), limit 2, 5 ticks, 1 failure |
| `daemons` | no report skipped, repeated or lost but by a kill; one holder; one outcome per message; every report is imported | mail logs of 2 and 1 lines, checkpoint 2, 2 mishaps; 3 starters, 2 deaths; 1 message, 2 threads, 2 relays, 2 troubles |
| `webapp` | stopped mailings stop, the right customer gets the mail; tables stay grids and keep their text; undo, redo; the text of the dialog | 3 requests for 2 customers, lifetime 2, clock to 2; 4 cells (one with an element that a merge drops) and 3 commands, 5 rows and 1 command, 2 rows with spans and 2 commands, at most 6 cells after an insertion; 3 levels, 1 key per level, 4 changes; 5 words, 3 answers |
| `table_rectangle` | (violated) rows and columns of the same size make a rectangle | as `webapp` |

Two rows of one mailing are what makes Destroyer, final files and the checks of
`sendMailing` and `kickOff` interfere; two blocks are enough for an order and for
a final file that vouches for more than its own block; two days contain one
midnight; one failure hits every control state, and what a second one adds is a
second loss (`BoundedLoss` counts them).  A queue limit of one makes the daemon
stop after every block that sendmail has not delivered.

In `maildrop_pairs` the second day begins during a kick off in some behaviours and
between two in others, the failure may hit the look at `lastsent`, and requests of two
sessions and of the web service stand between check and save at once: without `lapsed`
and `loose` TLC refutes both properties.

In `softbounce` five ticks hold two runs with bounces before, between and within
them and one after; three rows of one customer pass the limit of 2, also when one
is counted again; one failure meets every state of the job.

In `daemons` two mail logs are one rotation, with a checkpoint in the first and
lines before and after it; one report is a hard bounce whose customer is unsubscribed, one cannot be
imported, one is neither.  Two mishaps are a kill and a second failure while its
consequences last.  Three starters are what a race on a stale file takes: the
dead owner and two who find its file.  One message can be met by two threads.

In `webapp` a clock to 2 holds a stop at 0 with a request after the lifetime of the
entry, and an entry that is put at 1, after the stop, and used at 2.  The two requests of
one customer are alike, so the run takes them as symmetric; the properties name neither.
Three commands on two by two cells are enough to merge, damage and split
again.  The five rows hold a selection that hangs together, passes for a rectangle
and is none; in the two rows a deletion makes one cell cover a position of another.
So every exception named above is reached (each was found by TLC as a violation of
the property without it).  Three levels overflow with four changes and an undo.  Five
words hold two groups of equal words, interleaved, and a replacement is as long as
the word, longer, or equal to a word of the other group.

Deadlock is not checked: the system stops in these bounded instances when all
rows are dealt with, and the daemon when the directory is empty.

### Fairness

Maildrop: threads run on (weak fairness of a request's and the Ruler's steps).
Quartz starts both jobs again and again, and each waits for the monitor the
other holds at times: strong fairness of `KickOff` and `KickOffDelayed`, and of
`Tick`.  No fairness of users, failures and crashes.  Pickdist: the daemon runs
and is started again, sendmail delivers, time passes.  Neither needs fairness of
the writers.  The restart is the operator's: no script of the repository starts a
`pickdist` that has died again, and `DeletedLeaves` and `FinishedLeaves` rest on
somebody who does.

Daemons: `slrtscn` and `update` are loops that nothing but a kill or a failing
call keeps from their next step: weak fairness of `ScannerStep` and `UpdateStep`,
and none of the mail system, the rotation and the mishaps.  `ReportImported`
demands nothing once a mishap has happened: nothing starts a killed daemon again.

### Disagreements found

* `maildrop_cancel`: `DeliveryStatImpl` says it cancels "only mailings the
  generation has not yet begun", but deletes all world rows of the mailing after
  a look at the first, without a condition on `genstatus`.
* `maildrop_rule`: a date based mailing that is activated for an hour more than
  three hours ahead is stored with `genstatus` 0, which no job ever selects for
  this kind; the page says it "will be send every day".
* `pickdist_step`: `stepping` is documented to put time between the delivery of
  two blocks; `pickdist` waits for the due final file, which has the time stamp
  of the last block, and then sends all of them at once.

* `table_rectangle`: the comment of `_CheckIsSelectionRectangular` says "If every row
  and column in an area on a plane are of the same width and height, then the area is
  a rectangle"; the code looks at the rows and columns through a diagonal only, and at
  their lengths, not at where they begin.  A merge of such a selection takes text of
  cells that were not selected and loses text of some that were.

What follows was met while modelling; the named property states it as an exception
(`excused`, `overtaken`, `inFlight`, `crude` and so on), no run refutes it.

* A kill within `Filepos.__save` leaves an info file that keeps `slrtscn` from the
  mail log for ever (`Blind` in `LinesFollowed`).
* `update.py` never looks at the renamed files that an earlier process, or a failing
  open, has left behind (`left` in `ReportsKept`, the mishaps of `ReportImported`).
* Two daemons may run after two starters met one stale lock file (`OneHolder`); a
  lock file without an id ends the starter with a ValueError (`AloneGetsTheLock`).
* `semu.py` sends a message twice when a scan meets its thread, and removes one
  whose control file is being rewritten (`OneOutcome`, `GoneForAReason`).
* A row whose mailing is deleted between check and save is stored all the same, by
  the flush that precedes a query, and stays at `genstatus` 1 without anybody who
  generates it (`orphans` in `NothingStuckWithoutFailure`).
* Two sessions, or the web service beside one, make two rows of one mailing; the doc
  of `EmmWebservice.sendMailing` says of a world mailing "only once" (322), which the
  code does not look for (`loose` in `OneWorldDrop`).
* A kick off that is running at midnight lets a second row of a mailing pass on the new
  day, as does a failing query of `lastsent` (`lapsed` in `MailingOncePerDay`).
* `slrtscn.py` that is stopped with lines of a rotated mail log unread loses them
  (`excused` in `LinesFollowed`).
* The user status that an action gives to an event mailing has no effect (see
  EventCache).  `pass` is "a counter to enforce uniqueness on compaign mails"
  (Data.java:112), but each Mailgun counts its own, so a customer who gets two mails of
  one mailing in a second, from two Mailguns, gets one of them (`OwnMail`).
* A merge of cells drops the elements in them that the browser has not marked as its
  own, with their text (`Enclosed` in `TextKept`).
* `MergeCells` is offered for cells that touch at a corner and loses text; where the
  rectangle has a position without a cell it throws after it has emptied the cells
  before it.  A hole in the map makes a table disappear; splitting a wide cell
  vertically makes such a hole.  Where a wide cell covers part of one that spans rows,
  the scan of `_InstallTableMap` steps over the cell behind it (`TextKept`, `GridKept`).
* Two undos with nothing to undo make the next change one that cannot be taken
  back (`UnsavedOnTopOnly`).

## Proofs

Every theorem holds for all values of the constants that satisfy the named
assumptions of the module; bounds such as `MaxFailures` occur as arbitrary
numbers, and no set of rows, threads, bounces or messages is assumed finite
unless the module says so.  The pattern is the same throughout: a type invariant
with what a control state says of its variables, then the inductive invariant of
the property, one lemma per action or group of actions, and a temporal step at
the end.  Each inductive invariant was an `INVARIANT` of a TLC run before it was
proved.

| Theorem | States | Inductive invariant, and why the property needs it |
|---|---|---|
| `Maildrop_proofs!TypeCorrect` | `TypeOK` | `TypeInv`: a busy worker has a row, an open block a number |
| `GeneratedOnce` | `ClaimedOnce` | `ClaimInv`, see below |
| `AttendedUntilFailure` | `NothingStuckWithoutFailure` | `StuckInv`: while nothing has failed, a row at 2, or at 1 and no orphan, has a worker in a state that leads on |
| `FinalVouches` | `FinalComplete` | `FilesInv`: what a worker has written so far is in META, so that the final file finds it there; a test row has no final file; and the Ruler cleans up for a reason (`Cause`) |
| `SpoolImplemented` | `ImplementsSpool` | `WorkerInv` and `Mapped`, see below |
| `SentOncePerDay` | `MailingOncePerDay` | `DailyInv`, see below: the mailing the Ruler offers has no claim in any of its rows for a day that has not lapsed |
| `WorldSentOnce` | `OneWorldDrop` | `WorldInv`, see below: a checked request is to save a row that nobody has outdated, or has been marked |
| `Pickdist_proofs!PickdistTypeCorrect` | `TypeOK` | `TypeInv`: an open block has a number, and there is room for the block at hand |
| `BlockHandedOnce` | `HandedOnce` | `OnceInv`: a block that was handed over or is at hand is one its generation has left behind (`Past`), and has no stamp |
| `FinalisedOnly` | `OnlyFinalised` | `VouchInv`: the final files in the directory *and in the old listing* are of finished generations |
| `HandedInOrder` | `InOrder` | `OrderInv`: an earlier block that is complete now was complete when the directory was listed, and so is in the list as well |
| `LossBounded` | `BoundedLoss` | `LossInv`, see below |
| `Softbounce_proofs!TypeCorrect` | `TypeOK` | itself |
| `NeverMissed`, `RepeatedByFailure` | `NoneMissed`, `CollectedOnce` | `WindowInv`, see below |
| `MergedAgainOnce`, `MergedFirst` | `MergedTwiceAtMost`, `PurgedOnlyMerged` | `MergeInv`: ids grow, a row was merged once more only if it is the oldest one left, and the merge runs only if the purge will delete something |
| `JudgedOnEvidence` | `GivenUpOnEvidence` | `EvidenceInv`, see below |
| `Daemons_proofs!LockTypeCorrect` | `LockTypeOK` | `LockTypeInv`: tries by control state |
| `OneDaemon` | `OneHolder` | `LockInv`: the file belongs to one who writes, holds or is dead, and who was not robbed and runs owns it; what a starter has read was written by somebody who started before |
| `RobbedByRace` | `RobbedInRaceOnly` | `RaceInv`: without two starters at once, the file that is to be removed is still the stale one |
| `LockForTheAlone` | `AloneGetsTheLock` | `AloneInv`: who is alone finds no second file at the second try |
| `QueueTypeCorrect` | `QueueTypeOK` | itself |
| `DeliveredOnce`, `LeftForAReason` | `OneOutcome`, `GoneForAReason` | `OneThreadInv` (one thread, or the scan, has a message) and `OnceInv` (what has become of it, by the step of its thread) |
| `LogTypeCorrect` | `LogTypeOK` | `PosInv`: no position is beyond what was written, none saved is ahead of the one in memory |
| `NoReportSkipped` | `LinesFollowed` | `FollowInv`: also what lies before the *saved* position is handled, which is where a restart begins |
| `ReportCountedOnce` | `CountedOnce` | `RepeatInv` (what is still to come was appended once per kill at most) and `RowInv` (a line is in one of the file, the renamed file and the table) |
| `ReportKept` | `ReportsKept` | `KeptInv`: a line of the renamed file waits, has left a row or a line, or the file is kept |
| `DaemonsTypeCorrect`, `DaemonsCorrect` | `DaemonsTypeOK`; the eight invariants of the run `daemons`, of `DaemonsSpec` | those above: a step of one daemon is a stutter of the others |
| `FCKTable_proofs!TableTypeCorrect` | `TableTypeOK` | `TextInvariant` |
| `TextIsKept` | `TextKept` | `TextInvariant`: no text node is in two cells, which the text of a merged or split cell needs, and all text is there while nothing was ragged; see below |
| `CreateTableMapLays`, `BrickInstall` | what the two conversions between table and map compute | for every table and every map of rectangles |
| `FCKGrid_proofs!GridIsKept` | `GridKept` | itself with `TextInvariant`, see below |
| `RectanglesAreRecognised` | `RectangleRecognised` | none: it holds for every table and selection, see below |
| `Webapp_proofs!EventTypeCorrect` | `EventTypeOK` | `GunInv`: who executes has a Mailgun |
| `StoppedInTime` | `StopsWithinLifetime` | `StopInv`: what is in the cache and was not in flight has a time stamp from before the stop |
| `OwnCustomer` | `OwnMail` | `CustomerInv`: between `options` and the query nobody else is there with the same Mailgun, so the customer in its Data is the request's own, and the pass is above that of each mail it made |
| `UndoTypeCorrect` | `UndoTypeOK` | `UndoInv`: the levels at indexes from 0 on are dense |
| `UnsavedOnTop`, `RedoUndoesUndo` | `UnsavedOnTopOnly`, `RedoGivesBack` | `UndoInv`: `Length` is the number of them, the document is in the level at the index or on top of all, and after an undo the next level holds what it took away |
| `SpellTypeCorrect` | `SpellTypeOK` | `SpellIInv`, see below |
| `TextAlwaysMatches` | `TextMatchesFlags` | `SpellIInv`, see below |
| `WebTypeCorrect`, `WebappCorrect` | `WebTypeOK`; every other property of the run `webapp`, of `WebSpec` | those above: the parts share no variable |

### The longer arguments

`GeneratedOnce`.  It has to be known that a row offered with `genstatus` 1 has no
claim yet.  For a world or test row `OfferedOnce` says so: no step leads from 2 or
3 back to 0 or 1.  A date based row is offered every day; `NotAhead` says that no
claim is ahead of `lastsent`, and `ListedUnclaimed` that what the Ruler has on its
list, or has stamped, is unclaimed since the kick off's own date.  `SaveOK` (ids
are fresh), `KindOK` (only the Ruler generates date based rows) and `DaysOK` (no
date lies ahead) close the induction.

`SpoolImplemented`.  `WorkSteps` shows that each of the actions of `Maildrop` is, as
far as META is concerned, of one of five forms: it concerns no worker with files
(`Aside`), ends all of them (`AllLeave`, a crash) or one (`OneLeaves`), claims a
row (`Claims`), or is one step of one worker (`Works`).  `WorkOf` chooses the worker
that has a row by CHOOSE; `Mapped` says that there is one such worker at most, which
rests on `GeneratedOnce`: a second worker would need a second claim.  With that a
step of a worker changes the abstract `work` at one place, and each form maps to an
action of `Spool` or to a stutter.

`SentOncePerDay`, `WorldSentOnce`.  Both hold without a hypothesis about what runs or
fails; what the code does not prevent is in `lapsed` and `loose`, which say when and of
which rows.  `Within`: a kick off works with today's date unless today has lapsed.  So a
mailing that is to be stamped was not stamped today, or today has lapsed, and one that is
offered has no claim for the day it was stamped with (`Offered`): its earlier claims are
of stamps before.  `InTurn`: two requests of one session are never under way at once.
`NewToSave`: a request of the web interface that is to save a row not in `loose` sees no
other row of this mailing and kind, but for rows in `loose`; a row that another session
saves in the meantime puts the one to be saved into `loose`, and a service row itself.

`LossBounded`.  `Orphans` are the complete blocks that have lost their stamp and are
not at hand, those of generations still at work included, since these may finish
later; `CountInv` bounds their number by the failures.  It remains that no complete
block is left without a final file: `WrittenInv` ties the numbers of blocks to that
of the final file, `DueInv` says that a block is due as soon as its final file has
gone to the archive, and `ListedInv` covers the time between `listdir` and the
move, when a final file without data *in the listing* may get blocks in the
directory.

`NeverMissed`, `RepeatedByFailure`.  `ClockInv` says that nothing lies in the future,
and that the window is closed (`temp < now`) before it is read: this is what the
sleep is for, since a bounce that arrives later is then outside.  `ReadInv` says
that a bounce in the window is still to be read or was collected, so that `MoveOn`
passes none by.  `RetryInv` says that what lies beyond `cur` was collected by failed
attempts only, which is what `CollectedOnce` needs at the next `Insert`.

`JudgedOnEvidence`.  A score alone says nothing, since rows are merged twice.  The
invariant is score plus the merges its rows are still good for (`Due`, at most two
per row) at most twice the number of soft bounces that were collected; a merge moves one
unit from the second to the first, an insert adds two on both sides.  The sets are
finite in every reachable state, which is part of the invariant; `Bounces` itself
need not be.

`TextAlwaysMatches`.  The text is a concatenation over the words; an answer replaces
one of them, and `SetText` moves the indexes of those behind it by the difference in
length.  `Fits` says that the text is the last of its prefixes, one per word, and that
each index is the length of the one before; a replaced word changes the prefixes
behind it in their middle only (`SameBehindWord`).  An answer for all does this word by
word, an undo backwards.  The flags need four more conjuncts, about the word that leads
a group and those that follow it: else an undo would not know which to take back.

Induction over data.  The library's induction theorems take an operator as a
parameter, which no installed prover can instantiate.  `Induction` states them with
sets: a set that contains 0, and n + 1 with n, contains all numbers (`SetInduction`, from
the well-founded order of finite sets), or all up to a bound (`UpTo`); and a recursion
over `0 .. n` whose steps are functions has a solution (`RecursionHasSolution`).  A lemma by induction defines the
set of the n for which it holds; a recursive function of the model, which is a CHOOSE,
is one of the solutions.  So `_CreateTableMap` (a fold over the cells), the scan of a
row in `_InstallTableMap`, `RunLength`, the connectedness of a selection and the text
of the dialog are proved for every input.

`TextIsKept`.  `Laid` is what `_CreateTableMap` gives for any table, with overlaps and
holes or not.  `Installed` is what `_InstallTableMap` makes of any map without holes:
one cell for each position in `Stays`.  Whatever the map, each cell it installs has
the text of an id of the map, and two cells never that of the same id (`Inherits`);
deletions and failing merges do no more.  To lose nothing (`Keeps`) every id has to be
installed.  Where nothing is covered the cells of a map are `Bricks`, rectangles that
no other meets, and merging a rectangle of bricks or splitting one leaves bricks
(`MergedBricksAre`, `WiderBricksAre`, `LongerBricksAre`), of which none is stepped over.

`GridIsKept`.  It must be known that the *next* `_CreateTableMap` finds every cell where
the command meant it to be.  `TilingIsMapped`: if the cells of a table can be given
columns such that their rectangles are disjoint and fill each row, in the order of the
row, then these are the columns `_CreateTableMap` finds.  So a table is a grid as soon as every
position has one owner (`Owned`, `OwnedGrid`), and each command is proved by naming
the owners after it.  Merges and horizontal splits install bricks (`BrickInstall`).  Insertions
and deletions of rows and columns are not crude on tables without spans (`Simple`);
those of single cells always are.  A vertical split adds one cell to a row, or a row of one cell
(`Grows`), and cells that the new row crosses become one higher (`Shared`).

`RectanglesAreRecognised`.  One direction: every run in a rectangle has its width or
height.  The other: nothing selected lies above the first cell, or left of it in its
row.  If there are at most two rows or columns, the diagonal meets each column (or
row); its lengths leave no room above and below the two rows, and where it meets the
second row that row ends where the first does (`NarrowIsApart`).  So the block touches no
other selected position, and a set that hangs together has no part like this but
itself (`ConnectedIs`, over all steps of the search).  With three rows and columns this
fails: between two positions of the diagonal a row may be shifted, which is what
`table_rectangle` finds.

### What the proofs changed in the models

* `FinalComplete` was false for two generated rows of one mailing: when the Ruler
  cleans up after one of them, `Destroyer` takes the blocks of the other as well,
  and that one goes on and writes a final file over what is gone.  The run has one
  row per mailing and kind; the property now excepts `Shared` rows by name: two of
  one mailing, after a failure or the deletion of the mailing.
* `StopsWithinLifetime` was false for `Lifetime = 0`, where a Mailgun is stale in
  the second it is put into the cache and is still used by the request that did.
* `MailQueue`, `LogPipeline`: types that TLC's instance satisfied by accident
  (bags typed as a whole, `NoThread` apart from the threads) became assumptions or
  parts of the type invariant.

* `FCKTable`: `TextKept` had excepted cells that do not hang together; the proof
  needed cells that fill no rectangle, and TLC then showed a selection that hangs
  together and passes for one (`table_rectangle`, `RectangleRecognised`).  That a
  merge throws with cells emptied, and that covered positions lose text, came from
  the same cases, as did which text moves when a cell is stepped over: `ragged` now
  names them.

### Model-checked only

* Liveness: `ScheduledIsGenerated`, `DeletedLeaves`, `FinishedLeaves`,
  `ReportImported`, and the three refuted properties, which are TLC's to refute.

## Not modelled

Contents of mailings and blocks, target groups, the subscriber tables, the preview
with its cache, `bavd` and its configuration (the limit of the auto responder is
recorded before the answer is tried, bavd.py:141), the SMTP server of `semu`
(whose shutdown drops a message that was accepted, semu.py:825), everything in C,
the web pages, and of the bundled JavaScript all but three parts of the editor:
28000 of its 66000 lines are texts in other languages, and most of the rest, third
party code shipped unchanged, renders.  `PROJECT.json` gives the reason for each.  Within the modelled parts:
hours (see above), the stepping of time stamps beyond their order, the company id
(one company), and `BillingCounter`'s table.  In Softbounce: several customers
with one address, deleted customers (their rows are purged unread), a subscriber
who comes back, and a marker row inserted twice (softbounce.py:58).  In
LogPipeline: lines for `account.log`, an inode that is used again.  In MailQueue: orderly shutdown and exceptions no clause
of `run` catches.  In Maildrop: two generations with one time stamp (see above).  In the
editor: the line breaks a merge inserts, bookmarks of the Internet Explorer, several
texts in one spelling dialog.

## Plan

All modules of the first plan are written, and every safety property that a passing
run checks is proved, of the parts and of the specifications the runs explore.  What
is left:

1. `Pickdist` over `Maildrop`: the theorems of `Pickdist_proofs` for a directory that
   `Maildrop` writes.  `SpoolImplemented` says that it obeys `Spool`; the composition
   of the daemon with it has no module yet.
2. `GridKept` for insertions and deletions in tables with spans, when the commands do
   what they promise: which spans they may meet without harm.

Of the system, candidates for more models are the preview's cache of Mailguns, the
auto responder of `bavd`, and double opt in over actions and forms.
