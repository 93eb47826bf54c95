# TLA+ models of pgcenter

pgcenter is a command line tool for watching PostgreSQL: `pgcenter top` shows
live statistics, `pgcenter record` writes them to a tar archive, `pgcenter
report` replays an archive and `pgcenter profile` samples wait events.  This
directory holds TLA+ models of the parts of pgcenter whose correctness depends
on order, state and concurrency, TLC configurations that check them on small
instances, and TLAPS proofs for all instances.  Paths below are relative to
`src/`.

Running: `tlc -config TopKeys.cfg MCTopPipeline.tla` (one line per run in
`PROJECT.json`), `tlapm TopPipelineProofs.tla`.

## 1. Inventory

| component | code | state it keeps | operations | module |
|---|---|---|---|---|
| UI and its restarts | `top/ui.go`, `top/top.go` | `app.ui`, `config.view`, `config.views`, `errorRate`, `uiExit` | `mainLoop`, `doWork`, `layout`, `quit` | TopPipeline |
| key handlers | `top/config_view.go`, `top/extra.go`, `top/verbose.go` | fields of `config.view`, mirrored into `config.views` | order, scroll, width, filter, switch view, refresh interval, extra panel, verbose | TopPipeline (what is sent), Screen (what is shown) |
| dialogs and menus | `top/dialog.go`, `top/menu.go`, `top/signal.go`, `top/reload.go`, `top/reset.go`, `top/help.go` | focus, `config.dialog`, `config.menu`, `procMask`, `queryOptions` | open, answer, cancel, move, select, signals to backends, age limit, idle toggle | Dialogs |
| collector goroutine | `top/stat.go` `collectStat` | interval, trackers of extra and verbose, ticker | collect, deliver on `statCh`, take a view from `viewCh`, reset | TopPipeline |
| `stat.Collector` | `internal/stat/stat.go`, `internal/stat/postgres.go` | previous and current snapshot of every source, latency guard, overview of the server and cached size | `Update`, `Reset`, `ToggleCollectExtra`, `collectOverviewStat`, the verbose rows | Collector, Overview |
| views and their queries | `internal/view/view.go`, `internal/query/` | numbers of the columns to compute, to match and to sort by | `New`, `Configure`, `VersionOK` | Views |
| log tail | `internal/stat/log.go`, `top/extra.go`, `top/stat.go` | path, handle and remembered size of the log | open, read the last lines, notice a rotation, reopen, close | LogTail |
| filesystem poll | `internal/stat/fsstat.go` | one goroutine per mount, one shared channel | `parseFilesystemStats` | FsStats |
| main table | `top/stat.go`, `top/config_view.go` | order, widths, scroll offset, batches waiting in gocui | alignment, `visibleColumns`, printing | Screen, Columns |
| recorder | `record/` | the archive file, `O_TRUNC` flag, count, procfs readings of the last tick | `setup`, `open`, `collect`, `write`, `close`, `record` | Recorder |
| report | `report/report.go`, `internal/stat/postgres.go` | reader flags, previous snapshot, layout | `readTar`, `processData`, comparison, sort, filter, limit | ReportPipeline, Results, ReportSamples |
| profiler | `profile/profile.go` | durations per wait event, state of the backend | `profileLoop`, `countWaitEvents`, `printStat` | Profiler |

How they interact.  `mainLoop` starts `doWork`, which starts `collectStat`; key
handlers and `doWork` send a view on `viewCh`, `collectStat` sends batches on
`statCh`; both channels are unbuffered, and a context per UI generation is
cancelled when the UI fails.  `doWork` hands a batch to gocui's `Update`, whose
closure shows it later, in no fixed order.  `collectStat` calls
`Collector.Update`, which calls the filesystem poll.  Recorder and report share
nothing but the archive: the order in which `recorder.write` ranges over a map
is the order `readTar` must cope with.  The profiler is a loop of its own on two
connections.  The views are configured for the version of the server by `top` and
`record`, and again by `report` for every version it meets in the archive.  The log tail
reads, in the frames of the UI, a file the server writes and rotates.

What is hard: rendezvous on unbuffered channels while one side may have left
(`top`, `report`, the filesystem poll); state read before a wait and used after
it (the collector's trackers, batches of another view); snapshots rotated step by
step in an `Update` that may fail at each step; an archive written by processes
that may be killed; a file that is replaced under its reader; queries whose columns
change with the version of the server; integer geometry of a scrolling table.

For each component, what makes it correct:

* *UI, key handlers, collector goroutine*: rates are between two snapshots of one
  view; the collector follows the keys; handlers return; a failed UI is replaced;
  the screen ends up on the chosen view; no zero batch and no zero ticker.
* *stat.Collector*: every rate starts from the reading it claims to start from,
  whatever failed before; cached sizes are less than one interval old; no verbose rate
  spans a time in which nothing was measured.
* *views*: the numbers of a view fit the answer of the query it is configured with, the
  server can answer it, and a report reads an entry as it was recorded.
* *log tail*: a panel that sees no reason to read shows the last lines of the log; one
  that is behind catches up.
* *filesystem poll*: every answer is entered under its own mount; it returns.
* *main table*: settings survive switches; a batch of the current view can be
  printed; scrolling reaches the last column.
* *dialogs and menus*: an answer goes to the dialog that asked; signals reach the
  backends the user named and sees, and what is reported was done.
* *recorder*: a closed archive is complete; an interrupted one can be appended to
  without losing what was closed before; rates are over the time between their
  readings.
* *report*: every snapshot is compared once with its predecessor, never across
  versions, as long as no tick lacks it; rows are matched by key and the top ones kept; the report ends.
* *profiler*: the time counted for a query is the time it ran.

`PROJECT.json` lists every hazard with its line and the properties that cover it.

## 2. Modules

**TopPipeline** (with `MCTopPipeline`).  Three kinds of processes: the UI (`ui`),
`doWork` (`work[g]`) and `collectStat` (`cpc[g]`), the latter two one per UI
generation `g`.  A rendezvous on an unbuffered channel is one action of both
sides; `sendq` is the queue of senders on `viewCh` (Go wakes them first come,
first served).  A batch is known by the view it was collected for and the view
of the snapshot it was compared with.  `asked` is a history variable.  Whether
`mainLoop` gives up after an error (`errorRate`) is a free choice.  A key handler is two
steps, the change of `config.view` and the send of what `config.view` is then (`Notify`):
`doWork` may write the interval between them.  Handlers run as soon as the UI does, so
also while `doWork` still waits to send the first view (`Starting`, as long as the
queries of `NewCollector` take).  `mishaps` is a history variable of the two things that
break what is otherwise true: a handler that wrote the interval of the view in that time
(`early`), and a collector left alive when an external program was run (`orphan`).
Within a handler, saving one view and loading another is one step.  The branch
`prevCollectExtra` of `collectStat` repeats a Reset that has just been done and is
absorbed; ShowExtra and Verbose are mirrored into every saved view by the code and
kept once here.

**Collector**.  One action per step of `Update`; a reading is the number of the
Update that made it, so a rate *is* the reading it starts from.  Time counts in
units of 500 ms, the floor of the latency guard.  A difference that fails after
the rotation is the failure `"diff"`.

**Overview** (extends Collector, with `MCCollector`).  The verbose rows: which aggregates of
`collectOverviewStat` could be read, from which Update the size and its growth are, what
`renderPgstatVerbose` and `renderSysstatVerbose` make of them, and what a failure
leaves for the next tick.  A *world* fixes what may happen around the Updates: devices
that come and go, a backend whose procfs files come and go, queries of the overview that
fail or are slow, a source that cannot be read.

**Views** (with `ViewsProofs`).  The table of `view.New` and the choice of query by
`Views.Configure`.  A query is its columns: how many, which one is the key, which hold
numbers, and which versions have what it selects from (a fact about PostgreSQL, taken from
the tables and columns the template names).  `MCRecorder` takes the least versions of
its views from this table.

**LogTail**.  Files are sequences of bytes with identity; names, handles and the
remembered size are apart, as they are in the code, and a frame is two steps: the size is
asked for by name, the text is read through the handle.  Between any two steps the
server writes, truncates, renames, switches to another name or removes.  `lag` is a
history variable: something happened that the panel is allowed to miss.

**FsStats**.  The loop over the mounts, one goroutine per mount, the shared
channel `statCh`, the timeout of each request and the final `wg.Wait()`.

**Dialogs** (extends Screen, with `MCScreen`).  The window that has the focus decides
what a key means; `config.dialog` and `config.menu` decide what an answer does and
outlive their windows.  `prompt`, `masked` and `agedIn` are history variables: what is
on the screen, the mask entered last, the view in which the age limit was changed
last.  A session is chosen to work on the table or with dialogs: a key of the table
does nothing while a window is open, so the two meet only in the switches of views,
which both have.  The groups of a mask are ranged over as a map, in any order, and the
first query that fails ends it.  The query of the current view, and only that one, is
formatted anew when an option changes (`listed`).

**Columns, Screen** (with `MCScreen`).  `Columns` is the geometry of
`visibleColumns`: the walk from the end that limits the offset and the walk from
the front that fills the line.  `Screen` adds the settings of the views, the keys
and the batches that are shown late.  `SetAlign` is abstracted to the set of widths
it may return (`Shapes`).

**Recorder**.  The archive is a sequence of 512-byte blocks: header, data (one
block), and a trailer of two zero blocks; `-a` seeks to 1024 bytes before the end.
The process may be killed between any two writes and within one.  Each run finds a
server (version, schema of pg_stat_statements, local or not) from which `setup` derives
the views that are recorded (by the versions of `Views`), so that an archive may hold runs with different numbers of
entries per tick.  Of a local server procfs is read in every tick; a reading is known by
its age, and the maps of the tick before are computed where they are used.

**ReportContract, ReportPipeline**.  `ReportContract` is the abstract
specification: the comparisons a report prints.  `ReportPipeline` has the two
goroutines, two unbuffered channels, the flags `metaOK` and `statOK`, and is
shown to implement the contract (by TLC and by proof).  `gaps` are the ticks without a
snapshot of the report: a recorder that continues an archive may record other views than
the one before it (`filterViews`).  Their metadata keeps waiting, and from then on a
snapshot may be paired with the metadata of the tick before; the contract says what is
left of its promises there.  The layout (widths, names,
order column) is settled by the first comparison and kept; a later version whose
result has a column without a width, or lacks the order column, makes the print panic
(`ProgramPanics`).

**Results, ReportSamples** (with `MCReport`).  `Results` are the pure functions on
results: a cell is a number, a duration or text, a result a sequence of rows; `Diff`
matches rows by key, `Sorted` orders them by what the first row holds in the order
column, `Picked` leaves out what a filter does not match, `Limited` cuts it.
`ReportSamples` adds to ReportPipeline the rows that were recorded, the options of the
report and the rows that are printed: `GuardedStep` is a step the results allow,
`PrintSample` what it prints.  The operators of sorting and filtering are written by
places (a row stands at the place that counts the rows up to it) and not by recursion,
so that they can be reasoned about.

**Profiler**.  The loop over samples of `pg_stat_activity`: which of its branches a
sample takes, what is counted and when it is printed.

**TopPipelineProofs, FsStatsProofs, CollectorProofs, RecorderProofs, ReportPipelineProofs,
ViewsProofs, DialogsProofs, LogTailProofs** hold the theorems (DialogsProofs those of Screen, too, and
CollectorProofs those of Overview, ReportPipelineProofs those of ReportSamples).

## 3. Runs

| run | question | bounds, and why they are enough |
|---|---|---|
| `top_keys` | does the collector's bookkeeping follow the keys? | one generation, two views, every kind of key between any two steps, from before the first view is sent, every call failing; a third view adds no new relation between old, new and shown view; one batch waits to be rendered (`MaxPend`), as no property here is about frames |
| `top_live` | do handlers return, is a failed UI replaced, does the screen follow? | two generations: what one leaves behind meets the next; switches at any time, the UI may fail or run an external program at any point; after a program there is no second generation (`MaxOrphanGen`), because nothing that is checked here holds with two collectors; one batch waits to be rendered: a late one of another view, whichever is shown last |
| `top_reset_deadlock` | (violation) "if UI crashes then reinitialize it" | the failing query after a switch |
| `fs_slow` | does the poll return the right answers when nothing is late for good? | four mounts, three possibly slow, one possibly stuck: a late answer, the wrong receiver and one more mount |
| `fs_timeout_hang` | (violation) the timeout avoids a hang | one slow mount |
| `report` | right pairs, right rates, contract, end | four ticks from two versions, of which the first two may lack the report (two behind a gap, which is enough for a pair that lags to be compared with another): two comparisons on both sides of a change; rows that come, go, change places and hold NULLs; two recordings, three sets of options; columns (key, counter) in version 16 and (key, text, counter) in 17 |
| `report_diff_hang` | (violation) the report ends | one failing comparison, by a NULL in a counter |
| `collector` | from which reading does every number start, and which does a verbose row compare? | four Updates: first, previous, current and one after a failure, every step of which may fail; four worlds (devices that change in number; a backend and its procfs files; failing and slow queries of the overview; an unreadable source), because what happens in one leaves the data of the others alone; one aggregate of the overview, as each fails and is stored for itself |
| `record` | what survives kills, failures and `-a`; over what time are rates? | three runs on one file, three snapshots of two or three entries, a local server without and remote ones with pg_stat_statements, older and newer than procfs and WAL views need; one backend that may go, come back and be unreadable, ticks one interval late |
| `screen` | settings, late batches, geometry, dialogs | four keys, two batches, six views, a terminal of 28 cells with columns up to 40; or six keys in dialogs and menus between two switches of views by a key, three backends in three groups, two age limits: enough to set mask and limit and to send a signal |
| `log_tail` | does the panel show the log it names, and does it catch up? | two names, three writes of a line or a part of one, two truncations, rotations or removals: enough for a file to be replaced by one that is shorter, equal and longer; a buffer of three bytes and one line, so that either limit may be the one that cuts; UI failures and restarts |
| `profile_totals` | (violation) seconds a query has been executed | |

`CHECK_DEADLOCK FALSE` is set where the program may stop or where a bound on keys
or Updates ends the run; in the runs of `top` because of the deadlocks of section 6, which
`OvertakenForever` and `top_reset_deadlock` are about.  In `log_tail` it is the panel that
may be closed and the program that may give up.

Fairness.  Goroutines are scheduled (weak fairness of each process's next step).
Where a `select` of Go has several ready branches it picks one at random, so a
branch that is ready again and again is taken eventually (strong fairness of the
branches: cancellation, receipt of a view, a rendered closure).  Queries, statfs on a
mount that is not stuck, and external programs return.  Frames of the log tail come with
every tick, and a failed UI is rebuilt or given up.  No fairness for keys, ticks
of failure, kills or crashes; a handler that has begun goes on to its send (`Notify`).
In `top` the fairness of `doWork` and of the collector is of some generation's next step
(`\E g`), which is that of each generation while one of them lives: a run where two do has
ended what is claimed of it (`orphan`).

## 4. Proofs

A theorem holds for every value of the constants that the ASSUME of the module allows;
the runs show the same properties on one value.

*TopPipelineProofs.*  `TypeCorrect`; `GenerationsInOrder` is the inductive
invariant the rest needs: all earlier generations are over, `sendq` holds the UI
and `doWork` at most once each and agrees with where they are.  From it follow
`ZeroBatchNeverShown` (a zero batch needs a closed `statCh`, which needs a
cancelled context, which needs a UI that is gone) and `OneQuerierAtATime` (a new
generation starts after `wg.Wait()`; until an external program is run, whose return path
leaves the old collector alive: `NoOrphan`).

The second half ties the collector to the user: `OneKeyBehind`, by the invariant `KeyInv`.
It has three parts, each with what it needs.  Always, the program has started (`Started`).
While no collector was left behind (`NoOrphan`), `Steady`: what earlier generations left is
over (`OldOver`), the living collector has begun in order and gets no further than its first
batch before `doWork` has sent its view (`Begun`), and what it remembers, or will when it
receives the view of `doWork` (`Minds`), lacks at most the one key that is on its way
(`Lag`).  While besides no handler wrote the interval of the view early (`mishaps = {}`),
`AsAsked`: a view carries an interval only while it is handed over and none is saved
(`Transient`), snapshots and batches are of one view (`Snapped`), and the ticker has the
interval asked for, but for one on its way (`Timed`).  `CollectorFollowsUser` is of the
second part, `DeltasOfOneView`, `RefreshFollowsUser` and `TickerNeverPanics` of the third.
Keys may be pressed at any time, and nothing is assumed of the constants but their types; the
exceptions are in the properties themselves, because the code breaks them there (section 6).

`OvertakenForever` proves one of these: when the view of a handler reached the collector
before that of `doWork`, `doWork` never gets on, whatever else happens; a handler that
sends a view or asks for a program from then on stays there, and so does `mainLoop` in its
wait for `doWork`.  The same of a collector that has died before it received a view
(`Stuck`).

*FsStatsProofs.*  `FsTypeCorrect`; `TimeoutNeverReturns` (for every number of
mounts a call with a timeout never returns: the finding of `fs_timeout_hang`,
proved); from it `ReturnedAnswersOwn`, `NoSendOnClosedChannel` and `ReturnedAll` (the
mounts answered so far, in order, are those of the result so far: no answer is lost between
the channel and the slice).

*CollectorProofs.*  `CollectorTypeCorrect` bounds every reading by the number of Updates.
`CollectorRemembers` says that what is kept agrees with the history: the stored snapshot of
PostgreSQL is the one of the last Update that stored one, a backend's procfs values are
those of the last enrichment or none, a device that was read keeps its count, and a size in the cache was
measured with its time.  From it `RatesFromLast`, `ProcfsInSuccession`, `ZeroDeltasFlagged`
and `SizesFresh`, for any order of failures, latencies and numbers of devices.
`OverviewExtendsCollector` shows that the verbose rows add to Collector and take nothing
away, so that these theorems hold of Overview, too; `OverviewSince` proves
`OverviewSinceLast` by an invariant that relates the snapshot and the size in the cache to
the last two that were really measured.

*RecorderProofs.*  `RecorderTypeCorrect`, with what the types rest on (`Progress`: O_TRUNC
is for the first snapshot of a run only).  `RatesRecordedRight`: the readings there are were
made in one tick, or have just been.  `ArchiveIntact` is about the file, byte ranges in units
of blocks: the closed snapshots are at its beginning and hold what was written (`Kept`); the
two blocks that an append overwrites lie behind them (`Spare`), because a trailer at the end
of an unbroken file is that of the last closed snapshot (`Sealed`); what is being written is
whole up to `pos` (`Whole`), and between snapshots the trailer is there (`AtRest`).  From it
`SnapshotsSurvive` (kills at any write, `-a` on any remains) and `ArchiveComplete`.  What the
functions `EntriesOf` and `Found` return is proved of them as recursive functions; the
induction takes the least counterexample of a set of numbers, as no operator can be
passed to the library's induction theorems.  Assumed: there are finitely many kinds of
entries.

*ReportPipelineProofs.*  `ReportTypeCorrect`; `PairsMatch` by an invariant that ties
the flags to the entries of the tick still unread (exactly as long as all gaps lie
ahead, up to one tick behind them); `ReportImplementsContract` by step simulation:
`SentInv` relates the last snapshot sent and the comparisons done to the tick the reader
has reached.  The constants may be any archive: its length, versions, gaps and damage.

`SamplesExtendPipeline` carries this over to ReportSamples, whose own invariant `SampleInv`
has three parts: `processData` has the layout of the version it compares (`LayoutInv`), a
tick that has a snapshot holds a result of its version (`RecordedInv`), and every entry of
the output is the difference of two snapshots of one version, sorted, filtered and cut
(`OutputInv`).  From it `RatesRight` and `TopRowsPrinted`, for results of any size and any
options.  The lemmas below them say what the operators of Results do: counting those up to
an element puts a finite set in places of its own (`Places`), so that a sort returns every
row once, in order, and equal rows as they were (`SortedRows`), a filter keeps the rows that
match in their order (`PickedRows`), and the limit cuts only rows that come later
(`RowsListed`); a row of the difference is a row of the newer snapshot in all columns but
the counter (`DiffRows`), whose rate is rounded towards zero (`Rounded`).  Hypotheses: every
string has a place among strings (`LexTotal`, stated of infinitely many values, so that TLC
cannot evaluate it; the `Lex` of the runs satisfies it), and for `TopRowsPrinted` a key names
one row of a snapshot (`KeysUnique`, as the columns chosen as keys do, and as the results of
the runs do).

*ViewsProofs.*  For every version pgcenter can connect to and every setting it asks for:
`LayoutsFit` (the interval of rates holds numbers, key and order are columns of the
answer); `QueriesAnswerable` (a view that is not refused is answered by a server of that
version; except procpidstat before 9.6); `ConfigureForgets` (configuring again gives what
configuring once gives) and from it `ReportReadsAsRecorded`.  The argument is by cases on
the view, then on the thresholds of the versions; there are no constants and no
assumptions.  No run states these: a version is any number, and the table has no steps.

*DialogsProofs.*  `AnswersRight` and `SignalsRight`, for any views, menus, backends,
groups and ages and any number of keys, from `DialogInvariant`: the window with the focus
is the one `config.dialog` or `config.menu` names and was opened where it may be (so that
a change of the age limit finds Activity or procpidstat below it), the mask is the one
entered, the list of Activity has the limit if that was changed last there, and what the
last key sent went to the groups of the mask.  The views of the table enter only through
`Allowed`: they do not change under a dialog.

`DialogsKeepTable` shows that the dialogs implement the specification of the table, so that
what is proved of Screen holds of both: `SettingsFoundAgain` and `OwnBatchFits`, by
`TableInv`.  Its point is the type of a map of widths: its columns are some of the view's
own, or all of the view's own and more (`Known`), whatever batch of whatever view was
aligned in it and whatever column the user widened; so a map of as many columns as the view
has is complete, and the count that `alignViewToResult` compares decides.  Assumed, as in the code: no
menu and no group of views is empty, the menus do not offer the view of processes, and a key
changes a width by more than zero.

`WindowFitsScreen` and `WidestIsReached` are about the columns of Columns, for terminals and
columns of any width.  `FrameInv` says that the frame shows what `visibleColumns` computed
from the widths it was aligned with; the rest are lemmas on its two walks over the widths,
which `Cells` does as a recursive function, as `countFit` does: what was added up between two
columns is the distance between where they begin (`CellsBetween`); the walks count
exactly the columns that begin inside the budget (`FitsFrom`, `FitsAtEnd`); a right marker
for which no room was reserved fits in the gap of two cells behind the last column shown
(`WindowShape`); if the last column is the widest, the walk from the end and the one from
the offset agree that scrolling reaches it (`WidestReached`).

*LogTailProofs.*  `ReadsRecent` is about the text alone: reading back from the end gives the
longest ending of the log that begins with a line and fits the lines of the panel and the
buffer.  `PanelFollows` proves the invariant `FollowInv`: a panel that does not lag behind a
rotation has the file of its path open, no file has two names, the remembered size is at most
that of the log, between stat and read the file only grew, and what was read for the
remembered size is what the panel shows.  From it `LogTypeCorrect` and `QuietPanelShows`: a
panel that sees no reason to read shows the last lines of its log, for logs, panels and
buffers of any size and any number of rotations.

Out of the prover's reach and only model-checked: every liveness property
(`HandlersReturn`, `RestartCompletes`, `ScreenFollows`, `ReturnsUnlessTimedOut`,
`EndsUnlessCutShort`, `RunEnds`, `CatchesUp`).

## 5. Findings

Each has a run that shows it and a quotation in `PROJECT.json`: the deadlock
after Reset (`top/stat.go:130`), the hang after a statfs timeout
(`internal/stat/fsstat.go:156`), the hang of a report after a failed comparison
(`report/report.go:305`), a back-to-back query counted twice
(`profile/profile.go:161`).

## 6. Observations without a run

* An external program that returns with an error leaves the old collector alive; it
  may take the first view of the new UI or hold the connection (`top/ui.go:90`).
* Keys are bound and handled while `doWork` waits to send the first view, as long as
  the queries of `NewCollector` take (`top/ui.go:29` to `:86`).  Three things go wrong then.
  `top_keys` and `top_live` reach them all; the properties that would fail say so:
  - a switch after line 82 saves the interval of one second with the view
    (`top/config_view.go:241`), although "it should not be saved as per-view setting"
    (`top/ui.go:85`, `top/config_view.go:452`).  When another interval was chosen
    meanwhile, coming back to the view takes the early-out of the interval
    (`top/stat.go:93`) without Reset: the next batch compares the snapshots of two views,
    and ticks come with an interval nobody asked for.  A refresh dialog finished before line
    86 loses its interval or has it overwritten.  `DeltaOfOneView` and `RefreshAsAsked` are
    about sessions without such a key (`mishaps = {}`);
  - a handler that sends before `doWork` does (line 83) is received in its place.  The
    collector then waits for `doWork` to take its batch (`top/stat.go:73`), `doWork` for
    somebody to take its view, and the handler of the next key never returns; when the UI
    fails instead, `wg.Wait()` of `mainLoop` never ends.  `HandlersReturn`,
    `RestartCompletes` and `ScreenFollows` except it (`Overtaken`), `OvertakenForever` proves it;
  - a switch or a reload between lines 82 and 83 replaces the view by one with interval 0:
    `time.NewTicker` panics (`top/stat.go:83`).  `NoTickerPanic` is about sessions without
    such a key.
* sysinfo is written last in a tick and merged into the metadata by `readTar` when
  the pair of that tick has already been sent: it belongs to the tick before
  (`record/recorder.go:235`).
* The ticker is restarted after every Update, so on a tick the time since the last
  measurement of sizes is never below the interval; the guard throttles only Updates
  that a key started early, although `internal/stat/stat.go:401` describes more.  The growth
  rate after such an Update divides the growth of several intervals by one.
* An archive left without a trailer by a kill is appended to over its own data; only
  what was closed before is certain to survive (`ClosedSurvive`).
* Behind a tick that lacks the requested view `report` may pair snapshots with the metadata
  of the tick before (`report/report.go:217`).  When the version changes there, two results
  of different versions are compared once, although line 249 means to discard the previous
  one: wrong rates, or an index out of range (`internal/stat/postgres.go:639`).
* `report -N` says "no procpidstat data in this archive" whenever it printed no row: also
  for an archive with a single snapshot, or when a filter matched none
  (`report/report.go:338`).
* An archive continued with `-a` after an upgrade may hold more columns than the layout
  that was settled first: the report panics (`report/report.go:570`,
  `internal/stat/postgres.go:668`).  A NULL in the first row of the order column makes
  the sort one of strings; a row that is new is printed with its counters since they
  were reset, among rates; a filter on a column the result does not have prints nothing.
* The age limit and the idle toggle are one setting, but only the query of the current
  view is formatted anew (`top/config_view.go:363`): a limit changed in procpidstat is
  used by signals to groups and not by the list of activity.  `SignalsMatchList` is
  therefore about limits changed last in activity.
* When the query of one group fails, groups before it have got their signals and the
  message names only the error (`top/signal.go:97`).  A waiting backend is active, too,
  and is counted twice.  "Signals: done" is printed when the PID was no backend
  (`top/signal.go:38`).  A query report whose query fails is shown empty
  (`top/report.go:110`).
* Messages are cleared from the command line by a timer of 2 seconds that clears
  whatever is there by then, the prompt of a dialog, too (`top/ui.go:224`); two messages
  printed in a row reach gocui in no fixed order (`top/dialog.go:115` and `:152`).
* The live procpidstat screen divides by the refresh interval also when a key has started
  the Update early (`internal/stat/stat.go:385`); the recorder measures the time.
* With columns of 5, 40 and 5 cells on a terminal of 28 the walk from the end counts the
  wide column by what is behind it and the last column cannot be reached
  (`top/stat.go:813`); `WideLastReached` is therefore about views whose last column is the
  widest one.  The mark of hidden columns on the right may be printed behind the edge.
* `decreaseWidth` indexes `Cols`, which is empty before the first batch of a view
  (`top/config_view.go:97`); two late batches of narrower views leave a column without
  width, the print fails and the UI restarts (`top/stat.go:1003`).  Both are outcomes in Screen.
* `toggleSysTables` loads the view from the map without saving it (`top/config_view.go:337`).
* A query that replaced another one and ends before the next sample is not printed and
  its time goes to the next query; when the process exits nothing is printed although
  `profile/profile.go:126` says "print stats and return".

* `Update` counts the calls from the snapshot before the last one, as the snapshots are
  rotated only afterwards (`internal/stat/stat.go:308`): what is called the "number of calls
  per refresh interval" (`internal/stat/postgres.go:132`) is that of two intervals.
* An aggregate of the overview whose query fails shows the rate 0 in that tick, and in the
  next one the whole counter divided by the interval (`internal/stat/postgres.go:217`),
  although lines 26 to 28 and 352 to 354 promise n/a.  `OverviewSinceLast` is therefore
  about aggregates that could be read twice.  The growth is shown as 0, not as n/a, when
  no size was valid before; a size query that failed is cached like one that did not.
* A source that fails on the first verbose tick shows a delta of zero later that is not
  marked; disks and interfaces are compared by their index
  (`internal/stat/diskstats.go:190`, `internal/stat/netdev.go:179`).
* Log tail.  The frame that notices a rotation prints the text of the old handle under the
  name of the new file (`top/stat.go:233`).  When `Reopen` cannot open the file
  the handle stays closed, and even the key that closes the panel then fails
  (`internal/stat/log.go:39`).  A rotation to another name is never noticed, one by rename
  only if the new file is shorter at the next frame; a file replaced by one of the same
  size is not read.  After a restart of the UI the panel stays empty until the size
  changes.  A last line as long as the buffer shows an empty panel.  A file that was emptied
  between the question for its size and the read makes `Seek` fail and restarts the UI.
* The error rate counts in fixed windows: the seventh error within one stops the program
  although `top/ui.go:56` says five, and up to eleven pass in a second that spans two.
* The table is aligned to a batch by cutting the cells of the batch itself
  (`top/stat.go:1010`), which is the snapshot the next difference starts from
  (`internal/stat/postgres.go:582`); numbers are short enough in practice.
* Views.  procpidstat names no least version and selects `wait_event_type` (9.6); the
  common properties themselves need 9.6 and 10.  `New` gives databases_general 18 columns
  and the interval from 2 to 17, which `Configure` sets right.  `report` configures with
  nothing but the version, which is enough (`ReportReadsAsRecorded`).  Keys that cycle
  through groups stop at views the server does not support.  A NULL in a computed column
  of replication or sizes ends the sample; live and dead rows of tables are gauges and
  are shown as differences; statements are matched without `toplevel`, and by NULL for
  other users' rows a role may not see; progress_vacuum divides by `heap_blks_total`
  without a guard.  A record keeps the queries chosen at its start while the metadata of a
  tick carries the version of that tick.

### Not modelled

* Filters of the main table: a row stays when any filtered column matches
  (`top/stat.go:948`); colours; the exact widths of `SetAlign`.
* The parsers of procfs and the arithmetic of their rates; floating point.
* The number of errors in the window of `errorRate`: going on or giving up is a free
  choice, so that what holds does not depend on the threshold.
* Flags (`cmd/`), the SQL scripts of `config`, help texts and `describe`, the pager of
  `top/pglog.go`, formatting (`internal/pretty`, `internal/math`): no state, or I/O only.

## 7. Plan

The order is: what the program computes first, what surrounds it later.

1. *Done*: TopPipeline, FsStats, Collector, Overview, Recorder, ReportContract and
   ReportPipeline, Results and ReportSamples, Screen and Dialogs, Views, LogTail, with
   their proofs (those of Columns are in DialogsProofs); Profiler, which is checked by runs
   only.
2. *Model next*: the command line of `top/ui.go` (messages in no order, the timer that
   clears); filters of the table in Screen; the error rate as a counter; a passing run for
   Profiler with the times that do agree; the warnings of procpidstat that are
   given once.
3. *Abstract specifications worth stating*: what a collector promises its screen
   (batches of one view, each from the last one), implemented by TopPipeline over
   Collector; an archive as a sequence of closed snapshots, implemented by Recorder.
4. *Theorems next*: the totals of Profiler where they do agree; the two specifications of
   item 3.
