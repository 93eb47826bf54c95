------------------------------- MODULE Collector -------------------------------
(***************************************************************************)
(* stat.Collector: what one Update reads, which earlier readings it is     *)
(* compared with, and how collectStat paces the calls.  A reading is known *)
(* by the number of the Update that made it (0: none), so a rate is known  *)
(* by the reading it starts from.  Any step of Update may fail; what was   *)
(* rotated before the failure stays rotated.                               *)
(*                                                                         *)
(* Time is counted in units of 500 ms, the floor of the latency guard.     *)
(***************************************************************************)
EXTENDS Integers

CONSTANTS
  Devices,      \* sources of which usage is computed: disks, interfaces
  Pids,         \* backends that may appear in pg_stat_activity
  Refreshes,    \* refresh intervals
  Worlds,       \* what may happen around the collector, see IsWorld
  Pauses,       \* when, after a batch, a key press may end the wait early
  Failures,     \* steps of Update that may fail
  MaxUpdates    \* bound: number of Updates

\* The steps of Update that may end it, in their order.
StepNo == [system |-> 1, panel |-> 2, activity |-> 3, result |-> 4, diff |-> 5, none |-> 6]

StepNames == {"system", "panel", "activity", "result", "diff", "none"}

\* A world: the numbers of devices a source may have, the sources that may
\* fail when read for the verbose rows, the backends there are, whether their
\* view may be chosen, how long the query of the database sizes may take, and
\* which queries of the overview may fail.
IsWorld(w) ==
  /\ w.counts \subseteq Nat \ {0} /\ w.silent \subseteq Devices
  /\ w.pids \subseteq Pids /\ w.enrich \subseteq BOOLEAN /\ w.latencies \subseteq Nat
  /\ "failing" \in DOMAIN w

ASSUME CollectorAssumption ==
  /\ \A w \in Worlds : IsWorld(w)
  /\ Refreshes \subseteq Nat \ {0}
  /\ Pauses \subseteq Nat
  /\ Failures \subseteq StepNames \ {"none"}
  /\ MaxUpdates \in Nat
  /\ "nothing" \notin Devices

VARIABLES
  world,     \* the world of this behaviour
  pc,        \* where collectStat is
  n,         \* number of Updates made
  now,       \* time
  view,      \* the view in use: verbose or not, per-process statistics or not
  panel,     \* config.collectExtra
  refresh,   \* refresh interval
  dev,       \* previous and current reading of each source, number of devices
  pg,        \* previous and current Postgres snapshot
  pids,      \* previous and current procfs reading of each backend
  verb,      \* verboseCollectState
  out,       \* what the last Update returned
  last       \* history: the last Update that stored a snapshot, and the last
             \* that read procfs, since Reset

settings == <<world, view, panel, refresh>>
vars     == <<pc, n, now, settings, dev, pg, pids, verb, out, last>>

\* The panel shows one source, filesystems (of which no usage is computed), or
\* nothing.
Panels == Devices \cup {"nothing"}

NoSnapshot == [at |-> 0, verbose |-> FALSE]
NoReading  == [p \in Pids |-> 0]
NoVerbose  == [active |-> FALSE, slow |-> 0, run |-> 0, cached |-> 0, time |-> 0]
NoHistory  == [stored |-> 0, enriched |-> 0]

Init ==
  /\ world \in Worlds
  /\ pc = "start"
  /\ n = 0
  /\ now = 0
  /\ view \in [verbose : BOOLEAN, enrich : world.enrich]
  /\ panel \in Panels
  /\ refresh \in Refreshes
  /\ dev = [d \in Devices |-> [prev |-> 0, curr |-> 0, count |-> 0]]
  /\ pg = [prev |-> NoSnapshot, curr |-> NoSnapshot]
  /\ pids = [prev |-> NoReading, curr |-> NoReading]
  /\ verb = NoVerbose
  /\ out = [step |-> "system"]
  /\ last = NoHistory

-----------------------------------------------------------------------------
(* Update                                                                  *)

\* Step s has been done when Update ends at step e.
Done(s, e) == StepNo[s] < StepNo[e]

\* Mutant: a source shown in the panel is read again for the verbose rows.
TimesRead_NoGuard(d) == (IF panel = d THEN 1 ELSE 0) + (IF view.verbose THEN 1 ELSE 0)

\* How often a source is read: for the panel, else for the verbose rows.
TimesRead(d) == IF panel = d \/ view.verbose THEN 1 ELSE 0

\* collectDiskstats, collectNetdevs: when the number of devices has changed
\* the new reading is compared with itself.
Read(r, k, c) == [prev |-> IF c = r.count THEN r.curr ELSE k, curr |-> k, count |-> c]

\* A source that fails keeps its readings: with an error for the panel, which
\* ends Update, silently for the verbose rows.
ReadDevices(k, e, c, silent) ==
  dev' = [d \in Devices |->
            IF ~Done("panel", e) \/ d \in silent \/ TimesRead(d) = 0 THEN dev[d]
            ELSE IF TimesRead(d) = 1 THEN Read(dev[d], k, c)
            ELSE Read(Read(dev[d], k, c), k, c)]

\* latencyGuardThreshold: a quarter of the interval, at least 500 ms.
Threshold == IF refresh \div 4 > 1 THEN refresh \div 4 ELSE 1

\* dbSizeThrottled: the last query was slow and is not repeated yet.
Throttled ==
  /\ verb.cached # 0
  /\ verb.slow > Threshold
  /\ now - verb.run < refresh

\* Mutant: the clock of the guard is also stamped when nothing is measured.
Measured_StampedAlways(k, l) ==
  IF Throttled
  THEN [verb EXCEPT !.run = now]
  ELSE [verb EXCEPT !.slow = l, !.run = now + l, !.cached = k, !.time = now + l]

\* Mutant: the clock is set to the time of the next query, not of the last.
Measured_Deadline(k, l) ==
  IF Throttled
  THEN verb
  ELSE [verb EXCEPT !.slow = l, !.run = now + l + refresh, !.cached = k, !.time = now + l]

\* The sizes of the databases are measured, or the cached ones shown.
Measured(k, l) ==
  IF Throttled
  THEN verb
  ELSE [verb EXCEPT !.slow = l, !.run = now + l, !.cached = k, !.time = now + l]

\* Mutant: verbose mode is remembered although it has been left.
Remembered_Sticky(e) == verb.active \/ (Done("panel", e) /\ view.verbose)

\* prevVerboseActive after an Update that ends at step e.
Remembered(e) == IF Done("panel", e) THEN view.verbose ELSE verb.active

\* Mutant: the reading of a backend that has gone is not dropped.
Rotated_Kept(k, seen, readable) ==
  [prev |-> [p \in Pids |-> IF p \in seen THEN pids.curr[p] ELSE 0],
   curr |-> [p \in Pids |-> IF p \in readable THEN k ELSE pids.curr[p]]]

\* The backends of this activity snapshot keep their reading as the previous
\* one; those whose procfs files are readable get a new one.
Rotated(k, seen, readable) ==
  [prev |-> [p \in Pids |-> IF p \in seen THEN pids.curr[p] ELSE 0],
   curr |-> [p \in Pids |-> IF p \in readable THEN k ELSE 0]]

\* Mutant: nothing is stored when the comparison fails.
Stores_OnlyIfCompared(e) == e = "none"

\* The snapshot is stored before it is compared.
Stores(e) == Done("result", e)

\* Update ends at step e ("none": with a result); c devices are found, the
\* query of the sizes takes l, the other arguments are as above.
Update(e, c, silent, l, seen, readable) ==
  LET k        == n + 1
      measures == Done("result", e) /\ view.verbose
      enriches == Done("result", e) /\ view.enrich
  IN
  /\ n' = k
  /\ e = "panel" => panel # "nothing"
  /\ silent # {} => view.verbose /\ panel \notin silent
  /\ ReadDevices(k, e, c, silent)
  /\ verb' = [(IF measures THEN Measured(k, l) ELSE verb) EXCEPT !.active = Remembered(e)]
  /\ now' = IF measures /\ ~Throttled THEN now + l ELSE now
  /\ pids' = IF enriches THEN Rotated(k, seen, readable) ELSE pids
  /\ pg' = IF Stores(e)
           THEN [prev |-> pg.curr, curr |-> [at |-> k, verbose |-> view.verbose]]
           ELSE pg
  /\ last' = [stored   |-> IF Done("result", e) THEN k ELSE last.stored,
              enriched |-> IF enriches THEN k ELSE last.enriched]
  /\ out' = [step    |-> e,
             after   |-> last,
             base    |-> pg'.prev.at,
             first   |-> view.verbose /\ ~verb.active,
             usage   |-> [d \in {d \in Devices : Done("panel", e) /\ TimesRead(d) > 0
                                                 /\ d \notin silent} |-> dev'[d].prev],
             number  |-> [d \in Devices |-> dev[d].count],
             devices |-> c,
             shown   |-> panel,
             sizes   |-> IF measures THEN now' - verb'.time ELSE 0,
             allowed |-> refresh,
             procfs  |-> IF enriches THEN pids'.prev ELSE NoReading]
  /\ UNCHANGED settings

-----------------------------------------------------------------------------
(* collectStat                                                             *)

\* The Update of a new collector, or after a Reset, fills the previous
\* snapshots; a new collector gives up when it fails.
Continue(e) ==
  CASE pc = "start"   -> IF e = "none" THEN "collect" ELSE "ended"
    [] pc = "prefill" -> "collect"
    [] pc = "collect" -> "wait"

Collect ==
  /\ pc \in {"start", "prefill", "collect"}
  /\ n < MaxUpdates
  /\ \E e \in Failures \cup {"none"}, c \in world.counts, silent \in SUBSET world.silent,
        l \in world.latencies, seen \in SUBSET world.pids :
       \E readable \in SUBSET seen :
         Update(e, c, silent, l, seen, readable) /\ pc' = Continue(e)

\* time.NewTicker(refresh) is started anew for every wait.
Tick ==
  /\ pc = "wait"
  /\ now' = now + refresh
  /\ pc' = "collect"
  /\ UNCHANGED <<n, settings, dev, pg, pids, verb, out, last>>

\* A view with a changed interval, panel or verbose mode keeps the snapshots.
Adjust ==
  /\ \/ refresh' \in Refreshes \ {refresh} /\ UNCHANGED <<view, panel>>
     \/ panel' \in Panels \ {panel} /\ UNCHANGED <<view, refresh>>
     \/ view' = [view EXCEPT !.verbose = ~@] /\ UNCHANGED <<panel, refresh>>
  /\ pc' = "collect"
  /\ UNCHANGED <<world, pg, pids, verb, last>>

\* Any other view: Reset.  The readings of the devices are kept.
Reset ==
  /\ view' \in [verbose : {view.verbose}, enrich : world.enrich]
  /\ pg' = [prev |-> NoSnapshot, curr |-> NoSnapshot]
  /\ pids' = [prev |-> NoReading, curr |-> NoReading]
  /\ verb' = NoVerbose
  /\ last' = NoHistory
  /\ pc' = "prefill"
  /\ UNCHANGED <<world, panel, refresh>>

\* A view arrives before the tick.
Receive ==
  /\ pc = "wait"
  /\ \E d \in Pauses : d < refresh /\ now' = now + d
  /\ Adjust \/ Reset
  /\ UNCHANGED <<n, dev, out>>

\* collectStat has returned, or the bound on Updates is reached.
Ended ==
  /\ pc = "ended" \/ n = MaxUpdates
  /\ UNCHANGED vars

Next == Collect \/ Tick \/ Receive \/ Ended

Spec == Init /\ [][Next]_vars

-----------------------------------------------------------------------------
Returned == out.step = "none"

\* Every variable keeps its type.
TypeOK ==
  /\ world \in Worlds
  /\ pc \in {"start", "prefill", "collect", "wait", "ended"}
  /\ n \in Nat /\ now \in Nat
  /\ view \in [verbose : BOOLEAN, enrich : BOOLEAN]
  /\ panel \in Panels /\ refresh \in Refreshes
  /\ dev \in [Devices -> [prev : 0..n, curr : 0..n, count : world.counts \cup {0}]]
  /\ pg \in [prev : [at : 0..n, verbose : BOOLEAN], curr : [at : 0..n, verbose : BOOLEAN]]
  /\ pids \in [prev : [Pids -> 0..n], curr : [Pids -> 0..n]]
  /\ verb.cached \in 0..n /\ verb.run \in 0..now /\ verb.time \in 0..now
  /\ last \in [stored : 0..n, enriched : 0..n]

\* The table shows the difference to the snapshot stored last, also after
\* Updates that failed in between or ended with an error behind it.
RatesFromLastSnapshot == Returned => out.base = out.after.stored

\* Rates of a backend are computed from two successive readings of procfs: a
\* backend that was away in between, or unreadable, has none.
ProcfsSuccessive ==
  Returned => \A p \in Pids : out.procfs[p] \in {0, out.after.enriched}

\* A source is compared with itself only when it has not been read before or
\* its number of devices has changed; "signal the composer to draw n/a instead
\* of a misleading zero delta": verbose rows with a first reading are marked.
ZeroDeltaFlagged ==
  Returned =>
    \A d \in DOMAIN out.usage \ world.silent : out.usage[d] = n =>
      /\ out.number[d] # out.devices
      /\ out.number[d] = 0 => out.first \/ out.shown = d

\* Sizes that are not measured anew have been measured less than one refresh
\* interval ago: the guard throttles, it never latches.
SizesNotStale == Returned => out.sizes < out.allowed
=============================================================================
