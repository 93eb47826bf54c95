-------------------------------- MODULE Overview --------------------------------
(***************************************************************************)
(* The verbose rows of "pgcenter top": collectOverviewStat inside Update   *)
(* (module Collector) and renderPgstatVerbose.  Each aggregate has a query *)
(* of its own, which may fail and then leaves its fields 0; the rates are  *)
(* differences to the overview of the last snapshot, whatever that holds.  *)
(* A rate is known by the Update it starts from.                           *)
(***************************************************************************)
EXTENDS Collector

CONSTANT Aggregates  \* aggregates with rates: workload, databases, bgwr/ckpt

ASSUME OverviewAssumption ==
  /\ "size" \notin Aggregates
  /\ \A w \in Worlds : w.failing \subseteq Aggregates \cup {"size"}

VARIABLES
  ov,      \* currPgStat.Overview
  cache,   \* dbSizeCache
  rows,    \* the verbose rows on the screen
  known    \* history since Reset: the aggregates the last two stored snapshots
           \* could read, and the last two sizes measured

ovars == <<vars, ov, cache, rows, known>>

\* The fields of an aggregate that no query filled, and the rate of one whose
\* query failed; a rate counted from such fields is the whole counter.
Zero  == 0
Whole == -1
NA    == -2      \* n/a on the screen

\* An overview: the aggregates read; size and growth name the Updates that
\* measured the size and the one before it (Zero: not valid, not counted).
NoSize     == [size |-> Zero, growth |-> Zero]
NoOverview == [valid |-> FALSE, read |-> {}, db |-> NoSize]
NoRows     == [rates |-> [a \in Aggregates |-> NA], growth |-> NA,
               usage |-> [d \in Devices |-> NA]]
NoneKnown  == [before |-> {}, read |-> {}, first |-> Zero, size |-> Zero]

OverviewInit ==
  /\ Init
  /\ ov = NoOverview /\ cache = NoSize /\ rows = NoRows /\ known = NoneKnown

\* The rate of an aggregate that was read, against the overview of the last
\* snapshot, which has 0 for what could not be read.
Rate(a, read) ==
  IF ~ov.valid THEN NA
  ELSE IF a \notin read THEN Zero
  ELSE IF a \notin ov.read THEN Whole ELSE pg.curr.at

\* The growth is counted from a valid size only.
Growth == IF ov.valid THEN ov.db.size ELSE Zero

\* The total size and its growth, out of the cache when throttled.
Sized(k, failed) ==
  IF Throttled THEN cache
  ELSE IF "size" \in failed THEN NoSize
  ELSE [size |-> k, growth |-> Growth]

\* renderSysstatVerbose: the usage of the busiest device of a source, n/a for
\* a source that was not read and for all of them on the first verbose tick.
UsageRow(d) == IF d \in DOMAIN out'.usage /\ ~out'.first THEN out'.usage[d] ELSE NA

\* renderPgstatVerbose: n/a for what has no previous overview or no size.
Rendered(read, db) ==
  [rates  |-> [a \in Aggregates |-> Rate(a, read)],
   growth |-> IF ov.valid /\ db.size # Zero THEN db.growth ELSE NA,
   usage  |-> [d \in Devices |-> UsageRow(d)]]

\* Mutant: the overview is kept for the next tick when verbose mode is off.
Stored_Sticky(new) == IF view.verbose THEN new ELSE ov

\* The overview of a snapshot taken without verbose mode is empty.
Stored(new) == IF view.verbose THEN new ELSE NoOverview

\* Update k stored its snapshot: collectOverviewStat never returns an error,
\* every aggregate fails for itself.
Snapshot(k, failed) ==
  LET read == Aggregates \ failed
      db   == Sized(k, failed)
      new  == [valid |-> TRUE, read |-> read, db |-> db]
      fresh == view.verbose /\ ~Throttled /\ "size" \notin failed
  IN
  /\ ov' = Stored(new)
  /\ cache' = IF view.verbose THEN db ELSE cache
  /\ rows' = IF out'.step # "none" THEN rows
             ELSE IF view.verbose THEN Rendered(read, db) ELSE NoRows
  /\ known' = [before |-> known.read,
               read   |-> IF view.verbose THEN read ELSE {},
               first  |-> IF fresh THEN known.size ELSE known.first,
               size   |-> IF fresh THEN k ELSE known.size]

CollectOverview ==
  /\ Collect
  /\ IF Stores(out'.step)
     THEN \E failed \in SUBSET world.failing :
            /\ view.verbose \/ failed = {}
            /\ Throttled => "size" \notin failed
            /\ Snapshot(n', failed)
     ELSE UNCHANGED <<ov, cache, rows, known>>

\* Reset forgets the snapshots, and with them the overview and the cache.
ReceiveOverview ==
  /\ Receive
  /\ IF pc' = "prefill"
     THEN ov' = NoOverview /\ cache' = NoSize /\ known' = NoneKnown
     ELSE UNCHANGED <<ov, cache, known>>
  /\ UNCHANGED rows

WaitOverview == Tick /\ UNCHANGED <<ov, cache, rows, known>>
EndedOverview == Ended /\ UNCHANGED <<ov, cache, rows, known>>

OverviewNext == CollectOverview \/ ReceiveOverview \/ WaitOverview \/ EndedOverview

OverviewSpec == OverviewInit /\ [][OverviewNext]_ovars

-----------------------------------------------------------------------------
\* The verbose rows compare what they claim to: an aggregate read for the last
\* two snapshots shows its rate between them, also after Updates that failed;
\* no rate spans a time without verbose mode; the growth is counted from the
\* size measured before, also when it comes out of the cache; a reading is
\* compared with itself only when the number of devices changed.  (Right after a
\* failure an aggregate shows Whole, not n/a: the README says more.)
OverviewSinceLast ==
  Returned /\ view.verbose /\ pc = "wait" =>
    /\ \A a \in known.read \cap known.before : rows.rates[a] = out.after.stored
    /\ \A a \in Aggregates \ known.before : rows.rates[a] <= 0
    /\ rows.growth > 0 => rows.growth = known.first
    /\ \A d \in Devices \ world.silent :
         rows.usage[d] = n => out.number[d] \notin {0, out.devices}
===============================================================================
