----------------------------- MODULE ReportSamples -----------------------------
(***************************************************************************)
(* "pgcenter report" down to the rows it prints: ReportPipeline with the   *)
(* results that were recorded and the options of the user.                 *)
(***************************************************************************)
EXTENDS ReportPipeline, Results

CONSTANTS
  Recorded(_),   \* results a snapshot of a version may hold
  Stamp,         \* when a tick was recorded, in half seconds
  CountAt,       \* the position of the counter (DiffIntvl) in a version
  Wants,         \* options of the user: direction, limit of rows, filter
  Matching       \* the keys the regular expression of the filter matches

Filters == {"none", "key", "missing"}

ASSUME SamplesAssumption ==
  /\ "diff" \in Failures
  /\ Stamp \in [1..Ticks -> Nat]
  /\ \A t \in 2..Ticks : Stamp[t - 1] <= Stamp[t]
  /\ CountAt \in [Versions -> Nat]
  /\ \A v \in Versions : CountAt[v] \in 1..(Columns[v] - 1)
  /\ \A v \in Versions : \A r \in Recorded(v) : r \in Seq([0..(Columns[v] - 1) -> Value])
  /\ Wants \subseteq [desc : BOOLEAN, limit : Nat, filter : Filters]

VARIABLES
  recorded,   \* recorded[t]: the result in the snapshot of tick t
  want,       \* the options
  output      \* what was printed: tick, base, column of the order, rows

data        == <<recorded, want, output>>
sampleVars  == <<vars, data>>

SampleInit ==
  /\ Init
  /\ recorded \in {r \in [1..Ticks -> {<<>>} \cup UNION {Recorded(v) : v \in Versions}] :
                     \A t \in 1..Ticks :
                       r[t] \in IF t \in gaps THEN {<<>>} ELSE Recorded(version[t])}
  /\ want \in Wants
  /\ output = <<>>

Key == 0

\* The column and the direction view.New prescribes, or those of the user once
\* the column was found.
OrderKey(l) == IF l.order = 0 THEN 0 ELSE OrderAt[l.order]
OrderDesc(l) == IF l.order = 0 THEN TRUE ELSE want.desc

\* countDiff panics, or fails, for the results of ticks t and b.
LacksColumn(t, b) == DiffPanics(recorded[t], recorded[b], {CountAt[layout.configured]}, Key)
NotComparable(t, b) == DiffFails(recorded[t], recorded[b], {CountAt[layout.configured]}, Key)

\* The column of the order is not in the result.
NoColumn(t, l) == recorded[t] # <<>> /\ OrderKey(l) >= Columns[version[t]]

\* Does printStatSample print the row?  A filter on a column the report does not
\* have matches nothing.
Matches(row) ==
  \/ want.filter = "none"
  \/ want.filter = "key" /\ row[Key] \in Matching

\* The rows that are not filtered out.
Filtered(rows) == Picked(rows, {i \in DOMAIN rows : Matches(rows[i])})

\* Time between two snapshots.
Elapsed(t, b) == Stamp[t] - Stamp[b]

\* Mutant: the limit is applied before the rows are sorted.
RowsOf_LimitFirst(t, b, l) ==
  LET rows == Diff(recorded[t], recorded[b], Interval(Elapsed(t, b)),
                   {CountAt[layout.configured]}, Key)
  IN Sorted(Limited(Filtered(rows), want.limit), OrderKey(l), OrderDesc(l))

\* The rows printed for tick t when compared with tick b.
RowsOf(t, b, l) ==
  LET rows == Compared(recorded[t], recorded[b], Interval(Elapsed(t, b)),
                       {CountAt[layout.configured]}, Key, OrderKey(l), OrderDesc(l))
  IN Limited(Filtered(rows), want.limit)

\* A value of a printed row has no width and is cut: to one character less than
\* nothing.
NoWidth(t, b, l) ==
  LET rows == RowsOf(t, b, l)
  IN \E c \in Columns[l.columns]..(Columns[version[t]] - 1) :
       \E k \in DOMAIN rows : rows[k][c] # Empty

Panics(t, b) ==
  LET l == Settled(layout, version[t])
  IN ~LacksColumn(t, b) =>
       ~NotComparable(t, b) /\ (~NoColumn(t, l) => NoWidth(t, b, l))

\* A step of the two goroutines, if the results allow it: a snapshot is printed
\* only when it can be compared with the one before.
GuardedStep ==
  \/ ReadDamaged \/ ReadMeta \/ ReadStat \/ ReadSysinfo \/ ReadEOF
  \/ /\ SendData
     /\ ~(~StartsAnew(meta.tick) /\ LacksColumn(stat, prev.tick))
     /\ printed' # printed => ~NotComparable(stat, prev.tick) /\ ~Panics(stat, prev.tick)
  \/ ProgramPanics /\ Panics(stat, prev.tick)
  \/ SendDone
  \/ Finished

\* What the rendezvous on dataCh prints.
PrintSample ==
  /\ output' = IF printed' = printed THEN output
               ELSE Append(output,
                      [tick |-> stat, base |-> prev.tick, order |-> OrderKey(layout'),
                       rows |-> RowsOf(stat, prev.tick, layout')])
  /\ UNCHANGED <<recorded, want>>

SampleNext == GuardedStep /\ PrintSample

SampleSpec == SampleInit /\ [][SampleNext]_sampleVars

\* Both goroutines are scheduled.
FairSampleSpec == SampleSpec /\ WF_vars(GuardedStep)

-----------------------------------------------------------------------------
\* The recorded rows of tick t with the key of a row.
Recordings(t, row) == {recorded[t][i] : i \in {j \in DOMAIN recorded[t] : recorded[t][j][Key] = row[Key]}}

\* A printed row is a row of the snapshot it is printed for, whatever was sorted
\* and left out: unchanged but for the counter, which is its growth per second
\* since the snapshot before (seconds are whole, growth is rounded towards
\* zero), or the counter itself when that snapshot did not have the row (if no
\* tick before lacks its snapshot: see PairOfOneTick).
RatesAsRecorded ==
  \A k \in {j \in DOMAIN output : Gapless(output[j].tick)} : \A i \in DOMAIN output[k].rows :
    LET s    == output[k]
        row  == s.rows[i]
        c    == CountAt[version[s.tick]]
        half == Stamp[s.tick] - Stamp[s.base]
        secs == IF half < 2 THEN 1 ELSE half \div 2
    IN \E now \in Recordings(s.tick, row) :
         /\ \A x \in DOMAIN row \ {c} : row[x] = now[x]
         /\ \/ Recordings(s.base, row) = {} /\ row[c] = now[c]
            \/ \E old \in Recordings(s.base, row) :
                 LET rest == (now[c].n - old[c].n) - row[c].n * secs
                 IN /\ rest \in (1 - secs)..(secs - 1)
                    /\ row[c].n > 0 => rest >= 0
                    /\ row[c].n < 0 => rest <= 0

\* The counter the report shows for a recorded row.
Shown(s, now) ==
  LET c == CountAt[version[s.tick]]
      half == Stamp[s.tick] - Stamp[s.base]
  IN IF Recordings(s.base, now) = {} THEN now[c].n
     ELSE Quotient(now[c].n - (CHOOSE old \in Recordings(s.base, now) : TRUE)[c].n,
                   IF half < 2 THEN 1 ELSE half \div 2)

\* With a limit the report prints the top of the list: no row that was left out
\* for the limit would have come before a row that was printed, by the counter
\* as it is shown, in the direction asked for.
TopRows ==
  \A k \in DOMAIN output :
    LET s == output[k]
        c == CountAt[version[s.tick]]
        printedKeys == {s.rows[i][Key] : i \in DOMAIN s.rows}
        left_out == {j \in DOMAIN recorded[s.tick] :
                       Matches(recorded[s.tick][j]) /\ recorded[s.tick][j][Key] \notin printedKeys}
        numbers == \A j \in DOMAIN recorded[s.tick] : recorded[s.tick][j][c].kind = "number"
        behind(x, y) == IF want.desc THEN x <= y ELSE x >= y
    IN Gapless(s.tick) /\ version[s.tick] \in OrderIn /\ s.order = c /\ numbers =>
         /\ \A i, j \in DOMAIN s.rows : i < j => behind(s.rows[j][c].n, s.rows[i][c].n)
         /\ \A j \in left_out, i \in DOMAIN s.rows :
              behind(Shown(s, recorded[s.tick][j]), s.rows[i][c].n)
         /\ left_out # {} => Len(s.rows) = want.limit
=============================================================================
