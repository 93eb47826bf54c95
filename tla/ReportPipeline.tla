----------------------------- MODULE ReportPipeline -----------------------------
(***************************************************************************)
(* "pgcenter report": two goroutines started by doReport.  readTar walks   *)
(* the archive, pairs each snapshot with the metadata recorded with it and *)
(* sends the pair on dataCh; processData compares it with the previous one *)
(* and prints the difference; doneCh tells it that the archive has ended.  *)
(* Both channels are unbuffered.                                           *)
(*                                                                         *)
(* An archive is a sequence of ticks (those inside the requested interval: *)
(* the entries of a tick share one timestamp).  The recorder writes the    *)
(* metadata and the snapshots of a tick in any order (it ranges over a Go  *)
(* map) and the sysinfo entry last.  A recorder that was started to append *)
(* to the archive may record other views than the one before it: ticks may *)
(* lack the snapshot of the requested report.                              *)
(***************************************************************************)
EXTENDS Integers, Sequences, FiniteSets

CONSTANTS
  Ticks,       \* number of ticks in the archive
  Gappy,       \* ticks that may lack the snapshot of the report
  Versions,    \* Postgres versions it was recorded from
  Damages,     \* kinds of entries that may be damaged
  Failures,    \* steps of processData that may fail: "configure" and/or "diff"
  OrderIn,     \* versions whose report has the column the user orders by
  OrderAt,     \* the position of that column
  Columns      \* number of columns the report has in a version

ASSUME ReportAssumption ==
  /\ Ticks \in Nat \ {0}
  /\ Gappy \subseteq 1..Ticks
  /\ Versions \subseteq Nat \ {0}
  /\ Damages \subseteq {"meta", "stat", "sysinfo"}
  /\ Failures \subseteq {"configure", "diff"}
  /\ OrderIn \subseteq Versions

ASSUME ColumnsAssumption ==
  /\ Columns \in [Versions -> Nat \ {0}]
  /\ OrderAt \in [OrderIn -> Nat]
  /\ \A v \in OrderIn : OrderAt[v] < Columns[v]

VARIABLES
  version,   \* version[t]: the version tick t was recorded from
  gaps,      \* the ticks without a snapshot of the report
  rpc,       \* where readTar is
  tick,      \* the tick being read
  left,      \* entries of this tick not read yet
  meta,      \* readTar: tick of the metadata and of the sysinfo read last
  stat,      \* readTar: tick of the snapshot read last
  metaOK,    \* readTar: metadata not sent yet
  statOK,    \* readTar: a snapshot not sent yet
  ppc,       \* where processData is
  prev,      \* processData: previous snapshot (0: none) and its version
  layout,    \* processData: what its view was set up for
  printed,   \* the comparisons printed so far
  failed     \* history: readTar or processData returned an error

archive   == <<version, gaps>>
reader    == <<tick, left, meta, stat, metaOK, statOK>>
processor == <<ppc, prev, layout, printed>>
vars      == <<archive, rpc, reader, processor, failed>>

Entries == {"meta", "stat", "sysinfo"}

\* The entries of a tick, those of other reports left aside.
EntriesOf(t) == IF t \in gaps THEN {"meta", "sysinfo"} ELSE Entries

Init ==
  /\ version \in [1..Ticks -> Versions]
  /\ gaps \in SUBSET Gappy
  /\ rpc = "read"
  /\ tick = 1
  /\ left = EntriesOf(1)
  /\ meta = [tick |-> 0, sysinfo |-> 0]
  /\ stat = 0
  /\ metaOK = FALSE
  /\ statOK = FALSE
  /\ ppc = "select"
  /\ prev = [tick |-> 0, version |-> 0]
  /\ layout = [configured |-> 0, columns |-> 0, order |-> 0]
  /\ printed = <<>>
  /\ failed = FALSE

-----------------------------------------------------------------------------
(* readTar                                                                 *)

\* The entry the archive holds next.
Comes(e) ==
  /\ tick <= Ticks
  /\ e \in left
  /\ e = "sysinfo" => left = {"sysinfo"}

\* A damaged entry (size, JSON, number of rows) ends the reader with an error;
\* the deferred send on doneCh follows.
ReadDamaged ==
  /\ rpc = "read"
  /\ \E e \in Damages : Comes(e)
  /\ rpc' = "done"
  /\ failed' = TRUE
  /\ UNCHANGED <<archive, reader, processor>>

\* Steps over the entry just read.
Advance(e) ==
  IF left = {e} THEN tick' = tick + 1 /\ left' = EntriesOf(tick + 1)
                ELSE left' = left \ {e} /\ UNCHANGED tick

\* A pair is complete: send it.
Ready(m, s) == rpc' = IF m /\ s THEN "send" ELSE "read"

\* Metadata keeps the sysinfo merged into the record it replaces.
ReadMeta ==
  /\ rpc = "read" /\ Comes("meta")
  /\ meta' = [meta EXCEPT !.tick = tick]
  /\ metaOK' = TRUE
  /\ Ready(TRUE, statOK)
  /\ Advance("meta")
  /\ UNCHANGED <<archive, stat, statOK, processor, failed>>

ReadStat ==
  /\ rpc = "read" /\ Comes("stat")
  /\ stat' = tick
  /\ statOK' = TRUE
  /\ Ready(metaOK, TRUE)
  /\ Advance("stat")
  /\ UNCHANGED <<archive, meta, metaOK, processor, failed>>

\* Sysinfo is merged into the metadata, whichever tick that is from.
ReadSysinfo ==
  /\ rpc = "read" /\ Comes("sysinfo")
  /\ meta' = [meta EXCEPT !.sysinfo = tick]
  /\ Ready(metaOK, statOK)
  /\ Advance("sysinfo")
  /\ UNCHANGED <<archive, stat, metaOK, statOK, processor, failed>>

ReadEOF ==
  /\ rpc = "read"
  /\ tick > Ticks
  /\ rpc' = "done"
  /\ UNCHANGED <<archive, reader, processor, failed>>

-----------------------------------------------------------------------------
(* processData                                                             *)

\* There is nothing to compare with: the first snapshot, or the first one from
\* another version.
StartsAnew(m) == prev.tick = 0 \/ prev.version # version[m]

\* Configure selects the layout of the report for the version.
Configure(d) ==
  /\ StartsAnew(d.meta)
  /\ prev' = [tick |-> d.stat, version |-> version[d.meta]]
  /\ \/ /\ ppc' = "select"
        /\ layout' = [layout EXCEPT !.configured = version[d.meta]]
        /\ UNCHANGED failed
     \/ /\ "configure" \in Failures
        /\ ppc' = "returned"
        /\ failed' = TRUE
        /\ UNCHANGED layout
  /\ UNCHANGED printed

\* The position of the order column is looked up until it is found, the width
\* and the names of the columns are settled once; both are then kept.
Settled(l, v) ==
  [l EXCEPT !.order = IF @ = 0 /\ v \in OrderIn THEN v ELSE @,
            !.columns = IF @ = 0 THEN v ELSE @]

\* Mutant: the previous snapshot is not replaced after a comparison.
Previous_Kept(d) == prev

\* The snapshot the next one is compared with; its version stays.
Previous(d) == [prev EXCEPT !.tick = d.stat]

CompareAndPrint(d) ==
  /\ ~StartsAnew(d.meta)
  /\ layout' = Settled(layout, version[d.stat])
  /\ printed' = Append(printed, [tick |-> d.stat, base |-> prev.tick])
  /\ prev' = Previous(d)
  /\ UNCHANGED <<ppc, failed>>

\* Under this layout every column of a result has a width and the column it is
\* ordered by is one of them.
Fits(l, v) ==
  /\ Columns[v] <= Columns[l.columns]
  /\ l.order # 0 => OrderAt[l.order] < Columns[v]

\* A layout settled for another version may miss a width (the value is cut to
\* -1 characters) or order by a column that is not there; and with the metadata
\* of another tick, results of two versions may be compared, the older of which
\* lacks a column.  Unless no row needs it, the panic ends the program.
ProgramPanics ==
  /\ rpc = "send" /\ ppc = "select"
  /\ ~StartsAnew(meta.tick)
  /\ \/ ~Fits(Settled(layout, version[stat]), version[stat])
     \/ Columns[version[prev.tick]] < Columns[version[stat]]
  /\ rpc' = "returned" /\ ppc' = "returned"
  /\ failed' = TRUE
  /\ UNCHANGED <<archive, reader, prev, layout, printed>>

\* countDiff meets a value that is not a number, or the output cannot be written.
CompareFails(d) ==
  /\ ~StartsAnew(d.meta)
  /\ "diff" \in Failures
  /\ ppc' = "returned"
  /\ failed' = TRUE
  /\ UNCHANGED <<prev, layout, printed>>

\* Mutant: the flags survive the send.
Cleared_Kept == UNCHANGED <<metaOK, statOK>>

Cleared == metaOK' = FALSE /\ statOK' = FALSE

\* The rendezvous on dataCh, and the turn of processData's loop it starts.
SendData ==
  LET d == [stat |-> stat, meta |-> meta.tick] IN
  /\ rpc = "send" /\ ppc = "select"
  /\ rpc' = "read"
  /\ Cleared
  /\ Configure(d) \/ CompareAndPrint(d) \/ CompareFails(d)
  /\ UNCHANGED <<archive, tick, left, meta, stat>>

\* Mutant: processData goes on waiting after the end of the archive.
AfterDone_Continue == UNCHANGED ppc

AfterDone == ppc' = "returned"

\* The rendezvous on doneCh: readTar returns, processData closes dataCh and
\* returns.
SendDone ==
  /\ rpc = "done" /\ ppc = "select"
  /\ rpc' = "returned"
  /\ AfterDone
  /\ UNCHANGED <<archive, reader, prev, layout, printed, failed>>

\* Both have returned: doReport returns.
Finished == rpc = "returned" /\ ppc = "returned" /\ UNCHANGED vars

Next ==
  \/ ReadDamaged \/ ReadMeta \/ ReadStat \/ ReadSysinfo \/ ReadEOF
  \/ SendData \/ SendDone \/ ProgramPanics
  \/ Finished

Spec == Init /\ [][Next]_vars

\* Both goroutines are scheduled.
FairSpec == Spec /\ WF_vars(Next)

-----------------------------------------------------------------------------
Layout == [configured : Versions \cup {0}, columns : Versions \cup {0},
           order : Versions \cup {0}]

\* Every variable keeps its type.
TypeOK ==
  /\ version \in [1..Ticks -> Versions] /\ gaps \subseteq 1..Ticks
  /\ rpc \in {"read", "send", "done", "returned"}
  /\ tick \in 1..(Ticks + 1)
  /\ left \subseteq Entries /\ left # {}
  /\ meta \in [tick : 0..Ticks, sysinfo : 0..Ticks]
  /\ stat \in 0..Ticks
  /\ metaOK \in BOOLEAN /\ statOK \in BOOLEAN
  /\ ppc \in {"select", "returned"}
  /\ prev \in [tick : 0..Ticks, version : Versions \cup {0}]
  /\ layout \in Layout
  /\ printed \in Seq([tick : 1..Ticks, base : 1..Ticks])
  /\ failed \in BOOLEAN

\* No tick before t lacks its snapshot.
Gapless(t) == \A g \in gaps : g >= t

\* A snapshot is sent together with the metadata of its own tick, in whichever
\* order the recorder wrote the two.  A tick without a snapshot leaves its
\* metadata waiting, and from then on it may be that of the tick before, and
\* no older one.
PairOfOneTick ==
  rpc = "send" =>
    /\ meta.tick \in {stat - 1, stat}
    /\ Gapless(stat) => meta.tick = stat

\* The report implements its contract: every snapshot is compared once, with
\* the one recorded before it, in order, and, if no tick before lacks its
\* snapshot, never across versions.
Contract == INSTANCE ReportContract WITH
  outcome <- IF ppc = "select" THEN "running" ELSE IF failed THEN "failed" ELSE "complete"

ImplementsContract == Contract!Spec

\* Unless processData gives up early, doReport returns, whatever ends the
\* reading of the archive: neither goroutine waits for the other forever.
EndsUnlessCutShort ==
  [](ppc = "returned" => rpc = "returned") => <>(rpc = "returned" /\ ppc = "returned")

\* "Read statistics file and create a report": doReport returns, also when a
\* snapshot cannot be compared.
ReportEnds == <>(rpc = "returned" /\ ppc = "returned")
=============================================================================
