------------------------------- MODULE Recorder -------------------------------
(***************************************************************************)
(* "pgcenter record": app.record opens the archive, collects, writes one   *)
(* tick of entries and closes the archive again for every snapshot.  The   *)
(* archive is a tar file, a sequence of blocks of 512 bytes: an entry is a *)
(* header and its data (one block here), and two zero blocks, the trailer, *)
(* end the file.  Opening it for append moves to 1024 bytes before the end *)
(* of the file, where the trailer is supposed to be.  The process may be   *)
(* killed, or a write may fail, at any point; nothing is buffered.         *)
(*                                                                         *)
(* One of the views, procpidstat, is joined with readings of procfs, which *)
(* the recorder keeps from tick to tick; a reading is known by its age.    *)
(***************************************************************************)
EXTENDS Integers, Sequences, FiniteSets

CONSTANTS
  Servers,      \* what a run may find: version, schema of pg_stat_statements, locality
  Kinds,        \* the views
  MinVersion,   \* the version a view needs
  Statements,   \* the views of pg_stat_statements
  ProcPid,      \* the view that is joined with procfs
  Pids,         \* backends
  Delays,       \* how long collecting may take, in intervals
  Count,        \* number of snapshots asked for
  MaxSessions   \* bound: runs of the program on the same file

ASSUME RecorderAssumption ==
  /\ Servers \subseteq [version : Nat, pgss : BOOLEAN, local : BOOLEAN]
  /\ IsFiniteSet(Kinds)
  /\ MinVersion \in [Kinds -> Nat]
  /\ Delays \subseteq Nat
  /\ Count \in Nat \ {0}
  /\ MaxSessions \in Nat

VARIABLES
  pc,        \* where app.record is
  session,   \* number of runs so far
  truncate,  \* os.O_TRUNC is set in fileFlags
  taken,     \* snapshots begun in this run
  tick,      \* the snapshot being recorded
  views,     \* the views recorded in this run
  local,     \* tarConfig.isLocal
  ioAvailable,  \* procfs shows the reads and writes of backends
  entry,     \* the entry of it being written
  file,      \* the blocks of the archive
  ragged,    \* the last block is not complete
  pos,       \* the block the writer writes next
  shifted,   \* the writer is not at the start of a block
  broken,    \* history: the file was appended to when it had no trailer
  done,      \* history: snapshots written and closed while it was not broken
  readings,  \* the age of the reading of each file of each backend
  since,     \* the time since procfs was read (lastCollect)
  rates      \* the rates collected and not written yet: from which reading, over what time

run  == <<session, truncate, taken, tick, views, local, ioAvailable>>
proc == <<readings, since, rates>>
vars == <<pc, run, entry, file, ragged, pos, shifted, broken, done, proc>>

\* Every view, the metadata and the system information.
PerTick == Cardinality(views) + 2

Header(t, e) == [kind |-> "header", tick |-> t, entry |-> e]
Data(t, e)   == [kind |-> "data", tick |-> t, entry |-> e]
Zero         == [kind |-> "zero", tick |-> 0, entry |-> 0]
Junk         == [kind |-> "junk", tick |-> 0, entry |-> 0]

\* The files of a backend: its times, and its reads and writes.
Sources == {"stat", "io"}

Never == -1

\* An age after a time d.
Older(a, d) == IF a = Never THEN Never ELSE a + d

NoReadings == [s \in Sources |-> [p \in Pids |-> Never]]
NoRates    == [s \in Sources |-> [p \in Pids |-> [from |-> Never, over |-> Never]]]

Init ==
  /\ pc = "ended"
  /\ session = 0
  /\ truncate = FALSE
  /\ taken = 0
  /\ tick = 0
  /\ entry = 1
  /\ file = <<>>
  /\ ragged = FALSE
  /\ pos = 1
  /\ shifted = FALSE
  /\ broken = FALSE
  /\ done = <<>>
  /\ views = {} /\ local = FALSE /\ ioAvailable = FALSE
  /\ readings = NoReadings /\ since = Never /\ rates = NoRates

-----------------------------------------------------------------------------
(* The file                                                                *)

\* Writing a block over block p, or behind the last one.
Overwrite(f, p, b) == IF p <= Len(f) THEN [f EXCEPT ![p] = b] ELSE Append(f, b)

\* A write that starts inside block p spoils it and the block after it.
Put(b) ==
  /\ pos' = pos + 1
  /\ file' = IF shifted THEN Overwrite(Overwrite(file, pos, Junk), pos + 1, Junk)
                        ELSE Overwrite(file, pos, b)

EndsInTrailer ==
  /\ ~ragged
  /\ Len(file) >= 2
  /\ file[Len(file)] = Zero /\ file[Len(file) - 1] = Zero

\* The entries a reader finds from block i on: it stops at the trailer, at the
\* end of the file and at anything that is not an entry.
Found ==
  LET found[i \in 1..(Len(file) + 1)] ==
        IF /\ i < Len(file)
           /\ file[i].kind = "header"
           /\ file[i + 1] = Data(file[i].tick, file[i].entry)
        THEN <<[tick |-> file[i].tick, entry |-> file[i].entry]>> \o found[i + 2]
        ELSE <<>>
  IN found[1]

\* The entries of a sequence of snapshots.
EntriesOf(snapshots) ==
  LET upTo[k \in 0..Len(snapshots)] ==
        IF k = 0 THEN <<>>
        ELSE upTo[k - 1] \o [e \in 1..snapshots[k].entries |-> [tick |-> snapshots[k].tick, entry |-> e]]
  IN upTo[Len(snapshots)]

-----------------------------------------------------------------------------
(* app.record                                                              *)

\* filterViews, and the gate for a server on another host.
Recordable(server) ==
  {v \in Kinds : /\ MinVersion[v] <= server.version
                 /\ v \in Statements => server.pgss
                 /\ v = ProcPid => server.local}

\* The process is gone, and what it knew with it.
Gone ==
  /\ views' = {} /\ local' = FALSE /\ ioAvailable' = FALSE
  /\ readings' = NoReadings /\ since' = Never /\ rates' = NoRates

\* The program is started, with or without -a; setup looks at the server.
Start ==
  /\ pc \in {"ended", "finished"}
  /\ session < MaxSessions
  /\ session' = session + 1
  /\ truncate' \in BOOLEAN
  /\ taken' = 0
  /\ \E server \in Servers :
       /\ views' = Recordable(server)
       /\ local' = server.local
       /\ ioAvailable' \in (IF server.local THEN BOOLEAN ELSE {FALSE})
  /\ pc' = "loop"
  /\ UNCHANGED <<tick, entry, file, ragged, pos, shifted, broken, done, proc>>

\* Mutant: one snapshot too many.
More_OneTooMany == taken <= Count

More == taken < Count

Loop ==
  /\ pc = "loop"
  /\ \/ /\ More
        /\ pc' = "open" /\ taken' = taken + 1 /\ tick' = tick + 1
        /\ UNCHANGED <<views, local, ioAvailable, proc>>
     \/ /\ ~More
        /\ pc' = "finished" /\ Gone
        /\ UNCHANGED <<taken, tick>>
  /\ UNCHANGED <<session, truncate, entry, file, ragged, pos, shifted, broken, done>>

\* Mutant: O_TRUNC stays set after the first open.
KeepsTruncating_Always == truncate

\* O_TRUNC is for the first open only.
KeepsTruncating == FALSE

OpenTruncated ==
  /\ pc = "open" /\ truncate
  /\ truncate' = KeepsTruncating
  /\ file' = <<>> /\ ragged' = FALSE
  /\ pos' = 1 /\ shifted' = FALSE
  /\ broken' = FALSE
  /\ done' = IF taken = 1 THEN <<>> ELSE done
  /\ pc' = "collect"
  /\ UNCHANGED <<session, taken, tick, views, local, ioAvailable, entry, proc>>

\* Mutant: writing starts at the very end of the file.
AppendAt_End == Len(file) + 1

\* The block that starts (or, in a ragged file, in which starts) the last kB.
AppendAt == IF file = <<>> THEN 1 ELSE IF ragged THEN Len(file) - 2 ELSE Len(file) - 1

\* A file shorter than 1024 bytes cannot be seeked into: record ends.
OpenAppend ==
  /\ pc = "open" /\ ~truncate
  /\ \/ /\ AppendAt >= 1
        /\ pos' = AppendAt
        /\ shifted' = ragged
        /\ broken' = (broken \/ ~(file = <<>> \/ EndsInTrailer))
        /\ pc' = "collect"
        /\ UNCHANGED <<views, local, ioAvailable, proc>>
     \/ /\ AppendAt < 1
        /\ pc' = "ended" /\ Gone
        /\ UNCHANGED <<pos, shifted, broken>>
  /\ UNCHANGED <<session, truncate, taken, tick, entry, file, ragged, done>>

\* Mutant: the reading of a file that cannot be read any more is kept.
Current_Kept(s, p, readable, d) == IF p \in readable[s] THEN 0 ELSE Older(readings[s][p], d)

\* Only the files that are readable now have a reading.
Current(s, p, readable, d) == IF p \in readable[s] THEN 0 ELSE Never

\* A rate needs a reading now, one before of a backend that is still there, and
\* the time since procfs was read.
RateOf(s, p, seen, d) ==
  LET previous == IF p \in seen THEN Older(readings[s][p], d) ELSE Never
      itv      == Older(since, d)
  IN IF previous # Never /\ readings'[s][p] = 0 /\ itv > 0
     THEN [from |-> previous, over |-> itv]
     ELSE [from |-> Never, over |-> Never]

\* enrichProcPidStat: the rows of the view name the backends that are seen.
Enrich(d) ==
  \E seen \in SUBSET Pids : \E readable \in [Sources -> SUBSET seen] :
    /\ ~ioAvailable => readable["io"] = {}
    /\ readings' = [s \in Sources |-> [p \in Pids |-> Current(s, p, readable, d)]]
    /\ since' = 0
    /\ rates' = [s \in Sources |-> [p \in Pids |-> RateOf(s, p, seen, d)]]

\* It may be late; without procpidstat nothing is kept.
Collect ==
  /\ pc = "collect"
  /\ pc' = "header"
  /\ entry' = 1
  /\ \/ /\ local /\ ProcPid \in views
        /\ \E d \in Delays : Enrich(d)
     \/ ~(local /\ ProcPid \in views) /\ UNCHANGED proc
  /\ UNCHANGED <<run, file, ragged, pos, shifted, broken, done>>

\* WriteHeader also completes the last block of the entry before.
WriteHeader ==
  /\ pc = "header"
  /\ Put(Header(tick, entry))
  /\ ragged' = shifted
  /\ pc' = "data"
  /\ rates' = NoRates
  /\ UNCHANGED <<run, entry, shifted, broken, done, readings, since>>

\* The data seldom fill their last block; behind the old end of the file it is
\* left incomplete.
WriteData ==
  /\ pc = "data"
  /\ Put(Data(tick, entry))
  /\ ragged' \in IF shifted THEN {TRUE} ELSE IF pos > Len(file) THEN BOOLEAN ELSE {ragged}
  /\ IF entry < PerTick THEN pc' = "header" /\ entry' = entry + 1
                        ELSE pc' = "close" /\ UNCHANGED entry
  /\ UNCHANGED <<run, shifted, broken, done, proc>>

\* recorder.close closes the tar writer first, which writes the trailer.
Close ==
  /\ pc = "close"
  /\ Put(Zero) /\ ragged' = shifted
  /\ pc' = "trailer"
  /\ UNCHANGED <<run, entry, shifted, broken, done, proc>>

CloseTrailer ==
  /\ pc = "trailer"
  /\ Put(Zero) /\ ragged' = shifted
  /\ done' = IF broken THEN done ELSE Append(done, [tick |-> tick, entries |-> PerTick])
  /\ pc' = "wait"
  /\ UNCHANGED <<run, entry, shifted, broken, proc>>

\* An interval passes.
Aged ==
  /\ readings' = [s \in Sources |-> [p \in Pids |-> Older(readings[s][p], 1)]]
  /\ since' = Older(since, 1)
  /\ UNCHANGED rates

\* Mutant: a timer in the place of the ticker.
Tick_Once ==
  /\ pc = "wait" /\ taken = 1
  /\ pc' = "loop"
  /\ Aged
  /\ UNCHANGED <<run, entry, file, ragged, pos, shifted, broken, done>>

\* The tick; also after the last snapshot.
Tick ==
  /\ pc = "wait"
  /\ pc' = "loop"
  /\ Aged
  /\ UNCHANGED <<run, entry, file, ragged, pos, shifted, broken, done>>

\* SIGINT is handled only while waiting.
Interrupt ==
  /\ pc = "wait"
  /\ pc' = "ended"
  /\ Gone
  /\ UNCHANGED <<session, truncate, taken, tick, entry, file, ragged, pos, shifted, broken, done>>

\* The process is killed, or collect or a write fails and record returns the
\* error without closing the archive.
Die ==
  /\ pc \in {"loop", "open", "collect", "header", "data", "close", "trailer", "wait"}
  /\ pc' = "ended"
  /\ Gone
  /\ UNCHANGED <<session, truncate, taken, tick, entry, file, ragged, pos, shifted, broken, done>>

\* No more runs.
Idle == pc \in {"ended", "finished"} /\ session = MaxSessions /\ UNCHANGED vars

Next ==
  \/ Start \/ Loop \/ OpenTruncated \/ OpenAppend \/ Collect
  \/ WriteHeader \/ WriteData \/ Close \/ CloseTrailer
  \/ Tick \/ Interrupt \/ Die \/ Idle

Spec == Init /\ [][Next]_vars

\* A run goes on by itself; nobody has to start or to interrupt one.
FairSpec ==
  /\ Spec
  /\ WF_vars(Loop \/ OpenTruncated \/ OpenAppend \/ Collect \/ WriteHeader
              \/ WriteData \/ Close \/ CloseTrailer \/ Tick)

-----------------------------------------------------------------------------
Blocks == [kind : {"header", "data"}, tick : 1..tick, entry : Nat] \cup {Zero, Junk}

\* Every variable keeps its type.
TypeOK ==
  /\ pc \in {"loop", "open", "collect", "header", "data", "close", "trailer",
             "wait", "ended", "finished"}
  /\ session \in 0..MaxSessions
  /\ truncate \in BOOLEAN /\ ragged \in BOOLEAN /\ shifted \in BOOLEAN
  /\ broken \in BOOLEAN
  /\ taken \in 0..Count /\ tick \in Nat /\ entry \in 1..(Cardinality(Kinds) + 2)
  /\ views \subseteq Kinds /\ local \in BOOLEAN /\ ioAvailable \in BOOLEAN
  /\ readings \in [Sources -> [Pids -> Nat \cup {Never}]] /\ since \in Nat \cup {Never}
  /\ file \in Seq(Blocks)
  /\ pos \in 1..(Len(file) + 1)
  /\ done \in Seq([tick : 1..tick, entries : Nat])

\* Whenever the archive has been closed it holds every snapshot that was to be
\* in it, in order, and nothing else, and it can be appended to.
ClosedComplete ==
  pc = "wait" /\ ~broken => Found = EntriesOf(done) /\ EndsInTrailer

\* Wherever the recorder is killed, and however often it is restarted with -a
\* on what it left behind, the snapshots closed before stay readable: an
\* append overwrites at most the snapshot that was being written.
ClosedSurvive ==
  LET e == EntriesOf(done) IN
  /\ Len(e) <= Len(Found)
  /\ e = SubSeq(Found, 1, Len(e))

\* A rate that is recorded is divided by the time between the two readings it
\* is the difference of, also when ticks are late, when a backend or its files
\* were away for a tick, and after a restart.
RatesOverElapsed ==
  pc = "header" => \A s \in Sources, p \in Pids :
    rates[s][p].over = rates[s][p].from

\* A run ends, by itself with the number of snapshots asked for, or otherwise.
RunEnds == pc = "loop" ~> (pc = "ended" \/ (pc = "finished" /\ taken = Count))
=============================================================================
