------------------------------- MODULE Profiler -------------------------------
(***************************************************************************)
(* "pgcenter profile": profileLoop samples one backend, and its parallel   *)
(* workers, from pg_stat_activity and sums the time its queries spend per  *)
(* wait event.  The backend goes on between two samples: it may end a      *)
(* query, begin the next one at once or later, or exit.  Time is counted   *)
(* in ticks of a clock; durations are whole numbers of them.               *)
(***************************************************************************)
EXTENDS Integers, Sequences, FiniteSets, FiniteSetsExt

CONSTANTS
  Target,      \* the profiled process
  Workers,     \* parallel workers it may have
  Events,      \* wait events; the empty one is shown as Running
  MaxClock,    \* bound: time
  MaxQueries,  \* bound: queries run by the backend
  MaxSamples   \* bound: samples taken

VARIABLES
  clock,
  \* the backend
  alive, state, change,  \* pg_stat_activity: present, state, state_change
  start, wait,           \* query_start and wait event of each process
  working,               \* the workers it has now
  queries,               \* queries begun so far
  \* the profiler
  pc, prev,
  accumulated, real, durations,
  output,                \* what has been printed
  samples

backend  == <<alive, state, change, start, wait, working, queries>>
store    == <<accumulated, real, durations>>
profiler == <<pc, prev, store, output, samples>>
vars     == <<clock, backend, profiler>>

Processes == {Target} \cup Workers
NoSnapshot == <<>>
NoDurations == <<>>

Init ==
  /\ clock = 0
  /\ alive = TRUE /\ state = "idle" /\ change = 0
  /\ start = [p \in Processes |-> 0]
  /\ wait \in [Processes -> Events]
  /\ working = {}
  /\ queries = 0
  /\ pc = "sample"
  /\ prev = NoSnapshot
  /\ accumulated = 0 /\ real = 0 /\ durations = NoDurations
  /\ output = <<>>
  /\ samples = 0

-----------------------------------------------------------------------------
(* The backend                                                             *)

TimePasses ==
  /\ clock < MaxClock
  /\ clock' = clock + 1
  /\ UNCHANGED <<backend, profiler>>

\* A query begins, also right behind another one.
Begin ==
  /\ alive
  /\ queries < MaxQueries
  /\ queries' = queries + 1
  /\ state' = "active" /\ change' = clock
  /\ \E w \in SUBSET Workers :
       /\ working' = w
       /\ start' = [p \in Processes |-> IF p = Target \/ p \in w THEN clock ELSE start[p]]
  /\ UNCHANGED <<clock, alive, wait, profiler>>

Wait ==
  /\ state = "active"
  /\ \E p \in Processes, e \in Events : wait' = [wait EXCEPT ![p] = e]
  /\ UNCHANGED <<clock, alive, state, change, start, working, queries, profiler>>

End ==
  /\ alive /\ state = "active"
  /\ state' = "idle" /\ change' = clock
  /\ working' = {}
  /\ UNCHANGED <<clock, alive, start, wait, queries, profiler>>

Exit ==
  /\ alive
  /\ alive' = FALSE /\ working' = {}
  /\ UNCHANGED <<clock, state, change, start, wait, queries, profiler>>

-----------------------------------------------------------------------------
(* The profiler                                                            *)

\* The rows of the query, by process.
Snapshot ==
  [p \in {Target} \cup working |->
     [duration |-> clock - start[p], state |-> IF p = Target THEN state ELSE "active",
      change |-> change, wait |-> wait[p]]]

\* The state of the target in a snapshot; a missing entry has an empty one.
StateIn(snap) == IF Target \in DOMAIN snap THEN snap[Target].state ELSE ""

\* What the sample adds for a process: all of its duration if it is new.
Delta(curr, before, p) ==
  curr[p].duration - (IF p \in DOMAIN before THEN before[p].duration ELSE 0)

\* countWaitEvents
Count(acc, dur, curr, before) ==
  LET new(e) == MapThenSumSet(LAMBDA p : Delta(curr, before, p),
                              {p \in DOMAIN curr : curr[p].wait = e})
      seen == {curr[p].wait : p \in DOMAIN curr}
  IN /\ accumulated' = acc + MapThenSumSet(LAMBDA p : Delta(curr, before, p), DOMAIN curr)
     /\ durations' = [e \in DOMAIN dur \cup seen |->
                        (IF e \in DOMAIN dur THEN dur[e] ELSE 0) + new(e)]
     /\ real' = curr[Target].duration

Header == [kind |-> "header", accumulated |-> 0, real |-> 0]

\* printStat prints nothing when nothing was counted.
Printed ==
  IF durations = NoDurations THEN <<>>
  ELSE <<[kind |-> "stats", accumulated |-> accumulated, real |-> real]>>

\* The target exited.
SampleGone ==
  /\ ~alive
  /\ pc' = "done"
  /\ UNCHANGED <<prev, store, output>>

\* A query has been started.
SampleStarted ==
  /\ alive
  /\ StateIn(prev) # "active" /\ state = "active"
  /\ output' = Append(output, Header)
  /\ Count(accumulated, durations, Snapshot, NoSnapshot)
  /\ prev' = Snapshot
  /\ pc' = "wait"

\* It goes on.
SampleContinues ==
  /\ alive
  /\ StateIn(prev) = "active" /\ state = "active"
  /\ prev[Target].change = change
  /\ Count(accumulated, durations, Snapshot, prev)
  /\ prev' = Snapshot
  /\ pc' = "wait"
  /\ UNCHANGED output

\* Another one is running.
SampleReplaced ==
  /\ alive
  /\ StateIn(prev) = "active" /\ state = "active"
  /\ prev[Target].change # change
  /\ output' = output \o Printed
  /\ Count(0, NoDurations, Snapshot, NoSnapshot)
  /\ prev' = NoSnapshot
  /\ pc' = "wait"

\* It has finished.
SampleFinished ==
  /\ alive
  /\ StateIn(prev) = "active" /\ state # "active"
  /\ output' = output \o Printed
  /\ accumulated' = 0 /\ real' = 0 /\ durations' = NoDurations
  /\ prev' = NoSnapshot
  /\ pc' = "wait"

\* Nothing was running and nothing is.
SampleIdle ==
  /\ alive
  /\ StateIn(prev) # "active" /\ state # "active"
  /\ pc' = "wait"
  /\ UNCHANGED <<prev, store, output>>

Sample ==
  /\ pc = "sample"
  /\ samples' = samples + 1
  /\ \/ SampleGone \/ SampleStarted \/ SampleContinues
     \/ SampleReplaced \/ SampleFinished \/ SampleIdle
  /\ UNCHANGED <<clock, backend>>

\* The query fails.
SampleFails ==
  /\ pc = "sample"
  /\ pc' = "done"
  /\ UNCHANGED <<clock, backend, prev, store, output, samples>>

Tick ==
  /\ pc = "wait"
  /\ samples < MaxSamples
  /\ pc' = "sample"
  /\ UNCHANGED <<clock, backend, prev, store, output, samples>>

Interrupt ==
  /\ pc = "wait"
  /\ output' = output \o Printed
  /\ pc' = "done"
  /\ UNCHANGED <<clock, backend, prev, store, samples>>

Next ==
  \/ TimePasses \/ Begin \/ Wait \/ End \/ Exit
  \/ Sample \/ SampleFails \/ Tick \/ Interrupt

Spec == Init /\ [][Next]_vars

-----------------------------------------------------------------------------
\* Without workers the two totals of what is printed are the same time: the one
\* the query has been executed.
TotalsAgree == \A i \in 1..Len(output) : output[i].accumulated = output[i].real
=============================================================================
