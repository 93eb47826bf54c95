--------------------------- MODULE CollectorProofs ---------------------------
(***************************************************************************)
(* Theorems of Collector and Overview for every set of devices, backends   *)
(* and worlds, every refresh interval, any failures and any number of      *)
(* Updates: which earlier reading a rate starts from.                      *)
(***************************************************************************)
EXTENDS Overview, TLAPS

\* A step of the collector and what it leaves alone.
LEMMA Steps ==
  ASSUME [Next]_vars
  PROVE  \/ /\ pc \in {"start", "prefill", "collect"}
            /\ \E e \in Failures \cup {"none"}, c \in world.counts, silent \in SUBSET world.silent,
                  l \in world.latencies, seen \in SUBSET world.pids :
                 \E readable \in SUBSET seen :
                   Update(e, c, silent, l, seen, readable) /\ pc' = Continue(e)
         \/ Tick \/ Receive \/ UNCHANGED vars
BY DEF Next, Collect, Ended

\* The steps at which Update may end.
LEMMA Ends ==
  ASSUME NEW e \in Failures \cup {"none"}
  PROVE  /\ e \in StepNames /\ StepNo[e] \in 1..6
         /\ Done("panel", e) \in BOOLEAN /\ Done("result", e) \in BOOLEAN
         /\ Done("result", e) => Done("panel", e)
         /\ e = "none" => Done("result", e)
BY CollectorAssumption DEF StepNames, StepNo, Done

\* The worlds are what they should be.
LEMMA WorldTypes == ASSUME TypeOK PROVE IsWorld(world)
BY CollectorAssumption DEF TypeOK

-----------------------------------------------------------------------------
(* Type correctness                                                        *)

VerboseState ==
  [active : BOOLEAN, slow : Nat, run : Nat, cached : Nat, time : Nat]

\* verbosity is a record, which TypeOK takes for granted.
TypeInv == TypeOK /\ verb \in VerboseState

DeviceState(k) == [prev : 0..k, curr : 0..k, count : world.counts \cup {0}]

\* A reading of a device does not lie ahead of the Updates made.
LEMMA ReadTypes ==
  ASSUME NEW k \in Nat, NEW r \in DeviceState(k), NEW c \in world.counts
  PROVE  Read(r, k + 1, c) \in DeviceState(k + 1)
BY DEF Read, DeviceState

\* What a measurement changes of the state of the verbose rows.
LEMMA MeasuredTypes ==
  ASSUME TypeInv, NEW k \in Nat, NEW l \in Nat
  PROVE  /\ Measured(k, l) \in VerboseState
         /\ Throttled => Measured(k, l) = verb
         /\ ~Throttled => /\ Measured(k, l).cached = k
                          /\ Measured(k, l).run = now + l /\ Measured(k, l).time = now + l
<1>1. verb \in VerboseState /\ now + l \in Nat
  BY DEF TypeInv, TypeOK
<1>2. CASE Throttled
  BY <1>1, <1>2 DEF Measured
<1>3. CASE ~Throttled
  <2>1. Measured(k, l) = [verb EXCEPT !.slow = l, !.run = now + l, !.cached = k, !.time = now + l]
    BY <1>3 DEF Measured
  <2> QED
    BY <1>1, <1>3, <2>1 DEF VerboseState
<1> QED
  BY <1>2, <1>3

LEMMA InitTypes == Init => TypeInv
<1> SUFFICES ASSUME Init PROVE TypeInv
  OBVIOUS
<1>1. world.enrich \in SUBSET BOOLEAN
  BY CollectorAssumption DEF Init, IsWorld
<1>2. view \in [verbose : BOOLEAN, enrich : BOOLEAN]
  BY <1>1 DEF Init
<1> QED
  BY <1>2 DEF Init, TypeInv, TypeOK, NoSnapshot, NoReading, NoVerbose, NoHistory, VerboseState

LEMMA UpdateTypes ==
  ASSUME TypeInv, NEW e \in Failures \cup {"none"}, NEW c \in world.counts,
         NEW silent \in SUBSET world.silent, NEW l \in world.latencies,
         NEW seen \in SUBSET world.pids, NEW readable \in SUBSET seen,
         Update(e, c, silent, l, seen, readable),
         pc \in {"start", "prefill", "collect"}, pc' = Continue(e)
  PROVE  TypeInv'
<1>0. /\ n \in Nat /\ now \in Nat /\ verb \in VerboseState
      /\ verb.cached \in 0..n /\ verb.run \in 0..now /\ verb.time \in 0..now
      /\ dev \in [Devices -> [prev : 0..n, curr : 0..n, count : world.counts \cup {0}]]
      /\ pids \in [prev : [Pids -> 0..n], curr : [Pids -> 0..n]]
      /\ pg \in [prev : [at : 0..n, verbose : BOOLEAN], curr : [at : 0..n, verbose : BOOLEAN]]
      /\ last \in [stored : 0..n, enriched : 0..n]
      /\ view \in [verbose : BOOLEAN, enrich : BOOLEAN]
      /\ world \in Worlds /\ panel \in Panels /\ refresh \in Refreshes
  BY DEF TypeInv, TypeOK
<1>1. /\ n' = n + 1 /\ n' \in Nat /\ n \in 0..n' /\ n' \in 0..n' /\ 0 \in 0..n'
      /\ 0..n \subseteq 0..n'
      /\ UNCHANGED <<world, view, panel, refresh>>
  BY <1>0 DEF Update, settings
<1>2. l \in Nat
  BY WorldTypes DEF IsWorld, TypeInv
<1>3. now' \in Nat /\ now <= now' /\ now' \in {now, now + l}
  BY <1>0, <1>2 DEF Update
<1>4. verb' \in VerboseState /\ verb'.cached \in 0..n' /\ verb'.run \in 0..now' /\ verb'.time \in 0..now'
  <2>1. Remembered(e) \in BOOLEAN
    BY <1>0, Ends DEF Remembered, VerboseState
  <2>2. CASE Done("result", e) /\ view.verbose /\ ~Throttled
    <3> DEFINE m == Measured(n + 1, l)
    <3>1. verb' = [m EXCEPT !.active = Remembered(e)] /\ now' = now + l
      BY <2>2 DEF Update
    <3>2. m \in VerboseState /\ m.cached = n + 1 /\ m.run = now + l /\ m.time = now + l
      <4>1. n + 1 \in Nat
        BY <1>0
      <4> QED
        BY <1>2, <2>2, <4>1, MeasuredTypes
    <3> HIDE DEF m
    <3>3. verb' \in VerboseState /\ verb'.cached = n + 1 /\ verb'.run = now + l /\ verb'.time = now + l
      BY <2>1, <3>1, <3>2 DEF VerboseState
    <3> QED
      BY <1>0, <1>1, <1>2, <3>1, <3>3
  <2>3. CASE ~(Done("result", e) /\ view.verbose /\ ~Throttled)
    <3>1. verb' = [verb EXCEPT !.active = Remembered(e)] /\ now' = now
      BY <2>3 DEF Update, Measured
    <3> QED
      BY <1>0, <1>1, <2>1, <3>1 DEF VerboseState
  <2> QED
    BY <2>2, <2>3
<1>5. dev' \in [Devices -> [prev : 0..n', curr : 0..n', count : world.counts \cup {0}]]
  <2>1. \A d \in Devices : dev[d] \in DeviceState(n) /\ dev[d] \in DeviceState(n + 1)
    BY <1>0, <1>1 DEF DeviceState
  <2>2. \A d \in Devices : TimesRead(d) \in {0, 1}
    BY DEF TimesRead
  <2>3. \A d \in Devices : Read(dev[d], n + 1, c) \in DeviceState(n + 1)
    BY <1>0, <2>1, ReadTypes
  <2>4. dev' = [d \in Devices |->
                  IF ~Done("panel", e) \/ d \in silent \/ TimesRead(d) = 0 THEN dev[d]
                  ELSE Read(dev[d], n + 1, c)]
    BY <2>2 DEF Update, ReadDevices
  <2> QED
    BY <1>1, <2>1, <2>3, <2>4 DEF DeviceState
<1>6. pids' \in [prev : [Pids -> 0..n'], curr : [Pids -> 0..n']]
  <2>1. Rotated(n + 1, seen, readable) \in [prev : [Pids -> 0..n'], curr : [Pids -> 0..n']]
    BY <1>0, <1>1 DEF Rotated
  <2>2. pids \in [prev : [Pids -> 0..n'], curr : [Pids -> 0..n']]
    BY <1>0, <1>1
  <2> QED
    BY <2>1, <2>2 DEF Update
<1>7. pg' \in [prev : [at : 0..n', verbose : BOOLEAN], curr : [at : 0..n', verbose : BOOLEAN]]
  BY <1>0, <1>1 DEF Update
<1>8. last' \in [stored : 0..n', enriched : 0..n']
  BY <1>0, <1>1 DEF Update
<1>9. pc' \in {"start", "prefill", "collect", "wait", "ended"}
  BY DEF Continue
<1>10. world' \in Worlds /\ view' \in [verbose : BOOLEAN, enrich : BOOLEAN]
       /\ panel' \in Panels /\ refresh' \in Refreshes
  BY <1>0, <1>1
<1>11. dev' \in [Devices -> [prev : 0..n', curr : 0..n', count : world'.counts \cup {0}]]
  BY <1>1, <1>5
<1> QED
  BY <1>1, <1>3, <1>4, <1>6, <1>7, <1>8, <1>9, <1>10, <1>11
  DEF TypeInv, TypeOK

LEMMA StepTypes == TypeInv /\ [Next]_vars => TypeInv'
<1> SUFFICES ASSUME TypeInv, [Next]_vars PROVE TypeInv'
  OBVIOUS
<1> USE DEF TypeInv, TypeOK
<1>1. CASE Tick
  BY <1>1, CollectorAssumption DEF Tick, settings
<1>2. CASE Receive
  <2>1. now' \in Nat /\ now <= now' /\ UNCHANGED <<n, dev, world>>
    BY <1>2, CollectorAssumption DEF Receive, Adjust, Reset
  <2>2. CASE Adjust
    <3>1. verb'.run \in 0..now' /\ verb'.time \in 0..now' /\ verb'.cached \in 0..n'
          /\ verb' \in VerboseState
      BY <2>1, <2>2 DEF Adjust
    <3>2. view' \in [verbose : BOOLEAN, enrich : BOOLEAN] /\ panel' \in Panels
          /\ refresh' \in Refreshes
      BY <2>2 DEF Adjust
    <3> QED
      BY <2>1, <2>2, <3>1, <3>2 DEF Adjust
  <2>3. CASE Reset
    <3>1. world.enrich \in SUBSET BOOLEAN
      BY WorldTypes DEF IsWorld
    <3>2. view' \in [verbose : BOOLEAN, enrich : BOOLEAN]
      BY <2>3, <3>1 DEF Reset
    <3> QED
      BY <2>1, <2>3, <3>2 DEF Reset, NoSnapshot, NoReading, NoVerbose, NoHistory, VerboseState
  <2> QED
    BY <1>2, <2>2, <2>3 DEF Receive
<1>3. CASE UNCHANGED vars
  BY <1>3 DEF vars, settings
<1> QED
  BY <1>1, <1>2, <1>3, Steps, UpdateTypes

\* Every variable of the collector keeps its type: no reading, snapshot or clock
\* lies ahead of the Updates made or of the time.
THEOREM CollectorTypeCorrect == Spec => []TypeOK
<1>1. Spec => []TypeInv
  BY InitTypes, StepTypes, PTL DEF Spec
<1>2. TypeInv => TypeOK
  BY DEF TypeInv
<1> QED
  BY <1>1, <1>2, PTL

-----------------------------------------------------------------------------
(* What a rate starts from                                                 *)

\* The readings that are kept agree with the history: the current snapshot was
\* stored last, a backend has a procfs reading of the last Update that read
\* procfs or none, verbose mode is remembered only when the sources have been
\* read, and sizes in the cache were measured when the guard says so.
SinceInv ==
  /\ pg.curr.at = last.stored
  /\ \A p \in Pids : pids.curr[p] \in {0, last.enriched}
  /\ verb.active => \A d \in Devices \ world.silent : dev[d].count # 0
  /\ verb.cached # 0 => verb.time = verb.run

\* What the last Update returned is right.
ReturnsInv == RatesFromLastSnapshot /\ ProcfsSuccessive /\ ZeroDeltaFlagged /\ SizesNotStale

LEMMA InitSince == Init => SinceInv /\ ReturnsInv
BY DEF Init, SinceInv, ReturnsInv, RatesFromLastSnapshot, ProcfsSuccessive, ZeroDeltaFlagged,
       SizesNotStale, Returned, NoSnapshot, NoReading, NoVerbose, NoHistory

\* The arguments of an Update, and what all Updates keep.
Arguments(e, c, silent, l, seen, readable) ==
  /\ e \in Failures \cup {"none"} /\ c \in world.counts /\ silent \in SUBSET world.silent
  /\ l \in world.latencies /\ seen \in SUBSET world.pids /\ readable \in SUBSET seen

\* A source is read at most once by an Update, and compared with itself only if
\* its number of devices is another one.
LEMMA Devices1 ==
  ASSUME TypeInv, NEW k, NEW e, NEW c, NEW silent, ReadDevices(k, e, c, silent), NEW d \in Devices
  PROVE  /\ Done("panel", e) /\ d \notin silent /\ TimesRead(d) > 0 =>
              /\ dev'[d].count = c
              /\ dev'[d].prev = IF c = dev[d].count THEN dev[d].curr ELSE k
         /\ ~(Done("panel", e) /\ d \notin silent /\ TimesRead(d) > 0) => dev'[d] = dev[d]
BY DEF ReadDevices, TimesRead, Read

LEMMA UpdateSince ==
  ASSUME TypeInv, SinceInv, NEW e, NEW c, NEW silent, NEW l, NEW seen, NEW readable,
         Arguments(e, c, silent, l, seen, readable), Update(e, c, silent, l, seen, readable)
  PROVE  SinceInv'
<1>0. n \in Nat /\ now \in Nat /\ verb \in VerboseState /\ pg \in [prev : [at : 0..n, verbose : BOOLEAN], curr : [at : 0..n, verbose : BOOLEAN]]
  BY DEF TypeInv, TypeOK
<1>1. pg'.curr.at = last'.stored
  BY <1>0 DEF Update, Stores, SinceInv
<1>2. \A p \in Pids : pids'.curr[p] \in {0, last'.enriched}
  BY DEF Update, Rotated, SinceInv
<1>3. verb'.active => \A d \in Devices \ world'.silent : dev'[d].count # 0
  <2>1. verb'.active = Remembered(e)
    <3>1. Measured(n + 1, l) \in VerboseState
      <4>1. l \in Nat /\ n + 1 \in Nat
        BY <1>0, WorldTypes DEF Arguments, IsWorld, TypeInv
      <4> QED
        BY <4>1, MeasuredTypes
    <3>2. \E m \in VerboseState : verb' = [m EXCEPT !.active = Remembered(e)]
      BY <1>0, <3>1 DEF Update
    <3> QED
      BY <3>2 DEF VerboseState
  <2>2. c # 0 /\ silent \subseteq world.silent
    BY WorldTypes DEF Arguments, IsWorld, TypeInv
  <2>3. world' = world /\ ReadDevices(n + 1, e, c, silent)
    BY DEF Update, settings
  <2> SUFFICES ASSUME verb'.active, NEW d \in Devices \ world.silent PROVE dev'[d].count # 0
    BY <2>3
  <2>4. CASE Done("panel", e)
    <3>1. TimesRead(d) > 0
      BY <2>1, <2>4 DEF Remembered, TimesRead
    <3> QED
      BY <2>2, <2>3, <2>4, <3>1, Devices1
  <2>5. CASE ~Done("panel", e)
    BY <2>1, <2>3, <2>5, Devices1 DEF Remembered, SinceInv
  <2> QED
    BY <2>4, <2>5
<1>4. verb'.cached # 0 => verb'.time = verb'.run
  <2>1. l \in Nat /\ n + 1 \in Nat
    BY <1>0, WorldTypes DEF Arguments, IsWorld, TypeInv
  <2>2. CASE Done("result", e) /\ view.verbose
    <3> DEFINE m == Measured(n + 1, l)
    <3>1. verb' = [m EXCEPT !.active = Remembered(e)]
      BY <2>2 DEF Update
    <3>2. m \in VerboseState /\ (m.cached # 0 => m.time = m.run)
      BY <2>1, MeasuredTypes DEF SinceInv
    <3> HIDE DEF m
    <3> QED
      BY <3>1, <3>2 DEF VerboseState
  <2>3. CASE ~(Done("result", e) /\ view.verbose)
    <3>1. verb' = [verb EXCEPT !.active = Remembered(e)]
      BY <2>3 DEF Update
    <3> QED
      BY <1>0, <3>1 DEF VerboseState, SinceInv
  <2> QED
    BY <2>2, <2>3
<1> QED
  BY <1>1, <1>2, <1>3, <1>4 DEF SinceInv

\* An Update that returns a result returns a right one.
LEMMA UpdateReturns ==
  ASSUME TypeInv, SinceInv, NEW e, NEW c, NEW silent, NEW l, NEW seen, NEW readable,
         Arguments(e, c, silent, l, seen, readable), Update(e, c, silent, l, seen, readable)
  PROVE  ReturnsInv'
<1>1. out'.step = e /\ (Returned' <=> e = "none")
  BY DEF Update, Returned
<1>2. e = "none" => Done("panel", e) /\ Done("result", e)
  BY Ends DEF Arguments
<1>3. RatesFromLastSnapshot'
  <2> SUFFICES ASSUME e = "none" PROVE out'.base = out'.after.stored
    BY <1>1 DEF RatesFromLastSnapshot
  <2>1. pg'.prev = pg.curr /\ out'.base = pg'.prev.at /\ out'.after = last
    BY <1>2 DEF Update, Stores
  <2> QED
    BY <2>1 DEF SinceInv
<1>4. ProcfsSuccessive'
  <2> SUFFICES ASSUME e = "none", NEW p \in Pids PROVE out'.procfs[p] \in {0, out'.after.enriched}
    BY <1>1 DEF ProcfsSuccessive
  <2>1. out'.after = last /\ out'.procfs = (IF view.enrich THEN pids'.prev ELSE NoReading)
    BY <1>2 DEF Update
  <2>2. view.enrich => pids' = Rotated(n + 1, seen, readable)
    BY <1>2 DEF Update
  <2> QED
    BY <2>1, <2>2 DEF Rotated, NoReading, SinceInv
<1>5. ZeroDeltaFlagged'
  <2>1. /\ world' = world /\ n' = n + 1 /\ ReadDevices(n + 1, e, c, silent)
        /\ out'.devices = c /\ out'.shown = panel /\ out'.number = [d \in Devices |-> dev[d].count]
        /\ out'.first = (view.verbose /\ ~verb.active)
        /\ out'.usage = [d \in {d \in Devices : Done("panel", e) /\ TimesRead(d) > 0 /\ d \notin silent} |-> dev'[d].prev]
    BY DEF Update, settings
  <2> SUFFICES ASSUME e = "none", NEW d \in DOMAIN out'.usage \ world.silent, out'.usage[d] = n + 1
               PROVE  /\ out'.number[d] # out'.devices
                      /\ out'.number[d] = 0 => out'.first \/ out'.shown = d
    BY <1>1, <2>1 DEF ZeroDeltaFlagged
  <2>2. d \in Devices /\ Done("panel", e) /\ TimesRead(d) > 0 /\ d \notin silent /\ d \notin world.silent
    BY <2>1
  <2>3. dev[d].curr \in 0..n /\ n \in Nat
    BY <2>2 DEF TypeInv, TypeOK
  <2>4. dev'[d].prev = (IF c = dev[d].count THEN dev[d].curr ELSE n + 1)
    BY <2>1, <2>2, Devices1
  <2>5. out'.number[d] # out'.devices
    BY <2>1, <2>2, <2>3, <2>4
  <2>6. dev[d].count = 0 => ~verb.active
    BY <2>2 DEF SinceInv
  <2>7. panel # d => view.verbose
    BY <2>2 DEF TimesRead
  <2>8. out'.number[d] = dev[d].count
    BY <2>1, <2>2
  <2>9. panel = d => out'.shown = d
    BY <2>1
  <2>10. view.verbose /\ ~verb.active => out'.first
    BY <2>1
  <2> QED
    BY <2>5, <2>6, <2>7, <2>8, <2>9, <2>10
<1>6. SizesNotStale'
  <2> SUFFICES ASSUME e = "none" PROVE out'.sizes < out'.allowed
    BY <1>1 DEF SizesNotStale
  <2>0. n + 1 \in Nat /\ l \in Nat /\ now \in Nat /\ refresh \in Nat \ {0} /\ verb \in VerboseState
    BY WorldTypes, CollectorAssumption DEF Arguments, IsWorld, TypeInv, TypeOK
  <2>1. out'.allowed = refresh /\ out'.sizes = (IF view.verbose THEN now' - verb'.time ELSE 0)
    BY <1>2 DEF Update
  <2>2. CASE view.verbose
    <3> DEFINE m == Measured(n + 1, l)
    <3>1. verb' = [m EXCEPT !.active = Remembered(e)] /\ now' = IF Throttled THEN now ELSE now + l
      BY <1>2, <2>2 DEF Update
    <3>2. /\ m \in VerboseState
          /\ Throttled => m = verb
          /\ ~Throttled => m.time = now + l
      BY <2>0, MeasuredTypes
    <3> HIDE DEF m
    <3>3. verb'.time = m.time
      BY <3>1, <3>2 DEF VerboseState
    <3>4. CASE Throttled
      <4>1. verb.time = verb.run /\ now - verb.run < refresh
        BY <3>4 DEF Throttled, SinceInv
      <4> QED
        BY <2>1, <2>2, <3>1, <3>2, <3>3, <3>4, <4>1
    <3>5. CASE ~Throttled
      BY <2>0, <2>1, <2>2, <3>1, <3>2, <3>3, <3>5
    <3> QED
      BY <3>4, <3>5
  <2>3. CASE ~view.verbose
    BY <2>0, <2>1, <2>3
  <2> QED
    BY <2>2, <2>3
<1> QED
  BY <1>3, <1>4, <1>5, <1>6 DEF ReturnsInv

\* The other steps change neither what was returned nor the readings kept, or
\* forget all of them.
LEMMA StepSince == TypeInv /\ SinceInv /\ ReturnsInv /\ [Next]_vars => SinceInv' /\ ReturnsInv'
<1> SUFFICES ASSUME TypeInv, SinceInv, ReturnsInv, [Next]_vars PROVE SinceInv' /\ ReturnsInv'
  OBVIOUS
<1>1. ASSUME UNCHANGED <<out, n, world>> PROVE ReturnsInv'
  BY <1>1 DEF ReturnsInv, RatesFromLastSnapshot, ProcfsSuccessive, ZeroDeltaFlagged, SizesNotStale,
              Returned
<1>2. ASSUME UNCHANGED <<world, pg, pids, verb, dev, last>> PROVE SinceInv'
  BY <1>2 DEF SinceInv
<1>3. CASE Tick
  BY <1>1, <1>2, <1>3 DEF Tick, settings
<1>4. CASE Receive
  <2>1. UNCHANGED <<n, dev, out, world>>
    BY <1>4 DEF Receive, Adjust, Reset
  <2>2. CASE Adjust
    BY <1>1, <1>2, <2>1, <2>2 DEF Adjust
  <2>3. CASE Reset
    BY <1>1, <2>1, <2>3 DEF Reset, SinceInv, NoSnapshot, NoReading, NoVerbose, NoHistory
  <2> QED
    BY <1>1, <1>4, <2>1, <2>2, <2>3 DEF Receive
<1>5. CASE UNCHANGED vars
  BY <1>1, <1>2, <1>5 DEF vars, settings
<1>6. ASSUME NEW e \in Failures \cup {"none"}, NEW c \in world.counts,
             NEW silent \in SUBSET world.silent, NEW l \in world.latencies,
             NEW seen \in SUBSET world.pids, NEW readable \in SUBSET seen,
             Update(e, c, silent, l, seen, readable)
      PROVE  SinceInv' /\ ReturnsInv'
  <2>1. Arguments(e, c, silent, l, seen, readable)
    BY <1>6 DEF Arguments
  <2> QED
    BY <1>6, <2>1, UpdateSince, UpdateReturns
<1> QED
  BY <1>3, <1>4, <1>5, <1>6, Steps

\* What is kept from Update to Update is what the history says it is.
THEOREM CollectorRemembers == Spec => [](SinceInv /\ ReturnsInv)
<1>1. Spec => []TypeInv
  BY InitTypes, StepTypes, PTL DEF Spec
<1> QED
  BY <1>1, InitSince, StepSince, PTL DEF Spec

\* Differences are to the snapshot stored last, also after Updates that failed.
THEOREM RatesFromLast == Spec => []RatesFromLastSnapshot
<1>1. ReturnsInv => RatesFromLastSnapshot
  BY DEF ReturnsInv
<1> QED
  BY <1>1, CollectorRemembers, PTL

\* Rates of a backend start from the reading of procfs before this one.
THEOREM ProcfsInSuccession == Spec => []ProcfsSuccessive
<1>1. ReturnsInv => ProcfsSuccessive
  BY DEF ReturnsInv
<1> QED
  BY <1>1, CollectorRemembers, PTL

\* A source is compared with itself only for the first time or when its number
\* of devices has changed, and the first time is marked.
THEOREM ZeroDeltasFlagged == Spec => []ZeroDeltaFlagged
<1>1. ReturnsInv => ZeroDeltaFlagged
  BY DEF ReturnsInv
<1> QED
  BY <1>1, CollectorRemembers, PTL

\* The sizes of the databases shown are younger than a refresh interval.
THEOREM SizesFresh == Spec => []SizesNotStale
<1>1. ReturnsInv => SizesNotStale
  BY DEF ReturnsInv
<1> QED
  BY <1>1, CollectorRemembers, PTL

-----------------------------------------------------------------------------
(* The verbose rows                                                        *)

\* Overview is Collector, with more to look at.
LEMMA OverviewSteps == [OverviewNext]_ovars => [Next]_vars
BY DEF OverviewNext, CollectOverview, ReceiveOverview, WaitOverview, EndedOverview, Next, ovars

\* Every behaviour of Overview is one of Collector.
THEOREM OverviewExtendsCollector == OverviewSpec => Spec
<1>1. OverviewInit => Init
  BY DEF OverviewInit
<1> QED
  BY <1>1, OverviewSteps, PTL DEF OverviewSpec, Spec

Size == [size : Nat, growth : Nat]

\* The overview of the last snapshot has what could be read then, and sizes
\* that are valid are the ones measured last.
OverviewInv ==
  /\ ov \in [valid : BOOLEAN, read : SUBSET Aggregates, db : Size] /\ cache \in Size
  /\ known \in [before : SUBSET Aggregates, read : SUBSET Aggregates, first : Nat, size : Nat]
  /\ IF ov.valid THEN ov.read = known.read ELSE known.read = {}
  /\ ov.valid /\ ov.db.size # 0 => ov.db.size = known.size
  /\ cache.size # 0 => cache.size = known.size /\ cache.growth \in {0, known.first}

LEMMA InitOverview == OverviewInit => OverviewInv /\ OverviewSinceLast
BY DEF OverviewInit, Init, OverviewInv, OverviewSinceLast, Returned, NoOverview, NoSize, NoRows, NoneKnown,
       Zero, Size

\* The last two sizes measured, after a snapshot of the verbose rows.
Fresh(failed)   == ~Throttled /\ "size" \notin failed
First(failed)   == IF Fresh(failed) THEN known.size ELSE known.first
Last(k, failed) == IF Fresh(failed) THEN k ELSE known.size

\* Sizes as they are measured, shown out of the cache, or not valid.
LEMMA SizedIsKnown ==
  ASSUME OverviewInv, NEW k \in Nat, NEW failed
  PROVE  /\ Sized(k, failed) \in Size /\ First(failed) \in Nat /\ Last(k, failed) \in Nat
         /\ Sized(k, failed).size # 0 => /\ Sized(k, failed).size = Last(k, failed)
                                         /\ Sized(k, failed).growth \in {0, First(failed)}
<1> USE DEF Fresh, First, Last
<1>1. Growth \in {0, known.size} /\ Growth \in Nat
  BY DEF Growth, OverviewInv, Zero, Size
<1>2. CASE Throttled
  BY <1>2 DEF Sized, OverviewInv
<1>3. CASE ~Throttled /\ "size" \in failed
  BY <1>3 DEF Sized, OverviewInv, NoSize, Zero, Size
<1>4. CASE ~Throttled /\ "size" \notin failed
  BY <1>1, <1>4 DEF Sized, OverviewInv, Size
<1> QED
  BY <1>2, <1>3, <1>4

LEMMA SnapshotOverview ==
  ASSUME TypeInv, OverviewInv, NEW failed, Snapshot(n + 1, failed)
  PROVE  OverviewInv'
<1> DEFINE read == Aggregates \ failed
           db   == Sized(n + 1, failed)
           first == First(failed)
           size  == Last(n + 1, failed)
<1>1. n + 1 \in Nat
  BY DEF TypeInv, TypeOK
<1>2. /\ db \in Size /\ first \in Nat /\ size \in Nat
      /\ db.size # 0 => db.size = size /\ db.growth \in {0, first}
  BY <1>1, SizedIsKnown
<1>3. CASE view.verbose
  <2>1. /\ ov' = [valid |-> TRUE, read |-> read, db |-> db] /\ cache' = db
        /\ known' = [before |-> known.read, read |-> read, first |-> first, size |-> size]
    BY <1>3 DEF Snapshot, Stored, Fresh, First, Last
  <2>2. read \in SUBSET Aggregates
    OBVIOUS
  <2> HIDE DEF read, db, first, size
  <2> QED
    BY <1>2, <2>1, <2>2 DEF OverviewInv
<1>4. CASE ~view.verbose
  <2>1. /\ ov' = NoOverview /\ cache' = cache
        /\ known' = [before |-> known.read, read |-> {}, first |-> known.first, size |-> known.size]
    BY <1>4 DEF Snapshot, Stored
  <2> QED
    BY <2>1 DEF OverviewInv, NoOverview, NoSize, Zero, Size
<1> QED
  BY <1>3, <1>4

\* The rows of an Update that returned a result compare what they claim to.
LEMMA SnapshotRows ==
  ASSUME TypeInv, SinceInv, ZeroDeltaFlagged', OverviewInv,
         NEW e, NEW c, NEW silent, NEW l, NEW seen, NEW readable,
         Update(e, c, silent, l, seen, readable), e = "none",
         NEW failed, Snapshot(n + 1, failed)
  PROVE  OverviewSinceLast'
<1> DEFINE read == Aggregates \ failed
           db   == Sized(n + 1, failed)
           first == First(failed)
           size  == Last(n + 1, failed)
<1> SUFFICES ASSUME view.verbose
             PROVE  /\ \A a \in known'.read \cap known'.before : rows'.rates[a] = out'.after.stored
                    /\ \A a \in Aggregates \ known'.before : rows'.rates[a] <= 0
                    /\ rows'.growth > 0 => rows'.growth = known'.first
                    /\ \A d \in Devices \ world'.silent :
                         rows'.usage[d] = n' => out'.number[d] \notin {0, out'.devices}
  BY DEF OverviewSinceLast, Update, settings
<1>1. n \in Nat /\ n' = n + 1 /\ world' = world
  BY DEF TypeInv, TypeOK, Update, settings
<1>2. /\ out'.step = "none" /\ out'.after = last /\ out'.first = ~verb.active
      /\ out'.number = [d \in Devices |-> dev[d].count]
      /\ out'.shown = panel
      /\ DOMAIN out'.usage \subseteq Devices
  BY DEF Update
<1>3. /\ rows' = Rendered(read, db)
      /\ known' = [before |-> known.read, read |-> read, first |-> first, size |-> size]
  BY <1>2 DEF Snapshot, Fresh, First, Last
<1>4. /\ rows'.rates = [a \in Aggregates |-> Rate(a, read)]
      /\ rows'.growth = IF ov.valid /\ db.size # 0 THEN db.growth ELSE -2
      /\ rows'.usage = [d \in Devices |-> UsageRow(d)]
      /\ known'.read = read /\ known'.before = known.read /\ known'.first = first
  BY <1>3 DEF Rendered, Zero, NA
<1>5. ASSUME NEW a \in read \cap known.read PROVE Rate(a, read) = last.stored
  BY <1>5 DEF Rate, OverviewInv, SinceInv
<1>6. ASSUME NEW a \in Aggregates \ known.read PROVE Rate(a, read) <= 0
  BY <1>6 DEF Rate, OverviewInv, NA, Zero, Whole
<1>7. rows'.growth > 0 => rows'.growth = first
  <2>1. n + 1 \in Nat
    BY <1>1
  <2>2. db.size # 0 => db.growth \in {0, first}
    BY <2>1, SizedIsKnown
  <2> HIDE DEF db, first
  <2> QED
    BY <1>4, <2>2
<1>8. ASSUME NEW d \in Devices \ world.silent, UsageRow(d) = n + 1
      PROVE  out'.number[d] \notin {0, out'.devices}
  <2>1. d \in DOMAIN out'.usage /\ ~out'.first /\ out'.usage[d] = n + 1
    BY <1>1, <1>8 DEF UsageRow, NA
  <2>2. out'.number[d] # out'.devices
    BY <1>1, <1>2, <1>8, <2>1 DEF ZeroDeltaFlagged, Returned
  <2>3. dev[d].count # 0
    BY <1>2, <2>1 DEF SinceInv
  <2> QED
    BY <1>2, <2>2, <2>3
<1> HIDE DEF read, first
<1> QED
  BY <1>1, <1>2, <1>4, <1>5, <1>6, <1>7, <1>8 DEF OverviewInv

LEMMA StepOverview ==
  ASSUME TypeInv, SinceInv, ZeroDeltaFlagged', OverviewInv, OverviewSinceLast, [OverviewNext]_ovars
  PROVE  OverviewInv' /\ OverviewSinceLast'
<1>1. ASSUME UNCHANGED <<ov, cache, known>> PROVE OverviewInv'
  BY <1>1 DEF OverviewInv
<1>2. ASSUME pc' # "wait" PROVE OverviewSinceLast'
  BY <1>2 DEF OverviewSinceLast
<1>3. ASSUME out'.step # "none" PROVE OverviewSinceLast'
  BY <1>3 DEF OverviewSinceLast, Returned
<1>4. CASE CollectOverview
  <2>1. PICK e \in Failures \cup {"none"}, c \in world.counts, silent \in SUBSET world.silent,
             l \in world.latencies, seen \in SUBSET world.pids :
          \E readable \in SUBSET seen : Update(e, c, silent, l, seen, readable) /\ pc' = Continue(e)
    BY <1>4 DEF CollectOverview, Collect
  <2>2. PICK readable \in SUBSET seen : Update(e, c, silent, l, seen, readable) /\ pc' = Continue(e)
    BY <2>1
  <2>3. out'.step = e /\ n' = n + 1
    BY <2>2 DEF Update
  <2>4. CASE Stores(e)
    <3>1. PICK failed : Snapshot(n + 1, failed)
      BY <1>4, <2>3, <2>4 DEF CollectOverview
    <3>2. OverviewInv'
      BY <3>1, SnapshotOverview
    <3>3. CASE e = "none"
      BY <2>2, <3>1, <3>3, SnapshotRows, <3>2
    <3> QED
      BY <1>3, <2>3, <3>2, <3>3
  <2>5. CASE ~Stores(e)
    <3>1. UNCHANGED <<ov, cache, known>>
      BY <1>4, <2>3, <2>5 DEF CollectOverview
    <3>2. e # "none"
      BY <2>5, Ends DEF Stores
    <3> QED
      BY <1>1, <1>3, <2>3, <3>1, <3>2
  <2> QED
    BY <2>4, <2>5
<1>5. CASE ReceiveOverview
  <2>1. pc' \in {"collect", "prefill"}
    BY <1>5 DEF ReceiveOverview, Receive, Adjust, Reset
  <2>2. CASE pc' = "prefill"
    <3>1. ov' = NoOverview /\ cache' = NoSize /\ known' = NoneKnown
      BY <1>5, <2>2 DEF ReceiveOverview
    <3>2. OverviewInv'
      BY <3>1 DEF OverviewInv, NoOverview, NoSize, NoneKnown, Zero, Size
    <3> QED
      BY <1>2, <2>2, <3>2
  <2>3. CASE pc' # "prefill"
    BY <1>1, <1>2, <1>5, <2>1, <2>3 DEF ReceiveOverview
  <2> QED
    BY <1>2, <2>1, <2>2, <2>3
<1>6. CASE WaitOverview
  BY <1>1, <1>2, <1>6 DEF WaitOverview, Tick
<1>7. CASE EndedOverview \/ UNCHANGED ovars
  <2>1. UNCHANGED <<vars, ov, cache, rows, known>>
    BY <1>7 DEF EndedOverview, Ended, ovars
  <2> QED
    BY <1>1, <2>1 DEF vars, settings, OverviewSinceLast, Returned
<1> QED
  BY <1>4, <1>5, <1>6, <1>7 DEF OverviewNext

\* The rates of the verbose rows lie between the last two snapshots, also after
\* Updates and aggregates that failed, and none spans a time without verbose
\* mode; the growth of the databases is counted from the size measured before.
THEOREM OverviewSince == OverviewSpec => []OverviewSinceLast
<1>1. Spec => []TypeInv
  BY InitTypes, StepTypes, PTL DEF Spec
<1>2. ReturnsInv => ZeroDeltaFlagged
  BY DEF ReturnsInv
<1>3. TypeInv /\ SinceInv /\ ZeroDeltaFlagged' /\ OverviewInv /\ OverviewSinceLast /\ [OverviewNext]_ovars
        => OverviewInv' /\ OverviewSinceLast'
  BY StepOverview
<1> QED
  BY <1>1, <1>2, <1>3, InitOverview, CollectorRemembers, OverviewExtendsCollector, PTL DEF OverviewSpec
=============================================================================
