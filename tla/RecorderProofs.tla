----------------------------- MODULE RecorderProofs -----------------------------
(***************************************************************************)
(* Theorems of Recorder: an archive that is appended to, closed, abandoned *)
(* in the middle and appended to again, any number of times, keeps every   *)
(* snapshot that was closed, whatever the number of views and snapshots;   *)
(* and rates are divided by the time between their two readings.           *)
(***************************************************************************)
EXTENDS Recorder, FiniteSetTheorems, WellFoundedInduction, TLAPS

-----------------------------------------------------------------------------
(* Induction over the natural numbers, for a set in the place of a predicate *)

LEMMA NatOrder == IsWellFoundedOn({p \in Nat \X Nat : p[1] < p[2]}, Nat)
BY NatLessThanWellFounded DEF OpToRel

LEMMA NatSet ==
  ASSUME NEW S, 0 \in S, \A n \in Nat : n \in S => n + 1 \in S
  PROVE  \A n \in Nat : n \in S
<1>. DEFINE T == Nat \ S
            R == {p \in Nat \X Nat : p[1] < p[2]}
<1>. SUFFICES ASSUME T # {} PROVE FALSE
  OBVIOUS
<1>1. IsWellFoundedOn(R, Nat)
  BY NatOrder
<1>2. PICK x \in T : \A y \in T : ~(<<y, x>> \in R)
  <2>. HIDE DEF R
  <2>. QED BY <1>1, WFMin
<1>3. x \in Nat /\ x # 0 /\ x - 1 \in Nat /\ <<x - 1, x>> \in R
  OBVIOUS
<1>4. x - 1 \in S
  BY <1>2, <1>3
<1>. QED BY <1>3, <1>4

-----------------------------------------------------------------------------
(* Type correctness                                                        *)

Points  == {"loop", "open", "collect", "header", "data", "close", "trailer",
            "wait", "ended", "finished"}
Writing == {"collect", "header", "data", "close", "trailer"}
Ages    == Nat \cup {Never}

\* What the types rest on besides: a snapshot is begun before it is written,
\* its entries are counted, and O_TRUNC is for the first snapshot of a run.
Progress ==
  /\ pc \in Writing \cup {"open", "wait"} => tick >= 1 /\ taken >= 1
  /\ pc \in {"header", "data"} => entry <= PerTick
  /\ truncate => \/ pc \in {"ended", "finished"}
                 \/ pc = "loop" /\ taken = 0
                 \/ pc = "open" /\ taken = 1

TypeInv == TypeOK /\ Progress

LEMMA PerTickType ==
  ASSUME NEW vs, vs \subseteq Kinds
  PROVE  Cardinality(vs) \in Nat /\ Cardinality(vs) <= Cardinality(Kinds)
         /\ Cardinality(Kinds) \in Nat
BY FS_Subset, FS_CardinalityType, RecorderAssumption

LEMMA BlockTypes ==
  /\ Zero \in Blocks /\ Junk \in Blocks
  /\ tick \in Nat /\ tick >= 1 =>
       \A e \in Nat : Header(tick, e) \in Blocks /\ Data(tick, e) \in Blocks
BY DEF Blocks, Zero, Junk, Header, Data

\* A later tick keeps the types of what was written before.
LEMMA BlocksGrow ==
  ASSUME tick \in Nat, tick' \in Nat, tick' >= tick
  PROVE  /\ Blocks \subseteq Blocks'
         /\ \A f : f \in Seq(Blocks) => f \in Seq(Blocks')
         /\ \A d : d \in Seq([tick : 1..tick, entries : Nat])
                   => d \in Seq([tick : 1..tick', entries : Nat])
<1>1. Blocks \subseteq Blocks'
  BY DEF Blocks, Zero, Junk
<1>2. [tick : 1..tick, entries : Nat] \subseteq [tick : 1..tick', entries : Nat]
  OBVIOUS
<1>3. \A f : f \in Seq(Blocks) => f \in Seq(Blocks')
  <2>. DEFINE A == Blocks  B == Blocks'
  <2>1. A \subseteq B
    BY <1>1
  <2>. HIDE DEF A, B
  <2>2. \A f \in Seq(A) : f \in Seq(B)
    BY <2>1
  <2>. QED BY <2>2 DEF A, B
<1>4. \A d : d \in Seq([tick : 1..tick, entries : Nat])
             => d \in Seq([tick : 1..tick', entries : Nat])
  <2>. DEFINE A == [tick : 1..tick, entries : Nat]
              B == [tick : 1..tick', entries : Nat]
  <2>1. A \subseteq B
    BY <1>2
  <2>. HIDE DEF A, B
  <2>2. \A d \in Seq(A) : d \in Seq(B)
    BY <2>1
  <2>. QED BY <2>2 DEF A, B
<1>. QED BY <1>1, <1>3, <1>4

LEMMA OverwriteProps ==
  ASSUME NEW S, NEW f \in Seq(S), NEW p \in 1..(Len(f) + 1), NEW b \in S
  PROVE  /\ Overwrite(f, p, b) \in Seq(S)
         /\ Len(Overwrite(f, p, b)) = IF p <= Len(f) THEN Len(f) ELSE p
         /\ Overwrite(f, p, b)[p] = b
         /\ \A i \in 1..Len(f) : i # p => Overwrite(f, p, b)[i] = f[i]
BY DEF Overwrite

LEMMA OverwriteTwice ==
  ASSUME NEW S, NEW f \in Seq(S), NEW p \in 1..(Len(f) + 1), NEW b \in S, NEW h,
         h = Overwrite(Overwrite(f, p, b), p + 1, b)
  PROVE  /\ h \in Seq(S)
         /\ Len(h) >= Len(f) /\ Len(h) >= p + 1
         /\ \A i \in 1..Len(f) : i < p => h[i] = f[i]
<1>1. PICK g : g = Overwrite(f, p, b)
  OBVIOUS
<1>2. /\ g \in Seq(S)
      /\ Len(g) = IF p <= Len(f) THEN Len(f) ELSE p
      /\ \A i \in 1..Len(f) : i # p => g[i] = f[i]
  BY <1>1, OverwriteProps
<1>3. PICK q : q = p + 1 /\ q \in 1..(Len(g) + 1)
  BY <1>2
<1>4. h = Overwrite(g, q, b)
  BY <1>1, <1>3
<1>5. g \in Seq(S) /\ q \in 1..(Len(g) + 1)
  BY <1>2, <1>3
<1>6. h \in Seq(S)
  BY <1>4, <1>5, OverwriteProps
<1>7. Len(h) = IF q <= Len(g) THEN Len(g) ELSE q
  BY <1>4, <1>5, OverwriteProps
<1>8. \A i \in 1..Len(g) : i # q => h[i] = g[i]
  BY <1>4, <1>5, OverwriteProps
<1>. QED BY <1>2, <1>3, <1>6, <1>7, <1>8

\* What writing a block does to the file.
LEMMA PutProps ==
  ASSUME TypeOK, NEW b \in Blocks, Put(b)
  PROVE  /\ file' \in Seq(Blocks)
         /\ pos' = pos + 1 /\ pos' \in 1..(Len(file') + 1)
         /\ Len(file) \in Nat /\ Len(file') \in Nat
         /\ Len(file') >= Len(file) /\ Len(file') >= pos
         /\ \A i \in 1..Len(file) : i < pos => file'[i] = file[i]
         /\ ~shifted => /\ file'[pos] = b
                        /\ Len(file') = IF pos <= Len(file) THEN Len(file) ELSE pos
                        /\ \A i \in 1..Len(file) : i # pos => file'[i] = file[i]
         /\ shifted => Len(file') >= pos + 1
<1>1. file \in Seq(Blocks) /\ pos \in 1..(Len(file) + 1) /\ Len(file) \in Nat /\ Junk \in Blocks
      /\ pos' = pos + 1
  BY BlockTypes DEF TypeOK, Put
<1>2. CASE ~shifted
  <2>1. file' = Overwrite(file, pos, b)
    BY <1>2 DEF Put
  <2>2. file' \in Seq(Blocks)
    BY <1>1, <2>1, OverwriteProps
  <2>3. Len(file') = IF pos <= Len(file) THEN Len(file) ELSE pos
    BY <1>1, <2>1, OverwriteProps
  <2>4. file'[pos] = b
    BY <1>1, <2>1, OverwriteProps
  <2>5. \A i \in 1..Len(file) : i # pos => file'[i] = file[i]
    <3>. SUFFICES ASSUME NEW i \in 1..Len(file), i # pos PROVE file'[i] = file[i]
      OBVIOUS
    <3>1. Overwrite(file, pos, b)[i] = file[i]
      BY <1>1, OverwriteProps
    <3>. QED BY <2>1, <3>1
  <2>6. /\ Len(file') \in Nat /\ Len(file') >= Len(file) /\ Len(file') >= pos
        /\ pos' \in 1..(Len(file') + 1)
    BY <1>1, <2>3
  <2>7. \A i \in 1..Len(file) : i < pos => file'[i] = file[i]
    BY <1>1, <2>5
  <2>. QED BY <1>1, <1>2, <2>2, <2>3, <2>4, <2>5, <2>6, <2>7
<1>3. CASE shifted
  <2>1. file' = Overwrite(Overwrite(file, pos, Junk), pos + 1, Junk)
    BY <1>3 DEF Put
  <2>2. file' \in Seq(Blocks)
    BY <1>1, <2>1, OverwriteTwice
  <2>3. Len(file') >= Len(file) /\ Len(file') >= pos + 1
    BY <1>1, <2>1, OverwriteTwice
  <2>4. ASSUME NEW i \in 1..Len(file), i < pos PROVE file'[i] = file[i]
    <3>1. Overwrite(Overwrite(file, pos, Junk), pos + 1, Junk)[i] = file[i]
      BY <1>1, <2>4, OverwriteTwice
    <3>. QED BY <2>1, <3>1
  <2>5. Len(file') \in Nat /\ pos' \in 1..(Len(file') + 1)
    BY <1>1, <2>2, <2>3
  <2>. QED BY <1>1, <1>3, <2>2, <2>3, <2>4, <2>5
<1>. QED BY <1>2, <1>3

LEMMA InitTypeInv == Init => TypeInv
<1>. SUFFICES ASSUME Init PROVE TypeInv
  OBVIOUS
<1>1. Cardinality(Kinds) \in Nat
  BY PerTickType
<1>2. file \in Seq(Blocks) /\ pos \in 1..(Len(file) + 1) /\ done \in Seq([tick : 1..tick, entries : Nat])
  BY DEF Init
<1>3. readings \in [Sources -> [Pids -> Nat \cup {Never}]] /\ since \in Nat \cup {Never}
  BY DEF Init, NoReadings, Never
<1>4. entry \in 1..(Cardinality(Kinds) + 2) /\ taken \in 0..Count /\ session \in 0..MaxSessions
  BY <1>1, RecorderAssumption DEF Init
<1>5. TypeOK
  BY <1>2, <1>3, <1>4 DEF Init, TypeOK
<1>6. Progress
  BY DEF Init, Progress, Writing
<1>. QED BY <1>5, <1>6 DEF TypeInv

\* The ages of the readings keep their types.
LEMMA ReadingTypes ==
  ASSUME TypeOK,
         \/ Gone \/ Aged \/ UNCHANGED proc
         \/ \E d \in Delays : Enrich(d)
  PROVE  /\ readings' \in [Sources -> [Pids -> Nat \cup {Never}]]
         /\ since' \in Nat \cup {Never}
<1>. USE DEF TypeOK, Never
<1>1. CASE Gone              BY <1>1 DEF Gone, NoReadings
<1>2. CASE Aged              BY <1>2 DEF Aged, Older
<1>3. CASE UNCHANGED proc    BY <1>3 DEF proc
<1>4. CASE \E d \in Delays : Enrich(d) BY <1>4 DEF Enrich, Current
<1>. QED BY <1>1, <1>2, <1>3, <1>4

LEMMA RecordableKinds == \A server : Recordable(server) \subseteq Kinds
BY DEF Recordable

\* Writing a block keeps the types.
LEMMA PutTypes ==
  ASSUME TypeOK, NEW b \in Blocks, Put(b), tick' = tick
  PROVE  file' \in Seq(Blocks') /\ pos' \in 1..(Len(file') + 1)
BY PutProps, BlocksGrow DEF TypeOK

LEMMA StepTypeInv ==
  ASSUME TypeInv, [Next]_vars
  PROVE  TypeInv'
<1>. USE DEF TypeInv
<1>0. /\ TypeOK /\ Progress /\ tick \in Nat /\ entry \in Nat
      /\ file \in Seq(Blocks) /\ done \in Seq([tick : 1..tick, entries : Nat])
      /\ taken \in 0..Count /\ Count \in Nat /\ views \subseteq Kinds
      /\ session \in 0..MaxSessions /\ MaxSessions \in Nat
      /\ pos \in 1..(Len(file) + 1) /\ Len(file) \in Nat
  BY RecorderAssumption, PerTickType DEF TypeOK
<1>1. PerTick \in Nat /\ PerTick <= Cardinality(Kinds) + 2 /\ PerTick >= 2
      /\ Cardinality(Kinds) \in Nat
  BY <1>0, PerTickType DEF PerTick
<1>2. tick' = tick => Blocks' = Blocks
  BY DEF Blocks, Zero, Junk
<1>3. CASE Start
  <2>1. views' \subseteq Kinds /\ local' \in BOOLEAN /\ ioAvailable' \in BOOLEAN
    BY <1>3, RecordableKinds, RecorderAssumption DEF Start
  <2>2. readings' \in [Sources -> [Pids -> Nat \cup {Never}]] /\ since' \in Nat \cup {Never}
    BY <1>3, ReadingTypes DEF Start
  <2>. QED BY <1>0, <1>2, <1>3, <2>1, <2>2 DEF Start, TypeOK, Progress, Writing
<1>4. CASE Loop
  <2>1. CASE More /\ pc' = "open"
    <3>1. /\ taken' = taken + 1 /\ tick' = tick + 1 /\ pc = "loop"
          /\ UNCHANGED <<views, local, ioAvailable, proc>>
          /\ UNCHANGED <<session, truncate, entry, file, ragged, pos, shifted, broken, done>>
      BY <1>4, <2>1 DEF Loop
    <3>2. taken' \in 0..Count /\ taken' >= 1 /\ tick' \in Nat /\ tick' >= 1
      BY <1>0, <2>1, <3>1 DEF More
    <3>3. file' \in Seq(Blocks') /\ done' \in Seq([tick : 1..tick', entries : Nat])
      <4>1. tick' >= tick
        BY <1>0, <3>1
      <4>2. file \in Seq(Blocks') /\ done \in Seq([tick : 1..tick', entries : Nat])
        BY <1>0, <3>2, <4>1, BlocksGrow
      <4>. QED BY <3>1, <4>2
    <3>. QED BY <1>0, <2>1, <3>1, <3>2, <3>3 DEF TypeOK, Progress, Writing, proc
  <2>2. CASE ~More /\ pc' = "finished"
    <3>1. /\ Gone /\ UNCHANGED <<taken, tick>> /\ pc = "loop"
          /\ UNCHANGED <<session, truncate, entry, file, ragged, pos, shifted, broken, done>>
      BY <1>4, <2>2 DEF Loop
    <3>2. readings' \in [Sources -> [Pids -> Nat \cup {Never}]] /\ since' \in Nat \cup {Never}
      BY <3>1, ReadingTypes
    <3>. QED BY <1>0, <1>2, <2>2, <3>1, <3>2 DEF TypeOK, Progress, Writing, Gone
  <2>. QED BY <1>4, <2>1, <2>2 DEF Loop
<1>5. CASE OpenTruncated
  <2>1. file' \in Seq(Blocks') /\ pos' \in 1..(Len(file') + 1)
        /\ done' \in Seq([tick : 1..tick', entries : Nat])
    BY <1>0, <1>5 DEF OpenTruncated
  <2>. QED BY <1>0, <1>5, <2>1 DEF OpenTruncated, KeepsTruncating, TypeOK, Progress, Writing, proc
<1>6. CASE OpenAppend
  <2>1. CASE pc' = "collect"
    <3>1. pos' = AppendAt /\ AppendAt >= 1 /\ broken' \in BOOLEAN /\ shifted' = ragged
          /\ UNCHANGED <<views, local, ioAvailable, proc>>
          /\ UNCHANGED <<session, truncate, taken, tick, entry, file, ragged, done>>
          /\ pc = "open" /\ ~truncate
      BY <1>6, <2>1 DEF OpenAppend
    <3>2. pos' \in 1..(Len(file') + 1)
      BY <1>0, <3>1 DEF AppendAt
    <3>. QED BY <1>0, <1>2, <2>1, <3>1, <3>2 DEF TypeOK, Progress, Writing, proc
  <2>2. CASE pc' = "ended"
    <3>1. Gone /\ UNCHANGED <<pos, shifted, broken>>
          /\ UNCHANGED <<session, truncate, taken, tick, entry, file, ragged, done>>
          /\ pc = "open" /\ ~truncate
      BY <1>6, <2>2 DEF OpenAppend
    <3>2. readings' \in [Sources -> [Pids -> Nat \cup {Never}]] /\ since' \in Nat \cup {Never}
      BY <3>1, ReadingTypes
    <3>. QED BY <1>0, <1>2, <2>2, <3>1, <3>2 DEF TypeOK, Progress, Writing, Gone
  <2>. QED BY <1>6, <2>1, <2>2 DEF OpenAppend
<1>7. CASE Collect
  <2>1. \/ \E d \in Delays : Enrich(d)
        \/ UNCHANGED proc
    BY <1>7 DEF Collect
  <2>2. readings' \in [Sources -> [Pids -> Nat \cup {Never}]] /\ since' \in Nat \cup {Never}
    BY <2>1, ReadingTypes
  <2>. QED BY <1>0, <1>1, <1>2, <1>7, <2>2 DEF Collect, TypeOK, Progress, Writing, run, PerTick
<1>8. CASE WriteHeader
  <2>1. Header(tick, entry) \in Blocks
    BY <1>0, <1>8, BlockTypes DEF WriteHeader, Progress, Writing
  <2>2. tick' = tick /\ Put(Header(tick, entry))
    BY <1>8 DEF WriteHeader, run
  <2>3. file' \in Seq(Blocks') /\ pos' \in 1..(Len(file') + 1)
    BY <2>1, <2>2, PutTypes
  <2>. QED BY <1>0, <1>8, <2>3 DEF WriteHeader, TypeOK, Progress, Writing, run, PerTick
<1>9. CASE WriteData
  <2>1. Data(tick, entry) \in Blocks
    BY <1>0, <1>9, BlockTypes DEF WriteData, Progress, Writing
  <2>2. tick' = tick /\ Put(Data(tick, entry))
    BY <1>9 DEF WriteData, run
  <2>3. file' \in Seq(Blocks') /\ pos' \in 1..(Len(file') + 1)
    BY <2>1, <2>2, PutTypes
  <2>4. /\ entry' \in 1..(Cardinality(Kinds) + 2)
        /\ pc' \in {"header", "close"} /\ (pc' = "header" => entry' <= PerTick)
    BY <1>0, <1>1, <1>9 DEF WriteData, TypeOK
  <2>5. ragged' \in BOOLEAN
    BY <1>0, <1>9 DEF WriteData, TypeOK
  <2>. QED BY <1>0, <1>9, <2>3, <2>4, <2>5 DEF WriteData, TypeOK, Progress, Writing, run, proc, PerTick
<1>10. CASE Close
  <2>1. tick' = tick /\ Put(Zero)
    BY <1>10 DEF Close, run
  <2>2. file' \in Seq(Blocks') /\ pos' \in 1..(Len(file') + 1)
    BY <2>1, PutTypes, BlockTypes
  <2>. QED BY <1>0, <1>10, <2>2 DEF Close, TypeOK, Progress, Writing, run, proc
<1>11. CASE CloseTrailer
  <2>1. tick' = tick /\ Put(Zero) /\ tick >= 1
    BY <1>0, <1>11 DEF CloseTrailer, run, Progress, Writing
  <2>2. file' \in Seq(Blocks') /\ pos' \in 1..(Len(file') + 1)
    BY <2>1, PutTypes, BlockTypes
  <2>3. done' \in Seq([tick : 1..tick', entries : Nat])
    <3>1. [tick |-> tick, entries |-> PerTick] \in [tick : 1..tick, entries : Nat]
      BY <1>0, <1>1, <2>1
    <3>2. done' = done \/ done' = Append(done, [tick |-> tick, entries |-> PerTick])
      BY <1>11 DEF CloseTrailer
    <3>3. done' \in Seq([tick : 1..tick, entries : Nat])
      <4>. DEFINE R == [tick : 1..tick, entries : Nat]
                  s == [tick |-> tick, entries |-> PerTick]
      <4>1. done \in Seq(R) /\ s \in R /\ (done' = done \/ done' = Append(done, s))
        BY <1>0, <3>1, <3>2
      <4>. HIDE DEF R, s
      <4>2. done' \in Seq(R)
        BY <4>1
      <4>. QED BY <4>2 DEF R
    <3>. QED BY <2>1, <3>3
  <2>. QED BY <1>0, <1>11, <2>2, <2>3 DEF CloseTrailer, TypeOK, Progress, Writing, run, proc
<1>12. CASE Tick
  <2>1. readings' \in [Sources -> [Pids -> Nat \cup {Never}]] /\ since' \in Nat \cup {Never}
    BY <1>12, ReadingTypes DEF Tick
  <2>2. truncate' = truncate /\ ~truncate
    BY <1>0, <1>12 DEF Tick, Progress, run
  <2>. QED BY <1>0, <1>2, <1>12, <2>1, <2>2 DEF Tick, TypeOK, Progress, Writing, run
<1>13. ASSUME pc' = "ended", Gone,
              UNCHANGED <<session, truncate, taken, tick, entry, file, ragged, pos, shifted, broken, done>>
       PROVE  TypeInv'
  <2>1. readings' \in [Sources -> [Pids -> Nat \cup {Never}]] /\ since' \in Nat \cup {Never}
    BY <1>13, ReadingTypes
  <2>. QED BY <1>0, <1>2, <1>13, <2>1 DEF TypeOK, Progress, Writing, Gone
<1>14. CASE Interrupt \/ Die
  BY <1>13, <1>14 DEF Interrupt, Die
<1>15. CASE Idle \/ UNCHANGED vars
  <2>1. UNCHANGED vars
    BY <1>15 DEF Idle
  <2>. QED BY <1>0, <1>2, <2>1 DEF vars, run, proc, TypeOK, Progress, Writing, PerTick
<1>. QED BY <1>3, <1>4, <1>5, <1>6, <1>7, <1>8, <1>9, <1>10, <1>11, <1>12, <1>14, <1>15 DEF Next

LEMMA TypesHold == Spec => []TypeInv
BY InitTypeInv, StepTypeInv, PTL DEF Spec

\* Every variable of the recorder keeps its type, for any views, servers and
\* backends and any number of snapshots and restarts.
THEOREM RecorderTypeCorrect == Spec => []TypeOK
<1>1. TypeInv => TypeOK
  BY DEF TypeInv
<1>. QED BY <1>1, TypesHold, PTL

-----------------------------------------------------------------------------
(* Rates                                                                   *)

\* All readings there are were made when procfs was read last.
ReadTogether ==
  /\ \A s \in Sources, p \in Pids : readings[s][p] \in {Never, since}
  /\ \A s \in Sources, p \in Pids : rates[s][p].over = rates[s][p].from

LEMMA StepReadTogether ==
  ASSUME TypeInv, ReadTogether, [Next]_vars
  PROVE  ReadTogether'
<1>0. /\ readings \in [Sources -> [Pids -> Nat \cup {Never}]] /\ since \in Nat \cup {Never}
  BY DEF TypeInv, TypeOK
<1>1. CASE Gone
  BY <1>1 DEF Gone, ReadTogether, NoReadings, NoRates
<1>2. CASE UNCHANGED proc
  BY <1>2 DEF proc, ReadTogether
<1>3. CASE Aged
  BY <1>0, <1>3 DEF Aged, ReadTogether, Older, Never
<1>4. CASE WriteHeader
  BY <1>4 DEF WriteHeader, ReadTogether, NoRates
<1>5. ASSUME NEW d \in Delays, Enrich(d) PROVE ReadTogether'
  <2>. SUFFICES ASSUME NEW seen \in SUBSET Pids, NEW readable \in [Sources -> SUBSET seen],
                       readings' = [s \in Sources |-> [p \in Pids |-> Current(s, p, readable, d)]],
                       since' = 0,
                       rates' = [s \in Sources |-> [p \in Pids |-> RateOf(s, p, seen, d)]]
                PROVE  ReadTogether'
    BY <1>5 DEF Enrich
  <2>2. \A s \in Sources, p \in Pids : readings'[s][p] \in {Never, since'}
    BY DEF Current
  <2>3. \A s \in Sources, p \in Pids : RateOf(s, p, seen, d).over = RateOf(s, p, seen, d).from
    BY DEF RateOf, ReadTogether, Older
  <2>4. \A s \in Sources, p \in Pids : rates'[s][p] = RateOf(s, p, seen, d)
    OBVIOUS
  <2>. QED BY <2>2, <2>3, <2>4 DEF ReadTogether
<1>6. Gone \/ UNCHANGED proc \/ Aged \/ WriteHeader \/ \E d \in Delays : Enrich(d)
  BY DEF Next, Start, Loop, OpenTruncated, OpenAppend, Collect, WriteData, Close, CloseTrailer,
         Tick, Interrupt, Die, Idle, vars
<1>. QED BY <1>1, <1>2, <1>3, <1>4, <1>5, <1>6

\* A recorded rate is divided by the time between its two readings, whatever
\* backends and files come and go and however late ticks are.
THEOREM RatesRecordedRight == Spec => []RatesOverElapsed
<1>1. Init => ReadTogether
  BY DEF Init, ReadTogether, NoReadings, NoRates
<1>2. ReadTogether => RatesOverElapsed
  BY DEF ReadTogether, RatesOverElapsed
<1>. QED BY <1>1, <1>2, TypesHold, StepReadTogether, PTL DEF Spec

-----------------------------------------------------------------------------
(* EntriesOf and Found: what the recursive functions return                *)

Snapshot == [tick : Nat, entries : Nat]
Entry    == [tick : Nat, entry : Nat]

Part(s) == [e \in 1..s.entries |-> [tick |-> s.tick, entry |-> e]]

IsUpTo(f, d, n) == f = [k \in 0..n |-> IF k = 0 THEN <<>> ELSE f[k - 1] \o Part(d[k])]

UpTo(d) == CHOOSE f : IsUpTo(f, d, Len(d))

LEMMA EntriesAreUpTo == \A d : EntriesOf(d) = UpTo(d)[Len(d)]
BY Zenon DEF EntriesOf, UpTo, IsUpTo, Part

LEMMA UpToExists ==
  ASSUME NEW d
  PROVE  \A n \in Nat : \E f : IsUpTo(f, d, n)
<1>. DEFINE S == {n \in Nat : \E f : IsUpTo(f, d, n)}
<1>1. 0 \in S
  <2>1. IsUpTo([k \in 0..0 |-> <<>>], d, 0)
    BY DEF IsUpTo
  <2>. QED BY <2>1
<1>2. ASSUME NEW n \in Nat, n \in S PROVE n + 1 \in S
  <2>1. PICK f : f = [k \in 0..n |-> IF k = 0 THEN <<>> ELSE f[k - 1] \o Part(d[k])]
    BY <1>2 DEF IsUpTo
  <2>. DEFINE g == [k \in 0..(n + 1) |-> IF k <= n THEN f[k] ELSE f[n] \o Part(d[n + 1])]
  <2>2. \A k \in 0..(n + 1) : k <= n => k \in 0..n /\ g[k] = f[k]
    OBVIOUS
  <2>3. g[n + 1] = f[n] \o Part(d[n + 1])
    <3>1. n + 1 \in 0..(n + 1) /\ ~(n + 1 <= n)
      OBVIOUS
    <3>. QED BY <3>1
  <2>4. \A k \in 0..(n + 1) : g[k] = IF k = 0 THEN <<>> ELSE g[k - 1] \o Part(d[k])
    <3>. SUFFICES ASSUME NEW k \in 0..(n + 1)
                  PROVE  g[k] = IF k = 0 THEN <<>> ELSE g[k - 1] \o Part(d[k])
      OBVIOUS
    <3>1. CASE k = 0
      <4>1. g[k] = f[0] /\ f[0] = <<>>
        BY <2>1, <2>2, <3>1
      <4>. QED BY <3>1, <4>1
    <3>2. CASE k # 0 /\ k <= n
      <4>1. k - 1 \in 0..(n + 1) /\ k - 1 <= n /\ k \in 0..n
        BY <3>2
      <4>2. f[k] = f[k - 1] \o Part(d[k])
        BY <2>1, <3>2, <4>1
      <4>3. g[k] = f[k] /\ g[k - 1] = f[k - 1]
        BY <2>2, <4>1
      <4>. QED BY <3>2, <4>2, <4>3
    <3>3. CASE k = n + 1
      <4>1. k # 0 /\ k - 1 = n /\ g[n] = f[n]
        BY <2>2, <3>3
      <4>. QED BY <2>3, <3>3, <4>1
    <3>. QED BY <3>1, <3>2, <3>3
  <2>5. IsUpTo(g, d, n + 1)
    <3>1. g = [k \in 0..(n + 1) |-> g[k]]
      OBVIOUS
    <3>. HIDE DEF g
    <3>. QED BY <2>4, <3>1 DEF IsUpTo
  <2>. QED BY <2>5
<1>. HIDE DEF S
<1>3. \A n \in Nat : n \in S
  BY <1>1, <1>2, NatSet
<1>. QED BY <1>3 DEF S

\* The function for a sequence of snapshots and for a longer one agree.
LEMMA UpToAgree ==
  ASSUME NEW n \in Nat, NEW m \in Nat, n <= m, NEW f, NEW g, NEW d, NEW e,
         IsUpTo(f, d, n), IsUpTo(g, e, m), \A k \in 1..n : d[k] = e[k]
  PROVE  \A k \in 0..n : f[k] = g[k]
<1>. DEFINE S == {k \in Nat : k <= n => f[k] = g[k]}
<1>0. /\ \A k \in 0..n : f[k] = IF k = 0 THEN <<>> ELSE f[k - 1] \o Part(d[k])
      /\ \A k \in 0..m : g[k] = IF k = 0 THEN <<>> ELSE g[k - 1] \o Part(e[k])
  BY DEF IsUpTo
<1>1. 0 \in S
  BY <1>0
<1>2. ASSUME NEW k \in Nat, k \in S PROVE k + 1 \in S
  <2>. SUFFICES ASSUME k + 1 <= n PROVE f[k + 1] = g[k + 1]
    OBVIOUS
  <2>1. f[k] = g[k] /\ k + 1 \in 1..n /\ k + 1 \in 0..n /\ k + 1 \in 0..m /\ k + 1 # 0
        /\ (k + 1) - 1 = k
    BY <1>2
  <2>2. f[k + 1] = f[k] \o Part(d[k + 1])
    BY <1>0, <2>1
  <2>3. g[k + 1] = g[k] \o Part(e[k + 1])
    BY <1>0, <2>1
  <2>. QED BY <2>1, <2>2, <2>3
<1>. HIDE DEF S
<1>3. \A k \in Nat : k \in S
  BY <1>1, <1>2, NatSet
<1>. QED BY <1>3 DEF S

LEMMA PartType ==
  ASSUME NEW s \in Snapshot
  PROVE  /\ Part(s) \in Seq(Entry) /\ Len(Part(s)) = s.entries
         /\ \A e \in 1..s.entries : Part(s)[e] = [tick |-> s.tick, entry |-> e]
<1>1. s.tick \in Nat /\ s.entries \in Nat
  BY DEF Snapshot
<1>2. Part(s) \in [1..s.entries -> Entry]
  BY <1>1 DEF Part, Entry
<1>3. Part(s) \in Seq(Entry)
  BY <1>1, <1>2
<1>4. Len(Part(s)) = s.entries
  BY <1>1, <1>2, <1>3
<1>. QED BY <1>3, <1>4 DEF Part

LEMMA UpToSeq ==
  ASSUME NEW n \in Nat, NEW f, NEW d, IsUpTo(f, d, n), \A k \in 1..n : d[k] \in Snapshot
  PROVE  \A k \in 0..n : f[k] \in Seq(Entry)
<1>. DEFINE S == {k \in Nat : k <= n => f[k] \in Seq(Entry)}
<1>0. \A k \in 0..n : f[k] = IF k = 0 THEN <<>> ELSE f[k - 1] \o Part(d[k])
  BY DEF IsUpTo
<1>1. 0 \in S
  <2>1. f[0] = <<>>
    BY <1>0
  <2>2. f[0] \in Seq(Entry)
    BY <2>1
  <2>. QED BY <2>2
<1>2. ASSUME NEW k \in Nat, k \in S PROVE k + 1 \in S
  <2>. SUFFICES ASSUME k + 1 <= n PROVE f[k + 1] \in Seq(Entry)
    OBVIOUS
  <2>1. f[k] \in Seq(Entry) /\ k + 1 \in 1..n /\ k + 1 \in 0..n /\ k + 1 # 0
        /\ (k + 1) - 1 = k
    BY <1>2
  <2>2. f[k + 1] = f[k] \o Part(d[k + 1])
    BY <1>0, <2>1
  <2>3. Part(d[k + 1]) \in Seq(Entry)
    BY <2>1, PartType
  <2>. QED BY <2>1, <2>2, <2>3
<1>. HIDE DEF S
<1>3. \A k \in Nat : k \in S
  BY <1>1, <1>2, NatSet
<1>. QED BY <1>3 DEF S

LEMMA UpToIs == ASSUME NEW d, Len(d) \in Nat PROVE IsUpTo(UpTo(d), d, Len(d))
BY UpToExists DEF UpTo

LEMMA EntriesType ==
  ASSUME NEW d \in Seq(Snapshot)
  PROVE  EntriesOf(d) \in Seq(Entry)
<1>1. Len(d) \in Nat /\ \A k \in 1..Len(d) : d[k] \in Snapshot
  OBVIOUS
<1>2. \A k \in 0..Len(d) : UpTo(d)[k] \in Seq(Entry)
  BY <1>1, UpToIs, UpToSeq
<1>. QED BY <1>1, <1>2, EntriesAreUpTo

LEMMA EntriesOfNone == EntriesOf(<<>>) = <<>>
<1>1. IsUpTo(UpTo(<<>>), <<>>, 0)
  BY UpToIs
<1>2. UpTo(<<>>)[0] = <<>>
  BY <1>1 DEF IsUpTo
<1>. QED BY <1>2, EntriesAreUpTo

\* A snapshot more adds its entries behind those there are.
LEMMA EntriesAppend ==
  ASSUME NEW d \in Seq(Snapshot), NEW s \in Snapshot
  PROVE  EntriesOf(Append(d, s)) = EntriesOf(d) \o Part(s)
<1>. DEFINE e == Append(d, s)  n == Len(d)
<1>1. /\ n \in Nat /\ Len(e) = n + 1 /\ e[n + 1] = s
      /\ \A k \in 1..n : d[k] = e[k]
  OBVIOUS
<1>. HIDE DEF e
<1>2. IsUpTo(UpTo(d), d, n) /\ IsUpTo(UpTo(e), e, n + 1)
  BY <1>1, UpToIs
<1>3. UpTo(d)[n] = UpTo(e)[n]
  BY <1>1, <1>2, UpToAgree
<1>4. UpTo(e)[n + 1] = UpTo(e)[n] \o Part(s)
  <2>1. \A k \in 0..(n + 1) : UpTo(e)[k] = IF k = 0 THEN <<>> ELSE UpTo(e)[k - 1] \o Part(e[k])
    BY <1>2 DEF IsUpTo
  <2>2. n + 1 \in 0..(n + 1) /\ n + 1 # 0 /\ (n + 1) - 1 = n
    BY <1>1
  <2>. QED BY <1>1, <2>1, <2>2
<1>5. EntriesOf(e) = UpTo(e)[n + 1] /\ EntriesOf(d) = UpTo(d)[n]
  BY <1>1, EntriesAreUpTo
<1>. QED BY <1>3, <1>4, <1>5 DEF e

\* An entry starts at block i of f.
EntryAt(f, i) ==
  /\ i < Len(f)
  /\ f[i].kind = "header"
  /\ f[i + 1] = Data(f[i].tick, f[i].entry)

Read(f, i) == [tick |-> f[i].tick, entry |-> f[i].entry]

\* g is what a reader finds from block lo on.
IsFound(g, f, lo) ==
  g = [i \in lo..(Len(f) + 1) |-> IF EntryAt(f, i) THEN <<Read(f, i)>> \o g[i + 2] ELSE <<>>]

FoundFrom(f) == CHOOSE g : IsFound(g, f, 1)

LEMMA FoundIsFrom == Found = FoundFrom(file)[1]
BY Zenon DEF Found, FoundFrom, IsFound, EntryAt, Read

LEMMA FoundExists ==
  ASSUME NEW f, Len(f) \in Nat
  PROVE  \E g : IsFound(g, f, 1)
<1>. DEFINE top == Len(f) + 1
            S == {n \in Nat : n < top => \E g : IsFound(g, f, top - n)}
<1>1. 0 \in S
  <2>. DEFINE g == [i \in top..top |-> <<>>]
  <2>1. \A i \in top..top : ~EntryAt(f, i)
    BY DEF EntryAt
  <2>2. g = [i \in top..top |-> IF EntryAt(f, i) THEN <<Read(f, i)>> \o g[i + 2] ELSE <<>>]
    BY <2>1
  <2>3. IsFound(g, f, top - 0)
    BY <2>2 DEF IsFound
  <2>. QED BY <2>3
<1>2. ASSUME NEW n \in Nat, n \in S PROVE n + 1 \in S
  <2>. SUFFICES ASSUME n + 1 < top PROVE \E g : IsFound(g, f, top - (n + 1))
    OBVIOUS
  <2>. DEFINE lo == top - (n + 1)
  <2>0. lo \in Nat /\ lo >= 1 /\ lo + 1 = top - n /\ lo < top /\ top \in Nat
    OBVIOUS
  <2>1. PICK h : IsFound(h, f, lo + 1)
    BY <1>2, <2>0
  <2>. HIDE DEF lo
  <2>2. h = [i \in (lo + 1)..top |-> IF EntryAt(f, i) THEN <<Read(f, i)>> \o h[i + 2] ELSE <<>>]
    BY <2>1 DEF IsFound
  <2>. HIDE DEF top
  <2>. DEFINE first == IF EntryAt(f, lo) THEN <<Read(f, lo)>> \o h[lo + 2] ELSE <<>>
              g == [i \in lo..top |-> IF i = lo THEN first ELSE h[i]]
  <2>3. \A i \in lo..top : i # lo => i \in (lo + 1)..top /\ g[i] = h[i]
    BY <2>0
  <2>4. g[lo] = first
    BY <2>0
  <2>5. \A i \in lo..top : EntryAt(f, i) => i + 2 \in (lo + 1)..top /\ i + 2 \in lo..top /\ i + 2 # lo
    BY <2>0 DEF EntryAt, top
  <2>6. \A i \in lo..top : g[i] = IF EntryAt(f, i) THEN <<Read(f, i)>> \o g[i + 2] ELSE <<>>
    <3>. SUFFICES ASSUME NEW i \in lo..top
                  PROVE  g[i] = IF EntryAt(f, i) THEN <<Read(f, i)>> \o g[i + 2] ELSE <<>>
      OBVIOUS
    <3>1. EntryAt(f, i) => g[i + 2] = h[i + 2]
      BY <2>3, <2>5
    <3>2. CASE i = lo
      BY <2>4, <3>1, <3>2
    <3>3. CASE i # lo
      <4>1. g[i] = h[i] /\ i \in (lo + 1)..top
        BY <2>3, <3>3
      <4>2. h[i] = IF EntryAt(f, i) THEN <<Read(f, i)>> \o h[i + 2] ELSE <<>>
        BY <2>2, <4>1
      <4>. QED BY <3>1, <4>1, <4>2
    <3>. QED BY <3>2, <3>3
  <2>7. g = [i \in lo..top |-> g[i]]
    OBVIOUS
  <2>8. IsFound(g, f, lo)
    <3>. HIDE DEF g
    <3>. QED BY <2>6, <2>7 DEF IsFound, top
  <2>. QED BY <2>8 DEF lo
<1>3. \A n \in Nat : n \in S
  <2>. HIDE DEF S
  <2>. QED BY <1>1, <1>2, NatSet
<1>4. Len(f) \in S /\ Len(f) < top /\ top - Len(f) = 1
  BY <1>3
<1>. QED BY <1>4

LEMMA FoundAt ==
  ASSUME NEW f, Len(f) \in Nat
  PROVE  \A i \in 1..(Len(f) + 1) :
           FoundFrom(f)[i] = IF EntryAt(f, i) THEN <<Read(f, i)>> \o FoundFrom(f)[i + 2] ELSE <<>>
<1>1. IsFound(FoundFrom(f), f, 1)
  BY FoundExists DEF FoundFrom
<1>. QED BY <1>1 DEF IsFound

\* Blocks 2*j-1 and 2*j of a file hold entry j of es.
Holds(f, es) ==
  \A j \in 1..Len(es) :
    /\ f[2 * j - 1] = Header(es[j].tick, es[j].entry)
    /\ f[2 * j] = Data(es[j].tick, es[j].entry)

WellTyped(f) == \A i \in 1..Len(f) : f[i].kind = "header" => Read(f, i) \in Entry

LEMMA FoundType ==
  ASSUME NEW f, Len(f) \in Nat, WellTyped(f)
  PROVE  \A i \in 1..(Len(f) + 1) : FoundFrom(f)[i] \in Seq(Entry)
<1>. DEFINE top == Len(f) + 1
            S == {n \in Nat : \A i \in 1..top : i + n >= top => FoundFrom(f)[i] \in Seq(Entry)}
<1>1. 0 \in S
  <2>. SUFFICES ASSUME NEW i \in 1..top, i + 0 >= top PROVE FoundFrom(f)[i] \in Seq(Entry)
    OBVIOUS
  <2>1. ~EntryAt(f, i)
    BY DEF EntryAt
  <2>2. FoundFrom(f)[i] = <<>>
    BY <2>1, FoundAt
  <2>. QED BY <2>2
<1>2. ASSUME NEW n \in Nat, n \in S PROVE n + 1 \in S
  <2>. SUFFICES ASSUME NEW i \in 1..top, i + (n + 1) >= top PROVE FoundFrom(f)[i] \in Seq(Entry)
    OBVIOUS
  <2>1. CASE EntryAt(f, i)
    <3>1. i + 2 \in 1..top /\ (i + 2) + n >= top /\ i \in 1..Len(f) /\ f[i].kind = "header"
      BY <2>1 DEF EntryAt
    <3>2. FoundFrom(f)[i + 2] \in Seq(Entry) /\ Read(f, i) \in Entry
      BY <1>2, <3>1 DEF WellTyped
    <3>3. FoundFrom(f)[i] = <<Read(f, i)>> \o FoundFrom(f)[i + 2]
      BY <2>1, FoundAt
    <3>. QED BY <3>2, <3>3
  <2>2. CASE ~EntryAt(f, i)
    <3>1. FoundFrom(f)[i] = <<>>
      BY <2>2, FoundAt
    <3>. QED BY <3>1
  <2>. QED BY <2>1, <2>2
<1>3. \A n \in Nat : n \in S
  <2>. HIDE DEF S
  <2>. QED BY <1>1, <1>2, NatSet
<1>4. top \in S /\ \A i \in 1..top : i + top >= top
  BY <1>3
<1>. QED BY <1>4

\* Whatever follows them, a reader finds the entries a file begins with.
LEMMA ReaderFinds ==
  ASSUME NEW f, Len(f) \in Nat, WellTyped(f),
         NEW es \in Seq(Entry), 2 * Len(es) <= Len(f), Holds(f, es)
  PROVE  /\ FoundFrom(f)[1] \in Seq(Entry)
         /\ Len(FoundFrom(f)[1]) = Len(es) + Len(FoundFrom(f)[2 * Len(es) + 1])
         /\ \A k \in 1..Len(es) : FoundFrom(f)[1][k] = es[k]
<1>. DEFINE n == Len(es)
            rest == FoundFrom(f)[2 * n + 1]
            at(i) == FoundFrom(f)[2 * (n - i) + 1]
            agrees(i) == /\ Len(at(i)) = i + Len(rest)
                         /\ \A k \in 1..i : at(i)[k] = es[(n - i) + k]
            S == {i \in Nat : i <= n => agrees(i)}
<1>0. n \in Nat /\ rest \in Seq(Entry)
  <2>1. 2 * n + 1 \in 1..(Len(f) + 1)
    OBVIOUS
  <2>. QED BY <2>1, FoundType
<1>1. 0 \in S
  <2>1. at(0) = rest /\ Len(rest) \in Nat
    BY <1>0
  <2>. QED BY <2>1
<1>2. ASSUME NEW i \in Nat, i \in S PROVE i + 1 \in S
  <2>. SUFFICES ASSUME i + 1 <= n PROVE agrees(i + 1)
    <3>. HIDE DEF agrees
    <3>. QED OBVIOUS
  <2>. DEFINE j == n - i
              b == 2 * j - 1
  <2>1. /\ j \in 1..n /\ b \in Nat /\ b \in 1..(Len(f) + 1) /\ b < Len(f)
        /\ 2 * (n - (i + 1)) + 1 = b /\ b + 1 = 2 * j /\ b + 2 = 2 * (n - i) + 1
        /\ b + 2 \in 1..(Len(f) + 1)
    BY <1>0
  <2>2. f[b] = Header(es[j].tick, es[j].entry) /\ f[b + 1] = Data(es[j].tick, es[j].entry)
    BY <2>1 DEF Holds
  <2>3. EntryAt(f, b) /\ Read(f, b) = es[j]
    <3>1. es[j] \in Entry
      BY <2>1
    <3>2. f[b].kind = "header" /\ f[b].tick = es[j].tick /\ f[b].entry = es[j].entry
      <4>. HIDE DEF j, b
      <4>. QED BY <2>2 DEF Header
    <3>3. EntryAt(f, b)
      <4>. HIDE DEF j, b
      <4>. QED BY <2>1, <2>2, <3>2 DEF EntryAt
    <3>4. \A r \in Entry : r = [tick |-> r.tick, entry |-> r.entry]
      BY DEF Entry
    <3>5. Read(f, b) = es[j]
      <4>. HIDE DEF j, b
      <4>. QED BY <3>1, <3>2, <3>4 DEF Read
    <3>. QED BY <3>3, <3>5
  <2>4. at(i + 1) = <<es[j]>> \o at(i)
    <3>1. FoundFrom(f)[b] = <<es[j]>> \o FoundFrom(f)[b + 2]
      BY <2>1, <2>3, FoundAt
    <3>. QED BY <2>1, <3>1
  <2>5. at(i) \in Seq(Entry) /\ es[j] \in Entry
    <3>1. FoundFrom(f)[b + 2] \in Seq(Entry)
      BY <2>1, FoundType
    <3>. QED BY <2>1, <3>1
  <2>6. Len(at(i)) = i + Len(rest) /\ \A k \in 1..i : at(i)[k] = es[j + k]
    BY <1>2
  <2>7. j \in Nat /\ i \in Nat /\ (n - (i + 1)) = j - 1
    BY <1>0, <2>1
  <2>8. Len(rest) \in Nat
    BY <1>0
  <2>. HIDE DEF at, rest, j, n
  <2>9. Len(at(i + 1)) = 1 + Len(at(i))
    BY <2>4, <2>5
  <2>10. \A k \in 1..(i + 1) : at(i + 1)[k] = es[(j - 1) + k]
    <3>. SUFFICES ASSUME NEW k \in 1..(i + 1) PROVE at(i + 1)[k] = es[(j - 1) + k]
      OBVIOUS
    <3>1. CASE k = 1
      <4>1. at(i + 1)[1] = es[j] /\ (j - 1) + 1 = j
        BY <2>4, <2>5, <2>7
      <4>. QED BY <3>1, <4>1
    <3>2. CASE k # 1
      <4>1. k - 1 \in 1..i /\ j + (k - 1) = (j - 1) + k
        BY <2>7, <3>2
      <4>2. at(i + 1)[k] = at(i)[k - 1]
        BY <2>4, <2>5, <2>6, <2>8, <3>2, <4>1
      <4>. QED BY <2>6, <4>1, <4>2
    <3>. QED BY <3>1, <3>2
  <2>. QED BY <2>6, <2>7, <2>8, <2>9, <2>10
<1>3. \A i \in Nat : i \in S
  <2>. HIDE DEF S
  <2>. QED BY <1>1, <1>2, NatSet
<1>4. n \in S
  BY <1>0, <1>3
<1>5. at(n) = FoundFrom(f)[1] /\ \A k \in 1..n : (n - n) + k = k
  BY <1>0
<1>6. 1 \in 1..(Len(f) + 1)
  OBVIOUS
<1>. QED BY <1>0, <1>4, <1>5, <1>6, FoundType

-----------------------------------------------------------------------------
(* The archive survives                                                    *)

\* The blocks the closed snapshots take, and that they are still there.
Closed == 2 * Len(EntriesOf(done))

Kept == Closed <= Len(file) /\ Holds(file, EntriesOf(done))

\* Behind them there is room for what an append overwrites: the trailer, or, in
\* a ragged file, more.
Spare ==
  /\ Closed > 0 => Len(file) >= Closed + 2
  /\ ragged \/ shifted => Len(file) >= 1 /\ (Closed > 0 => Len(file) >= Closed + 3)
  /\ pc \in Writing => pos > Closed

\* A trailer at the end of an unbroken file is that of the last closed snapshot.
Sealed == ~broken /\ EndsInTrailer => Len(file) = Closed + 2

\* The entries of the snapshot being written that are complete.
Recorded == IF pc = "collect" THEN 0 ELSE IF pc \in {"header", "data"} THEN entry - 1 ELSE PerTick

\* An unbroken file is written in whole blocks behind the closed snapshots.
Whole ==
  ~broken /\ pc \in Writing =>
    /\ ~shifted
    /\ pos = Closed + 2 * Recorded + (IF pc \in {"data", "trailer"} THEN 2 ELSE 1)
    /\ Len(file) <= Closed + 2 \/ Len(file) = pos - 1
    /\ \A j \in 1..Recorded : /\ file[Closed + 2 * j - 1] = Header(tick, j)
                              /\ file[Closed + 2 * j] = Data(tick, j)
    /\ pc = "data" => file[pos - 1] = Header(tick, entry)
    /\ pc = "trailer" => file[pos - 1] = Zero

\* A closed archive ends in a trailer.
AtRest == pc = "wait" /\ ~broken => EndsInTrailer

ArchiveInv == Kept /\ Spare /\ Sealed /\ Whole /\ AtRest

\* What the invariant is about, with its types.
LEMMA ArchiveTypes ==
  ASSUME TypeInv
  PROVE  /\ done \in Seq(Snapshot) /\ EntriesOf(done) \in Seq(Entry)
         /\ Len(EntriesOf(done)) \in Nat /\ Closed \in Nat
         /\ file \in Seq(Blocks) /\ Len(file) \in Nat /\ WellTyped(file)
         /\ pos \in 1..(Len(file) + 1)
         /\ PerTick \in Nat /\ PerTick >= 2 /\ entry \in Nat /\ entry >= 1
         /\ tick \in Nat
<1>. USE DEF TypeInv, TypeOK
<1>1. done \in Seq(Snapshot)
  <2>. DEFINE A == [tick : 1..tick, entries : Nat]
  <2>1. A \subseteq Snapshot /\ done \in Seq(A)
    BY DEF Snapshot
  <2>. HIDE DEF A
  <2>. QED BY <2>1
<1>2. EntriesOf(done) \in Seq(Entry)
  BY <1>1, EntriesType
<1>3. Len(EntriesOf(done)) \in Nat
  BY <1>2
<1>4. WellTyped(file)
  <2>. SUFFICES ASSUME NEW i \in 1..Len(file), file[i].kind = "header" PROVE Read(file, i) \in Entry
    BY DEF WellTyped
  <2>1. file[i] \in Blocks
    OBVIOUS
  <2>2. file[i].tick \in Nat /\ file[i].entry \in Nat
    BY <2>1 DEF Blocks, Zero, Junk
  <2>. QED BY <2>2 DEF Read, Entry
<1>5. PerTick \in Nat /\ PerTick >= 2
  BY PerTickType DEF PerTick
<1>6. entry \in Nat /\ entry >= 1
  BY PerTickType
<1>. QED BY <1>1, <1>2, <1>3, <1>4, <1>5, <1>6 DEF Closed

LEMMA NotZero ==
  \A t, e : Header(t, e) # Zero /\ Data(t, e) # Zero /\ Header(t, e).kind = "header"
BY DEF Header, Data, Zero

\* The closed snapshots are found by a reader.
LEMMA KeptIsRead ==
  ASSUME TypeInv, Kept
  PROVE  /\ Found \in Seq(Entry)
         /\ Len(Found) = Len(EntriesOf(done)) + Len(FoundFrom(file)[Closed + 1])
         /\ \A k \in 1..Len(EntriesOf(done)) : Found[k] = EntriesOf(done)[k]
         /\ FoundFrom(file)[Closed + 1] \in Seq(Entry)
<1>. DEFINE es == EntriesOf(done)
<1>1. /\ es \in Seq(Entry) /\ Len(file) \in Nat /\ WellTyped(file)
      /\ 2 * Len(es) <= Len(file) /\ Holds(file, es) /\ Len(es) \in Nat
  BY ArchiveTypes DEF Kept, Closed
<1>2. Closed = 2 * Len(es)
  BY DEF Closed
<1>. HIDE DEF es
<1>3. /\ FoundFrom(file)[1] \in Seq(Entry)
      /\ Len(FoundFrom(file)[1]) = Len(es) + Len(FoundFrom(file)[2 * Len(es) + 1])
      /\ \A k \in 1..Len(es) : FoundFrom(file)[1][k] = es[k]
  BY <1>1, ReaderFinds
<1>4. FoundFrom(file)[2 * Len(es) + 1] \in Seq(Entry)
  <2>1. 2 * Len(es) + 1 \in 1..(Len(file) + 1)
    BY <1>1
  <2>. QED BY <1>1, <2>1, FoundType
<1>. QED BY <1>2, <1>3, <1>4, FoundIsFrom DEF es

LEMMA KeptSurvives ==
  ASSUME TypeInv, Kept
  PROVE  ClosedSurvive
<1>. DEFINE e == EntriesOf(done)  f == Found
<1>1. /\ e \in Seq(Entry) /\ f \in Seq(Entry) /\ Len(e) \in Nat /\ Len(f) \in Nat
      /\ Len(e) <= Len(f) /\ \A k \in 1..Len(e) : f[k] = e[k]
  <2>1. Len(FoundFrom(file)[Closed + 1]) \in Nat
    BY KeptIsRead
  <2>. QED BY <2>1, KeptIsRead, ArchiveTypes
<1>. HIDE DEF e, f
<1>2. e = SubSeq(f, 1, Len(e))
  BY <1>1
<1>. QED BY <1>1, <1>2 DEF e, f, ClosedSurvive

LEMMA ClosedIsComplete ==
  ASSUME TypeInv, ArchiveInv
  PROVE  ClosedComplete
<1>. SUFFICES ASSUME pc = "wait", ~broken PROVE Found = EntriesOf(done) /\ EndsInTrailer
  BY DEF ClosedComplete
<1>1. EndsInTrailer /\ Len(file) = Closed + 2
  BY DEF ArchiveInv, AtRest, Sealed
<1>2. Closed \in Nat /\ Len(file) \in Nat
  BY ArchiveTypes
<1>3. file[Closed + 1] = Zero
  <2>1. file[Len(file) - 1] = Zero /\ Len(file) - 1 = Closed + 1
    BY <1>1, <1>2 DEF EndsInTrailer
  <2>. QED BY <2>1
<1>4. FoundFrom(file)[Closed + 1] = <<>>
  <2>1. ~EntryAt(file, Closed + 1)
    BY <1>3 DEF EntryAt, Zero
  <2>2. Closed + 1 \in 1..(Len(file) + 1)
    BY <1>1, <1>2
  <2>. QED BY <1>2, <2>1, <2>2, FoundAt
<1>5. Found = EntriesOf(done)
  <2>. DEFINE e == EntriesOf(done)  f == Found
  <2>1. /\ e \in Seq(Entry) /\ f \in Seq(Entry) /\ Len(e) \in Nat
        /\ Len(f) = Len(e) /\ \A k \in 1..Len(e) : f[k] = e[k]
    <3>1. Kept
      BY DEF ArchiveInv
    <3>2. Len(FoundFrom(file)[Closed + 1]) = 0
      BY <1>4
    <3>. QED BY <3>1, <3>2, KeptIsRead, ArchiveTypes
  <2>. HIDE DEF e, f
  <2>2. f = e
    BY <2>1
  <2>. QED BY <2>2 DEF e, f
<1>. QED BY <1>1, <1>5

LEMMA InitArchive == Init => ArchiveInv
<1>. SUFFICES ASSUME Init PROVE ArchiveInv
  OBVIOUS
<1>1. file = <<>> /\ done = <<>> /\ ~ragged /\ ~shifted /\ pc = "ended" /\ Len(file) = 0
  BY DEF Init
<1>2. EntriesOf(done) = <<>> /\ Closed = 0 /\ Len(EntriesOf(done)) = 0
  BY <1>1, EntriesOfNone DEF Closed
<1>. QED BY <1>1, <1>2
     DEF ArchiveInv, Kept, Holds, Spare, Sealed, EndsInTrailer, Whole, AtRest, Writing

\* Steps that leave the file alone and do not begin to write.
LEMMA QuietArchive ==
  ASSUME ArchiveInv, UNCHANGED <<file, ragged, shifted, broken, done>>,
         pc' \notin Writing \cup {"wait"}
  PROVE  ArchiveInv'
<1>1. Closed' = Closed /\ EntriesOf(done)' = EntriesOf(done)
  BY DEF Closed
<1>2. Kept'
  BY <1>1 DEF ArchiveInv, Kept, Holds
<1>3. Spare' /\ Sealed' /\ Whole' /\ AtRest'
  BY <1>1 DEF ArchiveInv, Spare, Sealed, EndsInTrailer, Whole, AtRest
<1>. QED BY <1>2, <1>3 DEF ArchiveInv

LEMMA TruncateArchive ==
  ASSUME TypeInv, OpenTruncated
  PROVE  ArchiveInv'
<1>1. /\ file' = <<>> /\ done' = <<>> /\ ~ragged' /\ ~shifted' /\ pc' = "collect"
      /\ pos' = 1 /\ Len(file') = 0
  BY DEF OpenTruncated, TypeInv, Progress
<1>2. EntriesOf(done') = <<>>
  BY <1>1, EntriesOfNone
<1>3. EntriesOf(done)' = <<>> /\ Closed' = 0 /\ Len(EntriesOf(done)') = 0
  BY <1>2 DEF Closed
<1>4. Recorded' = 0
  BY <1>1 DEF Recorded
<1>. QED BY <1>1, <1>3, <1>4
     DEF ArchiveInv, Kept, Holds, Spare, Sealed, EndsInTrailer, Whole, AtRest, Writing

LEMMA AppendArchive ==
  ASSUME TypeInv, ArchiveInv, OpenAppend
  PROVE  ArchiveInv'
<1>0. /\ Closed \in Nat /\ Len(file) \in Nat /\ file \in Seq(Blocks)
  BY ArchiveTypes
<1>1. CASE pc' = "ended"
  <2>1. UNCHANGED <<file, ragged, shifted, broken, done>>
    BY <1>1 DEF OpenAppend
  <2>. QED BY <1>1, <2>1, QuietArchive DEF Writing
<1>2. CASE pc' = "collect"
  <2>1. /\ AppendAt >= 1 /\ pos' = AppendAt /\ shifted' = ragged
        /\ broken' = (broken \/ ~(file = <<>> \/ EndsInTrailer))
        /\ UNCHANGED <<file, ragged, done>>
    BY <1>2 DEF OpenAppend
  <2>2. Closed' = Closed /\ EntriesOf(done)' = EntriesOf(done)
    BY <2>1 DEF Closed
  <2>3. Kept'
    BY <2>1, <2>2 DEF ArchiveInv, Kept, Holds
  <2>4. file = <<>> => Len(file) = 0
    OBVIOUS
  <2>5. file # <<>> => Len(file) >= 1
    BY <1>0
  <2>6. Spare'
    <3>1. pos' > Closed
      BY <1>0, <2>1, <2>4, <2>5 DEF AppendAt, ArchiveInv, Spare
    <3>. QED BY <2>1, <2>2, <3>1 DEF ArchiveInv, Spare
  <2>7. Sealed'
    BY <2>1, <2>2 DEF ArchiveInv, Sealed, EndsInTrailer
  <2>8. Whole'
    <3>. SUFFICES ASSUME ~broken'
                  PROVE  ~shifted' /\ pos' = Closed' + 1 /\ Len(file') <= Closed' + 2
      <4>1. Recorded' = 0
        BY <1>2 DEF Recorded
      <4>2. \A j \in 1..Recorded' : FALSE
        BY <4>1
      <4>3. Closed' \in Nat
        BY <1>0, <2>2
      <4>4. Closed' + 2 * Recorded' + 1 = Closed' + 1
        BY <4>1, <4>3
      <4>. QED BY <1>2, <4>2, <4>4 DEF Whole
    <3>1. CASE file = <<>>
      <4>1. Len(file) = 0 /\ ~ragged /\ Closed = 0 /\ AppendAt = 1
        BY <1>0, <2>4, <3>1 DEF ArchiveInv, Spare, AppendAt
      <4>. QED BY <2>1, <2>2, <4>1
    <3>2. CASE file # <<>>
      <4>1. EndsInTrailer /\ ~broken
        BY <2>1, <3>2
      <4>2. Len(file) = Closed + 2 /\ ~ragged
        BY <4>1 DEF ArchiveInv, Sealed, EndsInTrailer
      <4>3. AppendAt = Closed + 1
        BY <1>0, <3>2, <4>2 DEF AppendAt
      <4>. QED BY <1>0, <2>1, <2>2, <4>2, <4>3
    <3>. QED BY <3>1, <3>2
  <2>9. AtRest'
    BY <1>2 DEF AtRest
  <2>. QED BY <2>3, <2>6, <2>7, <2>8, <2>9 DEF ArchiveInv
<1>. QED BY <1>1, <1>2 DEF OpenAppend

LEMMA CollectArchive ==
  ASSUME TypeInv, ArchiveInv, Collect
  PROVE  ArchiveInv'
<1>1. /\ pc = "collect" /\ pc' = "header" /\ entry' = 1
      /\ UNCHANGED <<tick, file, ragged, pos, shifted, broken, done>>
  BY DEF Collect, run
<1>2. Closed' = Closed /\ EntriesOf(done)' = EntriesOf(done)
  BY <1>1 DEF Closed
<1>3. Kept'
  BY <1>1, <1>2 DEF ArchiveInv, Kept, Holds
<1>4. Spare' /\ Sealed' /\ AtRest'
  BY <1>1, <1>2 DEF ArchiveInv, Spare, Sealed, EndsInTrailer, AtRest, Writing
<1>5. Recorded = 0 /\ Recorded' = 0
  BY <1>1 DEF Recorded
<1>6. Whole'
  BY <1>1, <1>2, <1>5 DEF ArchiveInv, Whole, Writing
<1>. QED BY <1>3, <1>4, <1>6 DEF ArchiveInv

\* Writing a block behind the closed snapshots keeps them, and the room behind.
LEMMA WriteKeeps ==
  ASSUME TypeInv, ArchiveInv, pc \in Writing, NEW b \in Blocks, Put(b),
         UNCHANGED <<shifted, done>>,
         \/ ragged' = shifted
         \/ ragged' \in IF shifted THEN {TRUE} ELSE IF pos > Len(file) THEN BOOLEAN ELSE {ragged}
  PROVE  Kept' /\ Spare' /\ Closed' = Closed
<1>0. /\ Closed \in Nat /\ EntriesOf(done) \in Seq(Entry) /\ Len(EntriesOf(done)) \in Nat
      /\ pos \in Nat /\ pos > Closed
  BY ArchiveTypes DEF ArchiveInv, Spare
<1>1. /\ pos' = pos + 1 /\ Len(file) \in Nat /\ Len(file') \in Nat
      /\ Len(file') >= Len(file) /\ Len(file') >= pos
      /\ \A i \in 1..Len(file) : i < pos => file'[i] = file[i]
      /\ ~shifted => Len(file') = IF pos <= Len(file) THEN Len(file) ELSE pos
  <2>1. TypeOK
    BY DEF TypeInv
  <2>. QED BY <2>1, PutProps
<1>2. Closed' = Closed /\ EntriesOf(done)' = EntriesOf(done)
  BY DEF Closed
<1>3. Kept'
  <2>. DEFINE es == EntriesOf(done)
  <2>1. Closed = 2 * Len(es) /\ Closed <= Len(file) /\ Holds(file, es)
    BY DEF Closed, ArchiveInv, Kept
  <2>2. \A j \in 1..Len(es) : /\ 2 * j - 1 \in 1..Len(file) /\ 2 * j \in 1..Len(file)
                              /\ 2 * j - 1 < pos /\ 2 * j < pos
    BY <1>0, <1>1, <2>1
  <2>3. Holds(file', es)
    BY <1>1, <2>1, <2>2 DEF Holds
  <2>4. Closed' <= Len(file')
    BY <1>0, <1>1, <1>2, <2>1
  <2>. QED BY <1>2, <2>3, <2>4 DEF Kept
<1>4. Spare'
  <2>1. Closed > 0 => Len(file') >= Closed + 2
    BY <1>0, <1>1 DEF ArchiveInv, Spare
  <2>2. ragged' \/ shifted => Len(file') >= 1 /\ (Closed > 0 => Len(file') >= Closed + 3)
    <3>1. CASE shifted
      BY <1>0, <1>1, <3>1 DEF ArchiveInv, Spare
    <3>2. CASE ~shifted /\ ragged' /\ pos > Len(file)
      <4>1. Len(file') = pos
        BY <1>0, <1>1, <3>2
      <4>. QED BY <1>0, <1>1, <3>2, <4>1 DEF ArchiveInv, Spare
    <3>3. CASE ~shifted /\ ragged' /\ ~(pos > Len(file))
      <4>1. ragged
        BY <3>3
      <4>. QED BY <1>0, <1>1, <4>1 DEF ArchiveInv, Spare
    <3>. QED BY <3>1, <3>2, <3>3
  <2>3. pos' > Closed
    BY <1>0, <1>1
  <2>. QED BY <1>2, <2>1, <2>2, <2>3 DEF Spare
<1>. QED BY <1>2, <1>3, <1>4

LEMMA ConcatProps ==
  ASSUME NEW S, NEW a \in Seq(S), NEW b \in Seq(S)
  PROVE  /\ Len(a \o b) = Len(a) + Len(b)
         /\ \A i \in 1..Len(a) : (a \o b)[i] = a[i]
         /\ \A i \in 1..Len(b) : (a \o b)[Len(a) + i] = b[i]
OBVIOUS

\* Writing a block to an unbroken file: what was written before stays, and a
\* file of the old length still ends in the trailer that is being overwritten.
LEMMA WholePut ==
  ASSUME TypeInv, ArchiveInv, ~broken, pc \in Writing, NEW b \in Blocks, Put(b)
  PROVE  /\ ~shifted /\ pos' = pos + 1 /\ Recorded \in Nat
         /\ pos = Closed + 2 * Recorded + (IF pc \in {"data", "trailer"} THEN 2 ELSE 1)
         /\ pos > Closed /\ Len(file) >= pos - 1 /\ Len(file') \in Nat
         /\ file'[pos] = b
         /\ Len(file') <= Closed + 2 \/ Len(file') = pos
         /\ pos > Closed + 2 => Len(file') = pos
         /\ \A i \in 1..(pos - 1) : file'[i] = file[i]
         /\ \A j \in 1..Recorded : /\ file'[Closed + 2 * j - 1] = Header(tick, j)
                                   /\ file'[Closed + 2 * j] = Data(tick, j)
         /\ b # Zero => ~(file'[Len(file')] = Zero /\ file'[Len(file') - 1] = Zero)
<1>1. /\ ~shifted
      /\ pos = Closed + 2 * Recorded + (IF pc \in {"data", "trailer"} THEN 2 ELSE 1)
      /\ Len(file) <= Closed + 2 \/ Len(file) = pos - 1
      /\ \A j \in 1..Recorded : /\ file[Closed + 2 * j - 1] = Header(tick, j)
                                /\ file[Closed + 2 * j] = Data(tick, j)
  BY DEF ArchiveInv, Whole
<1>2. /\ Closed \in Nat /\ Len(file) \in Nat /\ pos \in 1..(Len(file) + 1)
      /\ PerTick \in Nat /\ entry \in Nat /\ entry >= 1
  BY ArchiveTypes
<1>3. Recorded \in Nat
  BY <1>2 DEF Recorded
<1>4. pos > Closed /\ Len(file) >= pos - 1
  BY <1>1, <1>2, <1>3
<1>5. /\ pos' = pos + 1 /\ Len(file') \in Nat /\ file'[pos] = b
      /\ Len(file') = IF pos <= Len(file) THEN Len(file) ELSE pos
      /\ \A i \in 1..Len(file) : i < pos => file'[i] = file[i]
  <2>1. TypeOK
    BY DEF TypeInv
  <2>. QED BY <1>1, <2>1, PutProps
<1>6. \A i \in 1..(pos - 1) : file'[i] = file[i]
  BY <1>2, <1>4, <1>5
<1>7. Len(file') <= Closed + 2 \/ Len(file') = pos
  BY <1>1, <1>2, <1>5
<1>8. pos > Closed + 2 => Len(file') = pos
  BY <1>1, <1>2, <1>5
<1>9. \A j \in 1..Recorded : /\ file'[Closed + 2 * j - 1] = Header(tick, j)
                             /\ file'[Closed + 2 * j] = Data(tick, j)
  <2>. SUFFICES ASSUME NEW j \in 1..Recorded
                PROVE  /\ file'[Closed + 2 * j - 1] = Header(tick, j)
                       /\ file'[Closed + 2 * j] = Data(tick, j)
    OBVIOUS
  <2>1. Closed + 2 * j - 1 \in 1..(pos - 1) /\ Closed + 2 * j \in 1..(pos - 1)
    BY <1>1, <1>2, <1>3
  <2>. QED BY <1>1, <1>6, <2>1
<1>10. ASSUME b # Zero PROVE ~(file'[Len(file')] = Zero /\ file'[Len(file') - 1] = Zero)
  <2>1. pos = Len(file') \/ pos = Len(file') - 1
    BY <1>1, <1>2, <1>4, <1>5
  <2>. QED BY <1>5, <1>10, <2>1
<1>. QED BY <1>1, <1>3, <1>4, <1>5, <1>6, <1>7, <1>8, <1>9, <1>10

LEMMA HeaderArchive ==
  ASSUME TypeInv, ArchiveInv, WriteHeader
  PROVE  ArchiveInv'
<1>1. /\ pc = "header" /\ pc' = "data" /\ entry' = entry /\ tick' = tick
      /\ Put(Header(tick, entry)) /\ ragged' = shifted
      /\ UNCHANGED <<shifted, broken, done>>
  BY DEF WriteHeader, run
<1>2. Header(tick, entry) \in Blocks /\ Header(tick, entry) # Zero
  <2>1. tick \in Nat /\ tick >= 1 /\ entry \in Nat
    BY <1>1, ArchiveTypes DEF TypeInv, Progress, Writing
  <2>. QED BY <2>1, BlockTypes, NotZero
<1>3. pc \in Writing /\ pc' \in Writing
  BY <1>1 DEF Writing
<1>4. Kept' /\ Spare' /\ Closed' = Closed
  BY <1>1, <1>2, <1>3, WriteKeeps
<1>5. AtRest'
  BY <1>1 DEF AtRest
<1>6. CASE broken
  BY <1>1, <1>4, <1>5, <1>6 DEF ArchiveInv, Sealed, Whole
<1>7. CASE ~broken
  <2>1. /\ ~shifted /\ pos' = pos + 1 /\ Recorded \in Nat /\ pos = Closed + 2 * Recorded + 1
        /\ file'[pos] = Header(tick, entry)
        /\ Len(file') <= Closed + 2 \/ Len(file') = pos
        /\ \A j \in 1..Recorded : /\ file'[Closed + 2 * j - 1] = Header(tick, j)
                                  /\ file'[Closed + 2 * j] = Data(tick, j)
        /\ ~(file'[Len(file')] = Zero /\ file'[Len(file') - 1] = Zero)
    BY <1>1, <1>2, <1>3, <1>7, WholePut
  <2>2. Sealed'
    BY <2>1 DEF Sealed, EndsInTrailer
  <2>3. Recorded' = Recorded
    BY <1>1 DEF Recorded
  <2>4. Closed \in Nat /\ pos \in Nat
    BY ArchiveTypes
  <2>5. pos' - 1 = pos /\ pos' = Closed + 2 * Recorded + 2
    BY <2>1, <2>4
  <2>6. Whole'
    BY <1>1, <1>4, <2>1, <2>3, <2>5 DEF Whole
  <2>. QED BY <1>4, <1>5, <2>2, <2>6 DEF ArchiveInv
<1>. QED BY <1>6, <1>7

LEMMA DataArchive ==
  ASSUME TypeInv, ArchiveInv, WriteData
  PROVE  ArchiveInv'
<1>1. /\ pc = "data" /\ tick' = tick /\ Put(Data(tick, entry))
      /\ ragged' \in IF shifted THEN {TRUE} ELSE IF pos > Len(file) THEN BOOLEAN ELSE {ragged}
      /\ \/ entry < PerTick /\ pc' = "header" /\ entry' = entry + 1
         \/ ~(entry < PerTick) /\ pc' = "close" /\ entry' = entry
      /\ UNCHANGED <<shifted, broken, done>> /\ PerTick' = PerTick
  BY DEF WriteData, run, PerTick
<1>2. /\ tick \in Nat /\ tick >= 1 /\ entry \in Nat /\ entry >= 1 /\ entry <= PerTick
      /\ PerTick \in Nat
  BY <1>1, ArchiveTypes DEF TypeInv, Progress, Writing
<1>3. Data(tick, entry) \in Blocks /\ Data(tick, entry) # Zero
  BY <1>2, BlockTypes, NotZero
<1>4. pc \in Writing /\ pc' \in Writing
  BY <1>1 DEF Writing
<1>5. Kept' /\ Spare' /\ Closed' = Closed
  <2>1. UNCHANGED <<shifted, done>>
    BY <1>1
  <2>. QED BY <1>1, <1>3, <1>4, <2>1, WriteKeeps
<1>6. AtRest'
  BY <1>1 DEF AtRest
<1>7. CASE broken
  BY <1>1, <1>5, <1>6, <1>7 DEF ArchiveInv, Sealed, Whole
<1>8. CASE ~broken
  <2>1. /\ ~shifted /\ pos' = pos + 1 /\ pos = Closed + 2 * Recorded + 2
        /\ file'[pos] = Data(tick, entry)
        /\ Len(file') <= Closed + 2 \/ Len(file') = pos
        /\ \A i \in 1..(pos - 1) : file'[i] = file[i]
        /\ \A j \in 1..Recorded : /\ file'[Closed + 2 * j - 1] = Header(tick, j)
                                  /\ file'[Closed + 2 * j] = Data(tick, j)
        /\ ~(file'[Len(file')] = Zero /\ file'[Len(file') - 1] = Zero)
    BY <1>1, <1>3, <1>4, <1>8, WholePut
  <2>2. Sealed'
    BY <2>1 DEF Sealed, EndsInTrailer
  <2>3. Recorded = entry - 1 /\ Recorded' = entry
    BY <1>1, <1>2 DEF Recorded
  <2>4. Closed \in Nat /\ pos = Closed + 2 * entry
    BY <1>2, <2>1, <2>3, ArchiveTypes
  <2>5. file'[Closed + 2 * entry - 1] = Header(tick, entry)
    <3>1. file[pos - 1] = Header(tick, entry)
      BY <1>1, <1>4, <1>8 DEF ArchiveInv, Whole
    <3>2. pos - 1 \in 1..(pos - 1) /\ pos - 1 = Closed + 2 * entry - 1
      BY <1>2, <2>4
    <3>. QED BY <2>1, <3>1, <3>2
  <2>6. \A j \in 1..Recorded' : /\ file'[Closed + 2 * j - 1] = Header(tick, j)
                                /\ file'[Closed + 2 * j] = Data(tick, j)
    <3>. SUFFICES ASSUME NEW j \in 1..entry
                  PROVE  /\ file'[Closed + 2 * j - 1] = Header(tick, j)
                         /\ file'[Closed + 2 * j] = Data(tick, j)
      BY <2>3
    <3>1. CASE j = entry
      BY <2>1, <2>4, <2>5, <3>1
    <3>2. CASE j # entry
      <4>1. j \in 1..Recorded
        BY <1>2, <2>3, <3>2
      <4>. QED BY <2>1, <4>1
    <3>. QED BY <3>1, <3>2
  <2>7. pos' = Closed + 2 * Recorded' + 1 /\ pos' - 1 = pos
    BY <1>2, <2>1, <2>3, <2>4
  <2>8. Whole'
    BY <1>1, <1>5, <2>1, <2>6, <2>7 DEF Whole
  <2>. QED BY <1>5, <1>6, <2>2, <2>8 DEF ArchiveInv
<1>. QED BY <1>7, <1>8

LEMMA CloseArchive ==
  ASSUME TypeInv, ArchiveInv, Close
  PROVE  ArchiveInv'
<1>1. /\ pc = "close" /\ pc' = "trailer" /\ tick' = tick
      /\ Put(Zero) /\ ragged' = shifted
      /\ UNCHANGED <<shifted, broken, done>> /\ PerTick' = PerTick
  BY DEF Close, run, PerTick
<1>2. pc \in Writing /\ pc' \in Writing /\ Zero \in Blocks
  BY <1>1, BlockTypes DEF Writing
<1>3. Kept' /\ Spare' /\ Closed' = Closed
  BY <1>1, <1>2, WriteKeeps
<1>4. AtRest'
  BY <1>1 DEF AtRest
<1>5. CASE broken
  BY <1>1, <1>3, <1>4, <1>5 DEF ArchiveInv, Sealed, Whole
<1>6. CASE ~broken
  <2>0. PerTick \in Nat /\ PerTick >= 2 /\ Closed \in Nat
    BY ArchiveTypes
  <2>1. /\ ~shifted /\ pos' = pos + 1 /\ pos = Closed + 2 * Recorded + 1
        /\ file'[pos] = Zero
        /\ pos > Closed + 2 => Len(file') = pos
        /\ \A j \in 1..Recorded : /\ file'[Closed + 2 * j - 1] = Header(tick, j)
                                  /\ file'[Closed + 2 * j] = Data(tick, j)
    BY <1>1, <1>2, <1>6, WholePut
  <2>2. Recorded = PerTick /\ Recorded' = PerTick
    BY <1>1 DEF Recorded
  <2>3. pos' - 1 = pos /\ pos' = Closed + 2 * Recorded + 2 /\ Len(file') = pos
        /\ pos - 1 = Closed + 2 * PerTick
    BY <2>0, <2>1, <2>2
  <2>4. file'[Len(file') - 1] # Zero
    <3>1. file'[Closed + 2 * PerTick] = Data(tick, PerTick)
      <4>1. PerTick \in 1..Recorded
        BY <2>0, <2>2
      <4>. QED BY <2>1, <4>1
    <3>. QED BY <2>3, <3>1, NotZero
  <2>5. Sealed'
    BY <2>4 DEF Sealed, EndsInTrailer
  <2>6. Whole'
    BY <1>1, <1>3, <2>1, <2>2, <2>3 DEF Whole
  <2>. QED BY <1>3, <1>4, <2>5, <2>6 DEF ArchiveInv
<1>. QED BY <1>5, <1>6

LEMMA TrailerArchive ==
  ASSUME TypeInv, ArchiveInv, CloseTrailer
  PROVE  ArchiveInv'
<1>1. /\ pc = "trailer" /\ pc' = "wait" /\ Put(Zero) /\ ragged' = shifted
      /\ done' = IF broken THEN done ELSE Append(done, [tick |-> tick, entries |-> PerTick])
      /\ UNCHANGED <<shifted, broken>>
  BY DEF CloseTrailer
<1>2. pc \in Writing /\ pc' \notin Writing /\ Zero \in Blocks
  BY <1>1, BlockTypes DEF Writing
<1>3. CASE broken
  <2>1. UNCHANGED <<shifted, done>>
    BY <1>1, <1>3
  <2>2. Kept' /\ Spare'
    BY <1>1, <1>2, <2>1, WriteKeeps
  <2>. QED BY <1>1, <1>2, <1>3, <2>2 DEF ArchiveInv, Sealed, Whole, AtRest
<1>4. CASE ~broken
  <2>. DEFINE s  == [tick |-> tick, entries |-> PerTick]
              es == EntriesOf(done)
              n  == Len(EntriesOf(done))
              fs == EntriesOf(done')
  <2>0. /\ PerTick \in Nat /\ Closed \in Nat /\ tick \in Nat /\ PerTick >= 2
        /\ es \in Seq(Entry) /\ n \in Nat /\ done \in Seq(Snapshot) /\ Closed = 2 * n
    BY ArchiveTypes DEF Closed
  <2>1. /\ ~shifted /\ pos = Closed + 2 * Recorded + 2
        /\ file'[pos] = Zero
        /\ pos > Closed + 2 => Len(file') = pos
        /\ \A i \in 1..(pos - 1) : file'[i] = file[i]
        /\ \A j \in 1..Recorded : /\ file'[Closed + 2 * j - 1] = Header(tick, j)
                                  /\ file'[Closed + 2 * j] = Data(tick, j)
    BY <1>1, <1>2, <1>4, WholePut
  <2>2. Recorded = PerTick
    BY <1>1 DEF Recorded
  <2>3. pos = Closed + 2 * PerTick + 2 /\ Len(file') = pos
    BY <2>0, <2>1, <2>2
  <2>4. /\ fs = es \o Part(s) /\ Part(s) \in Seq(Entry) /\ Len(Part(s)) = PerTick
        /\ \A e \in 1..PerTick : Part(s)[e] = [tick |-> tick, entry |-> e]
    <3>1. s \in Snapshot /\ s.entries = PerTick /\ s.tick = tick
      BY <2>0 DEF Snapshot
    <3>2. done' = Append(done, s)
      BY <1>1, <1>4
    <3>. HIDE DEF s
    <3>3. fs = es \o Part(s)
      BY <2>0, <3>1, <3>2, EntriesAppend
    <3>. QED BY <3>1, <3>3, PartType
  <2>5. /\ Len(fs) = n + PerTick
        /\ \A j \in 1..n : fs[j] = es[j]
        /\ \A e \in 1..PerTick : fs[n + e] = [tick |-> tick, entry |-> e]
    <3>. DEFINE part == Part(s)
    <3>1. /\ fs = es \o part /\ part \in Seq(Entry) /\ Len(part) = PerTick
          /\ \A e \in 1..PerTick : part[e] = [tick |-> tick, entry |-> e]
          /\ es \in Seq(Entry) /\ Len(es) = n
      BY <2>0, <2>4
    <3>. HIDE DEF part, fs, es, n
    <3>2. Len(fs) = n + PerTick
      BY <3>1, ConcatProps
    <3>3. \A j \in 1..n : fs[j] = es[j]
      BY <3>1, ConcatProps
    <3>4. \A e \in 1..PerTick : fs[n + e] = part[e]
      BY <3>1, ConcatProps
    <3>. QED BY <3>1, <3>2, <3>3, <3>4
  <2>6. Closed' = Closed + 2 * PerTick
    <3>1. Closed' = 2 * Len(fs)
      BY DEF Closed
    <3>. QED BY <2>0, <2>5, <3>1
  <2>7. /\ Len(file') = Closed' + 2 /\ Closed' \in Nat /\ Closed' <= Len(file')
        /\ Len(file') >= Closed' + 2
    BY <2>0, <2>3, <2>6
  <2>8. Kept'
    <3>1. Holds(file', fs)
      <4>. SUFFICES ASSUME NEW j \in 1..Len(fs)
                    PROVE  /\ file'[2 * j - 1] = Header(fs[j].tick, fs[j].entry)
                           /\ file'[2 * j] = Data(fs[j].tick, fs[j].entry)
        BY DEF Holds
      <4>1. CASE j <= n
        <5>1. j \in 1..n /\ 2 * j - 1 \in 1..(pos - 1) /\ 2 * j \in 1..(pos - 1)
          BY <2>0, <2>3, <2>5, <4>1
        <5>2. /\ file[2 * j - 1] = Header(es[j].tick, es[j].entry)
              /\ file[2 * j] = Data(es[j].tick, es[j].entry)
          BY <5>1 DEF ArchiveInv, Kept, Holds
        <5>. QED BY <2>1, <2>5, <5>1, <5>2
      <4>2. CASE j > n
        <5>1. PICK e \in 1..PerTick : j = n + e /\ e \in 1..PerTick
          <6>1. j - n \in 1..PerTick /\ j = n + (j - n)
            BY <2>0, <2>5, <4>2
          <6>. QED BY <6>1
        <5>2. fs[j].tick = tick /\ fs[j].entry = e
          <6>. HIDE DEF n, fs
          <6>1. fs[n + e] = [tick |-> tick, entry |-> e]
            BY <2>5, <5>1
          <6>. QED BY <5>1, <6>1
        <5>3. 2 * j - 1 = Closed + 2 * e - 1 /\ 2 * j = Closed + 2 * e
          BY <2>0, <5>1
        <5>4. file'[Closed + 2 * e - 1] = Header(tick, e) /\ file'[Closed + 2 * e] = Data(tick, e)
          BY <2>1, <2>2, <5>1
        <5>. QED BY <5>2, <5>3, <5>4
      <4>. QED BY <2>0, <2>5, <4>1, <4>2
    <3>2. Closed' <= Len(file')
      BY <2>7
    <3>. QED BY <3>1, <3>2 DEF Kept
  <2>9. Spare'
    BY <1>1, <1>2, <2>1, <2>7 DEF Spare
  <2>10. Sealed'
    BY <2>7 DEF Sealed
  <2>11. AtRest'
    <3>1. file[pos - 1] = Zero
      BY <1>1, <1>2, <1>4 DEF ArchiveInv, Whole
    <3>2. pos - 1 \in 1..(pos - 1)
      BY <2>0, <2>3
    <3>3. file'[Len(file')] = Zero /\ file'[Len(file') - 1] = Zero /\ Len(file') >= 2
      BY <2>0, <2>1, <2>3, <3>1, <3>2
    <3>4. ~ragged'
      BY <1>1, <2>1
    <3>. QED BY <3>3, <3>4 DEF AtRest, EndsInTrailer
  <2>12. Whole'
    BY <1>2 DEF Whole
  <2>. QED BY <2>8, <2>9, <2>10, <2>11, <2>12 DEF ArchiveInv
<1>. QED BY <1>3, <1>4

LEMMA StepArchive ==
  ASSUME TypeInv, ArchiveInv, [Next]_vars
  PROVE  ArchiveInv'
<1>1. CASE /\ UNCHANGED <<file, ragged, shifted, broken, done>>
           /\ pc' \notin Writing \cup {"wait"}
  BY <1>1, QuietArchive
<1>2. CASE UNCHANGED vars
  <2>1. /\ UNCHANGED <<pc, entry, tick, file, ragged, pos, shifted, broken, done>>
        /\ PerTick' = PerTick
    BY <1>2 DEF vars, run, PerTick
  <2>2. Closed' = Closed /\ EntriesOf(done)' = EntriesOf(done) /\ Recorded' = Recorded
    BY <2>1 DEF Closed, Recorded
  <2>3. Kept' /\ Spare' /\ Sealed' /\ AtRest'
    BY <2>1, <2>2 DEF ArchiveInv, Kept, Holds, Spare, Sealed, EndsInTrailer, AtRest
  <2>4. Whole'
    BY <2>1, <2>2 DEF ArchiveInv, Whole
  <2>. QED BY <2>3, <2>4 DEF ArchiveInv
<1>3. CASE OpenTruncated  BY <1>3, TruncateArchive
<1>4. CASE OpenAppend     BY <1>4, AppendArchive
<1>5. CASE Collect        BY <1>5, CollectArchive
<1>6. CASE WriteHeader    BY <1>6, HeaderArchive
<1>7. CASE WriteData      BY <1>7, DataArchive
<1>8. CASE Close          BY <1>8, CloseArchive
<1>9. CASE CloseTrailer   BY <1>9, TrailerArchive
<1>10. CASE Start \/ Loop \/ Tick \/ Interrupt \/ Die
  <2>1. UNCHANGED <<file, ragged, shifted, broken, done>> /\ pc' \notin Writing \cup {"wait"}
    BY <1>10 DEF Start, Loop, Tick, Interrupt, Die, Writing
  <2>. QED BY <1>1, <2>1
<1>11. CASE Idle
  BY <1>2, <1>11 DEF Idle
<1>. QED BY <1>2, <1>3, <1>4, <1>5, <1>6, <1>7, <1>8, <1>9, <1>10, <1>11 DEF Next

\* The inductive invariant of the archive: the closed snapshots are at its
\* beginning, and what an append overwrites lies behind them.
THEOREM ArchiveIntact == Spec => []ArchiveInv
BY InitArchive, StepArchive, TypesHold, PTL DEF Spec

\* Wherever the recorder dies and however often it goes on with -a, whatever
\* it records: a reader finds every snapshot that was closed.
THEOREM SnapshotsSurvive == Spec => []ClosedSurvive
<1>1. TypeInv /\ ArchiveInv => ClosedSurvive
  BY KeptSurvives DEF ArchiveInv
<1>. QED BY <1>1, ArchiveIntact, TypesHold, PTL

\* A closed archive that was never appended to without a trailer holds exactly
\* the snapshots there should be, and can be appended to.
THEOREM ArchiveComplete == Spec => []ClosedComplete
<1>1. TypeInv /\ ArchiveInv => ClosedComplete
  BY ClosedIsComplete
<1>. QED BY <1>1, ArchiveIntact, TypesHold, PTL
================================================================================
