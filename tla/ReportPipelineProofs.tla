-------------------------- MODULE ReportPipelineProofs --------------------------
(***************************************************************************)
(* For an archive of any length from any versions, with ticks that lack    *)
(* the report, damaged entries and failing steps anywhere: readTar pairs   *)
(* each snapshot with its own metadata, or with that of the tick before    *)
(* when a snapshot was missing, and the two goroutines together implement  *)
(* ReportContract.                                                         *)
(***************************************************************************)
EXTENDS ReportSamples, FiniteSetTheorems, WellFoundedInduction, TLAPS

\* What can be left of a tick besides all of it.
NoMeta      == {"stat", "sysinfo"}
NoStat      == {"meta", "sysinfo"}
OnlySysinfo == {"sysinfo"}

\* No tick up to this one lacks its snapshot.
Ahead == \A g \in gaps : g > tick

\* The tick of the metadata read last.
MetaTick == IF left \in {Entries, NoStat} THEN tick - 1 ELSE tick

\* A flag that is up guards an entry of this tick, or metadata of the tick
\* before.
FlagInv ==
  rpc = "read" =>
    /\ metaOK => meta.tick = MetaTick /\ meta.tick \in 1..Ticks
    /\ statOK => stat = tick /\ left = NoStat /\ tick \notin gaps
    /\ left = NoMeta => metaOK
    /\ tick \in gaps => left \in {NoStat, OnlySysinfo}
    /\ Ahead => (metaOK => left = NoMeta) /\ (left = NoStat => statOK)

\* A pair that is sent holds the snapshot of this tick.
SendInv ==
  rpc = "send" =>
    /\ left \in {NoStat, OnlySysinfo}
    /\ tick \in 1..Ticks /\ tick \notin gaps
    /\ stat = tick
    /\ meta.tick = MetaTick /\ meta.tick \in 1..Ticks
    /\ Ahead => left = OnlySysinfo

\* The reader is at the end, or within a tick.
PlaceInv ==
  /\ left \in {Entries, NoStat, NoMeta, OnlySysinfo}
  /\ tick > Ticks => left = Entries

PairInv == FlagInv /\ SendInv /\ PlaceInv

\* The last tick whose snapshot, if there is one, processData has been sent.
SentTo ==
  IF rpc # "send" /\ left \in {NoStat, OnlySysinfo} /\ ~statOK THEN tick ELSE tick - 1

\* processData has been sent the snapshots up to there; of them it has compared
\* at least those it owes.
SentInv ==
  ppc = "select" =>
    /\ prev.tick \in {0} \cup Contract!Snapshots
    /\ prev.tick <= SentTo
    /\ \A s \in Contract!Snapshots : s <= SentTo => s <= prev.tick
    /\ prev.tick > 0 /\ (\A g \in gaps : g > prev.tick) => prev.version = version[prev.tick]
    /\ \A s \in Contract!Done : s <= prev.tick
    /\ \A s \in Contract!Comparable : s <= prev.tick => s \in Contract!Done

\* readTar ends without an error only at the end of the archive.
EndInv ==
  rpc \in {"done", "returned"} /\ ~failed => tick = Ticks + 1 /\ left = Entries

\* processData returns early only with an error.
ReturnInv == ppc = "returned" => failed \/ rpc = "returned"

\* What every step keeps.
IInv == TypeOK /\ PairInv /\ SentInv /\ EndInv /\ ReturnInv

\* Appending an element of the right type keeps the type of a sequence.
LEMMA AppendType ==
  ASSUME NEW S, NEW s \in Seq(S), NEW e \in S
  PROVE  Append(s, e) \in Seq(S)
  OBVIOUS

\* Printing a comparison adds its tick to the ticks done.
LEMMA AppendDone ==
  ASSUME NEW S, NEW s \in Seq(S), NEW e \in S
  PROVE  {Append(s, e)[k].tick : k \in 1..Len(Append(s, e))}
           = {s[k].tick : k \in 1..Len(s)} \cup {e.tick}
  OBVIOUS

\* An element of a sequence has its type.
LEMMA SeqElement ==
  ASSUME NEW S, NEW s \in Seq(S), NEW k \in 1..Len(s)
  PROVE  s[k] \in S
  OBVIOUS

\* The subsets of a tick's entries that the reader goes through differ.
LEMMA EntrySets ==
  /\ Entries \ {"meta"} = NoMeta /\ Entries \ {"stat"} = NoStat
  /\ NoStat \ {"meta"} = OnlySysinfo /\ NoMeta \ {"stat"} = OnlySysinfo
  /\ OnlySysinfo = {"sysinfo"}
  /\ "meta" \notin NoMeta /\ "stat" \notin NoStat
  /\ "meta" \notin OnlySysinfo /\ "stat" \notin OnlySysinfo
  /\ Entries # {"meta"} /\ Entries # {"stat"} /\ NoStat # {"meta"} /\ NoMeta # {"stat"}
  /\ Entries # OnlySysinfo /\ Entries # NoMeta /\ Entries # NoStat
  /\ NoMeta # NoStat /\ NoMeta # OnlySysinfo /\ NoStat # OnlySysinfo
<1> USE DEF Entries, NoMeta, NoStat, OnlySysinfo
<1>1. "meta" # "stat" /\ "meta" # "sysinfo" /\ "stat" # "sysinfo"
  OBVIOUS
<1>2. /\ Entries \ {"meta"} = NoMeta /\ Entries \ {"stat"} = NoStat
      /\ NoStat \ {"meta"} = OnlySysinfo /\ NoMeta \ {"stat"} = OnlySysinfo
      /\ OnlySysinfo = {"sysinfo"}
  BY <1>1
<1>3. /\ "meta" \in Entries /\ "stat" \in Entries /\ "sysinfo" \in Entries
      /\ "stat" \in NoMeta /\ "sysinfo" \in NoMeta
      /\ "meta" \in NoStat /\ "sysinfo" \in NoStat
      /\ "meta" \notin NoMeta /\ "stat" \notin NoStat
      /\ "meta" \notin OnlySysinfo /\ "stat" \notin OnlySysinfo
  BY <1>1
<1> HIDE DEF Entries, NoMeta, NoStat, OnlySysinfo
<1>4. Entries # {"meta"} /\ Entries # {"stat"} /\ NoStat # {"meta"} /\ NoMeta # {"stat"}
  BY <1>1, <1>3
<1>5. /\ Entries # OnlySysinfo /\ Entries # NoMeta /\ Entries # NoStat
      /\ NoMeta # NoStat /\ NoMeta # OnlySysinfo /\ NoStat # OnlySysinfo
  BY <1>3
<1> QED
  BY <1>2, <1>3, <1>4, <1>5

\* What is left in the archive after an entry has been read.
LEMMA AdvanceOverMeta ==
  ASSUME IInv, rpc = "read", Comes("meta"), Advance("meta")
  PROVE  /\ tick' = tick /\ tick <= Ticks
         /\ \/ left = Entries /\ left' = NoMeta
            \/ left = NoStat /\ left' = OnlySysinfo
<1>1. left = Entries \/ left = NoStat
  BY EntrySets DEF IInv, PairInv, PlaceInv, Comes
<1> QED
  BY <1>1, EntrySets DEF Comes, Advance

LEMMA AdvanceOverStat ==
  ASSUME IInv, rpc = "read", Comes("stat"), Advance("stat")
  PROVE  /\ tick' = tick /\ tick <= Ticks /\ tick \notin gaps
         /\ \/ left = Entries /\ left' = NoStat
            \/ left = NoMeta /\ left' = OnlySysinfo
<1>1. left = Entries \/ left = NoMeta
  BY EntrySets DEF IInv, PairInv, PlaceInv, Comes
<1>2. tick \notin gaps
  BY <1>1, EntrySets DEF IInv, PairInv, FlagInv
<1> QED
  BY <1>1, <1>2, EntrySets DEF Comes, Advance

LEMMA AdvanceOverSysinfo ==
  ASSUME IInv, rpc = "read", Comes("sysinfo"), Advance("sysinfo")
  PROVE  /\ tick' = tick + 1 /\ tick <= Ticks
         /\ left = OnlySysinfo
         /\ left' = IF tick + 1 \in gaps THEN NoStat ELSE Entries
  BY EntrySets DEF Comes, Advance, EntriesOf, NoStat

\* The archive has not been touched: the invariant holds initially.
LEMMA InitInv == Init => IInv
<1> SUFFICES ASSUME Init PROVE IInv
  OBVIOUS
<1> USE ReportAssumption
<1>0. left = (IF 1 \in gaps THEN NoStat ELSE Entries) /\ tick = 1
  BY DEF Init, EntriesOf, NoStat
<1>1. TypeOK
  <2>1. left \subseteq Entries /\ left # {}
    BY <1>0 DEF Entries, NoStat
  <2>2. layout \in Layout /\ printed \in Seq([tick : 1..Ticks, base : 1..Ticks])
    BY DEF Init, Layout
  <2>3. tick \in 1..(Ticks + 1) /\ stat \in 0..Ticks
    BY DEF Init
  <2>4. /\ meta \in [tick : 0..Ticks, sysinfo : 0..Ticks]
        /\ prev \in [tick : 0..Ticks, version : Versions \cup {0}]
    BY DEF Init
  <2>5. version \in [1..Ticks -> Versions] /\ gaps \subseteq 1..Ticks
    BY DEF Init
  <2> QED
    BY <2>1, <2>2, <2>3, <2>4, <2>5 DEF Init, TypeOK
<1>2. rpc = "read" /\ ~metaOK /\ ~statOK /\ ppc = "select" /\ prev.tick = 0 /\ printed = <<>>
  BY DEF Init
<1>3. PairInv
  BY <1>0, <1>1, <1>2, EntrySets DEF PairInv, FlagInv, SendInv, PlaceInv, Ahead, TypeOK
<1>4. EndInv /\ ReturnInv
  BY <1>2 DEF EndInv, ReturnInv
<1>5. SentInv
  <2>1. SentTo \in {0, 1} /\ (SentTo = 1 => 1 \in gaps)
    BY <1>0, <1>2, EntrySets DEF SentTo
  <2>2. \A s \in Contract!Snapshots : ~(s <= SentTo)
    BY <2>1 DEF Contract!Snapshots
  <2>3. \A s \in Contract!Comparable : ~(s <= 0)
    BY DEF Contract!Comparable, Contract!Snapshots
  <2>4. Contract!Done = {}
    BY <1>2 DEF Contract!Done
  <2> QED
    BY <1>2, <2>1, <2>2, <2>3, <2>4 DEF SentInv
<1> QED
  BY <1>1, <1>3, <1>4, <1>5 DEF IInv

\* Every step keeps the types.
LEMMA StepType == IInv /\ [Next]_vars => TypeOK'
<1> SUFFICES ASSUME IInv, [Next]_vars PROVE TypeOK'
  OBVIOUS
<1> USE ReportAssumption DEF Layout, IInv, archive
<1>1. CASE ReadDamaged
  BY <1>1 DEF ReadDamaged, TypeOK, reader, processor
<1>2. CASE ReadMeta \/ ReadStat \/ ReadSysinfo
  <2>1. tick' \in 1..(Ticks + 1) /\ tick \in 1..Ticks
    <3>1. CASE ReadMeta
      BY <3>1, AdvanceOverMeta DEF ReadMeta, TypeOK
    <3>2. CASE ReadStat
      BY <3>2, AdvanceOverStat DEF ReadStat, TypeOK
    <3>3. CASE ReadSysinfo
      BY <3>3, AdvanceOverSysinfo DEF ReadSysinfo, TypeOK
    <3> QED
      BY <1>2, <3>1, <3>2, <3>3
  <2>2. left' \subseteq Entries /\ left' # {}
    <3>1. left' \in {Entries, NoStat, NoMeta, OnlySysinfo}
      BY <1>2, AdvanceOverMeta, AdvanceOverStat, AdvanceOverSysinfo
         DEF ReadMeta, ReadStat, ReadSysinfo
    <3> QED
      BY <3>1, EntrySets DEF Entries, NoMeta, NoStat, OnlySysinfo
  <2>3. UNCHANGED <<archive, processor, failed>>
    BY <1>2 DEF ReadMeta, ReadStat, ReadSysinfo
  <2>4. rpc' \in {"read", "send"} /\ metaOK' \in BOOLEAN /\ statOK' \in BOOLEAN
    BY <1>2 DEF ReadMeta, ReadStat, ReadSysinfo, Ready, TypeOK
  <2>5. meta' \in [tick : 0..Ticks, sysinfo : 0..Ticks] /\ stat' \in 0..Ticks
    <3>0. /\ meta \in [tick : 0..Ticks, sysinfo : 0..Ticks] /\ stat \in 0..Ticks
          /\ tick \in 0..Ticks
      BY <2>1 DEF TypeOK
    <3>1. CASE ReadMeta
      BY <3>0, <3>1 DEF ReadMeta
    <3>2. CASE ReadStat
      BY <3>0, <3>2 DEF ReadStat
    <3>3. CASE ReadSysinfo
      BY <3>0, <3>3 DEF ReadSysinfo
    <3> QED
      BY <1>2, <3>1, <3>2, <3>3
  <2> QED
    BY <2>1, <2>2, <2>3, <2>4, <2>5 DEF TypeOK, processor
<1>3. CASE ReadEOF
  BY <1>3 DEF ReadEOF, TypeOK, reader, processor
<1>4. CASE SendData
  <2> DEFINE d == [stat |-> stat, meta |-> meta.tick]
  <2>1. /\ d.stat \in 1..Ticks /\ d.meta \in 1..Ticks
        /\ rpc = "send" /\ ppc = "select"
    BY <1>4 DEF SendData, TypeOK, PairInv, SendInv
  <2>2. rpc' = "read" /\ Cleared /\ UNCHANGED <<archive, tick, left, meta, stat>>
    BY <1>4 DEF SendData
  <2>3. CASE Configure(d)
    BY <2>1, <2>2, <2>3 DEF Configure, Cleared, TypeOK
  <2>4. CASE CompareAndPrint(d)
    <3>1. layout' \in Layout
      BY <2>1, <2>4 DEF CompareAndPrint, Settled, TypeOK
    <3>2. prev.tick \in 1..Ticks
      BY <2>4 DEF CompareAndPrint, StartsAnew, TypeOK
    <3>3. printed' \in Seq([tick : 1..Ticks, base : 1..Ticks])
      <4>1. printed \in Seq([tick : 1..Ticks, base : 1..Ticks])
        BY DEF TypeOK
      <4>2. [tick |-> d.stat, base |-> prev.tick] \in [tick : 1..Ticks, base : 1..Ticks]
        BY <2>1, <3>2
      <4>3. printed' = Append(printed, [tick |-> d.stat, base |-> prev.tick])
        BY <2>4 DEF CompareAndPrint
      <4> QED
        BY <4>1, <4>2, <4>3, AppendType
    <3>4. prev' \in [tick : 0..Ticks, version : Versions \cup {0}]
      BY <2>1, <2>4 DEF CompareAndPrint, Previous, TypeOK
    <3> QED
      BY <2>2, <2>4, <3>1, <3>3, <3>4 DEF CompareAndPrint, Cleared, TypeOK
  <2>5. CASE CompareFails(d)
    BY <2>1, <2>2, <2>5 DEF CompareFails, Cleared, TypeOK
  <2> QED
    BY <1>4, <2>3, <2>4, <2>5 DEF SendData
<1>5. CASE SendDone
  BY <1>5 DEF SendDone, AfterDone, TypeOK, reader
<1>6. CASE UNCHANGED vars
  BY <1>6 DEF vars, reader, processor, TypeOK
<1>7. CASE ProgramPanics
  BY <1>7 DEF ProgramPanics, TypeOK, reader
<1> QED
  BY <1>1, <1>2, <1>3, <1>4, <1>5, <1>6, <1>7 DEF Next, Finished

\* Every step keeps the pairing of metadata and snapshots.
LEMMA StepPair == IInv /\ [Next]_vars => PairInv' /\ EndInv' /\ ReturnInv'
<1> SUFFICES ASSUME IInv, [Next]_vars PROVE PairInv' /\ EndInv' /\ ReturnInv'
  OBVIOUS
<1> USE ReportAssumption DEF IInv, archive
<1>1. CASE ReadDamaged
  BY <1>1 DEF ReadDamaged, PairInv, FlagInv, SendInv, PlaceInv, MetaTick, Ahead,
              EndInv, ReturnInv, reader, processor
<1>2. CASE ReadMeta
  <2>1. /\ rpc = "read" /\ meta'.tick = tick /\ metaOK' = TRUE /\ stat' = stat /\ statOK' = statOK
        /\ rpc' = (IF statOK THEN "send" ELSE "read") /\ gaps' = gaps
    BY <1>2 DEF ReadMeta, Ready, TypeOK
  <2>2. /\ tick' = tick /\ tick \in 1..Ticks
        /\ \/ left = Entries /\ left' = NoMeta
           \/ left = NoStat /\ left' = OnlySysinfo
    BY <1>2, AdvanceOverMeta DEF ReadMeta, TypeOK
  <2>3. MetaTick' = tick /\ Ahead' = Ahead
    BY <2>1, <2>2, EntrySets DEF MetaTick, Ahead
  <2>4. FlagInv'
    BY <2>1, <2>2, <2>3, EntrySets DEF PairInv, FlagInv
  <2>5. SendInv' /\ PlaceInv'
    BY <2>1, <2>2, <2>3, EntrySets DEF PairInv, FlagInv, SendInv, PlaceInv
  <2> QED
    BY <1>2, <2>1, <2>4, <2>5 DEF ReadMeta, PairInv, EndInv, ReturnInv, processor
<1>3. CASE ReadStat
  <2>1. /\ rpc = "read" /\ stat' = tick /\ statOK' = TRUE /\ meta' = meta /\ metaOK' = metaOK
        /\ rpc' = (IF metaOK THEN "send" ELSE "read") /\ gaps' = gaps
    BY <1>3 DEF ReadStat, Ready, TypeOK
  <2>2. /\ tick' = tick /\ tick \in 1..Ticks /\ tick \notin gaps
        /\ \/ left = Entries /\ left' = NoStat
           \/ left = NoMeta /\ left' = OnlySysinfo
    BY <1>3, AdvanceOverStat DEF ReadStat, TypeOK
  <2>3. MetaTick' = MetaTick /\ Ahead' = Ahead
    BY <2>1, <2>2, EntrySets DEF MetaTick, Ahead
  <2>4. FlagInv'
    BY <2>1, <2>2, <2>3, EntrySets DEF PairInv, FlagInv
  <2>5. SendInv' /\ PlaceInv'
    BY <2>1, <2>2, <2>3, EntrySets DEF PairInv, FlagInv, SendInv, PlaceInv
  <2> QED
    BY <1>3, <2>1, <2>4, <2>5 DEF ReadStat, PairInv, EndInv, ReturnInv, processor
<1>4. CASE ReadSysinfo
  <2>1. /\ tick' = tick + 1 /\ tick \in 1..Ticks /\ left = OnlySysinfo
        /\ left' = IF tick + 1 \in gaps THEN NoStat ELSE Entries
    BY <1>4, AdvanceOverSysinfo DEF ReadSysinfo, TypeOK
  <2>2. /\ rpc = "read" /\ meta'.tick = meta.tick /\ metaOK' = metaOK /\ stat' = stat
        /\ gaps' = gaps
    BY <1>4 DEF ReadSysinfo, TypeOK
  <2>3. ~statOK /\ ~statOK' /\ rpc' = "read"
    BY <1>4, <2>1, EntrySets DEF ReadSysinfo, Ready, PairInv, FlagInv
  <2>4. MetaTick = tick /\ MetaTick' = tick
    BY <2>1, EntrySets DEF MetaTick
  <2>5. Ahead' => Ahead /\ tick + 1 \notin gaps
    BY <2>1, <2>2 DEF Ahead, TypeOK
  <2>6. FlagInv'
    BY <2>1, <2>2, <2>3, <2>4, <2>5, EntrySets DEF PairInv, FlagInv
  <2>7. SendInv' /\ PlaceInv'
    BY <2>1, <2>2, <2>3 DEF SendInv, PlaceInv, TypeOK
  <2> QED
    BY <1>4, <2>3, <2>6, <2>7 DEF ReadSysinfo, PairInv, EndInv, ReturnInv, processor
<1>5. CASE ReadEOF
  BY <1>5 DEF ReadEOF, PairInv, FlagInv, SendInv, PlaceInv, MetaTick, Ahead,
              EndInv, ReturnInv, TypeOK, reader, processor
<1>6. CASE SendData
  <2>1. PairInv' /\ EndInv'
    <3>1. /\ rpc = "send" /\ rpc' = "read" /\ metaOK' = FALSE /\ statOK' = FALSE
          /\ UNCHANGED <<gaps, tick, left, meta, stat>>
      BY <1>6 DEF SendData, Cleared
    <3>2. left \in {NoStat, OnlySysinfo} /\ (Ahead => left = OnlySysinfo) /\ Ahead' = Ahead
      BY <3>1 DEF PairInv, SendInv, Ahead
    <3>3. FlagInv'
      BY <3>1, <3>2, EntrySets DEF FlagInv
    <3> QED
      BY <3>1, <3>3 DEF PairInv, SendInv, PlaceInv, EndInv
  <2>2. ReturnInv'
    BY <1>6 DEF SendData, Configure, CompareAndPrint, CompareFails, ReturnInv
  <2> QED
    BY <2>1, <2>2
<1>7. CASE SendDone
  BY <1>7 DEF SendDone, PairInv, FlagInv, SendInv, PlaceInv, EndInv, ReturnInv, reader
<1>8. CASE UNCHANGED vars
  BY <1>8 DEF vars, reader, processor, PairInv, FlagInv, SendInv, PlaceInv, MetaTick, Ahead,
              EndInv, ReturnInv
<1>9. CASE ProgramPanics
  BY <1>9 DEF ProgramPanics, PairInv, FlagInv, SendInv, PlaceInv, EndInv, ReturnInv, reader
<1> QED
  BY <1>1, <1>2, <1>3, <1>4, <1>5, <1>6, <1>7, <1>8, <1>9 DEF Next, Finished

\* What was compared are ticks of the archive.
LEMMA DoneTicks == TypeOK => \A s \in Contract!Done : s \in 1..Ticks
<1> SUFFICES ASSUME TypeOK, NEW s \in Contract!Done PROVE s \in 1..Ticks
  OBVIOUS
<1>1. PICK k \in 1..Len(printed) : s = printed[k].tick
  BY DEF Contract!Done
<1>2. printed \in Seq([tick : 1..Ticks, base : 1..Ticks])
  BY DEF TypeOK
<1>3. printed[k] \in [tick : 1..Ticks, base : 1..Ticks]
  BY <1>2, SeqElement
<1> QED
  BY <1>1, <1>3

\* A comparison that is printed is the next one of the contract.
LEMMA CompareStep ==
  ASSUME IInv, ppc = "select", rpc = "send",
         CompareAndPrint([stat |-> stat, meta |-> meta.tick])
  PROVE  /\ tick \in Contract!Snapshots /\ Contract!Before(prev.tick, tick)
         /\ prev.tick \in 1..(tick - 1)
         /\ \A s \in Contract!Done : s < tick
         /\ \A s \in Contract!Comparable : s < tick => s \in Contract!Done
         /\ Contract!Gapless(tick) => tick \in Contract!Comparable
         /\ printed' = Append(printed, [tick |-> tick, base |-> prev.tick])
<1> USE DEF IInv
<1>1. /\ stat = tick /\ tick \in 1..Ticks /\ tick \notin gaps
      /\ tick \in Contract!Snapshots /\ SentTo = tick - 1
    BY DEF PairInv, SendInv, SentTo, Contract!Snapshots
<1>2. prev.tick # 0 /\ prev.version = version[meta.tick]
  BY DEF CompareAndPrint, StartsAnew
<1>3. prev.tick \in Contract!Snapshots /\ prev.tick \in 1..(tick - 1)
  BY <1>1, <1>2, ReportAssumption DEF SentInv, TypeOK, Contract!Snapshots
<1>4. \A s \in Contract!Snapshots : s < tick => s <= prev.tick
  BY <1>1 DEF SentInv, Contract!Snapshots
<1>5. Contract!Before(prev.tick, tick)
  BY <1>1, <1>3, <1>4 DEF Contract!Before, Contract!Snapshots
<1>6. \A s \in Contract!Done : s < tick
  <2>1. \A s \in Contract!Done : s \in 1..Ticks
    BY DoneTicks
  <2> QED
    BY <1>1, <1>3, <2>1, ReportAssumption DEF SentInv
<1>7. \A s \in Contract!Comparable : s < tick => s \in Contract!Done
  BY <1>4 DEF SentInv, Contract!Comparable
<1>8. ASSUME Contract!Gapless(tick) PROVE tick \in Contract!Comparable
  <2>1. Ahead
    BY <1>1, <1>8, ReportAssumption DEF Ahead, Contract!Gapless, TypeOK
  <2>2. meta.tick = tick
    BY <2>1, EntrySets DEF PairInv, SendInv, MetaTick
  <2>3. tick - 1 \in Contract!Snapshots
    <3>1. tick - 1 \in 1..Ticks /\ ~(tick - 1 >= tick)
      BY <1>1, <1>3, ReportAssumption
    <3> QED
      BY <1>8, <3>1 DEF Contract!Gapless, Contract!Snapshots
  <2>4. prev.tick = tick - 1
    <3>1. tick - 1 < tick /\ tick \in Int
      BY <1>1, ReportAssumption
    <3> QED
      BY <1>3, <1>4, <2>3, <3>1
  <2>5. prev.version = version[prev.tick]
    BY <1>1, <1>3, <2>1, ReportAssumption DEF SentInv, Ahead, TypeOK
  <2> QED
    BY <1>1, <1>2, <1>3, <1>8, <2>2, <2>4, <2>5 DEF Contract!Comparable
<1> QED
  BY <1>1, <1>3, <1>5, <1>6, <1>7, <1>8 DEF CompareAndPrint

\* Every step keeps the relation between what was sent and what was printed.
LEMMA StepSent == IInv /\ [Next]_vars => SentInv'
<1> SUFFICES ASSUME IInv, [Next]_vars, ppc' = "select" PROVE SentInv'
  BY DEF SentInv
<1> USE ReportAssumption DEF IInv, archive
<1>0. ASSUME UNCHANGED <<version, gaps, ppc, prev, printed>>,
             \/ SentTo' = SentTo
             \/ SentTo' = SentTo + 1 /\ SentTo' \notin Contract!Snapshots
      PROVE  SentInv'
  <2>1. /\ Contract!Snapshots' = Contract!Snapshots /\ Contract!Done' = Contract!Done
        /\ Contract!Comparable' = Contract!Comparable
    BY <1>0 DEF Contract!Snapshots, Contract!Done, Contract!Comparable, Contract!Gapless
  <2>2. SentTo \in Int /\ prev.tick \in Int /\ Contract!Snapshots \subseteq Int
    BY DEF TypeOK, SentTo, Contract!Snapshots
  <2>3. prev.tick <= SentTo /\ \A s \in Contract!Snapshots : s <= SentTo => s <= prev.tick
    BY <1>0 DEF SentInv
  <2>4. prev.tick <= SentTo' /\ \A s \in Contract!Snapshots : s <= SentTo' => s <= prev.tick
    <3>1. CASE SentTo' = SentTo
      BY <2>3, <3>1
    <3>2. CASE SentTo' = SentTo + 1 /\ SentTo' \notin Contract!Snapshots
      <4>1. \A s \in Contract!Snapshots : s <= SentTo' => s <= SentTo
        BY <2>2, <3>2
      <4> QED
        BY <2>2, <2>3, <3>2, <4>1
    <3> QED
      BY <1>0, <3>1, <3>2
  <2> QED
    BY <1>0, <2>1, <2>4 DEF SentInv
<1>1. CASE ReadDamaged
  BY <1>0, <1>1 DEF ReadDamaged, SentTo, reader, processor
<1>2. CASE ReadMeta
  <2>1. SentTo' = SentTo
    BY <1>2, AdvanceOverMeta, EntrySets DEF ReadMeta, Ready, SentTo, PairInv, FlagInv
  <2> QED
    BY <1>0, <1>2, <2>1 DEF ReadMeta, processor
<1>3. CASE ReadStat
  <2>1. SentTo' = SentTo
    BY <1>3, AdvanceOverStat, EntrySets DEF ReadStat, Ready, SentTo
  <2> QED
    BY <1>0, <1>3, <2>1 DEF ReadStat, processor
<1>4. CASE ReadSysinfo
  <2>1. /\ tick' = tick + 1 /\ left = OnlySysinfo /\ rpc = "read" /\ statOK' = statOK
        /\ left' = IF tick + 1 \in gaps THEN NoStat ELSE Entries
    BY <1>4, AdvanceOverSysinfo DEF ReadSysinfo
  <2>2. ~statOK /\ rpc' = "read"
    BY <1>4, <2>1, EntrySets DEF ReadSysinfo, Ready, PairInv, FlagInv
  <2>3. SentTo = tick /\ SentTo' = IF tick + 1 \in gaps THEN tick + 1 ELSE tick
    BY <2>1, <2>2, EntrySets DEF SentTo, TypeOK
  <2>4. UNCHANGED <<version, gaps, ppc, prev, printed>>
    BY <1>4 DEF ReadSysinfo, processor
  <2> QED
    BY <1>0, <2>3, <2>4 DEF Contract!Snapshots
<1>5. CASE ReadEOF
  BY <1>0, <1>5 DEF ReadEOF, SentTo, reader, processor
<1>6. CASE SendData
  <2> DEFINE d == [stat |-> stat, meta |-> meta.tick]
  <2>1. /\ stat = tick /\ tick \in 1..Ticks /\ tick \notin gaps /\ tick \in Contract!Snapshots
        /\ rpc = "send" /\ ppc = "select"
    BY <1>6 DEF SendData, PairInv, SendInv, Contract!Snapshots
  <2>2. SentTo = tick - 1 /\ SentTo' = tick
    BY <1>6, <2>1 DEF SendData, Cleared, SentTo, PairInv, SendInv
  <2>3. UNCHANGED <<version, gaps>>
    BY <1>6 DEF SendData
  <2>4. /\ Contract!Snapshots' = Contract!Snapshots
        /\ Contract!Comparable' = Contract!Comparable
    BY <2>3 DEF Contract!Snapshots, Contract!Comparable, Contract!Gapless
  <2>5. prev.tick \in Int /\ prev.tick <= tick - 1 /\ Contract!Snapshots \subseteq Int
    BY <2>1, <2>2 DEF SentInv, TypeOK, Contract!Snapshots
  <2>6. \A s \in Contract!Snapshots : s < tick => s <= prev.tick
    <3>1. \A s \in Contract!Snapshots : s <= SentTo => s <= prev.tick
      BY <2>1 DEF SentInv
    <3>2. \A s \in Contract!Snapshots : s < tick => s <= SentTo
      BY <2>1, <2>2, <2>5
    <3> QED
      BY <3>1, <3>2
  <2>7. \A s \in Contract!Comparable : s < tick => s \in Contract!Done
    BY <2>1, <2>6 DEF SentInv, Contract!Comparable
  <2>8. Ahead => meta.tick = tick
    BY <2>1, EntrySets DEF PairInv, SendInv, MetaTick
  <2>9. \A s \in Contract!Done : s \in 1..Ticks /\ s <= tick
    <3>1. \A s \in Contract!Done : s \in 1..Ticks /\ s <= prev.tick
      BY <2>1, DoneTicks DEF SentInv
    <3> QED
      BY <2>1, <2>5, <3>1
  <2>10. CASE Configure(d)
    <3>1. prev' = [tick |-> tick, version |-> version[meta.tick]] /\ UNCHANGED printed
      BY <2>1, <2>10 DEF Configure
    <3>2. tick \notin Contract!Comparable
      <4> SUFFICES ASSUME tick \in Contract!Comparable PROVE FALSE
        OBVIOUS
      <4>1. Ahead /\ tick > 1 /\ version[tick] = version[tick - 1]
        BY <2>1 DEF Contract!Comparable, Contract!Gapless, Ahead, TypeOK
      <4>2. tick - 1 \in Contract!Snapshots
        BY <2>1, <4>1 DEF Contract!Comparable, Contract!Gapless, Contract!Snapshots, TypeOK
      <4>3. prev.tick = tick - 1
        BY <2>1, <2>5, <2>6, <4>2
      <4>4. prev.version = version[tick - 1]
        BY <2>1, <4>1, <4>3 DEF SentInv, Ahead, TypeOK
      <4> QED
        BY <2>1, <2>8, <2>10, <4>1, <4>3, <4>4 DEF Configure, StartsAnew
    <3>3. Contract!Done' = Contract!Done
      BY <3>1 DEF Contract!Done
    <3>4. (\A g \in gaps : g > tick) => prev'.version = version[tick]
      BY <2>8, <3>1 DEF Ahead
    <3>5. \A s \in Contract!Comparable : s <= tick => s \in Contract!Done
      BY <2>1, <2>7, <3>2 DEF Contract!Comparable, Contract!Snapshots
    <3> QED
      BY <2>1, <2>2, <2>3, <2>4, <2>9, <3>1, <3>3, <3>4, <3>5 DEF SentInv
  <2>11. CASE CompareAndPrint(d)
    <3>1. /\ Contract!Gapless(tick) => tick \in Contract!Comparable
          /\ prev.tick \in 1..(tick - 1)
          /\ printed' = Append(printed, [tick |-> tick, base |-> prev.tick])
      BY <2>1, <2>11, CompareStep
    <3>2. Contract!Done' = Contract!Done \cup {tick}
      <4> DEFINE T == [tick : 1..Ticks, base : 1..Ticks]
                 e == [tick |-> tick, base |-> prev.tick]
      <4>1. printed \in Seq(T)
        BY DEF TypeOK
      <4>2. e \in T /\ e.tick = tick
        BY <2>1, <3>1
      <4> HIDE DEF e, T
      <4>3. {Append(printed, e)[k].tick : k \in 1..Len(Append(printed, e))}
              = {printed[k].tick : k \in 1..Len(printed)} \cup {e.tick}
        BY <4>1, <4>2, AppendDone
      <4>5. printed' = Append(printed, e)
        BY <3>1 DEF e
      <4>6. Contract!Done' = {Append(printed, e)[k].tick : k \in 1..Len(Append(printed, e))}
        BY <4>5 DEF Contract!Done
      <4>7. Contract!Done = {printed[k].tick : k \in 1..Len(printed)}
        BY DEF Contract!Done
      <4> QED
        BY <4>2, <4>3, <4>6, <4>7
    <3>3. prev'.tick = tick /\ prev'.version = prev.version /\ prev.version = version[meta.tick]
      BY <2>1, <2>11 DEF CompareAndPrint, Previous, StartsAnew, TypeOK
    <3>4. (\A g \in gaps : g > tick) => prev'.version = version[tick]
      BY <2>8, <3>3 DEF Ahead
    <3>5. \A s \in Contract!Comparable : s <= tick => s \in Contract!Done \cup {tick}
      BY <2>1, <2>7 DEF Contract!Comparable, Contract!Snapshots
    <3> QED
      BY <2>1, <2>2, <2>3, <2>4, <2>9, <3>2, <3>3, <3>4, <3>5 DEF SentInv
  <2>12. CASE CompareFails(d)
    BY <2>12 DEF CompareFails
  <2> QED
    BY <1>6, <2>10, <2>11, <2>12 DEF SendData
<1>7. CASE SendDone
  BY <1>7 DEF SendDone, AfterDone
<1>8. CASE UNCHANGED vars
  BY <1>0, <1>8 DEF vars, reader, processor, SentTo
<1>9. CASE ProgramPanics
  BY <1>9 DEF ProgramPanics
<1> QED
  BY <1>1, <1>2, <1>3, <1>4, <1>5, <1>6, <1>7, <1>8, <1>9 DEF Next, Finished

\* The invariant holds in every reachable state.
THEOREM Invariant == Spec => []IInv
<1>1. IInv /\ [Next]_vars => IInv'
  <2> SUFFICES ASSUME IInv, [Next]_vars PROVE IInv'
    OBVIOUS
  <2> QED
    BY StepType, StepPair, StepSent DEF IInv
<1> QED
  BY InitInv, <1>1, PTL DEF Spec

\* Every variable of the two goroutines keeps its type.
THEOREM ReportTypeCorrect == Spec => []TypeOK
<1>1. IInv => TypeOK
  BY DEF IInv
<1> QED
  BY <1>1, Invariant, PTL

\* A snapshot is sent with the metadata recorded in its own tick, or in the
\* tick before if a tick lacks its snapshot.
THEOREM PairsMatch == Spec => []PairOfOneTick
<1>1. IInv => PairOfOneTick
  BY EntrySets, ReportAssumption
     DEF IInv, PairInv, SendInv, MetaTick, Ahead, Gapless, PairOfOneTick, TypeOK
<1> QED
  BY <1>1, Invariant, PTL

\* The initial states map to initial states of the contract.
LEMMA ContractInit == Init => Contract!Init
  BY ReportAssumption DEF Init, Contract!Init

\* Every step maps to a step of the contract or to a stutter.
LEMMA ContractStep == IInv /\ [Next]_vars => [Contract!Next]_(Contract!vars)
<1> SUFFICES ASSUME IInv, [Next]_vars PROVE [Contract!Next]_(Contract!vars)
  OBVIOUS
<1> USE DEF archive
<1>1. ASSUME UNCHANGED <<archive, ppc, printed, failed>> PROVE UNCHANGED Contract!vars
  BY <1>1 DEF Contract!vars
<1>2. CASE ReadDamaged
  <2>1. UNCHANGED <<archive, ppc, printed>> /\ rpc = "read"
    BY <1>2 DEF ReadDamaged, processor
  <2>2. CASE ppc = "select"
    BY <2>1, <2>2 DEF Contract!vars
  <2>3. CASE ppc = "returned"
    <3>1. failed
      BY <2>1, <2>3 DEF IInv, ReturnInv
    <3> QED
      BY <1>2, <2>1, <3>1 DEF ReadDamaged, Contract!vars
  <2> QED
    BY <2>2, <2>3 DEF IInv, TypeOK
<1>3. CASE ReadMeta \/ ReadStat \/ ReadSysinfo \/ ReadEOF
  BY <1>1, <1>3 DEF ReadMeta, ReadStat, ReadSysinfo, ReadEOF, processor
<1>4. CASE SendData
  <2> DEFINE d == [stat |-> stat, meta |-> meta.tick]
  <2>1. ppc = "select" /\ rpc = "send" /\ UNCHANGED archive
    BY <1>4 DEF SendData
  <2>2. CASE Configure(d) \/ CompareFails(d)
    BY <2>1, <2>2 DEF Configure, CompareFails, Contract!vars, Contract!Next, Contract!End
  <2>3. CASE CompareAndPrint(d)
    <3>1. /\ tick \in Contract!Snapshots /\ Contract!Before(prev.tick, tick)
          /\ \A s \in Contract!Done : s < tick
          /\ \A s \in Contract!Comparable : s < tick => s \in Contract!Done
          /\ Contract!Gapless(tick) => tick \in Contract!Comparable
          /\ printed' = Append(printed, [tick |-> tick, base |-> prev.tick])
      BY <2>1, <2>3, CompareStep
    <3>2. UNCHANGED <<ppc, failed>>
      BY <2>3 DEF CompareAndPrint
    <3>3. \E b \in Contract!Snapshots :
            Contract!Before(b, tick) /\ printed' = Append(printed, [tick |-> tick, base |-> b])
      BY <3>1 DEF Contract!Before
    <3>4. Contract!Compare(tick)
      BY <2>1, <3>1, <3>2, <3>3 DEF Contract!Compare
    <3> QED
      BY <3>1, <3>4 DEF Contract!Next
  <2> QED
    BY <1>4, <2>2, <2>3 DEF SendData
<1>5. CASE SendDone
  <2>1. ppc = "select" /\ ppc' = "returned" /\ UNCHANGED <<archive, printed, failed>>
    BY <1>5 DEF SendDone, AfterDone
  <2>2. ASSUME ~failed PROVE Contract!Comparable \subseteq Contract!Done
    <3>1. tick = Ticks + 1 /\ left = Entries
      BY <1>5, <2>2 DEF SendDone, IInv, EndInv
    <3>2. SentTo = Ticks
      BY <3>1, EntrySets, ReportAssumption DEF SentTo
    <3>3. \A s \in Contract!Comparable : s \in Contract!Snapshots /\ s <= Ticks
      BY ReportAssumption DEF Contract!Comparable, Contract!Snapshots
    <3> QED
      BY <2>1, <3>2, <3>3 DEF IInv, SentInv
  <2>3. Contract!End
    BY <2>1, <2>2 DEF Contract!End
  <2> QED
    BY <2>1, <2>3 DEF Contract!Next
<1>6. CASE UNCHANGED vars
  BY <1>1, <1>6 DEF vars, processor
<1>7. CASE ProgramPanics
  BY <1>7 DEF ProgramPanics, Contract!vars, Contract!Next, Contract!End
<1> QED
  BY <1>2, <1>3, <1>4, <1>5, <1>6, <1>7 DEF Next, Finished

\* doReport implements the contract of a report: every snapshot is compared
\* once with the one recorded before it, in order, never across versions.
THEOREM ReportImplementsContract == Spec => ImplementsContract
<1>1. Spec => Contract!Init /\ [][Contract!Next]_(Contract!vars)
  BY Invariant, ContractInit, ContractStep, PTL DEF Spec
<1> QED
  BY <1>1 DEF ImplementsContract, Contract!Spec

-----------------------------------------------------------------------------
(* Rows                                                                    *)

\* The elements of S that come no later than i, by key and then by number.
UpTo(S, key) ==
  [i \in S |-> {j \in S : key[j] < key[i] \/ (key[j] = key[i] /\ j <= i)}]

\* Counting them puts the elements of S in places of their own, in that order.
LEMMA Places ==
  ASSUME NEW n \in Nat, NEW S \in SUBSET (1..n), NEW key \in [S -> Int]
  PROVE  /\ Cardinality(S) \in Nat
         /\ \A i \in S : Cardinality(UpTo(S, key)[i]) \in 1..Cardinality(S)
         /\ \A i, j \in S :
              Cardinality(UpTo(S, key)[i]) < Cardinality(UpTo(S, key)[j])
                => key[i] < key[j] \/ (key[i] = key[j] /\ i < j)
         /\ \A i, j \in S : i # j =>
              Cardinality(UpTo(S, key)[i]) # Cardinality(UpTo(S, key)[j])
         /\ \A k \in 1..Cardinality(S) : \E i \in S : Cardinality(UpTo(S, key)[i]) = k
<1> DEFINE up(i) == UpTo(S, key)[i]
           place(i) == Cardinality(up(i))
<1>1. IsFiniteSet(S) /\ Cardinality(S) \in Nat
  <2>1. IsFiniteSet(1..n)
    BY FS_Interval
  <2> QED
    BY <2>1, FS_Subset, FS_CardinalityType
<1>2. \A i \in S : up(i) \in SUBSET S /\ i \in up(i)
  BY DEF UpTo
<1>3. \A i \in S : IsFiniteSet(up(i)) /\ place(i) \in Nat /\ place(i) <= Cardinality(S)
  BY <1>1, <1>2, FS_Subset, FS_CardinalityType
<1>4. \A i \in S : place(i) # 0
  BY <1>2, <1>3, FS_EmptySet
<1>5. \A i \in S : place(i) \in 1..Cardinality(S)
  BY <1>1, <1>3, <1>4
<1>6. ASSUME NEW i \in S, NEW j \in S, key[i] < key[j] \/ (key[i] = key[j] /\ i < j)
      PROVE  place(i) < place(j)
  <2>0. \A x \in S : key[x] \in Int /\ x \in Int
    OBVIOUS
  <2>1. up(i) \subseteq up(j)
    <3> SUFFICES ASSUME NEW x \in up(i) PROVE x \in up(j)
      OBVIOUS
    <3>1. x \in S /\ (key[x] < key[i] \/ (key[x] = key[i] /\ x <= i))
      BY DEF UpTo
    <3>2. key[x] \in Int /\ key[i] \in Int /\ key[j] \in Int /\ x \in Int /\ i \in Int /\ j \in Int
      BY <2>0, <3>1
    <3>3. key[x] < key[j] \/ (key[x] = key[j] /\ x <= j)
      BY <1>6, <3>1, <3>2
    <3> QED
      BY <3>1, <3>3 DEF UpTo
  <2>2. j \notin up(i)
    BY <1>6, <2>0 DEF UpTo
  <2>3. up(i) # up(j)
    BY <2>2, <1>2
  <2>4. place(i) <= place(j) /\ place(i) # place(j)
    BY <2>1, <2>3, <1>3, FS_Subset
  <2> QED
    BY <2>4, <1>3
<1>7. \A i, j \in S : place(i) < place(j) => key[i] < key[j] \/ (key[i] = key[j] /\ i < j)
  <2> SUFFICES ASSUME NEW i \in S, NEW j \in S, place(i) < place(j),
                      ~(key[i] < key[j] \/ (key[i] = key[j] /\ i < j))
               PROVE  FALSE
    OBVIOUS
  <2>1. i # j
    BY <1>3
  <2>2. key[j] < key[i] \/ (key[j] = key[i] /\ j < i)
    BY <2>1
  <2>3. place(j) < place(i)
    BY <2>2, <1>6
  <2>4. place(i) \in Nat /\ place(j) \in Nat
    BY <1>3
  <2> HIDE DEF place
  <2> QED
    BY <2>3, <2>4
<1>8. \A i, j \in S : i # j => place(i) # place(j)
  <2> SUFFICES ASSUME NEW i \in S, NEW j \in S, i # j PROVE place(i) # place(j)
    OBVIOUS
  <2>1. (key[i] < key[j] \/ (key[i] = key[j] /\ i < j)) \/ (key[j] < key[i] \/ (key[j] = key[i] /\ j < i))
    OBVIOUS
  <2>2. place(i) < place(j) \/ place(j) < place(i)
    BY <2>1, <1>6
  <2> QED
    BY <2>2, <1>3
<1>9. \A k \in 1..Cardinality(S) : \E i \in S : place(i) = k
  <2> DEFINE f == [i \in S |-> place(i)]
             T == 1..Cardinality(S)
  <2>1. IsFiniteSet(T) /\ Cardinality(T) = Cardinality(S)
    BY <1>1, FS_Interval
  <2>2. f \in [S -> T]
    BY <1>5
  <2>3. \A i, j \in S : f[i] = f[j] => i = j
    BY <1>8
  <2>4. f \in Injection(S, T)
    BY <2>2, <2>3 DEF Injection, IsInjective
  <2>5. f \in Surjection(S, T)
    BY <2>1, <2>4, FS_Injection
  <2>6. \A k \in T : \E i \in S : f[i] = k
    BY <2>5 DEF Surjection
  <2> QED
    BY <2>6
<1> HIDE DEF place, up
<1>10. \A i \in S : Cardinality(UpTo(S, key)[i]) = place(i)
  BY DEF place, up
<1> QED
  BY <1>1, <1>5, <1>7, <1>8, <1>9, <1>10

\* The rows at the places in S, each once, those with the lesser key first.
Arranges(r, rows, S, key, c) ==
  \E at \in [1..c -> S] :
    /\ r = [k \in 1..c |-> rows[at[k]]]
    /\ \A i \in S : \E k \in 1..c : at[k] = i
    /\ \A k, l \in 1..c : k < l =>
         key[at[k]] < key[at[l]] \/ (key[at[k]] = key[at[l]] /\ at[k] < at[l])

\* Rows in the order of their places: all those of S, each once, by key.
LEMMA Arranged ==
  ASSUME NEW n \in Nat, NEW S \in SUBSET (1..n), NEW key \in [S -> Int], NEW rows,
         NEW c, c = Cardinality(S)
  PROVE  c \in Nat /\ Arranges(InOrder(rows, UpTo(S, key)), rows, S, key, c)
<1> DEFINE place(i) == Cardinality(UpTo(S, key)[i])
           at == [k \in 1..c |-> CHOOSE i \in S : place(i) = k]
<1>1. /\ c \in Nat
      /\ \A i \in S : place(i) \in 1..c
      /\ \A i, j \in S : place(i) < place(j) => key[i] < key[j] \/ (key[i] = key[j] /\ i < j)
      /\ \A i, j \in S : i # j => place(i) # place(j)
      /\ \A k \in 1..c : \E i \in S : place(i) = k
  BY Places
<1>2. InOrder(rows, UpTo(S, key)) = [k \in 1..c |-> rows[at[k]]]
  <2>1. DOMAIN UpTo(S, key) = S
    BY DEF UpTo
  <2>2. InOrder(rows, UpTo(S, key)) =
          [k \in 1..c |-> rows[CHOOSE i \in S : Cardinality(UpTo(S, key)[i]) = k]]
    BY <2>1 DEF InOrder
  <2> QED
    BY <2>2
<1> HIDE DEF place
<1>3. \A k \in 1..c : at[k] \in S /\ place(at[k]) = k
  <2> TAKE k \in 1..c
  <2>1. \E i \in S : place(i) = k
    BY <1>1
  <2>2. at[k] = CHOOSE i \in S : place(i) = k
    OBVIOUS
  <2> QED
    BY <2>1, <2>2
<1>4. at \in [1..c -> S]
  BY <1>3
<1> HIDE DEF at
<1>5. \A i \in S : \E k \in 1..c : at[k] = i
  <2> TAKE i \in S
  <2>1. place(i) \in 1..c
    BY <1>1
  <2>2. at[place(i)] \in S /\ place(at[place(i)]) = place(i)
    BY <1>3, <2>1
  <2>3. at[place(i)] = i
    BY <1>1, <2>2
  <2> QED
    BY <2>1, <2>3
<1>6. \A k, l \in 1..c : k < l =>
        key[at[k]] < key[at[l]] \/ (key[at[k]] = key[at[l]] /\ at[k] < at[l])
  <2> SUFFICES ASSUME NEW k \in 1..c, NEW l \in 1..c, k < l
               PROVE  key[at[k]] < key[at[l]] \/ (key[at[k]] = key[at[l]] /\ at[k] < at[l])
    OBVIOUS
  <2>1. at[k] \in S /\ at[l] \in S /\ place(at[k]) < place(at[l])
    BY <1>3
  <2> QED
    BY <1>1, <2>1
<1> QED
  BY <1>1, <1>2, <1>4, <1>5, <1>6 DEF Arranges

\* Strings can be sorted.
LexTotal == \A x \in Value : Lex(x) \in Int

\* What the rows are sorted by, so that less comes first.
SortKeys(rows, col, desc) ==
  [i \in 1..Len(rows) |->
     IF desc THEN -SortKey(rows[1][col].kind, rows[i][col])
     ELSE SortKey(rows[1][col].kind, rows[i][col])]

\* A value has a place among those it is sorted with.
LEMMA SortKeyType ==
  ASSUME LexTotal, NEW x \in Value, NEW kind
  PROVE  SortKey(kind, x) \in Int
<1>1. Lex(x) \in Int
  BY DEF LexTotal
<1>2. x.n \in Int
  BY DEF Value
<1> QED
  BY <1>1, <1>2 DEF SortKey

\* The result of a sort has the rows it was given, each once, in order; rows
\* that are equal keep theirs.
LEMMA SortedRows ==
  ASSUME LexTotal, NEW m \in Nat, NEW rows \in Seq([0..m -> Value]), NEW col \in Nat,
         rows # <<>> => col <= m, NEW desc \in BOOLEAN
  PROVE  /\ SortKeys(rows, col, desc) \in [1..Len(rows) -> Int]
         /\ Arranges(Sorted(rows, col, desc), rows, 1..Len(rows),
                     SortKeys(rows, col, desc), Len(rows))
<1> DEFINE n == Len(rows)
           key == SortKeys(rows, col, desc)
           raw(i) == SortKey(rows[1][col].kind, rows[i][col])
           above(j, i) == IF desc THEN raw(j) > raw(i) ELSE raw(j) < raw(i)
           before(i) == {j \in DOMAIN rows : above(j, i) \/ (~above(i, j) /\ j <= i)}
<1>1. n \in Nat /\ DOMAIN rows = 1..n
  OBVIOUS
<1>2. \A i \in 1..n : raw(i) \in Int
  <2> TAKE i \in 1..n
  <2>1. rows[i] \in [0..m -> Value] /\ rows[1] \in [0..m -> Value] /\ col \in 0..m
    BY <1>1
  <2>2. rows[i][col] \in Value /\ rows[1][col] \in Value
    BY <2>1
  <2> QED
    BY <2>2, SortKeyType
<1> HIDE DEF raw
<1>3. \A i \in 1..n : key[i] = (IF desc THEN -raw(i) ELSE raw(i))
  BY DEF SortKeys, raw
<1>4. key \in [1..n -> Int]
  <2>1. \A i \in 1..n : (IF desc THEN -raw(i) ELSE raw(i)) \in Int
    BY <1>2
  <2>2. key = [i \in 1..n |-> IF desc THEN -raw(i) ELSE raw(i)]
    BY DEF SortKeys, raw
  <2> QED
    BY <2>1, <2>2
<1>5. \A i \in 1..n : before(i) = UpTo(1..n, key)[i]
  <2> TAKE i \in 1..n
  <2>1. \A j \in 1..n : (above(j, i) \/ (~above(i, j) /\ j <= i))
                          <=> (key[j] < key[i] \/ (key[j] = key[i] /\ j <= i))
    BY <1>2, <1>3
  <2> HIDE DEF above, key
  <2> QED
    BY <1>1, <2>1 DEF UpTo
<1>6. Sorted(rows, col, desc) = InOrder(rows, UpTo(1..n, key))
  <2>1. Sorted(rows, col, desc) = InOrder(rows, [i \in 1..n |-> before(i)])
    BY <1>1 DEF Sorted, raw
  <2> HIDE DEF before, key
  <2>2. [i \in 1..n |-> before(i)] = UpTo(1..n, key)
    BY <1>5 DEF UpTo
  <2> QED
    BY <2>1, <2>2
<1> HIDE DEF key, n
<1>7. n = Cardinality(1..n) /\ (1..n) \in SUBSET (1..n)
  BY <1>1, FS_Interval
<1>8. Arranges(InOrder(rows, UpTo(1..n, key)), rows, 1..n, key, n)
  BY <1>1, <1>4, <1>7, Arranged
<1> QED
  BY <1>4, <1>6, <1>8 DEF n, key

\* The rows that are picked: those at the places in S, each once, in their order.
LEMMA PickedRows ==
  ASSUME NEW n \in Nat, NEW S \in SUBSET (1..n), NEW rows, NEW c, c = Cardinality(S)
  PROVE  c \in Nat /\ Arranges(Picked(rows, S), rows, S, [i \in S |-> 0], c)
<1> DEFINE key == [i \in S |-> 0]
<1>1. key \in [S -> Int] /\ \A i \in S : key[i] = 0
  OBVIOUS
<1>2. Picked(rows, S) = InOrder(rows, UpTo(S, key))
  <2>1. UpTo(S, key) = [i \in S |-> {j \in S : j <= i}]
    BY DEF UpTo
  <2> QED
    BY <2>1 DEF Picked
<1>3. c \in Nat /\ Arranges(InOrder(rows, UpTo(S, key)), rows, S, key, c)
  <2> HIDE DEF key
  <2> QED
    BY <1>1, Arranged
<1> QED
  BY <1>2, <1>3

LEMMA FirstPart ==
  ASSUME NEW S, NEW s \in Seq(S), NEW e \in 0..Len(s)
  PROVE  /\ SubSeq(s, 1, e) = [k \in 1..e |-> s[k]]
         /\ Len(SubSeq(s, 1, e)) = e
OBVIOUS

\* What is printed of a result: rows of it that match, each once, in the order
\* of their keys; one that matches and is left out is left out for the limit,
\* and comes after all that are printed.
Lists(out, rows, key, limit, e) ==
  \E at \in [1..e -> 1..Len(rows)] :
    /\ out = [k \in 1..e |-> rows[at[k]]] /\ Len(out) = e
    /\ \A k \in 1..e : Matches(rows[at[k]])
    /\ \A k, l \in 1..e : k < l => key[at[k]] <= key[at[l]]
    /\ \A j \in 1..Len(rows) : Matches(rows[j]) =>
         \/ \E k \in 1..e : at[k] = j
         \/ e = limit /\ limit # 0 /\ \A k \in 1..e : key[at[k]] <= key[j]

LEMMA RowsListed ==
  ASSUME LexTotal, NEW m \in Nat, NEW rows \in Seq([0..m -> Value]), NEW col \in Nat,
         rows # <<>> => col <= m, NEW desc \in BOOLEAN, NEW limit \in Nat
  PROVE  /\ SortKeys(rows, col, desc) \in [1..Len(rows) -> Int]
         /\ \E e \in Nat : Lists(Limited(Filtered(Sorted(rows, col, desc)), limit), rows,
                                 SortKeys(rows, col, desc), limit, e)
<1> DEFINE n   == Len(rows)
           key == SortKeys(rows, col, desc)
           sorted == Sorted(rows, col, desc)
           F == {k \in 1..n : Matches(sorted[k])}
           c == Cardinality(F)
           e == IF limit = 0 \/ limit > c THEN c ELSE limit
           out == Limited(Filtered(sorted), limit)
<1>1. n \in Nat /\ \A i \in 1..n : rows[i] \in [0..m -> Value]
  OBVIOUS
<1>2. key \in [1..n -> Int]
  BY SortedRows
<1>3. PICK p \in [1..n -> 1..n] :
        /\ sorted = [k \in 1..n |-> rows[p[k]]]
        /\ \A i \in 1..n : \E k \in 1..n : p[k] = i
        /\ \A k, l \in 1..n : k < l =>
             key[p[k]] < key[p[l]] \/ (key[p[k]] = key[p[l]] /\ p[k] < p[l])
  <2>1. Arranges(sorted, rows, 1..n, key, n)
    BY SortedRows
  <2> HIDE DEF sorted, key, n
  <2> QED
    BY <2>1 DEF Arranges
<1> HIDE DEF sorted, key, n
<1>30. \A k, l \in 1..n : k < l => key[p[k]] <= key[p[l]]
  <2> TAKE k, l \in 1..n
  <2> HAVE k < l
  <2>1. key[p[k]] \in Int /\ key[p[l]] \in Int
    BY <1>2
  <2>2. key[p[k]] < key[p[l]] \/ key[p[k]] = key[p[l]]
    BY <1>3
  <2> QED
    BY <2>1, <2>2
<1>4. F \in SUBSET (1..n)
  OBVIOUS
<1>5. c \in Nat /\ Arranges(Picked(sorted, F), sorted, F, [i \in F |-> 0], c)
  <2>1. c = Cardinality(F)
    OBVIOUS
  <2> HIDE DEF F, c
  <2> QED
    BY <1>1, <1>4, <2>1, PickedRows
<1>6. Filtered(sorted) = Picked(sorted, F)
  BY <1>3 DEF Filtered
<1>7. \A k \in F : k \in 1..n /\ Matches(sorted[k]) /\ sorted[k] = rows[p[k]]
  BY <1>3
<1>8. \A k \in 1..n : Matches(sorted[k]) => k \in F
  OBVIOUS
<1> HIDE DEF F, c
<1>9. PICK q \in [1..c -> F] :
        /\ Picked(sorted, F) = [k \in 1..c |-> sorted[q[k]]]
        /\ \A i \in F : \E k \in 1..c : q[k] = i
        /\ \A k, l \in 1..c : k < l => q[k] < q[l]
  <2> DEFINE zero == [i \in F |-> 0]
  <2>1. \A i \in F : zero[i] = 0
    OBVIOUS
  <2> HIDE DEF zero
  <2>2. Arranges(Picked(sorted, F), sorted, F, zero, c)
    BY <1>5 DEF zero
  <2>3. PICK q \in [1..c -> F] :
          /\ Picked(sorted, F) = [k \in 1..c |-> sorted[q[k]]]
          /\ \A i \in F : \E k \in 1..c : q[k] = i
          /\ \A k, l \in 1..c : k < l =>
               zero[q[k]] < zero[q[l]] \/ (zero[q[k]] = zero[q[l]] /\ q[k] < q[l])
    BY <2>2 DEF Arranges
  <2>4. \A k \in 1..c : zero[q[k]] = 0
    BY <2>1
  <2>5. \A k, l \in 1..c : k < l => q[k] < q[l]
    BY <2>3, <2>4
  <2> QED
    BY <2>3, <2>5
<1>10. e \in 0..c /\ e \in Nat /\ (e < c => e = limit /\ limit # 0)
  BY <1>5
<1> DEFINE at == [k \in 1..e |-> p[q[k]]]
<1>11. \A k \in 1..c : q[k] \in F /\ q[k] \in 1..n /\ p[q[k]] \in 1..n
  BY <1>7
<1>12. out = [k \in 1..e |-> rows[at[k]]] /\ Len(out) = e
  <2> DEFINE s == [k \in 1..c |-> rows[p[q[k]]]]
  <2>1. Filtered(sorted) = s
    BY <1>6, <1>7, <1>9, <1>11
  <2>2. s \in Seq([0..m -> Value]) /\ Len(s) = c
    <3>1. s \in [1..c -> [0..m -> Value]]
      BY <1>1, <1>11
    <3> HIDE DEF s
    <3> QED
      BY <3>1, <1>5
  <2>3. out = SubSeq(s, 1, e)
    BY <2>1, <2>2 DEF Limited
  <2> HIDE DEF out, s, e
  <2>4. out = [k \in 1..e |-> s[k]] /\ Len(out) = e
    BY <2>2, <2>3, <1>10, FirstPart
  <2>5. \A k \in 1..e : s[k] = rows[p[q[k]]]
    <3> TAKE k \in 1..e
    <3>1. k \in 1..c
      BY <1>5, <1>10
    <3> QED
      BY <3>1 DEF s
  <2> QED
    BY <2>4, <2>5
<1> HIDE DEF e, out
<1>14. \A k \in 1..e : k \in 1..c /\ at[k] = p[q[k]]
  BY <1>5, <1>10
<1>13. at \in [1..e -> 1..n]
  BY <1>14, <1>11
<1> HIDE DEF at
<1>15. \A k \in 1..e : Matches(rows[at[k]])
  BY <1>7, <1>11, <1>14
<1>16. \A k, l \in 1..e : k < l => key[at[k]] <= key[at[l]]
  <2> TAKE k, l \in 1..e
  <2> HAVE k < l
  <2>1. q[k] < q[l]
    BY <1>9, <1>14
  <2> QED
    BY <2>1, <1>30, <1>11, <1>14
<1>17. ASSUME NEW j \in 1..n, Matches(rows[j]), \A k \in 1..e : at[k] # j
       PROVE  e = limit /\ limit # 0 /\ \A k \in 1..e : key[at[k]] <= key[j]
  <2>1. PICK k \in 1..n : p[k] = j
    BY <1>3
  <2>2. k \in F
    BY <2>1, <1>3, <1>8, <1>17
  <2>3. PICK l \in 1..c : q[l] = k
    BY <2>2, <1>9
  <2>4. l \notin 1..e
    BY <2>1, <2>3, <1>14, <1>17
  <2>5. e < l /\ e < c
    BY <2>4, <1>5, <1>10
  <2>6. \A i \in 1..e : i \in 1..c /\ i < l
    BY <2>5, <1>5, <1>10
  <2>7. \A i \in 1..e : key[at[i]] <= key[j]
    <3> TAKE i \in 1..e
    <3>1. q[i] < q[l]
      BY <2>6, <1>9
    <3>2. key[p[q[i]]] <= key[p[q[l]]]
      BY <3>1, <2>6, <1>30, <1>11
    <3> QED
      BY <3>2, <2>1, <2>3, <1>14
  <2> QED
    BY <2>5, <2>7, <1>10
<1>18. \A j \in 1..n : Matches(rows[j]) =>
         \/ \E k \in 1..e : at[k] = j
         \/ e = limit /\ limit # 0 /\ \A k \in 1..e : key[at[k]] <= key[j]
  BY <1>17
<1>19. e \in Nat
  BY <1>10
<1>20. Lists(out, rows, key, limit, e)
  BY <1>12, <1>13, <1>15, <1>16, <1>18 DEF Lists, n
<1> QED
  BY <1>2, <1>19, <1>20 DEF n, key, sorted, out

-----------------------------------------------------------------------------
(* The difference                                                          *)

\* Of a set of places there is a first.
LEMMA FirstOne ==
  ASSUME NEW S \in SUBSET Nat, S # {}
  PROVE  First(S) \in S
<1> DEFINE R == {p \in Nat \X Nat : p[1] < p[2]}
<1>1. IsWellFoundedOn(R, Nat)
  BY NatLessThanWellFounded DEF OpToRel
<1>2. \E x \in S : \A y \in S : ~(<<y, x>> \in R)
  <2> HIDE DEF R
  <2> QED
    BY <1>1, WFMin
<1>3. PICK x \in S : \A y \in S : ~(<<y, x>> \in R)
  BY <1>2
<1>4. \A y \in S : x <= y
  <2> TAKE y \in S
  <2>1. x \in Nat /\ y \in Nat /\ ~(<<y, x>> \in R)
    BY <1>3
  <2>2. ~(y < x)
    BY <2>1
  <2> QED
    BY <2>1, <2>2
<1>5. \E i \in S : \A j \in S : i <= j
  BY <1>4
<1> QED
  BY <1>5 DEF First

\* Division towards zero leaves a rest smaller than the divisor, with the sign
\* of the dividend.
LEMMA Rounded ==
  ASSUME NEW a \in Int, NEW s \in Nat \ {0}
  PROVE  /\ Quotient(a, s) \in Int
         /\ a - Quotient(a, s) * s \in (1 - s)..(s - 1)
         /\ Quotient(a, s) > 0 => a - Quotient(a, s) * s >= 0
         /\ Quotient(a, s) < 0 => a - Quotient(a, s) * s <= 0
<1>1. CASE a >= 0
  <2> DEFINE q == a \div s
  <2>1. q \in Nat /\ a - q * s \in 0..(s - 1)
    BY <1>1
  <2>2. Quotient(a, s) = q
    BY <1>1 DEF Quotient
  <2> HIDE DEF q
  <2> QED
    BY <2>1, <2>2
<1>2. CASE a < 0
  <2> DEFINE q == (-a) \div s
  <2>1. q \in Nat /\ (-a) - q * s \in 0..(s - 1)
    BY <1>2
  <2>2. Quotient(a, s) = -q
    BY <1>2 DEF Quotient
  <2> HIDE DEF q
  <2>3. a - (-q) * s = -((-a) - q * s)
    BY <2>1
  <2>4. PICK r \in 0..(s - 1) : (-a) - q * s = r
    BY <2>1
  <2> QED
    BY <2>1, <2>2, <2>3, <2>4
<1> QED
  BY <1>1, <1>2

\* The interval is at least a second.
LEMMA IntervalType ==
  ASSUME NEW t \in Int
  PROVE  Interval(t) \in Nat \ {0}
  BY DEF Interval

\* The places of prv with the key of a row.
SameKey(prv, now) == {j \in 1..Len(prv) : prv[j][Key] = now[Key]}

\* A row as it was, but for the counter in column c: its growth since prv.
Grown(row, now, prv, m, c, itv) ==
  /\ row \in [0..m -> Value]
  /\ \A x \in 0..m : x # c => row[x] = now[x]
  /\ SameKey(prv, now) = {} => row[c] = now[c]
  /\ SameKey(prv, now) # {} =>
       \E j \in SameKey(prv, now) : row[c] = Num(Quotient(now[c].n - prv[j][c].n, itv))

\* The difference: the rows of curr, grown.
Growth(d, curr, prv, m, c, itv) ==
  /\ d \in Seq([0..m -> Value]) /\ Len(d) = Len(curr)
  /\ \A i \in 1..Len(curr) : Grown(d[i], curr[i], prv, m, c, itv)

LEMMA DiffRows ==
  ASSUME NEW m \in Nat, NEW curr \in Seq([0..m -> Value]), NEW prv \in Seq([0..m -> Value]),
         NEW c \in 1..m, NEW itv \in Nat \ {0}
  PROVE  Growth(Diff(curr, prv, itv, {c}, Key), curr, prv, m, c, itv)
<1> DEFINE d == Diff(curr, prv, itv, {c}, Key)
           S(i) == SameKey(prv, curr[i])
           q(i) == Quotient(curr[i][c].n - prv[First(S(i))][c].n, itv)
<1>1. /\ DOMAIN curr = 1..Len(curr) /\ DOMAIN prv = 1..Len(prv)
      /\ \A i \in 1..Len(curr) : curr[i] \in [0..m -> Value]
      /\ \A j \in 1..Len(prv) : prv[j] \in [0..m -> Value]
      /\ Len(curr) \in Nat
  OBVIOUS
<1>2. \A i \in 1..Len(curr) : S(i) # {} => First(S(i)) \in S(i)
  <2> TAKE i \in 1..Len(curr)
  <2> HAVE S(i) # {}
  <2>1. S(i) \in SUBSET Nat
    BY DEF SameKey
  <2> HIDE DEF S
  <2> QED
    BY <2>1, FirstOne
<1>3. \A x \in Value : x.n \in Int
  BY DEF Value
<1>4. \A x \in Int : Num(x) \in Value
  BY DEF Num, Value
<1>5. \A i \in 1..Len(curr) : S(i) # {} => q(i) \in Int
  <2> TAKE i \in 1..Len(curr)
  <2> HAVE S(i) # {}
  <2>1. First(S(i)) \in 1..Len(prv)
    BY <1>2 DEF SameKey
  <2> DEFINE f == First(S(i))
  <2> HIDE DEF f
  <2>2. curr[i][c] \in Value /\ prv[f][c] \in Value
    BY <1>1, <2>1 DEF f
  <2>3. curr[i][c].n - prv[f][c].n \in Int
    BY <1>3, <2>2
  <2>4. Quotient(curr[i][c].n - prv[f][c].n, itv) \in Int
    BY <2>3, Rounded
  <2> QED
    BY <2>4 DEF f
<1>6. d = [i \in 1..Len(curr) |->
             IF S(i) = {} THEN curr[i]
             ELSE [x \in 0..m |-> IF x \in {c} THEN Num(q(i)) ELSE curr[i][x]]]
  BY <1>1 DEF Diff, Before, SameKey
<1> HIDE DEF d, S, q
<1>7. \A i \in 1..Len(curr) : S(i) = {} => d[i] = curr[i]
  BY <1>6
<1>8. \A i \in 1..Len(curr) : S(i) # {} =>
        /\ d[i] \in [0..m -> Value] /\ d[i][c] = Num(q(i))
        /\ \A x \in 0..m : x # c => d[i][x] = curr[i][x]
  <2> TAKE i \in 1..Len(curr)
  <2> HAVE S(i) # {}
  <2>1. d[i] = [x \in 0..m |-> IF x \in {c} THEN Num(q(i)) ELSE curr[i][x]]
    BY <1>6
  <2>2. Num(q(i)) \in Value
    BY <1>4, <1>5
  <2>3. \A x \in 0..m : curr[i][x] \in Value
    BY <1>1
  <2> QED
    BY <2>1, <2>2, <2>3
<1>9. d \in [1..Len(curr) -> [0..m -> Value]]
  <2>1. \A i \in 1..Len(curr) : d[i] \in [0..m -> Value]
    BY <1>1, <1>7, <1>8
  <2>2. d = [i \in 1..Len(curr) |-> d[i]]
    BY <1>6
  <2> QED
    BY <2>1, <2>2
<1>10. d \in Seq([0..m -> Value]) /\ Len(d) = Len(curr)
  BY <1>1, <1>9
<1>11. \A i \in 1..Len(curr) : Grown(d[i], curr[i], prv, m, c, itv)
  <2> TAKE i \in 1..Len(curr)
  <2>1. /\ d[i] \in [0..m -> Value]
        /\ \A x \in 0..m : x # c => d[i][x] = curr[i][x]
        /\ S(i) = {} => d[i][c] = curr[i][c]
    BY <1>1, <1>7, <1>8
  <2>2. S(i) # {} => \E j \in S(i) : d[i][c] = Num(Quotient(curr[i][c].n - prv[j][c].n, itv))
    BY <1>2, <1>8 DEF q
  <2> QED
    BY <2>1, <2>2 DEF Grown, S
<1> QED
  BY <1>10, <1>11 DEF Growth, d

-----------------------------------------------------------------------------
(* What was printed                                                        *)

\* An entry of the output: the rows of two snapshots of one version, compared,
\* sorted by a column they have, filtered and cut.
Entry(s) ==
  /\ s.tick \in (1..Ticks) \ gaps /\ s.base \in (1..Ticks) \ gaps
  /\ Gapless(s.tick) =>
       /\ version[s.base] = version[s.tick]
       /\ s.order \in Nat
       /\ recorded[s.tick] # <<>> => s.order < Columns[version[s.tick]]
       /\ \E desc \in BOOLEAN :
            /\ s.order # 0 => desc = want.desc
            /\ s.rows = Limited(Filtered(Compared(recorded[s.tick], recorded[s.base],
                          Interval(Elapsed(s.tick, s.base)), {CountAt[version[s.tick]]},
                          Key, s.order, desc)), want.limit)

\* processData has the layout of the version it compares, and orders by a column
\* the report has had.
LayoutInv ==
  /\ ppc = "select" /\ prev.tick # 0 => layout.configured = prev.version
  /\ layout.order \in OrderIn \cup {0}

\* The snapshots there are hold results of their version.
RecordedInv ==
  /\ want \in Wants
  /\ \A t \in (1..Ticks) \ gaps : recorded[t] \in Recorded(version[t])

OutputInv ==
  /\ \E S : output \in Seq(S)
  /\ \A k \in DOMAIN output : Entry(output[k])

SampleInv == LayoutInv /\ RecordedInv /\ OutputInv

\* ReportSamples adds to ReportPipeline what is printed, and takes nothing away.
THEOREM SamplesExtendPipeline == SampleSpec => Spec
<1>1. SampleInit => Init
  BY DEF SampleInit
<1>2. [SampleNext]_sampleVars => [Next]_vars
  BY DEF SampleNext, GuardedStep, sampleVars, Next
<1> QED
  BY <1>1, <1>2, PTL DEF SampleSpec, Spec

LEMMA SampleInitInv == SampleInit => SampleInv
<1> SUFFICES ASSUME SampleInit PROVE SampleInv
  OBVIOUS
<1>1. LayoutInv
  BY DEF SampleInit, Init, LayoutInv
<1>2. RecordedInv
  <2>1. \A t \in 1..Ticks : recorded[t] \in IF t \in gaps THEN {<<>>} ELSE Recorded(version[t])
    BY DEF SampleInit
  <2> QED
    BY <2>1 DEF SampleInit, RecordedInv
<1>3. OutputInv
  <2>1. output = <<>> /\ output \in Seq({}) /\ DOMAIN output = {}
    BY DEF SampleInit
  <2> QED
    BY <2>1 DEF OutputInv
<1> QED
  BY <1>1, <1>2, <1>3 DEF SampleInv

\* The snapshots of a comparison: both are there, and they are of the version of
\* the metadata unless one before lacks its snapshot.
LEMMA ComparedOfOneVersion ==
  ASSUME IInv, ppc = "select", rpc = "send",
         CompareAndPrint([stat |-> stat, meta |-> meta.tick])
  PROVE  /\ stat \in (1..Ticks) \ gaps /\ prev.tick \in (1..Ticks) \ gaps /\ prev.tick # 0
         /\ Gapless(stat) => version[prev.tick] = prev.version /\ version[stat] = prev.version
<1>1. /\ stat = tick /\ tick \in 1..Ticks /\ tick \notin gaps
  BY DEF IInv, PairInv, SendInv
<1>2. tick \in Contract!Snapshots /\ prev.tick \in 1..(tick - 1)
      /\ Contract!Before(prev.tick, tick)
  BY CompareStep
<1>3. prev.tick \in (1..Ticks) \ gaps /\ prev.tick < tick /\ prev.tick > 0
  BY <1>1, <1>2, ReportAssumption DEF Contract!Before, Contract!Snapshots
<1>4. prev.version = version[meta.tick]
  BY DEF CompareAndPrint, StartsAnew
<1>5. ASSUME Gapless(stat) PROVE version[prev.tick] = prev.version /\ version[stat] = prev.version
  <2>1. \A g \in gaps : g \in Int /\ g >= tick /\ g # tick
    BY <1>1, <1>5, ReportAssumption DEF Gapless, IInv, TypeOK
  <2>2. Ahead
    BY <1>1, <2>1 DEF Ahead
  <2>3. meta.tick = tick
    BY <2>2, EntrySets DEF IInv, PairInv, SendInv, MetaTick
  <2>4. \A g \in gaps : g > prev.tick
    BY <1>1, <1>3, <2>1
  <2>5. prev.version = version[prev.tick]
    BY <1>3, <2>4 DEF IInv, SentInv
  <2> QED
    BY <1>1, <1>4, <2>3, <2>5
<1> QED
  BY <1>1, <1>3, <1>5

\* A step that prints nothing.
LEMMA NothingPrinted ==
  ASSUME SampleInv, UNCHANGED <<archive, data>>, LayoutInv'
  PROVE  SampleInv'
<1>1. RecordedInv'
  BY DEF SampleInv, RecordedInv, archive, data
<1>2. OutputInv'
  <2>1. output' = output /\ \A s : Entry(s)' <=> Entry(s)
    BY DEF Entry, Gapless, Filtered, Matches, Elapsed, archive, data
  <2> QED
    BY <2>1 DEF SampleInv, OutputInv
<1> QED
  BY <1>1, <1>2 DEF SampleInv

LEMMA OneMore ==
  ASSUME NEW S, NEW s \in Seq(S), NEW e
  PROVE  /\ Append(s, e) \in Seq(S \cup {e})
         /\ \A k \in DOMAIN Append(s, e) : Append(s, e)[k] = e \/ (k \in DOMAIN s /\ Append(s, e)[k] = s[k])
<1>1. s \in Seq(S \cup {e})
  OBVIOUS
<1> QED
  BY <1>1
LEMMA EntryKept ==
  ASSUME UNCHANGED <<version, gaps, recorded, want>>
  PROVE  \A s : Entry(s)' <=> Entry(s)
  BY DEF Entry, Gapless, Filtered, Matches, Elapsed

\* The position of the column a report is ordered by.
LEMMA OrderPlace ==
  ASSUME NEW l, l.order \in OrderIn \cup {0}
  PROVE  OrderKey(l) \in Nat /\ OrderDesc(l) \in {TRUE, want.desc}
         /\ (OrderKey(l) # 0 => OrderDesc(l) = want.desc)
<1>1. CASE l.order = 0
  BY <1>1 DEF OrderKey, OrderDesc
<1>2. CASE l.order # 0
  <2>1. l.order \in OrderIn
    BY <1>2
  <2>2. OrderAt[l.order] \in Nat
    BY <2>1, ColumnsAssumption
  <2> QED
    BY <1>2, <2>2 DEF OrderKey, OrderDesc
<1> QED
  BY <1>1, <1>2

\* What processData prints is an entry.
LEMMA PrintsEntry ==
  ASSUME IInv, SampleInv, ppc = "select", rpc = "send",
         CompareAndPrint([stat |-> stat, meta |-> meta.tick]),
         ~NotComparable(stat, prev.tick), ~Panics(stat, prev.tick)
  PROVE  Entry([tick |-> stat, base |-> prev.tick, order |-> OrderKey(layout'),
                rows |-> RowsOf(stat, prev.tick, layout')])
<1> DEFINE key  == OrderKey(layout')
           desc == OrderDesc(layout')
           rows == RowsOf(stat, prev.tick, layout')
           e == [tick |-> stat, base |-> prev.tick, order |-> key, rows |-> rows]
<1>1. /\ stat \in (1..Ticks) \ gaps /\ prev.tick \in (1..Ticks) \ gaps /\ prev.tick # 0
      /\ Gapless(stat) => version[prev.tick] = prev.version /\ version[stat] = prev.version
  BY ComparedOfOneVersion
<1>2. layout.configured = prev.version /\ layout.order \in OrderIn \cup {0}
  BY <1>1 DEF SampleInv, LayoutInv
<1>3. layout' = Settled(layout, version[stat])
  BY DEF CompareAndPrint
<1>4. layout'.order \in OrderIn \cup {0}
  <2>1. layout \in Layout
    BY DEF IInv, TypeOK
  <2>2. layout'.order = IF layout.order = 0 /\ version[stat] \in OrderIn THEN version[stat] ELSE layout.order
    BY <1>3, <2>1 DEF Settled, Layout
  <2> QED
    BY <1>2, <2>2
<1>5. /\ key \in Nat /\ desc \in {TRUE, want.desc}
      /\ key # 0 => desc = want.desc
  <2> DEFINE l == layout'
  <2>1. l.order \in OrderIn \cup {0}
    BY <1>4
  <2> HIDE DEF l
  <2>2. OrderKey(l) \in Nat /\ OrderDesc(l) \in {TRUE, want.desc}
        /\ (OrderKey(l) # 0 => OrderDesc(l) = want.desc)
    BY <2>1, OrderPlace
  <2> QED
    BY <2>2 DEF l
<1>6. want.desc \in BOOLEAN
  BY SamplesAssumption DEF SampleInv, RecordedInv
<1>7. recorded[stat] # <<>> => key < Columns[version[stat]]
  <2>1. ~NoColumn(stat, layout')
    BY <1>3 DEF Panics
  <2>2. version[stat] \in Versions
    BY <1>1 DEF IInv, TypeOK
  <2>3. Columns[version[stat]] \in Nat
    BY <2>2, ColumnsAssumption
  <2>4. recorded[stat] = <<>> \/ ~(key >= Columns[version[stat]])
    BY <2>1 DEF NoColumn
  <2> HIDE DEF key
  <2> QED
    BY <1>5, <2>3, <2>4
<1>8. rows = Limited(Filtered(Compared(recorded[stat], recorded[prev.tick],
               Interval(Elapsed(stat, prev.tick)), {CountAt[prev.version]},
               Key, key, desc)), want.limit)
  BY <1>2 DEF RowsOf
<1> HIDE DEF key, desc, rows
<1>9. e.tick = stat /\ e.base = prev.tick /\ e.order = key /\ e.rows = rows
  OBVIOUS
<1> HIDE DEF e
<1>10. desc \in BOOLEAN
  BY <1>5, <1>6
<1>11. Entry(e)
  BY <1>1, <1>5, <1>7, <1>8, <1>9, <1>10 DEF Entry
<1> QED
  BY <1>11 DEF e, key, rows

LEMMA SampleStep ==
  ASSUME IInv, SampleInv, [SampleNext]_sampleVars
  PROVE  SampleInv'
<1>1. CASE (ReadDamaged \/ ReadMeta \/ ReadStat \/ ReadSysinfo \/ ReadEOF) /\ PrintSample
  <2>1. UNCHANGED <<archive, ppc, prev, layout, data>>
    BY <1>1 DEF ReadDamaged, ReadMeta, ReadStat, ReadSysinfo, ReadEOF, processor, PrintSample, data
  <2>2. LayoutInv'
    BY <2>1 DEF SampleInv, LayoutInv
  <2> QED
    BY <1>1, <2>1, <2>2, NothingPrinted
<1>2. CASE /\ SendData /\ PrintSample
           /\ printed' # printed =>
                ~NotComparable(stat, prev.tick) /\ ~Panics(stat, prev.tick)
  <2> DEFINE d == [stat |-> stat, meta |-> meta.tick]
  <2>1. /\ rpc = "send" /\ ppc = "select" /\ UNCHANGED archive
        /\ Configure(d) \/ CompareAndPrint(d) \/ CompareFails(d)
    BY <1>2 DEF SendData
  <2>2. layout \in Layout
    BY DEF IInv, TypeOK
  <2>3. CASE Configure(d)
    <3>1. UNCHANGED data
      BY <1>2, <2>3 DEF Configure, PrintSample, data
    <3>2. LayoutInv'
      BY <2>2, <2>3 DEF SampleInv, LayoutInv, Configure, Layout
    <3> QED
      BY <2>1, <3>1, <3>2, NothingPrinted
  <2>4. CASE CompareFails(d)
    <3>1. UNCHANGED data
      BY <1>2, <2>4 DEF CompareFails, PrintSample, data
    <3>2. LayoutInv'
      BY <2>4 DEF SampleInv, LayoutInv, CompareFails
    <3> QED
      BY <2>1, <3>1, <3>2, NothingPrinted
  <2>5. CASE CompareAndPrint(d)
    <3>1. printed' # printed
      <4>1. printed \in Seq([tick : 1..Ticks, base : 1..Ticks])
        BY DEF IInv, TypeOK
      <4>2. printed' = Append(printed, [tick |-> stat, base |-> prev.tick])
        BY <2>5 DEF CompareAndPrint
      <4> QED
        BY <4>1, <4>2
    <3>2. /\ ~NotComparable(stat, prev.tick) /\ ~Panics(stat, prev.tick)
          /\ output' = Append(output,
               [tick |-> stat, base |-> prev.tick, order |-> OrderKey(layout'),
                rows |-> RowsOf(stat, prev.tick, layout')])
          /\ UNCHANGED <<recorded, want>>
      BY <1>2, <3>1 DEF PrintSample
    <3> DEFINE e == [tick |-> stat, base |-> prev.tick, order |-> OrderKey(layout'),
                     rows |-> RowsOf(stat, prev.tick, layout')]
    <3>3. Entry(e)
      BY <2>1, <2>5, <3>2, PrintsEntry
    <3>4. LayoutInv'
      <4>1. layout' = Settled(layout, version[stat]) /\ prev'.version = prev.version
            /\ ppc' = ppc /\ prev.tick # 0
        BY <2>5 DEF CompareAndPrint, Previous, StartsAnew, IInv, TypeOK
      <4>2. /\ layout'.configured = layout.configured
            /\ layout'.order \in {layout.order} \cup OrderIn
        BY <2>2, <4>1 DEF Settled, Layout
      <4> QED
        BY <2>1, <4>1, <4>2 DEF SampleInv, LayoutInv
    <3>5. RecordedInv'
      BY <2>1, <3>2 DEF SampleInv, RecordedInv, archive
    <3>6. OutputInv'
      <4> HIDE DEF e
      <4>1. PICK S : output \in Seq(S)
        BY DEF SampleInv, OutputInv
      <4>2. output' = Append(output, e)
        BY <3>2 DEF e
      <4>3. /\ output' \in Seq(S \cup {e})
            /\ \A k \in DOMAIN output' : output'[k] = e \/ (k \in DOMAIN output /\ output'[k] = output[k])
        BY <4>1, <4>2, OneMore
      <4>4. \A k \in DOMAIN output' : Entry(output'[k])
        BY <3>3, <4>3 DEF SampleInv, OutputInv
      <4>5. \A s : Entry(s)' <=> Entry(s)
        BY <2>1, <3>2, EntryKept DEF archive
      <4>6. \A k \in DOMAIN output' : Entry(output[k])'
        BY <4>4, <4>5
      <4> QED
        BY <4>3, <4>6 DEF OutputInv
    <3> QED
      BY <3>4, <3>5, <3>6 DEF SampleInv
  <2> QED
    BY <2>1, <2>3, <2>4, <2>5
<1>3. CASE ProgramPanics /\ PrintSample
  <2>1. LayoutInv' /\ UNCHANGED <<archive, data>>
    BY <1>3 DEF ProgramPanics, SampleInv, LayoutInv, PrintSample, data
  <2> QED
    BY <1>3, <2>1, NothingPrinted
<1>4. CASE SendDone /\ PrintSample
  <2>1. UNCHANGED <<archive, prev, layout, data>> /\ ppc' = "returned"
    BY <1>4 DEF SendDone, AfterDone, PrintSample, data
  <2>2. LayoutInv'
    BY <2>1 DEF SampleInv, LayoutInv
  <2> QED
    BY <1>4, <2>1, <2>2, NothingPrinted
<1>5. CASE UNCHANGED <<vars, data>>
  <2>1. UNCHANGED <<archive, ppc, prev, layout, data>>
    BY <1>5 DEF vars, processor
  <2>2. LayoutInv'
    BY <2>1 DEF SampleInv, LayoutInv
  <2> QED
    BY <2>1, <2>2, NothingPrinted
<1>6. CASE Finished /\ PrintSample
  BY <1>5, <1>6 DEF Finished, PrintSample, vars, processor, data
<1> QED
  BY <1>1, <1>2, <1>3, <1>4, <1>5, <1>6 DEF SampleNext, GuardedStep, sampleVars

\* The invariant holds in every reachable state.
THEOREM SampleInvariant == SampleSpec => [](IInv /\ SampleInv)
<1>1. SampleInit => SampleInv
  BY SampleInitInv
<1>2. IInv /\ SampleInv /\ [SampleNext]_sampleVars => SampleInv'
  BY SampleStep
<1>3. SampleSpec => []IInv
  BY SamplesExtendPipeline, Invariant, PTL
<1> QED
  BY <1>1, <1>2, <1>3, PTL DEF SampleSpec

\* The difference an entry of the output was printed from.
Difference(s) ==
  Diff(recorded[s.tick], recorded[s.base], Interval(Elapsed(s.tick, s.base)),
       {CountAt[version[s.tick]]}, Key)

\* The results compared for an entry have the columns of one version.
LEMMA EntryTypes ==
  ASSUME IInv, SampleInv, NEW s, Entry(s), Gapless(s.tick)
  PROVE  LET v == version[s.tick]
             m == Columns[v] - 1
         IN /\ v \in Versions /\ m \in Nat /\ CountAt[v] \in 1..m
            /\ recorded[s.tick] \in Seq([0..m -> Value])
            /\ recorded[s.base] \in Seq([0..m -> Value])
            /\ s.order \in Nat
            /\ recorded[s.tick] # <<>> => s.order <= m
            /\ Elapsed(s.tick, s.base) \in Int
            /\ Interval(Elapsed(s.tick, s.base)) \in Nat \ {0}
            /\ want.limit \in Nat
<1> DEFINE v == version[s.tick]
           m == Columns[v] - 1
<1>1. /\ s.tick \in (1..Ticks) \ gaps /\ s.base \in (1..Ticks) \ gaps
      /\ version[s.base] = v /\ s.order \in Nat
      /\ recorded[s.tick] # <<>> => s.order < Columns[v]
  BY DEF Entry
<1>2. v \in Versions
  BY <1>1 DEF IInv, TypeOK
<1>3. CountAt[v] \in 1..m /\ Columns[v] \in Nat \ {0}
  BY <1>2, SamplesAssumption, ColumnsAssumption
<1>4. recorded[s.tick] \in Recorded(v) /\ recorded[s.base] \in Recorded(v)
  BY <1>1 DEF SampleInv, RecordedInv
<1>5. recorded[s.tick] \in Seq([0..m -> Value]) /\ recorded[s.base] \in Seq([0..m -> Value])
  BY <1>2, <1>4, SamplesAssumption
<1>6. Stamp[s.tick] \in Nat /\ Stamp[s.base] \in Nat
  BY <1>1, SamplesAssumption
<1>7. Elapsed(s.tick, s.base) \in Int
  BY <1>6 DEF Elapsed
<1>8. Interval(Elapsed(s.tick, s.base)) \in Nat \ {0}
  BY <1>7, IntervalType
<1>9. want.limit \in Nat
  BY SamplesAssumption DEF SampleInv, RecordedInv
<1> HIDE DEF v
<1>10. recorded[s.tick] # <<>> => s.order <= m
  BY <1>1, <1>3
<1> QED
  BY <1>1, <1>2, <1>3, <1>5, <1>7, <1>8, <1>9, <1>10 DEF v

\* The rows of an entry are a list of those of the difference.
LEMMA EntryRows ==
  ASSUME LexTotal, IInv, SampleInv, NEW s, Entry(s), Gapless(s.tick)
  PROVE  \E desc \in BOOLEAN :
           /\ s.order # 0 => desc = want.desc
           /\ SortKeys(Difference(s), s.order, desc) \in [1..Len(recorded[s.tick]) -> Int]
           /\ Len(Difference(s)) = Len(recorded[s.tick])
           /\ \E e \in Nat : Lists(s.rows, Difference(s),
                                   SortKeys(Difference(s), s.order, desc), want.limit, e)
<1> DEFINE v == version[s.tick]
           m == Columns[v] - 1
           d == Difference(s)
           limit == want.limit
           curr == recorded[s.tick]
           prv == recorded[s.base]
           itv == Interval(Elapsed(s.tick, s.base))
           c == CountAt[v]
           col == s.order
<1>1. /\ m \in Nat /\ c \in 1..m /\ curr \in Seq([0..m -> Value]) /\ prv \in Seq([0..m -> Value])
      /\ col \in Nat /\ (curr # <<>> => col <= m) /\ itv \in Nat \ {0} /\ limit \in Nat
  BY EntryTypes
<1>2. d = Diff(curr, prv, itv, {c}, Key)
  BY DEF Difference
<1>3. PICK desc \in BOOLEAN :
        /\ s.order # 0 => desc = want.desc
        /\ s.rows = Limited(Filtered(Sorted(d, col, desc)), limit)
  BY DEF Entry, Compared, Difference
<1> HIDE DEF d, m, limit, curr, prv, itv, c, col
<1>4. d \in Seq([0..m -> Value]) /\ Len(d) = Len(curr)
  <2>1. Growth(d, curr, prv, m, c, itv)
    BY <1>1, <1>2, DiffRows
  <2> QED
    BY <2>1 DEF Growth
<1>5. d # <<>> => col <= m
  BY <1>1, <1>4
<1>6. /\ SortKeys(d, col, desc) \in [1..Len(d) -> Int]
      /\ \E e \in Nat : Lists(Limited(Filtered(Sorted(d, col, desc)), limit), d,
                              SortKeys(d, col, desc), limit, e)
  BY <1>1, <1>4, <1>5, RowsListed
<1>7. /\ SortKeys(d, col, desc) \in [1..Len(curr) -> Int]
      /\ \E e \in Nat : Lists(s.rows, d, SortKeys(d, col, desc), limit, e)
  BY <1>3, <1>4, <1>6
<1> QED
  BY <1>3, <1>4, <1>7 DEF d, col, limit, curr
\* A printed row comes from a recorded one.
LEMMA RowGrown ==
  ASSUME LexTotal, IInv, SampleInv, NEW s, Entry(s), Gapless(s.tick), NEW i \in DOMAIN s.rows
  PROVE  LET v == version[s.tick]
         IN \E j \in 1..Len(recorded[s.tick]) :
              Grown(s.rows[i], recorded[s.tick][j], recorded[s.base],
                    Columns[v] - 1, CountAt[v], Interval(Elapsed(s.tick, s.base)))
<1> DEFINE m == Columns[version[s.tick]] - 1
           c == CountAt[version[s.tick]]
           itv == Interval(Elapsed(s.tick, s.base))
           curr == recorded[s.tick]
           prv == recorded[s.base]
           d == Difference(s)
<1>1. m \in Nat /\ c \in 1..m /\ curr \in Seq([0..m -> Value]) /\ prv \in Seq([0..m -> Value])
      /\ itv \in Nat \ {0}
  BY EntryTypes
<1>2. d = Diff(curr, prv, itv, {c}, Key)
  BY DEF Difference
<1> HIDE DEF m, c, itv, curr, prv, d
<1>3. Growth(d, curr, prv, m, c, itv)
  BY <1>1, <1>2, DiffRows
<1>4. PICK e \in Nat : \E key, limit : Lists(s.rows, d, key, limit, e)
  BY EntryRows DEF d
<1>5. PICK at \in [1..e -> 1..Len(d)] : s.rows = [k \in 1..e |-> d[at[k]]]
  BY <1>4 DEF Lists
<1>6. i \in 1..e /\ s.rows[i] = d[at[i]] /\ at[i] \in 1..Len(d)
  BY <1>5
<1>7. at[i] \in 1..Len(curr) /\ Grown(d[at[i]], curr[at[i]], prv, m, c, itv)
  BY <1>3, <1>6 DEF Growth
<1>8. \E j \in 1..Len(curr) : Grown(s.rows[i], curr[j], prv, m, c, itv)
  BY <1>6, <1>7
<1> QED
  BY <1>8 DEF m, c, itv, curr, prv

\* The growth per second and its rest.
LEMMA RateAndRest ==
  ASSUME NEW a \in Int, NEW b \in Int, NEW secs \in Nat \ {0}, NEW rate,
         rate = Quotient(a - b, secs)
  PROVE  LET rest == (a - b) - rate * secs
         IN /\ rest \in (1 - secs)..(secs - 1)
            /\ rate > 0 => rest >= 0
            /\ rate < 0 => rest <= 0
<1>1. a - b \in Int
  OBVIOUS
<1> DEFINE x == a - b
<1> HIDE DEF x
<1>2. /\ x - Quotient(x, secs) * secs \in (1 - secs)..(secs - 1)
      /\ Quotient(x, secs) > 0 => x - Quotient(x, secs) * secs >= 0
      /\ Quotient(x, secs) < 0 => x - Quotient(x, secs) * secs <= 0
  BY <1>1, Rounded DEF x
<1> QED
  BY <1>2 DEF x

\* The rate of one row.
LEMMA RateOfRow ==
  ASSUME LexTotal, IInv, SampleInv, NEW s, Entry(s), Gapless(s.tick), NEW i \in DOMAIN s.rows
  PROVE  LET row  == s.rows[i]
             c    == CountAt[version[s.tick]]
             half == Stamp[s.tick] - Stamp[s.base]
             secs == IF half < 2 THEN 1 ELSE half \div 2
         IN \E now \in Recordings(s.tick, row) :
              /\ \A x \in DOMAIN row \ {c} : row[x] = now[x]
              /\ \/ Recordings(s.base, row) = {} /\ row[c] = now[c]
                 \/ \E old \in Recordings(s.base, row) :
                      LET rest == (now[c].n - old[c].n) - row[c].n * secs
                      IN /\ rest \in (1 - secs)..(secs - 1)
                         /\ row[c].n > 0 => rest >= 0
                         /\ row[c].n < 0 => rest <= 0
<1> DEFINE row  == s.rows[i]
           m    == Columns[version[s.tick]] - 1
           c    == CountAt[version[s.tick]]
           curr == recorded[s.tick]
           prv  == recorded[s.base]
           half == Stamp[s.tick] - Stamp[s.base]
           secs == IF half < 2 THEN 1 ELSE half \div 2
           itv  == Interval(Elapsed(s.tick, s.base))
<1>1. /\ m \in Nat /\ c \in 1..m /\ itv \in Nat \ {0}
      /\ curr \in Seq([0..m -> Value]) /\ prv \in Seq([0..m -> Value])
  BY EntryTypes
<1>2. PICK j \in 1..Len(curr) : Grown(row, curr[j], prv, m, c, itv)
  BY RowGrown
<1>3. secs = itv
  BY DEF Interval, Elapsed
<1>4. Recordings(s.tick, row) = {curr[k] : k \in {l \in DOMAIN curr : curr[l][Key] = row[Key]}}
      /\ Recordings(s.base, row) = {prv[k] : k \in {l \in DOMAIN prv : prv[l][Key] = row[Key]}}
  BY DEF Recordings
<1> HIDE DEF row, m, c, curr, prv, half, secs, itv
<1> DEFINE now == curr[j]
<1>5. /\ DOMAIN curr = 1..Len(curr) /\ DOMAIN prv = 1..Len(prv)
      /\ now \in [0..m -> Value]
      /\ \A k \in 1..Len(prv) : prv[k] \in [0..m -> Value]
  BY <1>1
<1>6. /\ row \in [0..m -> Value]
      /\ \A x \in 0..m : x # c => row[x] = now[x]
      /\ SameKey(prv, now) = {} => row[c] = now[c]
      /\ SameKey(prv, now) # {} =>
           \E k \in SameKey(prv, now) : row[c] = Num(Quotient(now[c].n - prv[k][c].n, itv))
  BY <1>2 DEF Grown
<1> HIDE DEF now
<1>7. row[Key] = now[Key]
  <2>1. 0 \in 0..m /\ 0 # c
    BY <1>1
  <2> QED
    BY <1>6, <2>1 DEF Key
<1>8. now \in Recordings(s.tick, row)
  BY <1>4, <1>5, <1>7 DEF now
<1>9. \A x \in DOMAIN row \ {c} : row[x] = now[x]
  BY <1>6
<1>10. Recordings(s.base, row) = {prv[k] : k \in SameKey(prv, now)}
  BY <1>4, <1>5, <1>7 DEF SameKey
<1>11. CASE SameKey(prv, now) = {}
  <2>1. Recordings(s.base, row) = {} /\ row[c] = now[c]
    BY <1>6, <1>10, <1>11
  <2> QED
    BY <1>8, <1>9, <2>1 DEF row, c
<1>12. CASE SameKey(prv, now) # {}
  <2>1. PICK k \in SameKey(prv, now) : row[c] = Num(Quotient(now[c].n - prv[k][c].n, itv))
    BY <1>6, <1>12
  <2> DEFINE old == prv[k]
             a == now[c].n
             b == old[c].n
             rate == row[c].n
  <2>2. old \in Recordings(s.base, row)
    BY <1>10
  <2>3. a \in Int /\ b \in Int
    <3>1. old \in [0..m -> Value] /\ c \in 0..m
      BY <1>1, <1>5 DEF SameKey
    <3>2. now[c] \in Value /\ old[c] \in Value
      BY <1>5, <3>1
    <3> QED
      BY <3>2 DEF Value
  <2>4. rate = Quotient(a - b, secs)
    BY <2>1, <1>3 DEF Num
  <2> HIDE DEF old, a, b, rate
  <2>5. secs \in Nat \ {0}
    BY <1>1, <1>3
  <2> DEFINE rest == (a - b) - rate * secs
  <2>6. rest \in (1 - secs)..(secs - 1) /\ (rate > 0 => rest >= 0) /\ (rate < 0 => rest <= 0)
    BY <2>3, <2>4, <2>5, RateAndRest
  <2> HIDE DEF rest
  <2>7. rest = (now[c].n - old[c].n) - row[c].n * secs /\ rate = row[c].n
    BY DEF rest, a, b, rate
  <2> QED
    BY <1>8, <1>9, <2>2, <2>6, <2>7 DEF row, c, secs, half
<1> QED
  BY <1>11, <1>12

\* For any archive, options and results: a printed row is a recorded one, and its
\* counter the growth per second since the snapshot before, rounded towards
\* zero.
THEOREM RatesRight ==
  ASSUME LexTotal
  PROVE  SampleSpec => []RatesAsRecorded
<1>1. IInv /\ SampleInv => RatesAsRecorded
  <2> SUFFICES ASSUME IInv, SampleInv PROVE RatesAsRecorded
    OBVIOUS
  <2>1. \A k \in DOMAIN output : Entry(output[k])
    BY DEF SampleInv, OutputInv
  <2> QED
    BY <2>1, RateOfRow DEF RatesAsRecorded
<1> QED
  BY <1>1, SampleInvariant, PTL

\* The key of a row tells it from the others of its snapshot.
KeysUnique ==
  \A v \in Versions : \A r \in Recorded(v) : \A i, j \in DOMAIN r :
    r[i][Key] = r[j][Key] => i = j

\* The counter of a row of the difference is the one that is shown.
LEMMA CounterShown ==
  ASSUME KeysUnique, IInv, SampleInv, NEW s, Entry(s), Gapless(s.tick),
         NEW j \in 1..Len(recorded[s.tick])
  PROVE  LET c == CountAt[version[s.tick]]
             d == Difference(s)
             now == recorded[s.tick][j]
         IN /\ d[j][Key] = now[Key]
            /\ d[j][c].n = Shown(s, now) /\ d[j][c].n \in Int
            /\ now[c].kind = "number" => d[j][c].kind = "number"
<1> DEFINE m == Columns[version[s.tick]] - 1
           c == CountAt[version[s.tick]]
           itv == Interval(Elapsed(s.tick, s.base))
           curr == recorded[s.tick]
           prv == recorded[s.base]
           d == Difference(s)
           now == curr[j]
           half == Stamp[s.tick] - Stamp[s.base]
           secs == IF half < 2 THEN 1 ELSE half \div 2
<1>1. m \in Nat /\ c \in 1..m /\ curr \in Seq([0..m -> Value]) /\ prv \in Seq([0..m -> Value])
      /\ itv \in Nat \ {0}
  BY EntryTypes
<1>2. d = Diff(curr, prv, itv, {c}, Key)
  BY DEF Difference
<1>3. \A k, l \in DOMAIN prv : prv[k][Key] = prv[l][Key] => k = l
  <2>1. s.base \in (1..Ticks) \ gaps /\ version[s.base] \in Versions
    BY DEF Entry, IInv, TypeOK
  <2>2. prv \in Recorded(version[s.base])
    BY <2>1 DEF SampleInv, RecordedInv
  <2> HIDE DEF prv
  <2> QED
    BY <2>1, <2>2 DEF KeysUnique
<1>4. secs = itv
  BY DEF Interval, Elapsed
<1>5. Recordings(s.base, now) = {prv[k] : k \in {l \in DOMAIN prv : prv[l][Key] = now[Key]}}
  BY DEF Recordings
<1>6. Shown(s, now) =
        IF Recordings(s.base, now) = {} THEN now[c].n
        ELSE Quotient(now[c].n - (CHOOSE old \in Recordings(s.base, now) : TRUE)[c].n, secs)
  BY DEF Shown
<1> HIDE DEF m, c, itv, curr, prv, d, half, secs
<1>7. Grown(d[j], now, prv, m, c, itv) /\ j \in 1..Len(curr)
  <2>1. Growth(d, curr, prv, m, c, itv)
    BY <1>1, <1>2, DiffRows
  <2>2. j \in 1..Len(curr)
    BY DEF curr
  <2> QED
    BY <2>1, <2>2 DEF Growth
<1>8. now \in [0..m -> Value] /\ DOMAIN prv = 1..Len(prv)
  BY <1>1, <1>7
<1> HIDE DEF now
<1>9. Recordings(s.base, now) = {prv[k] : k \in SameKey(prv, now)}
  BY <1>5, <1>8 DEF SameKey
<1>10. d[j] \in [0..m -> Value] /\ d[j][Key] = now[Key] /\ d[j][c].n \in Int
  <2>1. 0 \in 0..m /\ 0 # c /\ c \in 0..m
    BY <1>1
  <2>2. d[j] \in [0..m -> Value] /\ d[j][Key] = now[Key]
    BY <1>7, <2>1 DEF Grown, Key
  <2>3. d[j][c] \in Value
    BY <2>1, <2>2
  <2> QED
    BY <2>2, <2>3 DEF Value
<1>11. CASE SameKey(prv, now) = {}
  <2>1. Recordings(s.base, now) = {} /\ d[j][c] = now[c]
    BY <1>7, <1>9, <1>11 DEF Grown
  <2>2. d[j][c].n = Shown(s, now)
    BY <2>1, <1>6
  <2> QED
    BY <1>10, <2>1, <2>2 DEF c, d, now, curr
<1>12. CASE SameKey(prv, now) # {}
  <2>1. PICK k \in SameKey(prv, now) : d[j][c] = Num(Quotient(now[c].n - prv[k][c].n, itv))
    BY <1>7, <1>12 DEF Grown
  <2>2. \A l \in SameKey(prv, now) : l = k
    BY <1>3, <1>8, <2>1 DEF SameKey
  <2>3. Recordings(s.base, now) = {prv[k]}
    BY <1>9, <2>2
  <2>4. (CHOOSE old \in Recordings(s.base, now) : TRUE) = prv[k] /\ Recordings(s.base, now) # {}
    BY <2>3
  <2>5. Shown(s, now) = Quotient(now[c].n - prv[k][c].n, itv)
    BY <1>4, <1>6, <2>4
  <2>6. d[j][c].n = Shown(s, now) /\ d[j][c].kind = "number"
    BY <2>1, <2>5 DEF Num
  <2> QED
    BY <1>10, <2>6 DEF c, d, now, curr
<1> QED
  BY <1>11, <1>12

\* A list of numbers: what comes first in it, and what was left out of it.
LEMMA TopOfList ==
  ASSUME LexTotal, KeysUnique, IInv, SampleInv, NEW s, Entry(s), Gapless(s.tick),
         s.order = CountAt[version[s.tick]],
         \A j \in DOMAIN recorded[s.tick] :
           recorded[s.tick][j][CountAt[version[s.tick]]].kind = "number"
  PROVE  LET c == CountAt[version[s.tick]]
             printedKeys == {s.rows[i][Key] : i \in DOMAIN s.rows}
             left_out == {j \in DOMAIN recorded[s.tick] :
                            Matches(recorded[s.tick][j]) /\ recorded[s.tick][j][Key] \notin printedKeys}
             behind(x, y) == IF want.desc THEN x <= y ELSE x >= y
         IN /\ \A i, j \in DOMAIN s.rows : i < j => behind(s.rows[j][c].n, s.rows[i][c].n)
            /\ \A j \in left_out, i \in DOMAIN s.rows :
                 behind(Shown(s, recorded[s.tick][j]), s.rows[i][c].n)
            /\ left_out # {} => Len(s.rows) = want.limit
<1> DEFINE m == Columns[version[s.tick]] - 1
           c == CountAt[version[s.tick]]
           curr == recorded[s.tick]
           d == Difference(s)
           n == Len(curr)
           printedKeys == {s.rows[i][Key] : i \in DOMAIN s.rows}
           left_out == {j \in DOMAIN curr : Matches(curr[j]) /\ curr[j][Key] \notin printedKeys}
           behind(x, y) == IF want.desc THEN x <= y ELSE x >= y
           num(j) == d[j][c].n
           key == SortKeys(d, c, want.desc)
<1>1. m \in Nat /\ c \in 1..m /\ DOMAIN curr = 1..n /\ n \in Nat
  <2>1. m \in Nat /\ c \in 1..m /\ curr \in Seq([0..m -> Value])
    BY EntryTypes
  <2> HIDE DEF m, c, curr
  <2> QED
    BY <2>1
<1>2. \A j \in 1..n : /\ d[j][Key] = curr[j][Key] /\ num(j) = Shown(s, curr[j]) /\ num(j) \in Int
                      /\ d[j][c].kind = "number"
  BY <1>1, CounterShown
<1>3. /\ key \in [1..n -> Int] /\ Len(d) = n
      /\ \E e \in Nat : Lists(s.rows, d, key, want.limit, e)
  <2>1. s.order = c /\ c # 0
    BY <1>1
  <2> HIDE DEF c, d
  <2>2. PICK desc \in BOOLEAN :
          /\ s.order # 0 => desc = want.desc
          /\ SortKeys(d, s.order, desc) \in [1..Len(curr) -> Int]
          /\ Len(d) = Len(curr)
          /\ \E e \in Nat : Lists(s.rows, d, SortKeys(d, s.order, desc), want.limit, e)
    BY EntryRows DEF d
  <2> QED
    BY <2>1, <2>2
<1> HIDE DEF d, c, curr, n, num
<1>4. \A j \in 1..n : key[j] = IF want.desc THEN -num(j) ELSE num(j)
  <2> TAKE j \in 1..n
  <2>1. 1 \in 1..n /\ j \in 1..Len(d)
    BY <1>1, <1>3
  <2>2. d[1][c].kind = "number" /\ d[j][c].kind = "number"
    BY <1>2, <2>1
  <2>3. SortKey(d[1][c].kind, d[j][c]) = num(j)
    BY <2>2 DEF SortKey, num
  <2> QED
    BY <2>1, <2>3 DEF SortKeys
<1> HIDE DEF key
<1>5. PICK e \in Nat : Lists(s.rows, d, key, want.limit, e)
  BY <1>3
<1>6. PICK at \in [1..e -> 1..n] :
        /\ s.rows = [k \in 1..e |-> d[at[k]]] /\ Len(s.rows) = e
        /\ \A k \in 1..e : Matches(d[at[k]])
        /\ \A k, l \in 1..e : k < l => key[at[k]] <= key[at[l]]
        /\ \A j \in 1..n : Matches(d[j]) =>
             \/ \E k \in 1..e : at[k] = j
             \/ e = want.limit /\ want.limit # 0 /\ \A k \in 1..e : key[at[k]] <= key[j]
  BY <1>3, <1>5 DEF Lists
<1>7. DOMAIN s.rows = 1..e /\ \A k \in 1..e : s.rows[k] = d[at[k]] /\ s.rows[k][c].n = num(at[k])
  BY <1>6 DEF num
<1>8. \A i, j \in 1..n : key[i] <= key[j] => behind(num(j), num(i))
  <2> TAKE i, j \in 1..n
  <2>1. num(i) \in Int /\ num(j) \in Int
    BY <1>2
  <2>2. key[i] = (IF want.desc THEN -num(i) ELSE num(i)) /\ key[j] = (IF want.desc THEN -num(j) ELSE num(j))
    BY <1>4
  <2> QED
    BY <2>1, <2>2
<1> HIDE DEF behind
<1>9. \A i, j \in DOMAIN s.rows : i < j => behind(s.rows[j][c].n, s.rows[i][c].n)
  <2> SUFFICES ASSUME NEW i \in 1..e, NEW j \in 1..e, i < j
               PROVE  behind(s.rows[j][c].n, s.rows[i][c].n)
    BY <1>7
  <2>1. behind(num(at[j]), num(at[i]))
    BY <1>6, <1>8
  <2> QED
    BY <2>1, <1>7
<1>10. ASSUME NEW j \in left_out
       PROVE  /\ j \in 1..n /\ e = want.limit
              /\ \A k \in 1..e : key[at[k]] <= key[j]
  <2>1. j \in 1..n /\ Matches(curr[j]) /\ curr[j][Key] \notin printedKeys
    BY <1>1
  <2>2. d[j][Key] = curr[j][Key]
    BY <1>2, <2>1
  <2>3. Matches(d[j])
    BY <2>1, <2>2 DEF Matches
  <2>4. ASSUME NEW k \in 1..e, at[k] = j PROVE FALSE
    <3>1. s.rows[k][Key] = curr[j][Key] /\ k \in DOMAIN s.rows
      BY <1>7, <2>2, <2>4
    <3> QED
      BY <2>1, <3>1
  <2> QED
    BY <1>6, <2>1, <2>3, <2>4
<1>11. \A j \in left_out, i \in DOMAIN s.rows : behind(Shown(s, curr[j]), s.rows[i][c].n)
  <2> SUFFICES ASSUME NEW j \in left_out, NEW i \in 1..e
               PROVE  behind(Shown(s, curr[j]), s.rows[i][c].n)
    BY <1>7
  <2>1. j \in 1..n /\ key[at[i]] <= key[j]
    BY <1>10
  <2>2. behind(num(j), num(at[i]))
    BY <1>8, <2>1
  <2>3. num(j) = Shown(s, curr[j]) /\ s.rows[i][c].n = num(at[i])
    BY <1>2, <1>7, <2>1
  <2> QED
    BY <2>2, <2>3
<1>12. left_out # {} => Len(s.rows) = want.limit
  BY <1>6, <1>10
<1> QED
  BY <1>9, <1>11, <1>12 DEF c, curr, behind

\* For any archive, options and results in which a key names one row: the report
\* prints the top of the list asked for.
THEOREM TopRowsPrinted ==
  ASSUME LexTotal, KeysUnique
  PROVE  SampleSpec => []TopRows
<1>1. IInv /\ SampleInv => TopRows
  <2> SUFFICES ASSUME IInv, SampleInv PROVE TopRows
    OBVIOUS
  <2>1. \A k \in DOMAIN output : Entry(output[k])
    BY DEF SampleInv, OutputInv
  <2> QED
    BY <2>1, TopOfList DEF TopRows
<1> QED
  BY <1>1, SampleInvariant, PTL
=============================================================================
