------------------------------- MODULE MCReport -------------------------------
(* Small instances of ReportSamples for TLC: version 16 has the columns key     *)
(* and counter, version 17 key, a text and the counter.                         *)
EXTENDS ReportSamples

MCColumns == [v \in Versions |-> v - 14]
MCCountAt == [v \in Versions |-> v - 15]
MCOrderAt == [v \in OrderIn |-> v - 15]
MCStamp   == <<0, 1, 6, 11>>

\* Digits sort before letters, and 10 before 9.
MCLex(x) ==
  IF x = Empty THEN 0
  ELSE IF x.kind = "text" THEN 1000 + x.n
  ELSE IF x.n < 10 THEN 11 * x.n + 1 ELSE 11 * (x.n \div 10) + (x.n % 10) + 2

Row(v, key, count) ==
  [c \in 0..(MCColumns[v] - 1) |->
     IF c = 0 THEN Text(key) ELSE IF c = MCCountAt[v] THEN count ELSE Text(key)]

MCRecorded(v) ==
  { <<Row(v, 2, Num(19)), Row(v, 1, Num(11)), Row(v, 3, Num(5))>>,
    <<Row(v, 3, IF v = 16 THEN Empty ELSE Num(9)), Row(v, 4, Num(12)), Row(v, 1, Num(4))>> }

MCWants ==
  { [desc |-> FALSE, limit |-> 2, filter |-> "none"],
    [desc |-> TRUE, limit |-> 1, filter |-> "key"],
    [desc |-> TRUE, limit |-> 0, filter |-> "missing"] }

MCMatching == {Text(1), Text(3)}
=============================================================================
