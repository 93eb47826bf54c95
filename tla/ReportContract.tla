----------------------------- MODULE ReportContract -----------------------------
(***************************************************************************)
(* What "pgcenter report" promises about an archive: the snapshots of the  *)
(* requested report are compared each with the one recorded before it,     *)
(* once, in the order of the archive, and never across a change of the     *)
(* Postgres version.  A report that ends without an error has left out     *)
(* none.  An archive that was continued by another run of the recorder may *)
(* have ticks without a snapshot of this report; behind the first of them  *)
(* a comparison may be missing or go across versions, and all that is left *)
(* is that each is with the snapshot before and that they are in order.    *)
(***************************************************************************)
EXTENDS Integers, Sequences

CONSTANTS
  Ticks,      \* number of ticks in the archive
  Versions    \* Postgres versions they may come from

VARIABLES
  version,    \* version[t]: the version tick t was taken from
  gaps,       \* the ticks without a snapshot
  printed,    \* the comparisons printed so far
  outcome     \* "running", "complete" or "failed"

vars == <<version, gaps, printed, outcome>>

Snapshots == (1..Ticks) \ gaps

\* No tick before t lacks its snapshot.
Gapless(t) == \A g \in gaps : g >= t

\* Snapshot b is the one recorded before t.
Before(b, t) ==
  b \in Snapshots /\ b < t /\ \A s \in Snapshots : s <= b \/ s >= t

Comparable ==
  {t \in Snapshots : t > 1 /\ Gapless(t) /\ version[t] = version[t - 1]}

Done == {printed[k].tick : k \in 1..Len(printed)}

Init ==
  /\ version \in [1..Ticks -> Versions]
  /\ gaps \subseteq 1..Ticks
  /\ printed = <<>>
  /\ outcome = "running"

Compare(t) ==
  /\ outcome = "running"
  /\ \A s \in Done : s < t
  /\ \A s \in Comparable : s < t => s \in Done
  /\ Gapless(t) => t \in Comparable
  /\ \E b \in Snapshots : Before(b, t) /\ printed' = Append(printed, [tick |-> t, base |-> b])
  /\ UNCHANGED <<version, gaps, outcome>>

End ==
  /\ outcome = "running"
  /\ outcome' \in IF Comparable \subseteq Done THEN {"complete", "failed"} ELSE {"failed"}
  /\ UNCHANGED <<version, gaps, printed>>

Next == End \/ \E t \in Snapshots : Compare(t)

Spec == Init /\ [][Next]_vars
=============================================================================
