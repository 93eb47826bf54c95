----------------------------- MODULE FsStatsProofs -----------------------------
(***************************************************************************)
(* What parseFilesystemStats returns is right for any number of mounts and *)
(* any choice of slow and stuck ones.  The argument: a timeout leaves one  *)
(* goroutine without a receiver for good, so a call in which one happened  *)
(* never gets past wg.Wait(); a call that returns had no timeout, and then *)
(* every answer was received by the turn of the loop that asked for it.    *)
(***************************************************************************)
EXTENDS FsStats, TLAPS

\* The loop counter never passes the number of mounts by more than one.
LoopInv ==
  /\ pc \in {"parse", "failed"} => mount = 1 /\ stats = <<>> /\ timedOut = {}
  /\ pc = "await" => mount <= mounts
  /\ pc \in {"join", "returned"} => mount = mounts + 1

\* Goroutines of mounts not reached yet have not been started, that of the
\* mount being asked has not been received from.
StartedInv ==
  /\ \A m \in AllMounts :
       m > mount \/ (m = mount /\ pc # "await") => reader[m] = "idle"
  /\ pc = "await" => reader[mount] \in {"statfs", "send"}
  /\ pc = "parse" => \A m \in AllMounts : reader[m] = "idle"

\* Without a timeout every goroutine of an earlier mount has been received
\* from by the right turn of the loop.
PromptInv ==
  timedOut = {} =>
    /\ \A m \in AllMounts : m < mount => reader[m] = "done"
    /\ \A k \in 1..Len(stats) : stats[k].mount = stats[k].from

\* After a timeout some goroutine of an earlier mount is not received from.
LateInv ==
  timedOut # {} => \E m \in 1..mounts : m < mount /\ reader[m] # "done"

\* The invariant of the loop: it holds initially and every step keeps it.
IInv == TypeOK /\ LoopInv /\ StartedInv /\ PromptInv /\ LateInv

\* Appending an element of the right type keeps the type of a sequence.
LEMMA AppendType ==
  ASSUME NEW S, NEW s \in Seq(S), NEW e \in S
  PROVE  Append(s, e) \in Seq(S)
  OBVIOUS

\* The initial state satisfies the invariant.
LEMMA InitInv == Init => IInv
<1> SUFFICES ASSUME Init PROVE IInv
  OBVIOUS
<1>1. TypeOK
  BY FsAssumption DEF Init, TypeOK, AllMounts
<1>2. LoopInv /\ StartedInv /\ PromptInv /\ LateInv
  BY FsAssumption DEF Init, LoopInv, StartedInv, PromptInv, LateInv, AllMounts
<1> QED
  BY <1>1, <1>2 DEF IInv

\* Every step of the loop and of the goroutines keeps the invariant.
LEMMA StepInv == IInv /\ [Next]_vars => IInv'
<1> SUFFICES ASSUME IInv, [Next]_vars PROVE IInv'
  OBVIOUS
<1> USE FsAssumption DEF AllMounts
<1>1. CASE ParseProcMounts
  BY <1>1 DEF ParseProcMounts, IInv, TypeOK, LoopInv, StartedInv, PromptInv, LateInv
<1>2. CASE Request
  BY <1>2 DEF Request, MoreMounts, IInv, TypeOK, LoopInv, StartedInv, PromptInv, LateInv
<1>3. CASE Timeout
  BY <1>3 DEF Timeout, IInv, TypeOK, LoopInv, StartedInv, PromptInv, LateInv
<1>4. CASE EndLoop
  BY <1>4 DEF EndLoop, MoreMounts, IInv, TypeOK, LoopInv, StartedInv, PromptInv, LateInv
<1>5. CASE Return
  BY <1>5 DEF Return, IInv, TypeOK, LoopInv, StartedInv, PromptInv, LateInv
<1>6. ASSUME NEW m \in AllMounts, Statfs(m) PROVE IInv'
  BY <1>6 DEF Statfs, IInv, TypeOK, LoopInv, StartedInv, PromptInv, LateInv
<1>7. ASSUME NEW m \in AllMounts, Receive(m) PROVE IInv'
  <2> USE <1>7
  <2>1. TypeOK'
    <3>1. mount \in AllMounts
      BY DEF Receive, IInv, TypeOK, LoopInv
    <3>2. stats' \in Seq([mount : AllMounts, from : AllMounts])
      <4>1. [mount |-> mount, from |-> m] \in [mount : AllMounts, from : AllMounts]
        BY <3>1
      <4>2. stats \in Seq([mount : AllMounts, from : AllMounts])
        BY DEF IInv, TypeOK
      <4>3. stats' \in {stats, Append(stats, [mount |-> mount, from |-> m])}
        BY DEF Receive
      <4> QED
        BY <4>1, <4>2, <4>3, AppendType
    <3> QED
      BY <3>1, <3>2 DEF Receive, IInv, TypeOK, LoopInv
  <2>2. LoopInv' /\ StartedInv'
    BY DEF Receive, IInv, TypeOK, LoopInv, StartedInv
  <2>3. PromptInv'
    <3> SUFFICES ASSUME timedOut' = {} PROVE PromptInv'
      BY DEF PromptInv
    <3>1. m = mount
      BY DEF Receive, IInv, TypeOK, LoopInv, StartedInv, PromptInv
    <3>2. \A k \in AllMounts : k < mount' => reader'[k] = "done"
      BY <3>1 DEF Receive, IInv, TypeOK, PromptInv
    <3>3. \A k \in 1..Len(stats') : stats'[k].mount = stats'[k].from
      <4>1. CASE Keeps(m)
        BY <3>1, <4>1 DEF Receive, IInv, TypeOK, PromptInv
      <4>2. CASE ~Keeps(m)
        BY <3>1, <4>2 DEF Receive, IInv, TypeOK, PromptInv
      <4> QED
        BY <4>1, <4>2
    <3> QED
      BY <3>2, <3>3 DEF PromptInv
  <2>4. LateInv'
    BY DEF Receive, IInv, TypeOK, LoopInv, StartedInv, LateInv
  <2> QED
    BY <2>1, <2>2, <2>3, <2>4 DEF IInv
<1>8. CASE UNCHANGED vars
  BY <1>8 DEF vars, IInv, TypeOK, LoopInv, StartedInv, PromptInv, LateInv
<1>9. CASE Finished
  BY <1>9, <1>8 DEF Finished
<1> QED
  BY <1>1, <1>2, <1>3, <1>4, <1>5, <1>6, <1>7, <1>8, <1>9 DEF Next

\* The invariant holds in every reachable state.
THEOREM Invariant == Spec => []IInv
  BY InitInv, StepInv, PTL DEF Spec

\* Every variable of parseFilesystemStats keeps its type.
THEOREM FsTypeCorrect == Spec => []TypeOK
<1>1. IInv => TypeOK
  BY DEF IInv
<1> QED
  BY <1>1, Invariant, PTL

\* parseFilesystemStats never returns once a statfs request has timed out: the
\* goroutine that was given up keeps wg.Wait() waiting.
THEOREM TimeoutNeverReturns == Spec => [](pc = "returned" => timedOut = {})
<1>1. ASSUME IInv /\ [Next]_vars, Return PROVE timedOut = {}
  BY <1>1, FsAssumption DEF Return, ReadersDone, IInv, TypeOK, LoopInv, LateInv
<1>2. Init => (pc = "returned" => timedOut = {})
  BY DEF Init
<1>3. IInv /\ [Next]_vars /\ (pc = "returned" => timedOut = {})
        => (pc = "returned" => timedOut = {})'
  <2> SUFFICES ASSUME IInv, [Next]_vars, pc = "returned" => timedOut = {},
                      pc' = "returned"
               PROVE  timedOut' = {}
    OBVIOUS
  <2>1. CASE Return
    BY <2>1, <1>1 DEF Return
  <2>2. CASE UNCHANGED vars
    BY <2>2 DEF vars
  <2>3. CASE \E m \in AllMounts : Statfs(m) \/ Receive(m)
    BY <2>3 DEF Statfs, Receive
  <2>4. CASE ParseProcMounts \/ Request \/ Timeout \/ EndLoop
    BY <2>4 DEF ParseProcMounts, Request, Timeout, EndLoop
  <2> QED
    BY <2>1, <2>2, <2>3, <2>4 DEF Next, Finished
<1> QED
  BY <1>2, <1>3, Invariant, PTL DEF Spec

\* A returned result holds every answer under the mount it was asked for.
THEOREM ReturnedAnswersOwn == Spec => []ReturnedOwn
<1>1. IInv /\ (pc = "returned" => timedOut = {}) => ReturnedOwn
  BY DEF IInv, PromptInv, ReturnedOwn
<1> QED
  BY <1>1, Invariant, TimeoutNeverReturns, PTL

\* No goroutine is left to send on the channel that is closed on return.
THEOREM NoSendOnClosedChannel == Spec => []NoSendAfterClose
<1>1. IInv /\ (pc = "returned" => timedOut = {}) => NoSendAfterClose
  BY FsAssumption DEF IInv, TypeOK, LoopInv, PromptInv, StartedInv, NoSendAfterClose, AllMounts
<1> QED
  BY <1>1, Invariant, TimeoutNeverReturns, PTL

\* Without a timeout the result holds, in the order of the mounts, what statfs
\* returned for those the loop is past.
CompleteInv ==
  timedOut = {} =>
    /\ {stats[k].from : k \in 1..Len(stats)} = {m \in 1..(mount - 1) : reply[m] = "ok"}
    /\ \A k \in 1..Len(stats) : stats[k].mount < mount
    /\ \A j, k \in 1..Len(stats) : j < k => stats[j].mount < stats[k].mount

\* What the loop appends when the answer of mount m is received.
LEMMA ReceiveComplete ==
  ASSUME IInv, CompleteInv, NEW m \in AllMounts, Receive(m)
  PROVE  CompleteInv'
<1> SUFFICES ASSUME timedOut = {} PROVE CompleteInv'
  BY DEF Receive, CompleteInv
<1> USE FsAssumption DEF AllMounts
<1>1. /\ m = mount /\ mount \in 1..mounts /\ mounts \in Nat
      /\ mount' = mount + 1 /\ UNCHANGED <<mounts, reply, timedOut>>
      /\ stats \in Seq([mount : AllMounts, from : AllMounts]) /\ Len(stats) \in Nat
  <2>1. ~(m < mount) /\ ~(m > mount)
    BY DEF Receive, IInv, TypeOK, PromptInv, StartedInv
  <2> QED
    BY <2>1 DEF Receive, IInv, TypeOK, LoopInv
<1>2. /\ {stats[k].from : k \in 1..Len(stats)} = {x \in 1..(mount - 1) : reply[x] = "ok"}
      /\ \A k \in 1..Len(stats) : stats[k].mount < mount
      /\ \A j, k \in 1..Len(stats) : j < k => stats[j].mount < stats[k].mount
  BY DEF CompleteInv
<1>3. \A k \in 1..Len(stats) : stats[k].mount \in Nat /\ stats[k].mount < mount'
  <2> SUFFICES ASSUME NEW k \in 1..Len(stats)
               PROVE  stats[k].mount \in Nat /\ stats[k].mount < mount'
    OBVIOUS
  <2>1. stats[k] \in [mount : AllMounts, from : AllMounts]
    <3> DEFINE R == [mount : AllMounts, from : AllMounts]
    <3>1. stats \in Seq(R)
      BY <1>1
    <3> HIDE DEF R
    <3>2. stats[k] \in R
      BY <3>1
    <3> QED
      BY <3>2 DEF R
  <2>2. stats[k].mount \in Nat /\ mount \in Nat
    BY <1>1, <2>1
  <2> QED
    BY <1>1, <1>2, <2>2
<1>4. CASE Keeps(m)
  <2> DEFINE e == [mount |-> mount, from |-> m]
  <2>1. stats' = Append(stats, e) /\ reply[mount] = "ok"
    BY <1>1, <1>4 DEF Receive, Keeps
  <2>2. /\ Len(stats') = Len(stats) + 1 /\ stats'[Len(stats) + 1] = e
        /\ \A k \in 1..Len(stats) : stats'[k] = stats[k]
    <3> DEFINE R == [mount : AllMounts, from : AllMounts]
    <3>1. stats \in Seq(R)
      BY <1>1
    <3> HIDE DEF R, e
    <3> QED
      BY <2>1, <3>1
  <2>3. e.mount = mount /\ e.from = mount
    BY <1>1
  <2> HIDE DEF e
  <2>4. Len(stats) \in Nat /\ Len(stats') = Len(stats) + 1
    BY <1>1, <2>2
  <2>5. \A k \in 1..Len(stats') : k = Len(stats) + 1 \/ k \in 1..Len(stats)
    <3> DEFINE n == Len(stats)  o == Len(stats')
    <3>1. n \in Nat /\ o = n + 1
      BY <2>4
    <3> HIDE DEF n, o
    <3>2. \A k \in 1..o : k = n + 1 \/ k \in 1..n
      BY <3>1
    <3> QED
      BY <3>2 DEF n, o
  <2>6. {stats'[k].from : k \in 1..Len(stats')}
          = {stats[k].from : k \in 1..Len(stats)} \cup {mount}
    <3>1. 1..Len(stats') = (1..Len(stats)) \cup {Len(stats) + 1}
      BY <1>1, <2>2
    <3> QED
      BY <2>2, <2>3, <3>1
  <2>7. {x \in 1..(mount' - 1) : reply'[x] = "ok"}
          = {x \in 1..(mount - 1) : reply[x] = "ok"} \cup {mount}
    BY <1>1, <2>1
  <2>8. \A k \in 1..Len(stats') : stats'[k].mount < mount'
    <3> SUFFICES ASSUME NEW k \in 1..Len(stats') PROVE stats'[k].mount < mount'
      OBVIOUS
    <3>1. CASE k = Len(stats) + 1
      BY <1>1, <2>2, <2>3, <3>1
    <3>2. CASE k # Len(stats) + 1
      <4>1. k \in 1..Len(stats)
        BY <2>5, <3>2
      <4> QED
        BY <1>3, <2>2, <4>1
    <3> QED
      BY <3>1, <3>2
  <2>9. \A j, k \in 1..Len(stats') : j < k => stats'[j].mount < stats'[k].mount
    <3> SUFFICES ASSUME NEW j \in 1..Len(stats'), NEW k \in 1..Len(stats'), j < k
                 PROVE  stats'[j].mount < stats'[k].mount
      OBVIOUS
    <3>1. j \in 1..Len(stats)
      BY <1>1, <2>2
    <3>2. CASE k = Len(stats) + 1
      BY <1>2, <2>2, <2>3, <3>1, <3>2
    <3>3. CASE k # Len(stats) + 1
      <4>1. k \in 1..Len(stats)
        BY <2>5, <3>3
      <4> QED
        BY <1>2, <2>2, <3>1, <4>1
    <3> QED
      BY <3>2, <3>3
  <2> QED
    BY <1>2, <2>6, <2>7, <2>8, <2>9 DEF CompleteInv
<1>5. CASE ~Keeps(m)
  <2>1. stats' = stats /\ reply[mount] # "ok"
    BY <1>1, <1>5 DEF Receive, Keeps
  <2>2. {x \in 1..(mount' - 1) : reply'[x] = "ok"} = {x \in 1..(mount - 1) : reply[x] = "ok"}
    BY <1>1, <2>1
  <2> QED
    BY <1>2, <1>3, <2>1, <2>2 DEF CompleteInv
<1> QED
  BY <1>4, <1>5

LEMMA StepComplete ==
  ASSUME IInv, CompleteInv, [Next]_vars
  PROVE  CompleteInv'
<1>1. CASE UNCHANGED <<mount, reply, stats, timedOut>>
  BY <1>1 DEF CompleteInv
<1>2. CASE Timeout
  BY <1>2 DEF Timeout, CompleteInv
<1>3. ASSUME NEW m \in AllMounts, Statfs(m) PROVE CompleteInv'
  <2> SUFFICES ASSUME timedOut = {} PROVE CompleteInv'
    BY <1>3 DEF Statfs, CompleteInv
  <2>1. ~(m < mount) /\ mount \in Nat /\ m \in Nat
    BY <1>3, FsAssumption DEF Statfs, IInv, TypeOK, PromptInv, AllMounts
  <2>2. \A x \in 1..(mount - 1) : reply'[x] = reply[x]
    <3> SUFFICES ASSUME NEW x \in 1..(mount - 1) PROVE reply'[x] = reply[x]
      OBVIOUS
    <3>1. x # m /\ x \in AllMounts
      BY <2>1, FsAssumption DEF IInv, TypeOK, AllMounts
    <3> QED
      BY <1>3, <3>1 DEF Statfs, IInv, TypeOK
  <2>3. {x \in 1..(mount - 1) : reply'[x] = "ok"} = {x \in 1..(mount - 1) : reply[x] = "ok"}
    BY <2>2
  <2> QED
    BY <1>3, <2>3 DEF Statfs, CompleteInv
<1>4. ASSUME NEW m \in AllMounts, Receive(m) PROVE CompleteInv'
  BY <1>4, ReceiveComplete
<1>5. CASE ParseProcMounts \/ Request \/ EndLoop \/ Return \/ Finished \/ UNCHANGED vars
  BY <1>1, <1>5 DEF ParseProcMounts, Request, EndLoop, Return, Finished, vars
<1> QED
  BY <1>2, <1>3, <1>4, <1>5 DEF Next

\* A returned result holds every mount whose statfs succeeded, in the order of
\* /proc/mounts, and no other.
THEOREM ReturnedAll == Spec => []ReturnedComplete
<1>1. Init => CompleteInv
  BY DEF Init, CompleteInv
<1>2. IInv /\ CompleteInv /\ (pc = "returned" => timedOut = {}) => ReturnedComplete
  BY FsAssumption DEF IInv, TypeOK, LoopInv, CompleteInv, ReturnedComplete
<1> QED
  BY <1>1, <1>2, StepComplete, Invariant, TimeoutNeverReturns, PTL DEF Spec
=============================================================================
