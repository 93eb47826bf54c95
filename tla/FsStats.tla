-------------------------------- MODULE FsStats --------------------------------
(***************************************************************************)
(* parseFilesystemStats: the sizes of the mounted filesystems are asked    *)
(* for one by one.  Each statfs call runs in a goroutine of its own and    *)
(* answers on one unbuffered channel shared by all of them; the caller     *)
(* waits for an answer or for a timeout of 200 ms, goes on to the next     *)
(* mount, and at the end waits for every goroutine.                        *)
(***************************************************************************)
EXTENDS Integers, Sequences

CONSTANTS
  MaxMounts,   \* bound: mounted filesystems found in /proc/mounts
  Slow,        \* mounts whose statfs may take longer than the timeout
  Stuck        \* mounts whose statfs may never return

ASSUME FsAssumption ==
  /\ MaxMounts \in Nat
  /\ Slow \subseteq 1..MaxMounts
  /\ Stuck \subseteq Slow

VARIABLES
  pc,         \* where parseFilesystemStats is
  mounts,     \* number of real filesystems found
  mount,      \* the one being asked
  reader,     \* reader[m]: where the goroutine of mount m is
  reply,      \* reply[m]: what statfs returned for mount m
  stats,      \* the result: for which mount, and whose answer it holds
  timedOut    \* history: mounts whose answer was given up

vars == <<pc, mounts, mount, reader, reply, stats, timedOut>>

AllMounts == 1..MaxMounts

Init ==
  /\ pc = "parse"
  /\ mounts = 0
  /\ mount = 1
  /\ reader = [m \in AllMounts |-> "idle"]
  /\ reply = [m \in AllMounts |-> "none"]
  /\ stats = <<>>
  /\ timedOut = {}

\* parseProcMounts: pseudo filesystems are skipped, a malformed line is an error.
ParseProcMounts ==
  /\ pc = "parse"
  /\ \/ pc' = "failed" /\ UNCHANGED mounts
     \/ pc' = "loop" /\ mounts' \in 0..MaxMounts
  /\ UNCHANGED <<mount, reader, reply, stats, timedOut>>

\* Mutant: the loop runs one turn too many.
MoreMounts_OffByOne == mount <= mounts + 1

MoreMounts == mount <= mounts

\* One turn of the loop starts the goroutine of the next mount.
Request ==
  /\ pc = "loop"
  /\ MoreMounts
  /\ reader' = [reader EXCEPT ![mount] = "statfs"]
  /\ pc' = "await"
  /\ UNCHANGED <<mounts, mount, reply, stats, timedOut>>

\* Mutant: a failed statfs ends the goroutine without an answer.
Statfs_SilentError(m) ==
  /\ reader[m] = "statfs"
  /\ \E r \in {"ok", "err"} :
       /\ reply' = [reply EXCEPT ![m] = r]
       /\ reader' = [reader EXCEPT ![m] = IF r = "ok" THEN "send" ELSE "done"]
  /\ UNCHANGED <<pc, mounts, mount, stats, timedOut>>

\* readMountpointStat: statfs returns, its result or error is to be sent.
Statfs(m) ==
  /\ reader[m] = "statfs"
  /\ \E r \in {"ok", "err"} : reply' = [reply EXCEPT ![m] = r]
  /\ reader' = [reader EXCEPT ![m] = "send"]
  /\ UNCHANGED <<pc, mounts, mount, stats, timedOut>>

\* Mutant: an answer with an error is kept as well.
Keeps_Errors(m) == TRUE

Keeps(m) == reply[m] = "ok"

\* response := <-statCh: the answer of any goroutine that is ready to send,
\* entered under the mount being asked.
Receive(m) ==
  /\ pc = "await"
  /\ reader[m] = "send"
  /\ reader' = [reader EXCEPT ![m] = "done"]
  /\ stats' = IF Keeps(m) THEN Append(stats, [mount |-> mount, from |-> m])
                          ELSE stats
  /\ mount' = mount + 1
  /\ pc' = "loop"
  /\ UNCHANGED <<mounts, reply, timedOut>>

\* ctx.Done(): the mount is skipped, its goroutine goes on.
Timeout ==
  /\ pc = "await"
  /\ mount \in Slow
  /\ timedOut' = timedOut \cup {mount}
  /\ mount' = mount + 1
  /\ pc' = "loop"
  /\ UNCHANGED <<mounts, reader, reply, stats>>

EndLoop ==
  /\ pc = "loop"
  /\ ~MoreMounts
  /\ pc' = "join"
  /\ UNCHANGED <<mounts, mount, reader, reply, stats, timedOut>>

\* Mutant: the goroutines are not waited for.
ReadersDone_NoWait == TRUE

\* wg.Wait(): wg was incremented once for each mount before the loop.
ReadersDone == \A m \in 1..mounts : reader[m] = "done"

\* The channel is closed and the result returned.
Return ==
  /\ pc = "join"
  /\ ReadersDone
  /\ pc' = "returned"
  /\ UNCHANGED <<mounts, mount, reader, reply, stats, timedOut>>

Finished == pc \in {"failed", "returned"} /\ UNCHANGED vars

Next ==
  \/ ParseProcMounts \/ Request \/ Timeout \/ EndLoop \/ Return
  \/ \E m \in AllMounts : Statfs(m) \/ Receive(m)
  \/ Finished

Spec == Init /\ [][Next]_vars

\* The caller and the goroutines are scheduled; statfs returns except on a
\* mount that may be stuck.
Fairness ==
  /\ WF_vars(ParseProcMounts \/ Request \/ EndLoop \/ Return)
  /\ WF_vars(Timeout \/ \E m \in AllMounts : Receive(m))
  /\ \A m \in AllMounts \ Stuck : WF_vars(Statfs(m))

FairSpec == Spec /\ Fairness

-----------------------------------------------------------------------------
\* Every variable keeps its type.
TypeOK ==
  /\ pc \in {"parse", "loop", "await", "join", "returned", "failed"}
  /\ mounts \in 0..MaxMounts
  /\ mount \in 1..(mounts + 1)
  /\ reader \in [AllMounts -> {"idle", "statfs", "send", "done"}]
  /\ reply \in [AllMounts -> {"none", "ok", "err"}]
  /\ stats \in Seq([mount : AllMounts, from : AllMounts])
  /\ timedOut \subseteq AllMounts

\* Although a late answer may be entered under the wrong mount, a result that
\* is returned never holds one: every entry is the mount's own answer.
ReturnedOwn ==
  pc = "returned" => \A k \in 1..Len(stats) : stats[k].mount = stats[k].from

\* A result that is returned holds every mount statfs succeeded for, in the
\* order of /proc/mounts, and no other.
ReturnedComplete ==
  pc = "returned" =>
    /\ {stats[k].from : k \in 1..Len(stats)} = {m \in 1..mounts : reply[m] = "ok"}
    /\ \A j, k \in 1..Len(stats) : j < k => stats[j].mount < stats[k].mount

\* No goroutine is left that could send on the closed channel (and panic).
NoSendAfterClose ==
  pc = "returned" => \A m \in AllMounts : reader[m] \in {"idle", "done"}

\* As long as every answer comes in time the function returns, however many
\* requests fail.
ReturnsUnlessTimedOut == <>(pc \in {"failed", "returned"} \/ timedOut # {})

\* "In pessimistic cases, filesystem might stuck and requesting stats might
\* stuck too.  To avoid such situations wrap stats requests into context with
\* timeout": the function returns, whatever the filesystems do.
Returns == <>(pc \in {"failed", "returned"})
=============================================================================
