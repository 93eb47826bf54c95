------------------------------ MODULE MCCollector ------------------------------
(***************************************************************************)
(* Overview, and Collector below it, on a small instance.  The parts of    *)
(* Update share their pacing, the verbose mode and the steps that may      *)
(* fail; what else happens to each of them is tried in a world of its own. *)
(***************************************************************************)
EXTENDS Overview

CONSTANT p1  \* a backend

MCPids == {p1}

\* The number of devices changes.
Hotplug == [counts |-> {1, 2}, silent |-> {}, pids |-> {}, enrich |-> {FALSE},
            latencies |-> {0}, failing |-> {}]

\* A backend comes and goes, and its procfs files are readable or not.
Backends == [counts |-> {1}, silent |-> {}, pids |-> {p1}, enrich |-> BOOLEAN,
             latencies |-> {0}, failing |-> {}]

\* Queries of the overview fail, and the one of the sizes may be slow.
Troubled == [counts |-> {1}, silent |-> {}, pids |-> {}, enrich |-> {FALSE},
             latencies |-> {0, 3}, failing |-> {"workload", "size"}]

\* A source is not readable for the verbose rows.
Unreadable == [counts |-> {1}, silent |-> {"disk"}, pids |-> {}, enrich |-> {FALSE},
               latencies |-> {0}, failing |-> {}]

MCWorlds == {Hotplug, Backends, Troubled, Unreadable}
================================================================================
