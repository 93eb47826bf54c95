------------------------------ MODULE MCRecorder ------------------------------
\* A small instance of Recorder: a local server too old for one of the views and
\* without pg_stat_statements, and a new and an old one elsewhere.
\* The version a view needs is the one view.New names.
EXTENDS Recorder

Table == INSTANCE Views

MCServers ==
  {[version |-> 120000, pgss |-> FALSE, local |-> TRUE],
   [version |-> 160000, pgss |-> TRUE, local |-> FALSE],
   [version |-> 120000, pgss |-> TRUE, local |-> FALSE]}

MCMinVersion == [v \in {"procpidstat", "statements_wal"} |-> Table!New[v].min]
=============================================================================
