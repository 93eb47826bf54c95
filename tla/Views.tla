--------------------------------- MODULE Views ---------------------------------
(***************************************************************************)
(* What pgcenter asks a server for, and how it reads the answer.  A view   *)
(* (view.New) pairs the query of a screen or a report with the numbers of  *)
(* the columns to compute rates of, to match rows by and to sort by.  The  *)
(* statistics views of PostgreSQL change between releases, and so          *)
(* Views.Configure chooses the query, and the numbers with it, by the      *)
(* version of the server.  "top" and "record" configure all views once;    *)
(* "report" configures the view it prints again for every version it meets *)
(* in the archive, and has no other option of the server than its version. *)
(*                                                                         *)
(* Columns are numbered from 0.  A query is abstracted to its columns: how *)
(* many, which one names the row, the block of those that hold a number,   *)
(* and the versions of the server that have what it selects from.          *)
(***************************************************************************)
EXTENDS Integers

\* Queries without a bound on the version, and an empty block of columns.
Always  == 0
Forever == 1000000
None    == <<0, 0>>

Query(cols, key, numbers, since, before) ==
  [cols |-> cols, key |-> key, numbers |-> numbers, since |-> since, before |-> before]

\* The versions pgcenter can connect to: it asks each server for its setting of
\* track_commit_timestamp, which 9.5 introduced.
Oldest   == 90500
Versions == {v \in Nat : Oldest <= v /\ v < Forever}

-----------------------------------------------------------------------------
(* The query texts                                                         *)

PgStatActivityDefault == Query(14, 0, None, 100000, Forever)
PgStatActivity96      == Query(13, 0, None, 90600, Forever)
PgStatActivity95      == Query(12, 0, None, Always, 90600)

PgStatReplicationDefault    == Query(15, 0, <<6, 11>>, 100000, Forever)
PgStatReplicationExtended   == Query(17, 0, <<6, 11>>, 100000, Forever)
PgStatReplication96         == Query(12, 0, <<6, 11>>, Always, 100000)
PgStatReplication96Extended == Query(14, 0, <<6, 12>>, 90500, 100000)

PgStatDatabaseGeneralDefault  == Query(19, 0, <<1, 17>>, 120000, Forever)
PgStatDatabaseGeneralPG11     == Query(18, 0, <<1, 16>>, Always, Forever)
PgStatDatabaseSessionsDefault == Query(12, 0, <<5, 11>>, 140000, Forever)

PgStatTablesDefault    == Query(19, 0, <<1, 18>>, Always, Forever)
PgStatIndexesDefault   == Query(6, 0, <<1, 5>>, Always, Forever)
PgTablesSizesDefault   == Query(12, 0, <<1, 11>>, Always, Forever)
PgStatFunctionsDefault == Query(8, 0, <<2, 3>>, Always, Forever)

PgStatWALPG14    == Query(11, 0, <<2, 9>>, 140000, 180000)
PgStatWALDefault == Query(7, 0, <<2, 5>>, 140000, Forever)

PgStatBgwriterPG14 == Query(12, 0, <<1, 10>>, Always, 170000)
PgStatBgwriterPG17 == Query(13, 0, <<1, 11>>, 170000, Forever)
PgStatBgwriterPG18 == Query(14, 0, <<1, 12>>, 180000, Forever)

PgStatReplicationSlots == Query(15, 0, <<6, 13>>, 140000, Forever)

PgStatIOPG16 == Query(16, 0, <<4, 14>>, 160000, 180000)
PgStatIOPG18 == Query(16, 0, <<4, 14>>, 180000, Forever)
PgStatIOTime == Query(10, 0, <<4, 8>>, 160000, Forever)

PgStatStatementsTimingPG12     == Query(13, 11, <<6, 10>>, Always, 130000)
PgStatStatementsTimingPG13     == Query(13, 11, <<6, 10>>, 130000, 170000)
PgStatStatementsTimingDefault  == Query(13, 11, <<6, 10>>, 170000, Forever)
PgStatStatementsGeneralDefault == Query(8, 6, <<2, 5>>, Always, Forever)
PgStatStatementsIoDefault      == Query(13, 11, <<2, 10>>, Always, Forever)
PgStatStatementsTempDefault    == Query(9, 7, <<2, 6>>, Always, Forever)
PgStatStatementsLocalDefault   == Query(13, 11, <<2, 10>>, Always, Forever)
PgStatStatementsWalDefault     == Query(9, 7, <<2, 6>>, 130000, Forever)
PgStatStatementsJITPG15        == Query(13, 11, <<6, 10>>, 150000, Forever)
PgStatStatementsJITDefault     == Query(15, 13, <<7, 12>>, 170000, Forever)

PgStatProgressVacuumDefault      == Query(13, 0, <<10, 11>>, 90600, Forever)
PgStatProgressClusterDefault     == Query(13, 0, <<10, 11>>, 120000, Forever)
PgStatProgressCopyDefault        == Query(14, 0, None, 140000, Forever)
PgStatProgressCreateIndexDefault == Query(14, 0, None, 120000, Forever)
PgStatProgressAnalyzeDefault     == Query(12, 0, None, 130000, Forever)
PgStatProgressBasebackupDefault  == Query(11, 0, <<9, 9>>, 130000, Forever)

\* The answer to this one has 7 columns; BuildProcPidResult joins it with procfs
\* and returns all 19, also where procfs can not be read.
PgStatActivityProcPidStat == Query(19, 0, None, 90600, Forever)

-----------------------------------------------------------------------------
(* The choice by version                                                   *)

SelectStatActivityQuery(version) ==
  CASE version < 90600  -> [query |-> PgStatActivity95, ncols |-> 12]
    [] version >= 90600 /\ version < 100000 -> [query |-> PgStatActivity96, ncols |-> 13]
    [] version >= 100000 -> [query |-> PgStatActivityDefault, ncols |-> 14]

SelectStatReplicationQuery(version, track) ==
  IF version < 100000
    THEN IF track THEN [query |-> PgStatReplication96Extended, ncols |-> 14]
                  ELSE [query |-> PgStatReplication96, ncols |-> 12]
    ELSE IF track THEN [query |-> PgStatReplicationExtended, ncols |-> 17]
                  ELSE [query |-> PgStatReplicationDefault, ncols |-> 15]

SelectStatDatabaseGeneralQuery(version) ==
  IF version < 120000
    THEN [query |-> PgStatDatabaseGeneralPG11, ncols |-> 18, diff |-> <<2, 16>>]
    ELSE [query |-> PgStatDatabaseGeneralDefault, ncols |-> 19, diff |-> <<2, 17>>]

SelectStatWALQuery(version) ==
  IF version >= 180000
    THEN [query |-> PgStatWALDefault, ncols |-> 7, diff |-> <<2, 5>>]
    ELSE [query |-> PgStatWALPG14, ncols |-> 11, diff |-> <<2, 9>>]

SelectStatBgwriterQuery(version) ==
  CASE version >= 180000 -> [query |-> PgStatBgwriterPG18, ncols |-> 14, diff |-> <<6, 12>>]
    [] version >= 170000 /\ version < 180000 -> [query |-> PgStatBgwriterPG17, ncols |-> 13, diff |-> <<6, 11>>]
    [] version < 170000 -> [query |-> PgStatBgwriterPG14, ncols |-> 12, diff |-> <<3, 10>>]

SelectStatReplicationSlotsQuery ==
  [query |-> PgStatReplicationSlots, ncols |-> 15, diff |-> <<6, 13>>]

SelectStatIOQuery(version) ==
  [query |-> IF version >= 180000 THEN PgStatIOPG18 ELSE PgStatIOPG16, ncols |-> 16, diff |-> <<4, 14>>]

SelectStatIOTimeQuery == [query |-> PgStatIOTime, ncols |-> 10, diff |-> <<4, 8>>]

SelectStatStatementsTimingQuery(version) ==
  CASE version < 130000 -> PgStatStatementsTimingPG12
    [] version >= 170000 -> PgStatStatementsTimingDefault
    [] version >= 130000 /\ version < 170000 -> PgStatStatementsTimingPG13

SelectStatStatementsJITQuery(version) ==
  IF version >= 170000
    THEN [query |-> PgStatStatementsJITDefault, ncols |-> 15, diff |-> <<7, 12>>, key |-> 13]
    ELSE [query |-> PgStatStatementsJITPG15, ncols |-> 13, diff |-> <<6, 10>>, key |-> 11]

-----------------------------------------------------------------------------
(* The views                                                               *)

View(min, query, diff, ncols, key, order) ==
  [min |-> min, query |-> query, diff |-> diff, ncols |-> ncols, key |-> key, order |-> order]

ServerViews ==
  [activity     |-> View(0, PgStatActivityDefault, None, 14, 0, 0),
   replication  |-> View(0, PgStatReplicationDefault, <<6, 6>>, 15, 0, 0),
   wal          |-> View(140000, PgStatWALPG14, <<2, 9>>, 11, 0, 0),
   bgwriter     |-> View(140000, PgStatBgwriterPG14, <<3, 10>>, 12, 0, 0),
   replslots    |-> View(140000, PgStatReplicationSlots, <<6, 13>>, 15, 0, 4),
   stat_io      |-> View(160000, PgStatIOPG16, <<4, 14>>, 16, 0, 4),
   stat_io_time |-> View(160000, PgStatIOTime, <<4, 8>>, 10, 0, 4),
   procpidstat  |-> View(0, PgStatActivityProcPidStat, None, 19, 0, 0)]

ObjectViews ==
  [databases_general  |-> View(0, PgStatDatabaseGeneralDefault, <<2, 17>>, 18, 0, 0),
   databases_sessions |-> View(140000, PgStatDatabaseSessionsDefault, <<5, 11>>, 12, 0, 0),
   tables             |-> View(0, PgStatTablesDefault, <<1, 18>>, 19, 0, 0),
   indexes            |-> View(0, PgStatIndexesDefault, <<1, 5>>, 6, 0, 0),
   sizes              |-> View(0, PgTablesSizesDefault, <<7, 11>>, 12, 0, 0),
   functions          |-> View(0, PgStatFunctionsDefault, <<3, 3>>, 8, 0, 0)]

StatementViews ==
  [statements_timings |-> View(0, PgStatStatementsTimingPG13, <<6, 10>>, 13, 11, 0),
   statements_general |-> View(0, PgStatStatementsGeneralDefault, <<4, 5>>, 8, 6, 0),
   statements_io      |-> View(0, PgStatStatementsIoDefault, <<6, 10>>, 13, 11, 0),
   statements_jit     |-> View(150000, PgStatStatementsJITPG15, <<6, 10>>, 13, 11, 2),
   statements_temp    |-> View(0, PgStatStatementsTempDefault, <<4, 6>>, 9, 7, 0),
   statements_local   |-> View(0, PgStatStatementsLocalDefault, <<6, 10>>, 13, 11, 0),
   statements_wal     |-> View(130000, PgStatStatementsWalDefault, <<3, 6>>, 9, 7, 0)]

ProgressViews ==
  [progress_vacuum     |-> View(90600, PgStatProgressVacuumDefault, <<10, 11>>, 13, 0, 0),
   progress_cluster    |-> View(120000, PgStatProgressClusterDefault, <<10, 11>>, 13, 0, 0),
   progress_copy       |-> View(140000, PgStatProgressCopyDefault, None, 14, 0, 0),
   progress_index      |-> View(120000, PgStatProgressCreateIndexDefault, None, 14, 0, 0),
   progress_analyze    |-> View(130000, PgStatProgressAnalyzeDefault, None, 12, 0, 0),
   progress_basebackup |-> View(130000, PgStatProgressBasebackupDefault, <<9, 9>>, 11, 0, 0)]

Names == DOMAIN ServerViews \cup DOMAIN ObjectViews \cup DOMAIN StatementViews \cup DOMAIN ProgressViews

New ==
  [name \in Names |->
     CASE name \in DOMAIN ServerViews    -> ServerViews[name]
       [] name \in DOMAIN ObjectViews    -> ObjectViews[name]
       [] name \in DOMAIN StatementViews -> StatementViews[name]
       [] name \in DOMAIN ProgressViews  -> ProgressViews[name]]

-----------------------------------------------------------------------------
(* Configuring                                                             *)

\* What a choice says replaces what the view said.
With2(view, c) == View(view.min, c.query, view.diff, c.ncols, view.key, view.order)
With3(view, c) == View(view.min, c.query, c.diff, c.ncols, view.key, view.order)
With4(view, c) == View(view.min, c.query, c.diff, c.ncols, c.key, view.order)

Configured(name, view, opts) ==
  CASE name = "activity"           -> With2(view, SelectStatActivityQuery(opts.version))
    [] name = "replication"        -> With2(view, SelectStatReplicationQuery(opts.version, opts.track))
    [] name = "databases_general"  -> With3(view, SelectStatDatabaseGeneralQuery(opts.version))
    [] name = "statements_timings" -> [view EXCEPT !.query = SelectStatStatementsTimingQuery(opts.version)]
    [] name = "statements_jit"     -> With4(view, SelectStatStatementsJITQuery(opts.version))
    [] name = "wal"                -> With3(view, SelectStatWALQuery(opts.version))
    [] name = "bgwriter"           -> With3(view, SelectStatBgwriterQuery(opts.version))
    [] name = "replslots"          -> With3(view, SelectStatReplicationSlotsQuery)
    [] name = "stat_io"            -> With3(view, SelectStatIOQuery(opts.version))
    [] name = "stat_io_time"       -> With3(view, SelectStatIOTimeQuery)
    [] OTHER                       -> view

Configure(views, opts) == [name \in DOMAIN views |-> Configured(name, views[name], opts)]

VersionOK(view, version) == version >= view.min

\* The server's version, and its track_commit_timestamp.
Options == [version : Versions, track : BOOLEAN]

\* What "report" knows of the server an entry was recorded from.
ReportOptions(opts) == [opts EXCEPT !.track = FALSE]

-----------------------------------------------------------------------------
(* What is promised                                                        *)

Within(block, other) == other[1] <= block[1] /\ block[2] <= other[2]
Outside(column, block) == block = None \/ column < block[1] \/ column > block[2]

\* The numbers of a view fit the answer to its query: rates are computed of
\* columns that hold numbers, rows are matched by the column that names them and
\* is not itself turned into a rate, and the view knows how many columns there are.
Fits(view) ==
  /\ view.ncols = view.query.cols
  /\ view.diff = None \/ Within(view.diff, view.query.numbers)
  /\ view.key = view.query.key /\ Outside(view.key, view.diff)
  /\ view.order < view.ncols

\* The server has what the query selects from.
Answerable(view, version) == view.query.since <= version /\ version < view.query.before
=============================================================================
