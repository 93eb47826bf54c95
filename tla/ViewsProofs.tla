------------------------------ MODULE ViewsProofs ------------------------------
(***************************************************************************)
(* The tables of views and queries fit each other for every version of the *)
(* server, not only for those a test names.  The argument is by cases: the *)
(* views Configure leaves alone, part by part, and one by one those it     *)
(* chooses a query for, with the thresholds of their selector.             *)
(***************************************************************************)
EXTENDS Views, TLAPS

\* The views Configure chooses a query for.
Chosen == {"activity", "replication", "databases_general", "statements_timings", "statements_jit",
           "wal", "bgwriter", "replslots", "stat_io", "stat_io_time"}

\* Configure leaves the other views as they are.
LEMMA LeftAlone ==
  ASSUME NEW name, name \notin Chosen, NEW view, NEW opts
  PROVE  Configured(name, view, opts) = view
BY DEF Configured, Chosen

\* What Configure makes of a view of New.
LEMMA OfNew ==
  ASSUME NEW name \in Names, NEW opts
  PROVE  Configure(New, opts)[name] = Configured(name, New[name], opts)
BY DEF Configure, New

\* The views of New by the part of it they are in.
LEMMA PartsOfNew ==
  /\ \A name \in DOMAIN ServerViews : New[name] = ServerViews[name]
  /\ \A name \in DOMAIN ObjectViews : New[name] = ObjectViews[name]
  /\ \A name \in DOMAIN StatementViews : New[name] = StatementViews[name]
  /\ \A name \in DOMAIN ProgressViews : New[name] = ProgressViews[name]
<1>1. \A name \in DOMAIN ObjectViews : name \notin DOMAIN ServerViews
  BY DEF ServerViews, ObjectViews
<1>2. \A name \in DOMAIN StatementViews : name \notin DOMAIN ServerViews \cup DOMAIN ObjectViews
  BY DEF ServerViews, ObjectViews, StatementViews
<1>3. \A name \in DOMAIN ProgressViews : name \notin DOMAIN ServerViews \cup DOMAIN ObjectViews \cup DOMAIN StatementViews
  BY DEF ServerViews, ObjectViews, StatementViews, ProgressViews
<1> QED BY <1>1, <1>2, <1>3 DEF New, Names

\* The numbers of every view fit the answer of the query it is configured with,
\* whatever the version: an interval, a key or a number of columns left at its
\* value for another version would compute rates of texts, compare rows of
\* different things, or none at all (view.go:365, statements.go:344).
THEOREM LayoutsFit ==
  ASSUME NEW opts \in Options, NEW name \in Names
  PROVE  Fits(Configure(New, opts)[name])
<1> DEFINE view == Configure(New, opts)[name]
<1>0. opts.version \in Int /\ opts.track \in BOOLEAN
  BY DEF Options, Versions
<1>1. CASE name \in DOMAIN ServerViews \ Chosen
  <2>1. view = ServerViews[name]
    BY <1>1, OfNew, LeftAlone, PartsOfNew
  <2> QED BY <1>0, <1>1, <2>1 DEF Chosen, ServerViews,
      Fits, Within, Outside, None, Query, View, PgStatActivityProcPidStat
<1>2. CASE name \in DOMAIN ObjectViews \ Chosen
  <2>1. view = ObjectViews[name]
    BY <1>2, OfNew, LeftAlone, PartsOfNew
  <2> QED BY <1>0, <1>2, <2>1 DEF Chosen, ObjectViews,
      Fits, Within, Outside, None, Query, View, PgStatDatabaseSessionsDefault,
      PgStatTablesDefault, PgStatIndexesDefault, PgTablesSizesDefault,
      PgStatFunctionsDefault
<1>3. CASE name \in DOMAIN StatementViews \ Chosen
  <2>1. view = StatementViews[name]
    BY <1>3, OfNew, LeftAlone, PartsOfNew
  <2> QED BY <1>0, <1>3, <2>1 DEF Chosen, StatementViews,
      Fits, Within, Outside, None, Query, View, PgStatStatementsGeneralDefault,
      PgStatStatementsIoDefault, PgStatStatementsTempDefault, PgStatStatementsLocalDefault,
      PgStatStatementsWalDefault
<1>4. CASE name \in DOMAIN ProgressViews \ Chosen
  <2>1. view = ProgressViews[name]
    BY <1>4, OfNew, LeftAlone, PartsOfNew
  <2> QED BY <1>0, <1>4, <2>1 DEF Chosen, ProgressViews,
      Fits, Within, Outside, None, Query, View, PgStatProgressVacuumDefault,
      PgStatProgressClusterDefault, PgStatProgressCopyDefault,
      PgStatProgressCreateIndexDefault, PgStatProgressAnalyzeDefault,
      PgStatProgressBasebackupDefault
<1>5. CASE name = "activity"
  <2>1. New[name] = View(0, PgStatActivityDefault, None, 14, 0, 0)
    BY <1>5, PartsOfNew DEF ServerViews
  <2>2. view = With2(New[name], SelectStatActivityQuery(opts.version))
    BY <1>5, OfNew DEF Configured
  <2> QED BY <1>0, <2>1, <2>2 DEF
    Fits, Within, Outside, None, Query, View, With2, SelectStatActivityQuery,
    PgStatActivity95, PgStatActivity96, PgStatActivityDefault
<1>6. CASE name = "replication"
  <2>1. New[name] = View(0, PgStatReplicationDefault, <<6, 6>>, 15, 0, 0)
    BY <1>6, PartsOfNew DEF ServerViews
  <2>2. view = With2(New[name], SelectStatReplicationQuery(opts.version, opts.track))
    BY <1>6, OfNew DEF Configured
  <2> QED BY <1>0, <2>1, <2>2 DEF
    Fits, Within, Outside, None, Query, View, With2, SelectStatReplicationQuery,
    PgStatReplicationDefault, PgStatReplicationExtended, PgStatReplication96,
    PgStatReplication96Extended
<1>7. CASE name = "databases_general"
  <2>1. New[name] = View(0, PgStatDatabaseGeneralDefault, <<2, 17>>, 18, 0, 0)
    BY <1>7, PartsOfNew DEF ObjectViews
  <2>2. view = With3(New[name], SelectStatDatabaseGeneralQuery(opts.version))
    BY <1>7, OfNew DEF Configured
  <2> QED BY <1>0, <2>1, <2>2 DEF
    Fits, Within, Outside, None, Query, View, With3, SelectStatDatabaseGeneralQuery,
    PgStatDatabaseGeneralDefault, PgStatDatabaseGeneralPG11
<1>8. CASE name = "statements_timings"
  <2>1. New[name] = View(0, PgStatStatementsTimingPG13, <<6, 10>>, 13, 11, 0)
    BY <1>8, PartsOfNew DEF StatementViews
  <2>2. view = [New[name] EXCEPT !.query = SelectStatStatementsTimingQuery(opts.version)]
    BY <1>8, OfNew DEF Configured
  <2> QED BY <1>0, <2>1, <2>2 DEF
    Fits, Within, Outside, None, Query, View, SelectStatStatementsTimingQuery,
    PgStatStatementsTimingPG12, PgStatStatementsTimingPG13, PgStatStatementsTimingDefault
<1>9. CASE name = "statements_jit"
  <2>1. New[name] = View(150000, PgStatStatementsJITPG15, <<6, 10>>, 13, 11, 2)
    BY <1>9, PartsOfNew DEF StatementViews
  <2>2. view = With4(New[name], SelectStatStatementsJITQuery(opts.version))
    BY <1>9, OfNew DEF Configured
  <2> QED BY <1>0, <2>1, <2>2 DEF
    Fits, Within, Outside, None, Query, View, With4, SelectStatStatementsJITQuery,
    PgStatStatementsJITPG15, PgStatStatementsJITDefault
<1>10. CASE name = "wal"
  <2>1. New[name] = View(140000, PgStatWALPG14, <<2, 9>>, 11, 0, 0)
    BY <1>10, PartsOfNew DEF ServerViews
  <2>2. view = With3(New[name], SelectStatWALQuery(opts.version))
    BY <1>10, OfNew DEF Configured
  <2> QED BY <1>0, <2>1, <2>2 DEF
    Fits, Within, Outside, None, Query, View, With3, SelectStatWALQuery, PgStatWALPG14,
    PgStatWALDefault
<1>11. CASE name = "bgwriter"
  <2>1. New[name] = View(140000, PgStatBgwriterPG14, <<3, 10>>, 12, 0, 0)
    BY <1>11, PartsOfNew DEF ServerViews
  <2>2. view = With3(New[name], SelectStatBgwriterQuery(opts.version))
    BY <1>11, OfNew DEF Configured
  <2> QED BY <1>0, <2>1, <2>2 DEF
    Fits, Within, Outside, None, Query, View, With3, SelectStatBgwriterQuery,
    PgStatBgwriterPG14, PgStatBgwriterPG17, PgStatBgwriterPG18
<1>12. CASE name = "replslots"
  <2>1. New[name] = View(140000, PgStatReplicationSlots, <<6, 13>>, 15, 0, 4)
    BY <1>12, PartsOfNew DEF ServerViews
  <2>2. view = With3(New[name], SelectStatReplicationSlotsQuery)
    BY <1>12, OfNew DEF Configured
  <2> QED BY <1>0, <2>1, <2>2 DEF
    Fits, Within, Outside, None, Query, View, With3, SelectStatReplicationSlotsQuery,
    PgStatReplicationSlots
<1>13. CASE name = "stat_io"
  <2>1. New[name] = View(160000, PgStatIOPG16, <<4, 14>>, 16, 0, 4)
    BY <1>13, PartsOfNew DEF ServerViews
  <2>2. view = With3(New[name], SelectStatIOQuery(opts.version))
    BY <1>13, OfNew DEF Configured
  <2> QED BY <1>0, <2>1, <2>2 DEF
    Fits, Within, Outside, None, Query, View, With3, SelectStatIOQuery, PgStatIOPG16,
    PgStatIOPG18
<1>14. CASE name = "stat_io_time"
  <2>1. New[name] = View(160000, PgStatIOTime, <<4, 8>>, 10, 0, 4)
    BY <1>14, PartsOfNew DEF ServerViews
  <2>2. view = With3(New[name], SelectStatIOTimeQuery)
    BY <1>14, OfNew DEF Configured
  <2> QED BY <1>0, <2>1, <2>2 DEF
    Fits, Within, Outside, None, Query, View, With3, SelectStatIOTimeQuery, PgStatIOTime
<1>15. \/ name \in DOMAIN ServerViews \ Chosen
       \/ name \in DOMAIN ObjectViews \ Chosen
       \/ name \in DOMAIN StatementViews \ Chosen
       \/ name \in DOMAIN ProgressViews \ Chosen
       \/ name \in Chosen
  BY DEF Names
<1> HIDE DEF view
<1> QED BY <1>1, <1>2, <1>3, <1>4, <1>5, <1>6, <1>7, <1>8, <1>9, <1>10, <1>11, <1>12, <1>13, <1>14, <1>15 DEF Chosen

\* A view that is not refused for the version (VersionOK: by the collector, and
\* by "record" when it chooses what to record) is never asked of a server that
\* lacks what its query selects from.  The one exception is procpidstat, which
\* names no version and selects wait_event_type, a column of 9.6.
THEOREM QueriesAnswerable ==
  ASSUME NEW opts \in Options, NEW name \in Names
  PROVE  VersionOK(Configure(New, opts)[name], opts.version)
           => \/ Answerable(Configure(New, opts)[name], opts.version)
              \/ name = "procpidstat" /\ opts.version < 90600
<1> DEFINE view == Configure(New, opts)[name]
<1>0. opts.version \in Int /\ opts.track \in BOOLEAN /\ 90500 <= opts.version /\ opts.version < Forever
  BY DEF Options, Versions, Oldest
<1>1. CASE name \in DOMAIN ServerViews \ Chosen
  <2>1. view = ServerViews[name]
    BY <1>1, OfNew, LeftAlone, PartsOfNew
  <2> QED BY <1>0, <1>1, <2>1 DEF Chosen, ServerViews,
      Answerable, VersionOK, Always, Forever, Query, View, PgStatActivityProcPidStat
<1>2. CASE name \in DOMAIN ObjectViews \ Chosen
  <2>1. view = ObjectViews[name]
    BY <1>2, OfNew, LeftAlone, PartsOfNew
  <2> QED BY <1>0, <1>2, <2>1 DEF Chosen, ObjectViews,
      Answerable, VersionOK, Always, Forever, Query, View, PgStatDatabaseSessionsDefault,
      PgStatTablesDefault, PgStatIndexesDefault, PgTablesSizesDefault,
      PgStatFunctionsDefault
<1>3. CASE name \in DOMAIN StatementViews \ Chosen
  <2>1. view = StatementViews[name]
    BY <1>3, OfNew, LeftAlone, PartsOfNew
  <2> QED BY <1>0, <1>3, <2>1 DEF Chosen, StatementViews,
      Answerable, VersionOK, Always, Forever, Query, View, PgStatStatementsGeneralDefault,
      PgStatStatementsIoDefault, PgStatStatementsTempDefault, PgStatStatementsLocalDefault,
      PgStatStatementsWalDefault
<1>4. CASE name \in DOMAIN ProgressViews \ Chosen
  <2>1. view = ProgressViews[name]
    BY <1>4, OfNew, LeftAlone, PartsOfNew
  <2> QED BY <1>0, <1>4, <2>1 DEF Chosen, ProgressViews,
      Answerable, VersionOK, Always, Forever, Query, View, PgStatProgressVacuumDefault,
      PgStatProgressClusterDefault, PgStatProgressCopyDefault,
      PgStatProgressCreateIndexDefault, PgStatProgressAnalyzeDefault,
      PgStatProgressBasebackupDefault
<1>5. CASE name = "activity"
  <2>1. New[name] = View(0, PgStatActivityDefault, None, 14, 0, 0)
    BY <1>5, PartsOfNew DEF ServerViews
  <2>2. view = With2(New[name], SelectStatActivityQuery(opts.version))
    BY <1>5, OfNew DEF Configured
  <2> QED BY <1>0, <2>1, <2>2 DEF
    Answerable, VersionOK, Always, Forever, Query, View, With2, SelectStatActivityQuery,
    PgStatActivity95, PgStatActivity96, PgStatActivityDefault
<1>6. CASE name = "replication"
  <2>1. New[name] = View(0, PgStatReplicationDefault, <<6, 6>>, 15, 0, 0)
    BY <1>6, PartsOfNew DEF ServerViews
  <2>2. view = With2(New[name], SelectStatReplicationQuery(opts.version, opts.track))
    BY <1>6, OfNew DEF Configured
  <2> QED BY <1>0, <2>1, <2>2 DEF
    Answerable, VersionOK, Always, Forever, Query, View, With2, SelectStatReplicationQuery,
    PgStatReplicationDefault, PgStatReplicationExtended, PgStatReplication96,
    PgStatReplication96Extended
<1>7. CASE name = "databases_general"
  <2>1. New[name] = View(0, PgStatDatabaseGeneralDefault, <<2, 17>>, 18, 0, 0)
    BY <1>7, PartsOfNew DEF ObjectViews
  <2>2. view = With3(New[name], SelectStatDatabaseGeneralQuery(opts.version))
    BY <1>7, OfNew DEF Configured
  <2> QED BY <1>0, <2>1, <2>2 DEF
    Answerable, VersionOK, Always, Forever, Query, View, With3,
    SelectStatDatabaseGeneralQuery, PgStatDatabaseGeneralDefault, PgStatDatabaseGeneralPG11
<1>8. CASE name = "statements_timings"
  <2>1. New[name] = View(0, PgStatStatementsTimingPG13, <<6, 10>>, 13, 11, 0)
    BY <1>8, PartsOfNew DEF StatementViews
  <2>2. view = [New[name] EXCEPT !.query = SelectStatStatementsTimingQuery(opts.version)]
    BY <1>8, OfNew DEF Configured
  <2> QED BY <1>0, <2>1, <2>2 DEF
    Answerable, VersionOK, Always, Forever, Query, View, SelectStatStatementsTimingQuery,
    PgStatStatementsTimingPG12, PgStatStatementsTimingPG13, PgStatStatementsTimingDefault
<1>9. CASE name = "statements_jit"
  <2>1. New[name] = View(150000, PgStatStatementsJITPG15, <<6, 10>>, 13, 11, 2)
    BY <1>9, PartsOfNew DEF StatementViews
  <2>2. view = With4(New[name], SelectStatStatementsJITQuery(opts.version))
    BY <1>9, OfNew DEF Configured
  <2> QED BY <1>0, <2>1, <2>2 DEF
    Answerable, VersionOK, Always, Forever, Query, View, With4,
    SelectStatStatementsJITQuery, PgStatStatementsJITPG15, PgStatStatementsJITDefault
<1>10. CASE name = "wal"
  <2>1. New[name] = View(140000, PgStatWALPG14, <<2, 9>>, 11, 0, 0)
    BY <1>10, PartsOfNew DEF ServerViews
  <2>2. view = With3(New[name], SelectStatWALQuery(opts.version))
    BY <1>10, OfNew DEF Configured
  <2> QED BY <1>0, <2>1, <2>2 DEF
    Answerable, VersionOK, Always, Forever, Query, View, With3, SelectStatWALQuery,
    PgStatWALPG14, PgStatWALDefault
<1>11. CASE name = "bgwriter"
  <2>1. New[name] = View(140000, PgStatBgwriterPG14, <<3, 10>>, 12, 0, 0)
    BY <1>11, PartsOfNew DEF ServerViews
  <2>2. view = With3(New[name], SelectStatBgwriterQuery(opts.version))
    BY <1>11, OfNew DEF Configured
  <2> QED BY <1>0, <2>1, <2>2 DEF
    Answerable, VersionOK, Always, Forever, Query, View, With3, SelectStatBgwriterQuery,
    PgStatBgwriterPG14, PgStatBgwriterPG17, PgStatBgwriterPG18
<1>12. CASE name = "replslots"
  <2>1. New[name] = View(140000, PgStatReplicationSlots, <<6, 13>>, 15, 0, 4)
    BY <1>12, PartsOfNew DEF ServerViews
  <2>2. view = With3(New[name], SelectStatReplicationSlotsQuery)
    BY <1>12, OfNew DEF Configured
  <2> QED BY <1>0, <2>1, <2>2 DEF
    Answerable, VersionOK, Always, Forever, Query, View, With3,
    SelectStatReplicationSlotsQuery, PgStatReplicationSlots
<1>13. CASE name = "stat_io"
  <2>1. New[name] = View(160000, PgStatIOPG16, <<4, 14>>, 16, 0, 4)
    BY <1>13, PartsOfNew DEF ServerViews
  <2>2. view = With3(New[name], SelectStatIOQuery(opts.version))
    BY <1>13, OfNew DEF Configured
  <2> QED BY <1>0, <2>1, <2>2 DEF
    Answerable, VersionOK, Always, Forever, Query, View, With3, SelectStatIOQuery,
    PgStatIOPG16, PgStatIOPG18
<1>14. CASE name = "stat_io_time"
  <2>1. New[name] = View(160000, PgStatIOTime, <<4, 8>>, 10, 0, 4)
    BY <1>14, PartsOfNew DEF ServerViews
  <2>2. view = With3(New[name], SelectStatIOTimeQuery)
    BY <1>14, OfNew DEF Configured
  <2> QED BY <1>0, <2>1, <2>2 DEF
    Answerable, VersionOK, Always, Forever, Query, View, With3, SelectStatIOTimeQuery,
    PgStatIOTime
<1>15. \/ name \in DOMAIN ServerViews \ Chosen
       \/ name \in DOMAIN ObjectViews \ Chosen
       \/ name \in DOMAIN StatementViews \ Chosen
       \/ name \in DOMAIN ProgressViews \ Chosen
       \/ name \in Chosen
  BY DEF Names
<1> HIDE DEF view
<1> QED BY <1>1, <1>2, <1>3, <1>4, <1>5, <1>6, <1>7, <1>8, <1>9, <1>10, <1>11, <1>12, <1>13, <1>14, <1>15 DEF Chosen

\* Configuring views again forgets the version they were configured for before:
\* "report" may meet any number of versions in an archive, in any order, and
\* configures the same view each time (report.go:246).
THEOREM ConfigureForgets ==
  ASSUME NEW earlier \in Options, NEW opts \in Options
  PROVE  Configure(Configure(New, earlier), opts) = Configure(New, opts)
<1>1. ASSUME NEW name \in Names
      PROVE  Configured(name, Configured(name, New[name], earlier), opts) = Configured(name, New[name], opts)
  <2>1. CASE name \notin Chosen
    BY <2>1, LeftAlone
  <2>2. CASE name \in {"activity", "replication"}
    BY <2>2 DEF Configured, With2, View
  <2>3. CASE name \in {"databases_general", "wal", "bgwriter", "replslots", "stat_io", "stat_io_time"}
    BY <2>3 DEF Configured, With3, View
  <2>4. CASE name = "statements_timings"
    BY <2>4 DEF Configured
  <2>5. CASE name = "statements_jit"
    BY <2>5 DEF Configured, With4, View
  <2> QED BY <2>1, <2>2, <2>3, <2>4, <2>5 DEF Chosen
<1>2. DOMAIN New = Names
  BY DEF New
<1> QED BY <1>1, <1>2 DEF Configure

\* "report" computes the rates of the columns, and matches rows by the key, that
\* the view had when the entry was recorded, whatever versions it met before and
\* although it does not know the server's track_commit_timestamp (report.go:257).
THEOREM ReportReadsAsRecorded ==
  ASSUME NEW earlier \in Options, NEW opts \in Options, NEW name \in Names
  PROVE  LET printed  == Configure(Configure(New, ReportOptions(earlier)), ReportOptions(opts))[name]
             recorded == Configure(New, opts)[name]
         IN  printed.diff = recorded.diff /\ printed.key = recorded.key
<1>1. ReportOptions(earlier) \in Options /\ ReportOptions(opts) \in Options
  BY DEF ReportOptions, Options
<1>2. Configure(Configure(New, ReportOptions(earlier)), ReportOptions(opts)) = Configure(New, ReportOptions(opts))
  BY <1>1, ConfigureForgets
<1>3. ReportOptions(opts).version = opts.version
  BY DEF ReportOptions, Options
<1>4. CASE name = "replication"
  <2>1. Configured(name, New[name], ReportOptions(opts)).diff = New[name].diff
    BY <1>4 DEF Configured, With2, View
  <2>2. Configured(name, New[name], ReportOptions(opts)).key = New[name].key
    BY <1>4 DEF Configured, With2, View
  <2>3. Configured(name, New[name], opts).diff = New[name].diff /\ Configured(name, New[name], opts).key = New[name].key
    BY <1>4 DEF Configured, With2, View
  <2> QED BY <1>2, <2>1, <2>2, <2>3, OfNew
<1>5. CASE name # "replication"
  <2>1. Configured(name, New[name], ReportOptions(opts)) = Configured(name, New[name], opts)
    BY <1>3, <1>5 DEF Configured
  <2> QED BY <1>2, <2>1, OfNew
<1> QED BY <1>4, <1>5
=============================================================================
