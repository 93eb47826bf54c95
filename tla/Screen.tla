-------------------------------- MODULE Screen --------------------------------
(***************************************************************************)
(* The main table of pgcenter top: the view the user looks at, the         *)
(* settings kept for every other view, and what the keys and the batches   *)
(* of statistics do to them.  All of it happens on the goroutine of the    *)
(* user interface, one event at a time; but a batch is shown by a closure  *)
(* that waits in a queue without order, so that it may be shown when the   *)
(* user has already gone on to another view.                               *)
(***************************************************************************)
EXTENDS Columns, Sequences

CONSTANTS
  Views,       \* names of the views
  FirstView,   \* the one shown first
  ProcPid,     \* the view of per-process statistics
  SysViews,    \* the views of tables, indexes and sizes
  Groups,      \* views that share a key, each group in the order of the key
  Ncols,       \* number of columns of a view
  Shapes,      \* widths SetAlign may compute for a result of a view
  NameLen,     \* length of a column name
  Step,        \* colsWidthStep
  MaxWidth,    \* colsWidthMax
  TermWidth,   \* width of the terminal
  MaxKeys,     \* bound: keys pressed
  MaxBatches,  \* bound: batches received
  MaxPend      \* bound: batches that wait to be shown

ASSUME ScreenAssumption ==
  /\ FirstView \in Views /\ ProcPid \in Views /\ SysViews \subseteq Views
  /\ Groups \subseteq Seq(Views) \ {<<>>}
  /\ Ncols \in [Views -> Nat \ {0}]
  /\ \A v \in Views : Shapes[v] \subseteq [0..(Ncols[v] - 1) -> Nat \ {0}]
  /\ NameLen \in Nat \ {0} /\ Step \in Nat \ {0} /\ MaxWidth \in Nat \ {0} /\ TermWidth \in Nat
  /\ MaxKeys \in Nat /\ MaxBatches \in Nat /\ MaxPend \in Nat

VARIABLES
  name,          \* config.view.Name
  view,          \* the settings in config.view
  views,         \* the settings in config.views
  shared,        \* the map config.view.ColsWidth is the one in config.views
  all,           \* queryOptions.ViewType: system tables are shown, too
  scrollOffset,
  pending,       \* batches that wait to be shown
  ui,            \* "running", "failed" (it is built anew) or "panicked"
  shown,         \* the last frame
  local,         \* Postgres runs on this host
  keys, batches, \* counted against the bounds
  chosen         \* history: the order the user has chosen for a view

table  == <<name, view, views, shared, all>>
bounds == <<keys, batches>>
vars   == <<table, scrollOffset, pending, ui, shown, local, bounds, chosen>>

ColumnsOf(v) == 0..(Ncols[v] - 1)

\* Settings of view.New; cols is the number of names in View.Cols.
NewSettings ==
  [order |-> 0, desc |-> TRUE, widths |-> <<>>, cols |-> 0, aligned |-> FALSE, all |-> FALSE]

NoFrame == [of |-> FirstView, in |-> FirstView, ok |-> TRUE, asked |-> 0,
            widths |-> <<>>, win |-> NoWindow]

Init ==
  /\ name = FirstView
  /\ view = NewSettings
  /\ views = [v \in Views |-> NewSettings]
  /\ shared = TRUE
  /\ all = FALSE
  /\ scrollOffset = 0
  /\ pending = {}
  /\ ui = "running"
  /\ shown = NoFrame
  /\ local \in BOOLEAN
  /\ keys = 0 /\ batches = 0
  /\ chosen = [v \in Views |-> <<0, TRUE>>]

-----------------------------------------------------------------------------
(* Keys                                                                    *)

Key ==
  /\ ui = "running"
  /\ keys < MaxKeys
  /\ keys' = keys + 1
  /\ UNCHANGED <<pending, shown, local, batches>>

\* The user changes the order of the current view.
Choose(order, desc) ==
  /\ Key
  /\ view' = [view EXCEPT !.order = order, !.desc = desc]
  /\ chosen' = [chosen EXCEPT ![name] = <<order, desc>>]
  /\ UNCHANGED <<name, views, shared, all, scrollOffset, ui>>

OrderKeyLeft ==
  Choose(IF view.order = 0 THEN Ncols[name] - 1 ELSE view.order - 1, view.desc)

NextColumn == IF view.order >= Ncols[name] - 1 THEN 0 ELSE view.order + 1

OrderKeyRight == Choose(NextColumn, view.desc)

SwitchSortOrder == Choose(view.order, ~view.desc)

WidthOf(c) == IF c \in DOMAIN view.widths THEN view.widths[c] ELSE 0

\* The map is written in place: the saved settings see it if they share it.
SetWidth(c, width) ==
  LET w == [i \in DOMAIN view.widths \cup {c} |-> IF i = c THEN width ELSE view.widths[i]]
  IN /\ view' = [view EXCEPT !.widths = w]
     /\ views' = IF shared THEN [views EXCEPT ![name].widths = w] ELSE views
     /\ UNCHANGED <<name, shared, all>>

IncreaseWidth ==
  /\ Key
  /\ SetWidth(view.order, Min({WidthOf(view.order) + Step, MaxWidth}))
  /\ UNCHANGED <<scrollOffset, ui, chosen>>

\* The name of the column is looked up among those of the last aligned result:
\* with none, or with a narrower one of another view, the program panics.
DecreaseWidth ==
  /\ Key
  /\ IF view.order < view.cols
     THEN SetWidth(view.order, Max({WidthOf(view.order) - Step, NameLen})) /\ UNCHANGED ui
     ELSE ui' = "panicked" /\ UNCHANGED table
  /\ UNCHANGED <<scrollOffset, chosen>>

ScrollLeft ==
  /\ Key
  /\ scrollOffset' = Max({scrollOffset - 1, 0})
  /\ UNCHANGED <<table, ui, chosen>>

ScrollRight ==
  /\ Key
  /\ scrollOffset' = scrollOffset + 1
  /\ UNCHANGED <<table, ui, chosen>>

\* Mutant: the current view is not saved.
Saved_Not == views

Saved == [views EXCEPT ![name] = view]

\* viewSwitchHandler
GoTo(v) ==
  /\ Key
  /\ views' = Saved
  /\ name' = v /\ view' = views'[v]
  /\ shared' = TRUE
  /\ scrollOffset' = 0
  /\ UNCHANGED <<all, ui, chosen>>

\* A key of its own, or an item of a menu.
SwitchViewTo == \E v \in Views \ {ProcPid} : GoTo(v)

\* databasesNextView, statioNextView, statementsNextView and progressNextView
NextOf(g) ==
  IF \E i \in 1..(Len(g) - 1) : g[i] = name
  THEN g[(CHOOSE i \in 1..(Len(g) - 1) : g[i] = name) + 1]
  ELSE g[1]

SwitchToNext == \E g \in Groups : GoTo(NextOf(g))

SwitchViewToProcPidStat ==
  /\ local
  /\ GoTo(ProcPid)

\* A remote Postgres: only the offset changes.
ProcPidStatRefused ==
  /\ ~local
  /\ Key
  /\ scrollOffset' = 0
  /\ UNCHANGED <<table, ui, chosen>>

Reformatted(v) == v \in SysViews

\* The settings of the current view are those saved when it was last left.
ToggleSysTables ==
  /\ name \in SysViews
  /\ Key
  /\ all' = ~all
  /\ views' = [v \in Views |-> IF Reformatted(v) THEN [views[v] EXCEPT !.all = ~all] ELSE views[v]]
  /\ view' = views'[name]
  /\ shared' = TRUE
  /\ chosen' = [chosen EXCEPT ![name] = <<view'.order, view'.desc>>]
  /\ UNCHANGED <<name, scrollOffset, ui>>

-----------------------------------------------------------------------------
(* Batches                                                                 *)

\* The collector sends a batch for the view it was last given.
Batch ==
  /\ ui = "running"
  /\ batches < MaxBatches
  /\ Cardinality(pending) < MaxPend
  /\ batches' = batches + 1
  /\ \E s \in Shapes[name] : pending' = pending \cup {[of |-> name, shape |-> s]}
  /\ UNCHANGED <<table, scrollOffset, ui, shown, local, keys, chosen>>

\* Mutant: the flag decides alone.
Consistent_Flag(b) == view.aligned

Consistent(b) == view.aligned /\ Cardinality(DOMAIN view.widths) = Ncols[b.of]

Align(b) ==
  IF Consistent(b)
  THEN UNCHANGED <<view, shared>>
  ELSE /\ view' = [view EXCEPT !.widths = b.shape, !.cols = Ncols[b.of], !.aligned = TRUE]
       /\ shared' = FALSE

Printed(win) == {0} \cup (win.first..win.last)

\* A value of a column without width cannot be printed: the frame fails, and
\* with it the user interface.
Show ==
  /\ ui = "running"
  /\ \E b \in pending :
       LET win == Window(Ncols[b.of], view'.widths, TermWidth, scrollOffset)
           ok  == \A c \in Printed(win) : c \in DOMAIN view'.widths /\ view'.widths[c] > 0
       IN /\ pending' = pending \ {b}
          /\ Align(b)
          /\ scrollOffset' = win.clamped
          /\ shown' = [of |-> b.of, in |-> name, ok |-> ok, asked |-> scrollOffset,
                       widths |-> view'.widths, win |-> win]
          /\ ui' = IF ok THEN "running" ELSE "failed"
  /\ UNCHANGED <<name, views, all, local, bounds, chosen>>

\* doWork builds the user interface again; the closures of the old one are lost.
Restart ==
  /\ ui = "failed"
  /\ ui' = "running"
  /\ pending' = {}
  /\ UNCHANGED <<table, scrollOffset, shown, local, bounds, chosen>>

Next ==
  \/ OrderKeyLeft \/ OrderKeyRight \/ SwitchSortOrder
  \/ IncreaseWidth \/ DecreaseWidth
  \/ ScrollLeft \/ ScrollRight
  \/ SwitchViewTo \/ SwitchToNext \/ SwitchViewToProcPidStat \/ ProcPidStatRefused
  \/ ToggleSysTables
  \/ Batch \/ Show \/ Restart

Spec == Init /\ [][Next]_vars

-----------------------------------------------------------------------------
Settings(v) == IF v = name THEN view ELSE views[v]

\* A view is found again with the order it was left with, whatever was done to
\* other views in between (a toggle of system tables goes back to the order
\* that was saved when the view was last left), and the views of relations show
\* system tables together or not at all.
SettingsKept ==
  /\ \A v \in Views : <<Settings(v).order, Settings(v).desc>> = chosen[v]
  /\ \A v \in SysViews : Settings(v).all = all

\* A batch of the view that is shown can always be printed: every column has a
\* width, even after batches of other views were aligned in this view.
OwnBatchPrinted == shown.of = shown.in => shown.ok

\* What a frame prints begins on the screen, together with the markers; a column
\* is hidden on the right only if it and its marker would begin behind it.
WindowFits ==
  LET n == Ncols[shown.of]
      win == shown.win
      markers == Cardinality({m \in {"left", "right"} : win[m]})
      start(c) == Cell(shown.widths, 0) + markers + Cells(n, shown.widths, win.first, c)
  IN n > 1 /\ win # NoWindow =>
       /\ win.first \in 1..n /\ win.last < n
       /\ \A c \in win.first..win.last : start(c) < TermWidth
       /\ win.right => start(win.last + 1) >= TermWidth

AtTheEnd == shown.asked > shown.win.clamped /\ shown.win.first <= shown.win.last

\* Scrolling as far as it goes shows the last column, on the views whose last
\* column is their widest one (activity and statements: the query).
WideLastReached ==
  LET n == Ncols[shown.of]
      w == shown.widths
  IN AtTheEnd /\ (\A c \in 1..(n - 1) : Cell(w, c) <= Cell(w, n - 1))
       => shown.win.last = n - 1 /\ ~shown.win.right
=============================================================================
