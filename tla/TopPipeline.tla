------------------------------ MODULE TopPipeline ------------------------------
(***************************************************************************)
(* The goroutines of "pgcenter top" and the three unbuffered channels      *)
(* between them:                                                           *)
(*                                                                         *)
(*   UI         mainLoop and the key handlers gocui runs on it;            *)
(*   doWork     one per UI generation: starts the collector, sends it the  *)
(*              first view, then hands every batch to the screen;          *)
(*   collector  collectStat, one per UI generation: collects, delivers on  *)
(*              statCh, waits for a tick or for a view on viewCh.          *)
(*                                                                         *)
(* viewCh and the configuration outlive a UI generation; statCh, the       *)
(* cancellation context and the collector's snapshots belong to one.  The  *)
(* contents of a batch are abstracted to the view it was collected for and *)
(* the view of the snapshot it was compared with.                          *)
(***************************************************************************)
EXTENDS Integers, Sequences, FiniteSets

CONSTANTS
  Views,       \* names of the views (screens) a user can switch between
  FirstView,   \* the view shown at start ("activity")
  NoView,      \* no view: an empty snapshot, a blank screen
  Answers,     \* the numbers a user may type into the refresh dialog
  Extras,      \* kinds of extra panels; 0 is CollectNone
  Keys,        \* the kinds of key presses the user makes
  Exits,       \* how MainLoop may end: "crash" and/or "program"
  Failures,    \* the collector's calls that may fail on their own
  MaxGen,      \* bound: number of UI generations
  MaxOrphanGen,\* bound: the same, once doWork has left a collector behind
  MaxPend      \* bound: screen updates queued in gocui

KeyKinds     == {"switch", "refresh", "extra", "verbose", "reload", "resend"}
UIPoints     == {"newgui", "loop", "handler", "dialog", "send", "exit", "program",
                 "wait", "stopped", "panicked"}
WorkPoints   == {"none", "assign", "enqueue", "send", "clear", "select",
                 "print", "join", "done"}
CollPoints   == {"none", "new", "recv", "first", "collect", "deliver", "wait",
                 "reset", "delivererr", "closed", "dead"}

ASSUME PipelineAssumption ==
  /\ FirstView \in Views
  /\ NoView \notin Views
  /\ Answers \subseteq Int
  /\ 0 \in Extras
  /\ Keys \subseteq KeyKinds
  /\ Exits \subseteq {"crash", "program"}
  /\ Failures \subseteq {"new", "first", "collect", "reset"}
  /\ MaxGen \in Nat \ {0}
  /\ MaxOrphanGen \in 0..MaxGen
  /\ MaxPend \in Nat \ {0}

DefaultRefresh == 1

\* Mutant: the upper bound of the dialog is forgotten.
ValidRefresh_NoUpper(i) == i >= 1

\* The range check of the refresh dialog.
ValidRefresh(i) == i \in 1..300

ChangeableTo == {i \in Answers : ValidRefresh(i)}

Refreshes == {0, DefaultRefresh} \cup (Answers \cap 1..300)

ViewRec   == [name : Views, refresh : Refreshes, extra : Extras, verbose : BOOLEAN]
Sender    == [from : {"ui", "work"}, gen : Nat, view : ViewRec, clear : BOOLEAN]
Batch     == [view : Views \cup {NoView}, base : Views \cup {NoView},
              kind : {"stat", "error", "zero"}]
Frame     == [view : Views \cup {NoView}, kind : {"stat", "error", "zero", "blank"}]

\* What collectStat and its Collector remember: the view in use, the interval,
\* the trackers of the render-only settings, the view the "current" snapshot
\* was taken for, and the batch being delivered.
CollState == [view : ViewRec, refresh : Refreshes, extra : Extras,
              verbose : BOOLEAN, snap : Views \cup {NoView}, out : Batch]

Gens == 1..MaxGen

\* What may go wrong between goroutines that no property below survives as a
\* whole: a handler wrote the interval of config.view before doWork was through
\* with it ("early"), doWork left a living collector behind ("orphan").
Mishaps == {"early", "orphan"}

VARIABLES
  ui,         \* where mainLoop (or the handler it is running) is
  gen,        \* UI generation; 0 before the first
  view,       \* config.view
  saved,      \* the Refresh field of config.views[name]
  sendq,      \* goroutines blocked sending on viewCh, first come first served
  cancelled,  \* cancelled[g]: the context of generation g is cancelled
  work,       \* work[g]: where doWork of generation g is
  got,        \* got[g]: the batch doWork received last
  cpc,        \* cpc[g]: where collectStat of generation g is
  coll,       \* coll[g]: what collectStat of generation g remembers
  pend,       \* batches handed to gocui's Update and not rendered yet
  frame,      \* what the main panel shows
  asked,      \* history: the refresh interval the user asked for last
  mishaps     \* history: what has gone wrong

vars == <<ui, gen, view, saved, sendq, cancelled, work, got, cpc, coll, pend,
          frame, asked, mishaps>>

ZeroBatch == [view |-> NoView, base |-> NoView, kind |-> "zero"]
Blank     == [view |-> NoView, kind |-> "blank"]
StartView == [name |-> FirstView, refresh |-> 0, extra |-> 0, verbose |-> FALSE]
NoColl    == [view |-> StartView, refresh |-> 0, extra |-> 0, verbose |-> FALSE,
              snap |-> NoView, out |-> ZeroBatch]

Init ==
  /\ ui = "newgui"
  /\ gen = 0
  /\ view = StartView
  /\ saved = [n \in Views |-> 0]
  /\ sendq = <<>>
  /\ cancelled = [g \in Gens |-> FALSE]
  /\ work = [g \in Gens |-> "none"]
  /\ got = [g \in Gens |-> ZeroBatch]
  /\ cpc = [g \in Gens |-> "none"]
  /\ coll = [g \in Gens |-> NoColl]
  /\ pend = {}
  /\ frame = Blank
  /\ asked = DefaultRefresh
  /\ mishaps = {}

Running == ui \notin {"stopped", "panicked"}

-----------------------------------------------------------------------------
(* UI: mainLoop                                                            *)

\* NewGui, layout and keybindings succeed: a new generation with an empty
\* screen; closures queued for the previous screen are never run.
StartUI ==
  /\ ui = "newgui"
  /\ gen < MaxGen
  /\ gen' = gen + 1
  /\ ui' = "loop"
  /\ work' = [work EXCEPT ![gen + 1] = "assign"]
  /\ pend' = {}
  /\ frame' = Blank
  /\ UNCHANGED <<view, saved, sendq, cancelled, got, cpc, coll, asked, mishaps>>

\* NewGui or keybindings fail: mainLoop returns and the program ends.
StartUIFails ==
  /\ ui = "newgui"
  /\ ui' = "stopped"
  /\ UNCHANGED <<gen, view, saved, sendq, cancelled, work, got, cpc, coll,
                 pend, frame, asked, mishaps>>

LastGen == IF "orphan" \in mishaps THEN MaxOrphanGen ELSE MaxGen

\* MainLoop returns an error other than ErrQuit: a handler, a closure or the
\* layout failed ("crash"), or an external program left a closed terminal.
\* errorRate.check either lets mainLoop go on to wait for doWork or ends the
\* program.  The rate itself is left out: either may happen.
MainLoopFails ==
  /\ \/ ui = "loop" /\ "crash" \in Exits
     \/ ui = "program"
  /\ cancelled' = [cancelled EXCEPT ![gen] = TRUE]
  /\ ui' \in IF gen < LastGen THEN {"wait", "stopped"} ELSE {"stopped"}
  /\ UNCHANGED <<gen, view, saved, sendq, work, got, cpc, coll, pend, frame, asked, mishaps>>

\* Mutant: the UI is restarted without waiting for doWork.
WorkFinished_NoWait == TRUE

\* wg.Wait() in mainLoop: go on once doWork has returned.
WorkFinished == work[gen] = "done"

Restart ==
  /\ ui = "wait"
  /\ WorkFinished
  /\ ui' = "newgui"
  /\ UNCHANGED <<gen, view, saved, sendq, cancelled, work, got, cpc, coll, pend,
                 frame, asked, mishaps>>

\* quit(): closes uiExit, the screen and the connection and ends the program.
Quit ==
  /\ ui = "loop"
  /\ cancelled' = [cancelled EXCEPT ![gen] = TRUE]
  /\ ui' = "stopped"
  /\ UNCHANGED <<gen, view, saved, sendq, work, got, cpc, coll, pend, frame, asked, mishaps>>

-----------------------------------------------------------------------------
(* UI: key handlers, all run on the goroutine of MainLoop                  *)

\* Keys are handled as soon as MainLoop runs, whatever doWork is at: it has been
\* started before, and spends its first send waiting for NewCollector's queries.
MayPress(kind) ==
  /\ ui = "loop"
  /\ kind \in Keys

\* doWork has lent its interval to config.view, or is about to.
Starting == {"assign", "enqueue", "send", "clear"}

\* The handler writes the interval of config.view; doWork may be using it.
WritesRefresh ==
  mishaps' = mishaps \cup (IF work[gen] \in Starting THEN {"early"} ELSE {})

\* Mutant: the interval is left in the view after the send.
ClearsRefresh_Forgotten == FALSE

\* changeRefresh clears the interval once its view was received.
ClearsRefresh == TRUE

\* config.viewCh <- config.view in a handler: the view is read now, some time
\* after the handler has changed it, and the send blocks until some collector
\* receives.  "clear" is the assignment config.view.Refresh = 0 that follows the
\* send of changeRefresh.
Notify ==
  /\ ui \in {"handler", "dialog"}
  /\ ui' = "send"
  /\ sendq' = Append(sendq, [from |-> "ui", gen |-> gen, view |-> view,
                            clear |-> ui = "dialog" /\ ClearsRefresh])
  /\ UNCHANGED <<gen, view, saved, cancelled, work, got, cpc, coll, pend, frame, asked, mishaps>>

\* viewSwitchHandler: the current view is saved under its name and the
\* requested one loaded.  switchViewToProcPidStat does the same to the fields
\* kept here (its CollectExtra field is a function of the name).
SwitchView(n) ==
  /\ MayPress("switch")
  /\ saved' = [saved EXCEPT ![view.name] = view.refresh]
  /\ view' = [view EXCEPT !.name = n,
                          !.refresh = IF n = view.name THEN @ ELSE saved[n]]
  /\ WritesRefresh
  /\ ui' = "handler"
  /\ UNCHANGED <<gen, sendq, cancelled, work, got, cpc, coll, pend, frame, asked>>

\* toggleSysTables: the current view is reloaded from config.views.
ReloadView ==
  /\ MayPress("reload")
  /\ view' = [view EXCEPT !.refresh = saved[view.name]]
  /\ WritesRefresh
  /\ ui' = "handler"
  /\ UNCHANGED <<gen, saved, sendq, cancelled, work, got, cpc, coll, pend, frame, asked>>

\* Handlers that change only what the collector does not branch on (sort key,
\* sort order, column width, scroll offset, query text) and send the view.
ResendView ==
  /\ MayPress("resend")
  /\ ui' = "handler"
  /\ UNCHANGED <<gen, view, saved, sendq, cancelled, work, got, cpc, coll, pend, frame, asked,
                 mishaps>>

\* changeRefresh: the interval is put into the view, to be sent and cleared again.
ChangeRefresh(i) ==
  /\ MayPress("refresh")
  /\ ValidRefresh(i)
  /\ view' = [view EXCEPT !.refresh = i]
  /\ asked' = i
  /\ WritesRefresh
  /\ ui' = "dialog"
  /\ UNCHANGED <<gen, saved, sendq, cancelled, work, got, cpc, coll, pend, frame>>

\* showExtra: opens the panel, or closes it when it is the one displayed; the
\* kind is mirrored into every view, hence kept once, in the current one.
ShowExtra(e) ==
  /\ MayPress("extra")
  /\ view' = [view EXCEPT !.extra = IF @ = e THEN 0 ELSE e]
  /\ ui' = "handler"
  /\ UNCHANGED <<gen, saved, sendq, cancelled, work, got, cpc, coll, pend, frame, asked, mishaps>>

\* toggleVerbose, mirrored into every view likewise.
ToggleVerbose ==
  /\ MayPress("verbose")
  /\ view' = [view EXCEPT !.verbose = ~@]
  /\ ui' = "handler"
  /\ UNCHANGED <<gen, saved, sendq, cancelled, work, got, cpc, coll, pend, frame, asked, mishaps>>

\* runPsql, showPgLog, showPgConfig, editPgConfig, printQueryReport: the
\* handler blocks in uiExit <- 1 until doWork takes it, then runs the program.
AskProgram ==
  /\ ui = "loop"
  /\ "program" \in Exits
  /\ ui' = "exit"
  /\ UNCHANGED <<gen, view, saved, sendq, cancelled, work, got, cpc, coll, pend,
                 frame, asked, mishaps>>

\* The rendezvous on uiExit: doWork returns at once, without waiting for the
\* collector it has started: if that lives on, it may take what is sent to the
\* next one.
RunProgram ==
  /\ ui = "exit"
  /\ work[gen] = "select"
  /\ work' = [work EXCEPT ![gen] = "done"]
  /\ ui' = "program"
  /\ mishaps' = mishaps \cup {"orphan"}
  /\ UNCHANGED <<gen, view, saved, sendq, cancelled, got, cpc, coll, pend, frame, asked>>

\* The closure printStat has queued runs on the UI goroutine.  Closures are
\* queued by goroutines of their own, so gocui may run them in any order.
Render(b) ==
  /\ ui = "loop"
  /\ b \in pend
  /\ pend' = pend \ {b}
  /\ frame' = [view |-> b.view, kind |-> b.kind]
  /\ UNCHANGED <<ui, gen, view, saved, sendq, cancelled, work, got, cpc, coll, asked, mishaps>>

-----------------------------------------------------------------------------
(* doWork                                                                  *)

\* Mutant: the default interval is not put into the view.
WorkAssign_NoDefault(g) ==
  /\ work[g] = "assign"
  /\ work' = [work EXCEPT ![g] = "enqueue"]
  /\ cpc' = [cpc EXCEPT ![g] = "new"]
  /\ asked' = DefaultRefresh
  /\ UNCHANGED <<ui, gen, view, saved, sendq, cancelled, got, coll, pend, frame, mishaps>>

\* The collector is started and the default interval put into the view.
WorkAssign(g) ==
  /\ work[g] = "assign"
  /\ work' = [work EXCEPT ![g] = "enqueue"]
  /\ cpc' = [cpc EXCEPT ![g] = "new"]
  /\ view' = [view EXCEPT !.refresh = DefaultRefresh]
  /\ asked' = DefaultRefresh
  /\ UNCHANGED <<ui, gen, saved, sendq, cancelled, got, coll, pend, frame, mishaps>>

\* viewCh <- config.view: the view is read now, the send blocks.
WorkEnqueue(g) ==
  /\ work[g] = "enqueue"
  /\ work' = [work EXCEPT ![g] = "send"]
  /\ sendq' = Append(sendq, [from |-> "work", gen |-> g, view |-> view, clear |-> FALSE])
  /\ UNCHANGED <<ui, gen, view, saved, cancelled, got, cpc, coll, pend, frame, asked, mishaps>>

\* config.view.Refresh = 0, whatever view is current by now.
WorkClear(g) ==
  /\ work[g] = "clear"
  /\ work' = [work EXCEPT ![g] = "select"]
  /\ view' = [view EXCEPT !.refresh = 0]
  /\ UNCHANGED <<ui, gen, saved, sendq, cancelled, got, cpc, coll, pend, frame, asked, mishaps>>

\* Receiving from a statCh its collector has closed yields the zero batch.
WorkReceiveClosed(g) ==
  /\ work[g] = "select"
  /\ cpc[g] = "closed"
  /\ work' = [work EXCEPT ![g] = "print"]
  /\ got' = [got EXCEPT ![g] = ZeroBatch]
  /\ UNCHANGED <<ui, gen, view, saved, sendq, cancelled, cpc, coll, pend, frame, asked, mishaps>>

\* Mutant: doWork waits until the UI goroutine is free to render.
WorkPrint_Synchronous(g) ==
  /\ work[g] = "print"
  /\ ui = "loop"
  /\ work' = [work EXCEPT ![g] = "select"]
  /\ pend' = {got[g]}
  /\ UNCHANGED <<ui, gen, view, saved, sendq, cancelled, got, cpc, coll, frame, asked, mishaps>>

\* printStat queues a closure on app.ui, the screen of the latest generation.
\* A full queue loses one of the frames it holds.
WorkPrint(g) ==
  /\ work[g] = "print"
  /\ work' = [work EXCEPT ![g] = "select"]
  /\ IF Cardinality(pend) < MaxPend
     THEN pend' = pend \cup {got[g]}
     ELSE \E b \in pend : pend' = (pend \ {b}) \cup {got[g]}
  /\ UNCHANGED <<ui, gen, view, saved, sendq, cancelled, got, cpc, coll, frame, asked, mishaps>>

\* ctx.Done() in the select of doWork.
WorkCancelled(g) ==
  /\ work[g] = "select"
  /\ cancelled[g]
  /\ work' = [work EXCEPT ![g] = "join"]
  /\ UNCHANGED <<ui, gen, view, saved, sendq, cancelled, got, cpc, coll, pend,
                 frame, asked, mishaps>>

\* Mutant: doWork does not wait for its collector.
CollFinished_NoWait(g) == TRUE

\* wg.Wait() in doWork: until collectStat has returned.
CollFinished(g) == cpc[g] \in {"closed", "dead"}

WorkJoin(g) ==
  /\ work[g] = "join"
  /\ CollFinished(g)
  /\ work' = [work EXCEPT ![g] = "done"]
  /\ UNCHANGED <<ui, gen, view, saved, sendq, cancelled, got, cpc, coll, pend,
                 frame, asked, mishaps>>

-----------------------------------------------------------------------------
(* The collector                                                           *)

Querying == {"new", "first", "collect", "reset"}

\* The one connection is shared: a query that overlaps with one of another
\* collector is refused by the driver ("conn busy").
ConnBusy(g) == \E h \in Gens \ {g} : cpc[h] \in Querying

MayFail(g, call) == call \in Failures \/ ConnBusy(g)

CollNew(g) ==
  /\ cpc[g] = "new"
  /\ cpc' = [cpc EXCEPT ![g] = "recv"]
  /\ UNCHANGED <<ui, gen, view, saved, sendq, cancelled, work, got, coll, pend,
                 frame, asked, mishaps>>

\* NewCollector or the first Update fail: collectStat returns, statCh stays open.
CollDies(g) ==
  /\ cpc[g] \in {"new", "first"}
  /\ MayFail(g, cpc[g])
  /\ cpc' = [cpc EXCEPT ![g] = "dead"]
  /\ UNCHANGED <<ui, gen, view, saved, sendq, cancelled, work, got, coll, pend,
                 frame, asked, mishaps>>

\* Completes the send of the first goroutine blocked on viewCh.
TakeView ==
  LET s == Head(sendq) IN
  /\ sendq # <<>>
  /\ sendq' = Tail(sendq)
  /\ ui' = IF s.from = "ui" THEN "loop" ELSE ui
  /\ work' = IF s.from = "work" THEN [work EXCEPT ![s.gen] = "clear"] ELSE work
  /\ view' = IF s.clear THEN [view EXCEPT !.refresh = 0] ELSE view

CollReceiveFirst(g) ==
  /\ cpc[g] = "recv"
  /\ TakeView
  /\ cpc' = [cpc EXCEPT ![g] = "first"]
  /\ LET v == Head(sendq).view IN
     coll' = [coll EXCEPT ![g] =
                [NoColl EXCEPT !.view = v, !.refresh = v.refresh,
                               !.extra = v.extra, !.verbose = v.verbose]]
  /\ UNCHANGED <<gen, saved, cancelled, got, pend, frame, asked, mishaps>>

\* The first Update prefills the snapshot; its result is dropped.
CollFirst(g) ==
  /\ cpc[g] = "first"
  /\ cpc' = [cpc EXCEPT ![g] = "collect"]
  /\ coll' = [coll EXCEPT ![g].snap = coll[g].view.name]
  /\ UNCHANGED <<ui, gen, view, saved, sendq, cancelled, work, got, pend, frame, asked, mishaps>>

\* A successful Update: the batch is compared with the previous snapshot,
\* whatever view that was taken for, and becomes the snapshot.
Collected(c) ==
  [c EXCEPT !.out = [view |-> c.view.name, base |-> c.snap, kind |-> "stat"],
            !.snap = c.view.name]

ErrorBatch(c) == [view |-> c.view.name, base |-> NoView, kind |-> "error"]

CollCollect(g) ==
  /\ cpc[g] = "collect"
  /\ cpc' = [cpc EXCEPT ![g] = "deliver"]
  /\ \/ coll' = [coll EXCEPT ![g] = Collected(coll[g])]
     \/ /\ MayFail(g, "collect")
        /\ coll' = [coll EXCEPT ![g].out = ErrorBatch(coll[g])]
  /\ UNCHANGED <<ui, gen, view, saved, sendq, cancelled, work, got, pend, frame, asked, mishaps>>

\* The rendezvous on statCh.
HandOver(g) ==
  /\ work[g] = "select"
  /\ work' = [work EXCEPT ![g] = "print"]
  /\ got' = [got EXCEPT ![g] = coll[g].out]

\* statCh <- stats succeeds; time.NewTicker panics on an interval of zero.
CollDeliver(g) ==
  /\ cpc[g] = "deliver"
  /\ HandOver(g)
  /\ cpc' = [cpc EXCEPT ![g] = "wait"]
  /\ ui' = IF coll[g].refresh = 0 THEN "panicked" ELSE ui
  /\ UNCHANGED <<gen, view, saved, sendq, cancelled, coll, pend, frame, asked, mishaps>>

\* Mutant: the send on statCh does not listen to ctx.Done().
CollCancelled_OnlyInWait(g) ==
  /\ cpc[g] = "wait"
  /\ cancelled[g]
  /\ cpc' = [cpc EXCEPT ![g] = "closed"]
  /\ UNCHANGED <<ui, gen, view, saved, sendq, cancelled, work, got, coll, pend,
                 frame, asked, mishaps>>

\* ctx.Done() in either select of collectStat: statCh is closed.
CollCancelled(g) ==
  /\ cpc[g] \in {"deliver", "wait"}
  /\ cancelled[g]
  /\ cpc' = [cpc EXCEPT ![g] = "closed"]
  /\ UNCHANGED <<ui, gen, view, saved, sendq, cancelled, work, got, coll, pend,
                 frame, asked, mishaps>>

CollTick(g) ==
  /\ cpc[g] = "wait"
  /\ cpc' = [cpc EXCEPT ![g] = "collect"]
  /\ UNCHANGED <<ui, gen, view, saved, sendq, cancelled, work, got, coll, pend,
                 frame, asked, mishaps>>

RefreshChanged(c, v) == v.refresh > 0 /\ v.refresh # c.refresh
ExtraChanged(c, v)   == v.extra # c.extra
VerboseChanged(c, v) == v.verbose # c.verbose

\* Mutant: no view resets the snapshots.
KeepsSnapshots_Always(c, v) == TRUE

\* A view that changes one of the render-only settings keeps the snapshots;
\* any other view, the same one sent again included, resets them.
KeepsSnapshots(c, v) == RefreshChanged(c, v) \/ ExtraChanged(c, v) \/ VerboseChanged(c, v)

\* Mutant: the tracker of the extra panel is not updated.
Adjust_ExtraNotTracked(c, v) ==
  [c EXCEPT !.view = v,
            !.refresh = IF RefreshChanged(c, v) THEN v.refresh ELSE @,
            !.verbose = IF ~RefreshChanged(c, v) /\ ~ExtraChanged(c, v)
                        THEN v.verbose ELSE @]

\* Mutant: the settings are taken over but not the view.
Adjust_ViewKept(c, v) ==
  [c EXCEPT !.refresh = IF RefreshChanged(c, v) THEN v.refresh ELSE @,
            !.extra = IF ~RefreshChanged(c, v) THEN v.extra ELSE @,
            !.verbose = IF ~RefreshChanged(c, v) /\ ~ExtraChanged(c, v)
                        THEN v.verbose ELSE @]

\* The view is taken over, and the first of the settings that has changed.
Adjust(c, v) ==
  [c EXCEPT !.view = v,
            !.refresh = IF RefreshChanged(c, v) THEN v.refresh ELSE @,
            !.extra = IF ~RefreshChanged(c, v) THEN v.extra ELSE @,
            !.verbose = IF ~RefreshChanged(c, v) /\ ~ExtraChanged(c, v)
                        THEN v.verbose ELSE @]

CollReceive(g) ==
  LET c == coll[g]
      v == Head(sendq).view
  IN
  /\ cpc[g] = "wait"
  /\ TakeView
  /\ \/ /\ KeepsSnapshots(c, v)
        /\ coll' = [coll EXCEPT ![g] = Adjust(c, v)]
        /\ cpc' = [cpc EXCEPT ![g] = "collect"]
     \/ /\ ~KeepsSnapshots(c, v)
        /\ coll' = [coll EXCEPT ![g] = [Adjust(c, v) EXCEPT !.snap = NoView]]
        /\ cpc' = [cpc EXCEPT ![g] = "reset"]
  /\ UNCHANGED <<gen, saved, cancelled, got, pend, frame, asked, mishaps>>

\* The Update that follows a Reset.  When it fails its error is sent without
\* listening to ctx.Done().
CollReset(g) ==
  /\ cpc[g] = "reset"
  /\ \/ /\ cpc' = [cpc EXCEPT ![g] = "collect"]
        /\ coll' = [coll EXCEPT ![g].snap = coll[g].view.name]
     \/ /\ MayFail(g, "reset")
        /\ cpc' = [cpc EXCEPT ![g] = "delivererr"]
        /\ coll' = [coll EXCEPT ![g].out = ErrorBatch(coll[g])]
  /\ UNCHANGED <<ui, gen, view, saved, sendq, cancelled, work, got, pend, frame, asked, mishaps>>

CollDeliverError(g) ==
  /\ cpc[g] = "delivererr"
  /\ HandOver(g)
  /\ cpc' = [cpc EXCEPT ![g] = "collect"]
  /\ UNCHANGED <<ui, gen, view, saved, sendq, cancelled, coll, pend, frame, asked, mishaps>>

-----------------------------------------------------------------------------
MainLoop == StartUI \/ StartUIFails \/ MainLoopFails \/ Restart \/ RunProgram

User ==
  \/ Quit
  \/ \E n \in Views : SwitchView(n)
  \/ \E i \in Answers : ChangeRefresh(i)
  \/ \E e \in Extras \ {0} : ShowExtra(e)
  \/ ReloadView \/ ResendView \/ ToggleVerbose \/ AskProgram
  \/ Notify

DoWork(g) ==
  \/ WorkAssign(g) \/ WorkEnqueue(g) \/ WorkClear(g) \/ WorkReceiveClosed(g)
  \/ WorkPrint(g) \/ WorkCancelled(g) \/ WorkJoin(g)

Collector(g) ==
  \/ CollNew(g) \/ CollDies(g) \/ CollReceiveFirst(g) \/ CollFirst(g)
  \/ CollCollect(g) \/ CollDeliver(g) \/ CollCancelled(g) \/ CollTick(g)
  \/ CollReceive(g) \/ CollReset(g) \/ CollDeliverError(g)

\* The process has ended; no goroutine is left.
Halted == ~Running /\ UNCHANGED vars

Next ==
  \/ /\ Running
     /\ \/ MainLoop
        \/ User
        \/ \E b \in pend : Render(b)
        \/ \E g \in Gens : DoWork(g) \/ Collector(g)
  \/ Halted

\* Goroutines are scheduled, queries and external programs return.  A select
\* with several ready cases picks one at random, so a case that is ready again
\* and again is eventually taken (SF).  Nobody is forced to press a key.
Fairness ==
  /\ WF_vars(Running /\ (StartUI \/ StartUIFails))
  /\ WF_vars(Running /\ Restart)
  /\ WF_vars(Running /\ Notify)
  /\ WF_vars(Running /\ ui = "program" /\ MainLoopFails)
  /\ SF_vars(Running /\ RunProgram)
  /\ SF_vars(Running /\ \E b \in pend : Render(b))
  /\ WF_vars(Running /\ \E g \in Gens : DoWork(g))
  /\ SF_vars(Running /\ \E g \in Gens : WorkCancelled(g))
  /\ WF_vars(Running /\ \E g \in Gens : Collector(g))
  /\ SF_vars(Running /\ \E g \in Gens : CollCancelled(g))
  /\ SF_vars(Running /\ \E g \in Gens : CollReceive(g))

Spec == Init /\ [][Next]_vars

FairSpec == Spec /\ Fairness

-----------------------------------------------------------------------------
(* Properties                                                              *)

\* Every variable keeps its type.
TypeOK ==
  /\ ui \in UIPoints
  /\ gen \in 0..MaxGen
  /\ view \in ViewRec
  /\ saved \in [Views -> Refreshes]
  /\ sendq \in Seq(Sender)
  /\ cancelled \in [Gens -> BOOLEAN]
  /\ work \in [Gens -> WorkPoints]
  /\ got \in [Gens -> Batch]
  /\ cpc \in [Gens -> CollPoints]
  /\ coll \in [Gens -> CollState]
  /\ pend \subseteq Batch
  /\ frame \in Frame
  /\ asked \in Refreshes
  /\ mishaps \subseteq Mishaps

\* The batch a closed statCh yields to doWork is never shown: mainLoop waits
\* for doWork before it replaces app.ui, so it can only be queued on a screen
\* that is gone.
NoZeroFrame == frame.kind # "zero"

\* Two collectors never query the one connection at the same time: a UI is
\* restarted only after the collector of the previous one has returned.  (Not so
\* after an external program: doWork has not waited for its collector then.)
OneQuerier ==
  "orphan" \notin mishaps =>
    \A g, h \in Gens : cpc[g] \in Querying /\ cpc[h] \in Querying => g = h

\* Deltas shown to the user are computed between two snapshots of one view: a
\* switch of views discards the snapshots before the next comparison.  (An early
\* switch may save the interval of doWork with the view: it comes back with the
\* view and is taken for a change of the interval, which discards nothing.)
DeltaOfOneView ==
  mishaps = {} =>
    \A g \in Gens :
      cpc[g] = "deliver" /\ coll[g].out.kind = "stat" =>
        coll[g].out.base \in {NoView, coll[g].out.view}

\* The current generation is up and no view is on its way to the collector.
Settled ==
  /\ ui = "loop"
  /\ sendq = <<>>
  /\ work[gen] \in {"select", "print"}

\* Between key presses the collector works for the view the user is looking
\* at, and its trackers agree with it, so that the next view is judged rightly,
\* whenever the keys were pressed.
CollectorFollows ==
  Settled /\ "orphan" \notin mishaps /\ cpc[gen] \in {"collect", "deliver", "wait", "reset"} =>
    /\ coll[gen].view.name = view.name
    /\ coll[gen].view.extra = view.extra /\ coll[gen].extra = view.extra
    /\ coll[gen].view.verbose = view.verbose /\ coll[gen].verbose = view.verbose

\* Between key presses the collector ticks with the interval asked for last, also
\* on a view that was left and is shown again ("Refresh interval should not be
\* saved as a per-view setting").  (An early switch does save it.)
RefreshAsAsked ==
  Settled /\ mishaps = {} /\ cpc[gen] \in {"collect", "deliver", "wait", "reset"} =>
    coll[gen].refresh = asked

\* No ticker is created with a zero interval (time.NewTicker would panic), though
\* that is what every view carries but the first one and those of the refresh
\* dialog.  (A switch between the two statements of doWork takes the interval
\* away from the first view, too.)
NoTickerPanic == ui = "panicked" => mishaps # {}

\* The collector has received the view of a handler before that of doWork, so it
\* will wait for doWork to receive, and doWork for a collector that does.
Overtaken ==
  /\ gen > 0
  /\ work[gen] \in {"enqueue", "send"}
  /\ cpc[gen] \in {"first", "collect", "deliver", "closed"}

\* A key handler that waits for the collector or for doWork returns, unless a key
\* was pressed before doWork was about to send the first view.
HandlersReturn ==
  ui \in {"handler", "dialog", "send", "exit"} ~>
    \/ ui \notin {"handler", "dialog", "send", "exit"}
    \/ Overtaken \/ "orphan" \in mishaps

\* "If UI crashes then reinitialize it": a failed MainLoop is followed by a new
\* UI (or by the end of the program), the wait for doWork never lasts forever,
\* unless a key was pressed before doWork was about to send the first view.
RestartCompletes == ui = "wait" ~> ui \in {"loop", "stopped"} \/ Overtaken

\* When the user stays on a view, the screen ends up showing that view.
ScreenFollows ==
  \A n \in Views :
    <>[](Running /\ view.name = n /\ ~Overtaken /\ "orphan" \notin mishaps)
      => <>[](Running => frame.view = n)
=============================================================================
