-------------------------- MODULE TopPipelineProofs --------------------------
(***************************************************************************)
(* Theorems of TopPipeline for every set of views, key presses, failures   *)
(* and exits and every number of UI generations.                           *)
(***************************************************************************)
EXTENDS TopPipeline, TLAPS

\* The actions of a step, without the guard that the process is running.
Step ==
  \/ StartUI \/ StartUIFails \/ MainLoopFails \/ Restart \/ Quit
  \/ \E n \in Views : SwitchView(n)
  \/ \E i \in Answers : ChangeRefresh(i)
  \/ \E e \in Extras \ {0} : ShowExtra(e)
  \/ ReloadView \/ ResendView \/ ToggleVerbose \/ AskProgram \/ RunProgram
  \/ Notify
  \/ \E b \in pend : Render(b)
  \/ \E g \in Gens : DoWork(g) \/ Collector(g)

LEMMA NextSteps == [Next]_vars => (Running /\ Step) \/ UNCHANGED vars
BY Zenon DEF Next, Step, MainLoop, User, Halted

-----------------------------------------------------------------------------
(* Type correctness                                                        *)

LEMMA RefreshTypes ==
  /\ 0 \in Refreshes
  /\ DefaultRefresh \in Refreshes
  /\ \A i \in Answers : ValidRefresh(i) => i \in Refreshes
BY PipelineAssumption DEF Refreshes, DefaultRefresh, ValidRefresh

LEMMA InitTypes ==
  /\ StartView \in ViewRec
  /\ ZeroBatch \in Batch
  /\ Blank \in Frame
  /\ NoColl \in CollState
BY PipelineAssumption, RefreshTypes
   DEF StartView, ViewRec, ZeroBatch, Batch, Blank, Frame, NoColl, CollState

\* The records the collector builds have their types.
LEMMA CollectorTypes ==
  ASSUME NEW c \in CollState, NEW v \in ViewRec
  PROVE  /\ Collected(c) \in CollState
         /\ ErrorBatch(c) \in Batch
         /\ Adjust(c, v) \in CollState
         /\ [Adjust(c, v) EXCEPT !.snap = NoView] \in CollState
<1>1. c.view \in ViewRec /\ c.view.name \in Views
  BY DEF CollState, ViewRec
<1>2. Collected(c) \in CollState
  BY <1>1 DEF Collected, CollState, Batch
<1>3. ErrorBatch(c) \in Batch
  BY <1>1 DEF ErrorBatch, Batch
<1>4. Adjust(c, v) \in CollState
  BY DEF Adjust, CollState, ViewRec
<1>5. [Adjust(c, v) EXCEPT !.snap = NoView] \in CollState
  BY <1>4 DEF CollState
<1>. QED BY <1>2, <1>3, <1>4, <1>5

\* What completing a send on viewCh does to the types.
LEMMA TakeViewTypes ==
  ASSUME TypeOK, TakeView
  PROVE  /\ Head(sendq) \in Sender
         /\ Head(sendq).view \in ViewRec
         /\ ui' \in UIPoints
         /\ work' \in [Gens -> WorkPoints]
         /\ view' \in ViewRec
         /\ sendq' \in Seq(Sender)
<1>1. sendq \in Seq(Sender) /\ sendq # <<>>
  BY DEF TypeOK, TakeView
<1>2. Head(sendq) \in Sender /\ Tail(sendq) \in Seq(Sender)
  BY <1>1
<1>3. Head(sendq).view \in ViewRec
  BY <1>2 DEF Sender
<1>4. ui' \in UIPoints
  BY DEF TypeOK, TakeView, UIPoints
<1>5. work' \in [Gens -> WorkPoints]
  BY DEF TypeOK, TakeView, WorkPoints
<1>6. view' \in ViewRec
  BY RefreshTypes DEF TypeOK, TakeView, ViewRec
<1>. QED BY <1>1, <1>2, <1>3, <1>4, <1>5, <1>6 DEF TakeView

\* A blocked send is well typed.
LEMMA NotifyTypes ==
  ASSUME TypeOK, Notify
  PROVE  TypeOK'
<1>1. (ui = "dialog" /\ ClearsRefresh) \in BOOLEAN
  OBVIOUS
<1>2. [from |-> "ui", gen |-> gen, view |-> view,
       clear |-> ui = "dialog" /\ ClearsRefresh] \in Sender
  BY <1>1, PipelineAssumption DEF TypeOK, Sender
<1>. QED BY <1>2 DEF TypeOK, Notify, UIPoints

LEMMA WritesRefreshTypes ==
  ASSUME TypeOK, WritesRefresh
  PROVE  mishaps' \subseteq Mishaps
BY DEF TypeOK, WritesRefresh, Mishaps

\* Key handlers keep the types.
LEMMA UserTypes ==
  ASSUME TypeOK,
         \/ \E n \in Views : SwitchView(n)
         \/ \E i \in Answers : ChangeRefresh(i)
         \/ \E e \in Extras \ {0} : ShowExtra(e)
         \/ ReloadView \/ ResendView \/ ToggleVerbose
  PROVE  TypeOK'
<1>1. view \in ViewRec /\ saved \in [Views -> Refreshes]
  BY DEF TypeOK
<1>2. ASSUME NEW n \in Views, SwitchView(n) PROVE TypeOK'
  <2>1. view' \in ViewRec /\ saved' \in [Views -> Refreshes]
    BY <1>1, <1>2 DEF SwitchView, ViewRec
  <2>2. mishaps' \subseteq Mishaps
    BY <1>2, WritesRefreshTypes DEF SwitchView
  <2>. QED BY <1>2, <2>1, <2>2 DEF SwitchView, TypeOK, UIPoints
<1>3. ASSUME NEW i \in Answers, ChangeRefresh(i) PROVE TypeOK'
  <2>1. view' \in ViewRec /\ asked' \in Refreshes
    BY <1>1, <1>3, RefreshTypes DEF ChangeRefresh, ViewRec
  <2>2. mishaps' \subseteq Mishaps
    BY <1>3, WritesRefreshTypes DEF ChangeRefresh
  <2>. QED BY <1>3, <2>1, <2>2 DEF ChangeRefresh, TypeOK, UIPoints
<1>4. ASSUME NEW e \in Extras \ {0}, ShowExtra(e) PROVE TypeOK'
  <2>1. view' \in ViewRec
    BY <1>1, <1>4, PipelineAssumption DEF ShowExtra, ViewRec
  <2>. QED BY <1>4, <2>1 DEF ShowExtra, TypeOK, UIPoints
<1>5. CASE ReloadView
  <2>1. view' \in ViewRec
    BY <1>1, <1>5 DEF ReloadView, ViewRec
  <2>2. mishaps' \subseteq Mishaps
    BY <1>5, WritesRefreshTypes DEF ReloadView
  <2>. QED BY <1>5, <2>1, <2>2 DEF ReloadView, TypeOK, UIPoints
<1>6. CASE ResendView
  BY <1>6 DEF ResendView, TypeOK, UIPoints
<1>7. CASE ToggleVerbose
  <2>1. view' \in ViewRec
    BY <1>1, <1>7 DEF ToggleVerbose, ViewRec
  <2>. QED BY <1>7, <2>1 DEF ToggleVerbose, TypeOK, UIPoints
<1>. QED BY <1>2, <1>3, <1>4, <1>5, <1>6, <1>7

\* mainLoop and rendering keep the types.
LEMMA MainLoopTypes ==
  ASSUME TypeOK,
         \/ StartUI \/ StartUIFails \/ MainLoopFails \/ Restart \/ Quit
         \/ AskProgram \/ RunProgram
         \/ \E b \in pend : Render(b)
  PROVE  TypeOK'
<1>. USE PipelineAssumption DEF TypeOK, UIPoints, WorkPoints, Gens, Mishaps
<1>1. CASE StartUI       BY <1>1, InitTypes DEF StartUI
<1>2. CASE StartUIFails  BY <1>2 DEF StartUIFails
<1>3. CASE MainLoopFails BY <1>3 DEF MainLoopFails
<1>4. CASE Restart       BY <1>4 DEF Restart
<1>5. CASE Quit          BY <1>5 DEF Quit
<1>6. CASE AskProgram    BY <1>6 DEF AskProgram
<1>7. CASE RunProgram    BY <1>7 DEF RunProgram
<1>8. ASSUME NEW b \in pend, Render(b) PROVE TypeOK'
  <2>1. frame' \in Frame
    BY <1>8 DEF Render, Frame, Batch
  <2>. QED BY <1>8, <2>1 DEF Render
<1>. QED BY <1>1, <1>2, <1>3, <1>4, <1>5, <1>6, <1>7, <1>8

\* doWork keeps the types.
LEMMA DoWorkTypes ==
  ASSUME TypeOK, NEW g \in Gens, DoWork(g)
  PROVE  TypeOK'
<1>1. CASE WorkAssign(g)
  BY <1>1, RefreshTypes DEF TypeOK, WorkAssign, WorkPoints, CollPoints, ViewRec
<1>2. CASE WorkEnqueue(g)
  <2>1. [from |-> "work", gen |-> g, view |-> view, clear |-> FALSE] \in Sender
    BY PipelineAssumption DEF TypeOK, Sender, Gens
  <2>. QED BY <1>2, <2>1 DEF TypeOK, WorkEnqueue, WorkPoints
<1>3. CASE WorkClear(g)
  BY <1>3, RefreshTypes DEF TypeOK, WorkClear, WorkPoints, ViewRec
<1>4. CASE WorkReceiveClosed(g)
  BY <1>4, InitTypes DEF TypeOK, WorkReceiveClosed, WorkPoints
<1>5. CASE WorkPrint(g)
  BY <1>5 DEF TypeOK, WorkPrint, WorkPoints
<1>6. CASE WorkCancelled(g)
  BY <1>6 DEF TypeOK, WorkCancelled, WorkPoints
<1>7. CASE WorkJoin(g)
  BY <1>7 DEF TypeOK, WorkJoin, WorkPoints
<1>. QED BY <1>1, <1>2, <1>3, <1>4, <1>5, <1>6, <1>7 DEF DoWork

\* The collector keeps the types.
LEMMA CollectorStepTypes ==
  ASSUME TypeOK, NEW g \in Gens, Collector(g)
  PROVE  TypeOK'
<1>. coll[g] \in CollState
  BY DEF TypeOK
<1>0. coll[g].out \in Batch /\ coll[g].view.name \in Views
  BY DEF CollState, ViewRec
<1>1. CASE CollNew(g)
  BY <1>1 DEF TypeOK, CollNew, CollPoints
<1>2. CASE CollDies(g)
  BY <1>2 DEF TypeOK, CollDies, CollPoints
<1>3. CASE CollReceiveFirst(g)
  <2>. DEFINE v == Head(sendq).view
              c == [NoColl EXCEPT !.view = v, !.refresh = v.refresh,
                                  !.extra = v.extra, !.verbose = v.verbose]
  <2>1. TakeView
    BY <1>3 DEF CollReceiveFirst
  <2>2. v \in ViewRec
    BY <2>1, TakeViewTypes
  <2>3. c \in CollState
    BY <2>2, InitTypes DEF CollState, ViewRec
  <2>4. coll' \in [Gens -> CollState]
    BY <1>3, <2>3 DEF CollReceiveFirst, TypeOK
  <2>. QED BY <1>3, <2>1, <2>4, TakeViewTypes
           DEF CollReceiveFirst, TypeOK, CollPoints
<1>4. CASE CollFirst(g)
  <2>1. coll' \in [Gens -> CollState]
    BY <1>4, <1>0 DEF CollFirst, TypeOK, CollState
  <2>. QED BY <1>4, <2>1 DEF TypeOK, CollFirst, CollPoints
<1>5. CASE CollCollect(g)
  <2>1. Collected(coll[g]) \in CollState
    BY InitTypes, CollectorTypes, PipelineAssumption
  <2>2. [coll[g] EXCEPT !.out = ErrorBatch(coll[g])] \in CollState
    BY InitTypes, CollectorTypes DEF CollState
  <2>3. coll' \in [Gens -> CollState]
    BY <1>5, <2>1, <2>2 DEF CollCollect, TypeOK
  <2>. QED BY <1>5, <2>3 DEF TypeOK, CollCollect, CollPoints
<1>6. CASE CollDeliver(g)
  BY <1>6, <1>0 DEF TypeOK, CollDeliver, HandOver, CollPoints, WorkPoints, UIPoints
<1>7. CASE CollCancelled(g)
  BY <1>7 DEF TypeOK, CollCancelled, CollPoints
<1>8. CASE CollTick(g)
  BY <1>8 DEF TypeOK, CollTick, CollPoints
<1>9. CASE CollReceive(g)
  <2>. DEFINE v == Head(sendq).view
  <2>1. TakeView
    BY <1>9 DEF CollReceive
  <2>2. v \in ViewRec
    BY <2>1, TakeViewTypes
  <2>3. /\ Adjust(coll[g], v) \in CollState
        /\ [Adjust(coll[g], v) EXCEPT !.snap = NoView] \in CollState
    BY <2>2, CollectorTypes
  <2>4. coll' \in [Gens -> CollState] /\ cpc' \in [Gens -> CollPoints]
    BY <1>9, <2>3 DEF CollReceive, TypeOK, CollPoints
  <2>. QED BY <1>9, <2>1, <2>4, TakeViewTypes DEF CollReceive, TypeOK
<1>10. CASE CollReset(g)
  <2>1. [coll[g] EXCEPT !.snap = coll[g].view.name] \in CollState
    BY <1>0 DEF CollState
  <2>2. [coll[g] EXCEPT !.out = ErrorBatch(coll[g])] \in CollState
    BY InitTypes, CollectorTypes DEF CollState
  <2>3. coll' \in [Gens -> CollState]
    BY <1>10, <2>1, <2>2 DEF CollReset, TypeOK
  <2>. QED BY <1>10, <2>3 DEF TypeOK, CollReset, CollPoints
<1>11. CASE CollDeliverError(g)
  BY <1>11, <1>0 DEF TypeOK, CollDeliverError, HandOver, CollPoints, WorkPoints
<1>. QED BY <1>1, <1>2, <1>3, <1>4, <1>5, <1>6, <1>7, <1>8, <1>9, <1>10, <1>11
         DEF Collector

LEMMA StepTypes == TypeOK /\ [Next]_vars => TypeOK'
<1>. SUFFICES ASSUME TypeOK, Step \/ UNCHANGED vars PROVE TypeOK'
  BY NextSteps
<1>1. CASE Step
  BY <1>1, UserTypes, NotifyTypes, MainLoopTypes, DoWorkTypes, CollectorStepTypes DEF Step
<1>2. CASE UNCHANGED vars
  BY <1>2 DEF vars, TypeOK
<1>. QED BY <1>1, <1>2

\* Every variable of the pipeline keeps its type, whatever the constants.
THEOREM TypeCorrect == Spec => []TypeOK
<1>1. Init => TypeOK
  BY InitTypes, RefreshTypes, PipelineAssumption
     DEF Init, TypeOK, UIPoints, WorkPoints, CollPoints, Gens
<1>. QED BY <1>1, StepTypes, PTL DEF Spec

-----------------------------------------------------------------------------
(* Generations: who is alive when                                          *)

\* Generations that have not begun have no goroutine and no cancelled context.
Unborn == \A g \in Gens : g > gen => work[g] = "none" /\ cpc[g] = "none" /\ ~cancelled[g]

\* Only the doWork of the latest generation is alive, and none is while the
\* UI is being created.
OneWorker ==
  /\ \A g \in Gens : work[g] \notin {"none", "done"} => g = gen
  /\ ui = "newgui" /\ gen > 0 => work[gen] = "done"

\* The goroutines queued on viewCh: the UI blocked in a handler, doWork blocked
\* in its first send, each at most once.
Senders ==
  /\ \A i \in 1..Len(sendq) :
       /\ sendq[i].from = "ui" => ui = "send" \/ ~Running
       /\ sendq[i].from = "work" =>
            sendq[i].gen \in Gens /\ work[sendq[i].gen] = "send" /\ ~sendq[i].clear
  /\ \A i, j \in 1..Len(sendq) : sendq[i].from = sendq[j].from => i = j

GenInv == Unborn /\ OneWorker /\ Senders

LEMMA QueueTail ==
  ASSUME TypeOK, sendq # <<>>
  PROVE  /\ Head(sendq) = sendq[1]
         /\ Len(sendq) \in Nat /\ Len(sendq) >= 1
         /\ Len(Tail(sendq)) = Len(sendq) - 1
         /\ \A i \in 1..Len(Tail(sendq)) : Tail(sendq)[i] = sendq[i + 1]
BY DEF TypeOK

LEMMA QueueAppend ==
  ASSUME TypeOK, NEW s
  PROVE  /\ Len(sendq) \in Nat
         /\ Len(Append(sendq, s)) = Len(sendq) + 1
         /\ \A i \in 1..Len(sendq) : Append(sendq, s)[i] = sendq[i]
         /\ Append(sendq, s)[Len(sendq) + 1] = s
BY DEF TypeOK

\* A handler that sends keeps the queue in order: the UI is not queued yet.
LEMMA NotifySenders ==
  ASSUME TypeOK, Senders, Notify
  PROVE  Senders'
<1>. DEFINE s == [from |-> "ui", gen |-> gen, view |-> view,
                  clear |-> ui = "dialog" /\ ClearsRefresh]
<1>1. /\ ui \in {"handler", "dialog"} /\ ui' = "send" /\ work' = work
      /\ sendq' = Append(sendq, s)
  BY DEF Notify
<1>2. \A i \in 1..Len(sendq) : sendq[i].from # "ui"
  BY <1>1 DEF Senders, Running
<1>3. /\ Len(sendq') = Len(sendq) + 1 /\ Len(sendq) \in Nat
      /\ \A i \in 1..Len(sendq) : sendq'[i] = sendq[i]
      /\ sendq'[Len(sendq) + 1] = s
  BY <1>1, QueueAppend
<1>4. \A i \in 1..Len(sendq') : i \in 1..Len(sendq) \/ i = Len(sendq) + 1
  BY <1>3
<1>5. s.from = "ui"
  OBVIOUS
<1>. HIDE DEF s
<1>6. \A i \in 1..Len(sendq') :
        /\ sendq'[i].from = "ui" => ui' = "send"
        /\ sendq'[i].from = "work" =>
             sendq'[i].gen \in Gens /\ work'[sendq'[i].gen] = "send" /\ ~sendq'[i].clear
  BY <1>1, <1>2, <1>3, <1>4, <1>5 DEF Senders
<1>7. \A i, j \in 1..Len(sendq') : sendq'[i].from = sendq'[j].from => i = j
  BY <1>2, <1>3, <1>4, <1>5 DEF Senders
<1>. QED BY <1>6, <1>7 DEF Senders

\* Completing a send removes its goroutine from the queue.
LEMMA TakeViewSenders ==
  ASSUME TypeOK, GenInv, Running, TakeView
  PROVE  /\ Senders'
         /\ ui' = ui \/ (ui = "send" /\ ui' = "loop")
         /\ \A g \in Gens : work'[g] = work[g]
                            \/ (work[g] = "send" /\ work'[g] = "clear")
<1>. DEFINE s == Head(sendq)
<1>1. /\ sendq # <<>> /\ sendq' = Tail(sendq)
      /\ ui' = (IF s.from = "ui" THEN "loop" ELSE ui)
      /\ work' = (IF s.from = "work" THEN [work EXCEPT ![s.gen] = "clear"] ELSE work)
  BY DEF TakeView
<1>2. /\ s = sendq[1] /\ Len(sendq) \in Nat /\ Len(sendq) >= 1
      /\ Len(sendq') = Len(sendq) - 1
      /\ \A i \in 1..Len(sendq') : sendq'[i] = sendq[i + 1]
  BY <1>1, QueueTail
<1>3. \A i \in 1..Len(sendq') :
        i + 1 \in 1..Len(sendq) /\ sendq'[i].from # s.from
  BY <1>2 DEF GenInv, Senders
<1>4. s.from = "work" => s.gen \in Gens /\ work[s.gen] = "send"
  BY <1>2 DEF GenInv, Senders
<1>5. s.from = "ui" => ui = "send"
  BY <1>2 DEF GenInv, Senders
<1>6. s.from \in {"ui", "work"}
  <2>1. s \in Sender
    BY <1>1 DEF TypeOK
  <2>. QED BY <2>1 DEF Sender
<1>. HIDE DEF s
<1>7. \A g \in Gens : work'[g] = work[g] \/ (work[g] = "send" /\ work'[g] = "clear")
  BY <1>1, <1>4 DEF TypeOK
<1>8. \A i \in 1..Len(sendq') :
        /\ sendq'[i].from = "ui" => ui' = "send" \/ ~Running'
        /\ sendq'[i].from = "work" =>
             sendq'[i].gen \in Gens /\ work'[sendq'[i].gen] = "send" /\ ~sendq'[i].clear
  BY <1>1, <1>2, <1>3, <1>6 DEF GenInv, Senders, Running
<1>9. \A i, j \in 1..Len(sendq') : sendq'[i].from = sendq'[j].from => i = j
  <2>. SUFFICES ASSUME NEW i \in 1..Len(sendq'), NEW j \in 1..Len(sendq'),
                       sendq'[i].from = sendq'[j].from
                PROVE  i = j
    OBVIOUS
  <2>1. i + 1 \in 1..Len(sendq) /\ j + 1 \in 1..Len(sendq)
    BY <1>3
  <2>2. sendq[i + 1].from = sendq[j + 1].from
    BY <1>2
  <2>3. i + 1 = j + 1
    BY <2>1, <2>2, Zenon DEF GenInv, Senders
  <2>. QED BY <2>3, <1>2
<1>. QED BY <1>1, <1>5, <1>7, <1>8, <1>9 DEF Senders

\* A key handler changes the configuration only, until it notifies.
LEMMA UserSteps ==
  ASSUME \/ \E n \in Views : SwitchView(n)
         \/ \E i \in Answers : ChangeRefresh(i)
         \/ \E e \in Extras \ {0} : ShowExtra(e)
         \/ ReloadView \/ ResendView \/ ToggleVerbose
  PROVE  /\ ui = "loop" /\ ui' \in {"handler", "dialog"}
         /\ mishaps' \in {mishaps, mishaps \cup {"early"}}
         /\ UNCHANGED <<gen, sendq, cancelled, work, got, cpc, coll, pend, frame>>
BY DEF SwitchView, ChangeRefresh, ShowExtra, ReloadView, ResendView,
       ToggleVerbose, MayPress, WritesRefresh

LEMMA UserGen ==
  ASSUME GenInv,
         ui = "loop", ui' \in {"handler", "dialog"},
         UNCHANGED <<gen, sendq, cancelled, work, cpc>>
  PROVE  GenInv'
BY DEF GenInv, Unborn, OneWorker, Senders, Running

LEMMA NotifyGen ==
  ASSUME TypeOK, GenInv, Notify
  PROVE  GenInv'
<1>1. ui' = "send" /\ UNCHANGED <<gen, cancelled, work, cpc>>
  BY DEF Notify
<1>. QED BY <1>1, NotifySenders DEF GenInv, Unborn, OneWorker

LEMMA MainLoopGen ==
  ASSUME TypeOK, GenInv, Running,
         \/ StartUI \/ StartUIFails \/ MainLoopFails \/ Restart \/ Quit
         \/ AskProgram \/ RunProgram
         \/ \E b \in pend : Render(b)
  PROVE  GenInv'
<1>. USE PipelineAssumption DEF TypeOK, GenInv, Unborn, OneWorker, Senders, Gens, Running
<1>1. CASE StartUI       BY <1>1 DEF StartUI
<1>2. CASE StartUIFails  BY <1>2 DEF StartUIFails
<1>3. CASE MainLoopFails BY <1>3 DEF MainLoopFails
<1>4. CASE Restart       BY <1>4 DEF Restart, WorkFinished
<1>5. CASE Quit          BY <1>5 DEF Quit
<1>6. CASE AskProgram    BY <1>6 DEF AskProgram
<1>7. CASE RunProgram    BY <1>7 DEF RunProgram
<1>8. CASE \E b \in pend : Render(b) BY <1>8 DEF Render
<1>. QED BY <1>1, <1>2, <1>3, <1>4, <1>5, <1>6, <1>7, <1>8

\* A step of doWork that leaves the queue alone and does not leave "send".
LEMMA WorkGen ==
  ASSUME TypeOK, GenInv, NEW g \in Gens, NEW p,
         work[g] \notin {"none", "send", "done"}, p # "none",
         work' = [work EXCEPT ![g] = p],
         \/ cpc' = cpc
         \/ \E q : cpc' = [cpc EXCEPT ![g] = q],
         UNCHANGED <<ui, gen, sendq, cancelled>>
  PROVE  GenInv'
<1>1. g = gen /\ ui # "newgui"
  BY DEF GenInv, OneWorker, TypeOK, Gens
<1>2. Unborn' /\ OneWorker'
  BY <1>1 DEF TypeOK, GenInv, Unborn, OneWorker, Gens
<1>3. Senders'
  BY DEF TypeOK, GenInv, Senders, Running
<1>. QED BY <1>2, <1>3 DEF GenInv

LEMMA DoWorkGen ==
  ASSUME TypeOK, GenInv, Running, NEW g \in Gens, DoWork(g)
  PROVE  GenInv'
<1>1. CASE WorkAssign(g)        BY <1>1, WorkGen DEF WorkAssign
<1>2. CASE WorkEnqueue(g)
  <2>. DEFINE s == [from |-> "work", gen |-> g, view |-> view, clear |-> FALSE]
  <2>1. /\ work[g] = "enqueue" /\ work' = [work EXCEPT ![g] = "send"]
        /\ sendq' = Append(sendq, s)
        /\ UNCHANGED <<ui, gen, cancelled, cpc>>
    BY <1>2 DEF WorkEnqueue
  <2>2. g = gen /\ ui # "newgui"
    BY <2>1 DEF GenInv, OneWorker, TypeOK, Gens
  <2>3. Unborn' /\ OneWorker'
    BY <2>1, <2>2 DEF TypeOK, GenInv, Unborn, OneWorker, Gens
  <2>4. \A i \in 1..Len(sendq) : sendq[i].from # "work"
    BY <2>1, <2>2 DEF GenInv, Senders, OneWorker
  <2>5. /\ Len(sendq') = Len(sendq) + 1 /\ Len(sendq) \in Nat
        /\ \A i \in 1..Len(sendq) : sendq'[i] = sendq[i]
        /\ sendq'[Len(sendq) + 1] = s
    BY <2>1, QueueAppend
  <2>6. \A i \in 1..Len(sendq') : i \in 1..Len(sendq) \/ i = Len(sendq) + 1
    BY <2>5
  <2>7. s.from = "work" /\ s.gen = g /\ ~s.clear
    OBVIOUS
  <2>8. work'[g] = "send"
    BY <2>1 DEF TypeOK
  <2>. HIDE DEF s
  <2>9. \A i \in 1..Len(sendq') :
          /\ sendq'[i].from = "ui" => ui' = "send" \/ ~Running'
          /\ sendq'[i].from = "work" =>
               sendq'[i].gen \in Gens /\ work'[sendq'[i].gen] = "send" /\ ~sendq'[i].clear
    BY <2>1, <2>4, <2>5, <2>6, <2>7, <2>8 DEF GenInv, Senders, Running
  <2>10. \A i, j \in 1..Len(sendq') : sendq'[i].from = sendq'[j].from => i = j
    BY <2>4, <2>5, <2>6, <2>7 DEF GenInv, Senders
  <2>. QED BY <2>3, <2>9, <2>10 DEF GenInv, Senders
<1>3. CASE WorkClear(g)         BY <1>3, WorkGen DEF WorkClear
<1>4. CASE WorkReceiveClosed(g) BY <1>4, WorkGen DEF WorkReceiveClosed
<1>5. CASE WorkPrint(g)         BY <1>5, WorkGen DEF WorkPrint
<1>6. CASE WorkCancelled(g)     BY <1>6, WorkGen DEF WorkCancelled
<1>7. CASE WorkJoin(g)          BY <1>7, WorkGen DEF WorkJoin
<1>. QED BY <1>1, <1>2, <1>3, <1>4, <1>5, <1>6, <1>7 DEF DoWork

\* A step of a collector that touches neither doWork nor the queue.
LEMMA CollGen ==
  ASSUME TypeOK, GenInv, NEW g \in Gens, cpc[g] # "none",
         NEW q, cpc' = [cpc EXCEPT ![g] = q],
         UNCHANGED <<ui, gen, sendq, cancelled, work>>
  PROVE  GenInv'
BY DEF TypeOK, GenInv, Unborn, OneWorker, Senders, Gens, Running

LEMMA CollectorGen ==
  ASSUME TypeOK, GenInv, Running, NEW g \in Gens, Collector(g)
  PROVE  GenInv'
<1>1. CASE CollNew(g)       BY <1>1, CollGen DEF CollNew
<1>2. CASE CollDies(g)      BY <1>2, CollGen DEF CollDies
<1>3. CASE CollFirst(g)     BY <1>3, CollGen DEF CollFirst
<1>4. CASE CollCollect(g)   BY <1>4, CollGen DEF CollCollect
<1>5. CASE CollCancelled(g) BY <1>5, CollGen DEF CollCancelled
<1>6. CASE CollTick(g)      BY <1>6, CollGen DEF CollTick
<1>7. CASE CollReset(g)     BY <1>7, CollGen DEF CollReset
<1>8. ASSUME CollReceiveFirst(g) \/ CollReceive(g) PROVE GenInv'
  <2>1. TakeView /\ UNCHANGED <<gen, cancelled>> /\ cpc[g] # "none"
    BY <1>8 DEF CollReceiveFirst, CollReceive
  <2>2. \E q : cpc' = [cpc EXCEPT ![g] = q]
    BY <1>8 DEF CollReceiveFirst, CollReceive
  <2>3. Senders'
    BY <2>1, TakeViewSenders
  <2>4. Unborn' /\ OneWorker'
    BY <2>1, <2>2, TakeViewSenders DEF GenInv, Unborn, OneWorker, TypeOK, Gens
  <2>. QED BY <2>3, <2>4 DEF GenInv
<1>9. ASSUME CollDeliver(g) \/ CollDeliverError(g) PROVE GenInv'
  <2>1. /\ work[g] = "select" /\ work' = [work EXCEPT ![g] = "print"]
        /\ cpc[g] # "none" /\ \E q : cpc' = [cpc EXCEPT ![g] = q]
        /\ ui' = ui \/ ui' = "panicked"
        /\ UNCHANGED <<gen, sendq, cancelled>>
    BY <1>9 DEF CollDeliver, CollDeliverError, HandOver
  <2>2. g = gen /\ ui # "newgui"
    BY <2>1 DEF GenInv, OneWorker, TypeOK, Gens
  <2>3. Unborn' /\ OneWorker'
    BY <2>1, <2>2 DEF TypeOK, GenInv, Unborn, OneWorker, Gens
  <2>4. Senders'
    BY <2>1 DEF TypeOK, GenInv, Senders, Running
  <2>. QED BY <2>3, <2>4 DEF GenInv
<1>. QED BY <1>1, <1>2, <1>3, <1>4, <1>5, <1>6, <1>7, <1>8, <1>9 DEF Collector

LEMMA StepGen == TypeOK /\ GenInv /\ [Next]_vars => GenInv'
<1>. SUFFICES ASSUME TypeOK, GenInv, (Running /\ Step) \/ UNCHANGED vars PROVE GenInv'
  BY NextSteps
<1>1. CASE Running /\ Step
  BY <1>1, UserSteps, UserGen, NotifyGen, MainLoopGen, DoWorkGen, CollectorGen DEF Step
<1>2. CASE UNCHANGED vars
  BY <1>2 DEF vars, GenInv, Unborn, OneWorker, Senders, Running
<1>. QED BY <1>1, <1>2

LEMMA InitGen == Init => GenInv
BY DEF Init, GenInv, Unborn, OneWorker, Senders, Running, Gens

\* At most one doWork is alive, its generation is the latest, and the queue on
\* viewCh holds it and the UI at most once each.
THEOREM GenerationsInOrder == Spec => []GenInv
BY TypeCorrect, InitGen, StepGen, PTL DEF Spec

-----------------------------------------------------------------------------
(* The zero batch of a closed statCh is never shown                        *)

ZeroInv ==
  \* a screen that takes key presses or runs a handler is not cancelled
  /\ gen > 0 /\ cancelled[gen] => ui \notin {"loop", "handler", "dialog", "send", "exit", "program"}
  \* a statCh is closed only after a cancellation
  /\ \A g \in Gens : cpc[g] = "closed" => cancelled[g]
  \* what a collector delivers is a batch of its own
  /\ \A g \in Gens : cpc[g] \in {"deliver", "delivererr"} => coll[g].out.kind # "zero"
  \* so a zero batch, received or queued, comes from a cancelled generation
  /\ \A g \in Gens : work[g] = "print" /\ got[g].kind = "zero" => cancelled[g]
  /\ \A b \in pend : b.kind = "zero" => gen > 0 /\ cancelled[gen]
  /\ NoZeroFrame

LEMMA InitZero == Init => ZeroInv
BY DEF Init, ZeroInv, NoZeroFrame, Blank, Gens

LEMMA MainLoopZero ==
  ASSUME TypeOK, GenInv, ZeroInv, Running,
         \/ StartUI \/ StartUIFails \/ MainLoopFails \/ Restart \/ Quit
         \/ AskProgram \/ RunProgram
         \/ \E b \in pend : Render(b)
  PROVE  ZeroInv'
<1>. USE PipelineAssumption DEF TypeOK, Gens, ZeroInv, NoZeroFrame
<1>1. CASE StartUI
  <2>1. /\ gen + 1 \in Gens /\ gen + 1 > gen /\ gen' = gen + 1
        /\ work' = [work EXCEPT ![gen + 1] = "assign"]
        /\ pend' = {} /\ frame'.kind = "blank"
        /\ UNCHANGED <<cancelled, got, cpc, coll>>
    BY <1>1 DEF StartUI, Blank
  <2>2. ~cancelled[gen']
    BY <2>1 DEF GenInv, Unborn
  <2>3. \A g \in Gens : work'[g] = "print" => work[g] = "print"
    BY <2>1
  <2>. QED BY <2>1, <2>2, <2>3
<1>2. CASE StartUIFails  BY <1>2 DEF StartUIFails
<1>3. CASE MainLoopFails BY <1>3 DEF MainLoopFails
<1>4. CASE Restart       BY <1>4 DEF Restart
<1>5. CASE Quit          BY <1>5 DEF Quit
<1>6. CASE AskProgram    BY <1>6 DEF AskProgram
<1>7. CASE RunProgram    BY <1>7 DEF RunProgram
<1>8. ASSUME NEW b \in pend, Render(b) PROVE ZeroInv'
  <2>1. b.kind # "zero"
    BY <1>8 DEF Render
  <2>. QED BY <1>8, <2>1 DEF Render
<1>. QED BY <1>1, <1>2, <1>3, <1>4, <1>5, <1>6, <1>7, <1>8

LEMMA DoWorkZero ==
  ASSUME TypeOK, GenInv, ZeroInv, Running, NEW g \in Gens, DoWork(g)
  PROVE  ZeroInv'
<1>. USE DEF TypeOK, ZeroInv, NoZeroFrame
<1>1. CASE WorkAssign(g)
  <2>1. work[g] = "assign" /\ g = gen
    BY <1>1 DEF WorkAssign, GenInv, OneWorker
  <2>. QED BY <1>1, <2>1 DEF WorkAssign
<1>2. CASE WorkEnqueue(g)       BY <1>2 DEF WorkEnqueue
<1>3. CASE WorkClear(g)         BY <1>3 DEF WorkClear
<1>4. CASE WorkReceiveClosed(g) BY <1>4 DEF WorkReceiveClosed
<1>5. CASE WorkPrint(g)
  <2>1. work[g] = "print" /\ g = gen /\ g > 0
    BY <1>5 DEF WorkPrint, GenInv, OneWorker, Gens
  <2>2. \A b \in pend' : b \in pend \/ b = got[g]
    BY <1>5 DEF WorkPrint
  <2>3. \A b \in pend' : b.kind = "zero" => gen > 0 /\ cancelled[gen]
    BY <2>1, <2>2
  <2>. QED BY <1>5, <2>3 DEF WorkPrint
<1>6. CASE WorkCancelled(g)     BY <1>6 DEF WorkCancelled
<1>7. CASE WorkJoin(g)          BY <1>7 DEF WorkJoin
<1>. QED BY <1>1, <1>2, <1>3, <1>4, <1>5, <1>6, <1>7 DEF DoWork

LEMMA CollectorZero ==
  ASSUME TypeOK, GenInv, ZeroInv, Running, NEW g \in Gens, Collector(g)
  PROVE  ZeroInv'
<1>. USE DEF TypeOK, ZeroInv, NoZeroFrame
<1>0. coll[g] \in CollState
  OBVIOUS
<1>1. CASE CollNew(g)       BY <1>1 DEF CollNew
<1>2. CASE CollDies(g)      BY <1>2 DEF CollDies
<1>3. CASE CollFirst(g)     BY <1>3 DEF CollFirst
<1>4. CASE CollCollect(g)
  <2>1. Collected(coll[g]).out.kind # "zero" /\ ErrorBatch(coll[g]).kind # "zero"
    BY <1>0 DEF Collected, ErrorBatch, CollState
  <2>2. [coll[g] EXCEPT !.out = ErrorBatch(coll[g])].out = ErrorBatch(coll[g])
    BY <1>0 DEF CollState
  <2>3. coll'[g].out.kind # "zero" /\ \A h \in Gens \ {g} : coll'[h] = coll[h]
    BY <1>4, <2>1, <2>2 DEF CollCollect
  <2>. QED BY <1>4, <2>3 DEF CollCollect
<1>5. CASE CollCancelled(g) BY <1>5 DEF CollCancelled
<1>6. CASE CollTick(g)      BY <1>6 DEF CollTick
<1>7. CASE CollReset(g)
  <2>1. ErrorBatch(coll[g]).kind # "zero"
    BY DEF ErrorBatch
  <2>2. [coll[g] EXCEPT !.out = ErrorBatch(coll[g])].out = ErrorBatch(coll[g])
    BY <1>0 DEF CollState
  <2>3. /\ cpc'[g] = "delivererr" => coll'[g].out.kind # "zero"
        /\ cpc'[g] \in {"collect", "delivererr"}
        /\ \A h \in Gens \ {g} : coll'[h] = coll[h]
    BY <1>7, <2>1, <2>2 DEF CollReset
  <2>. QED BY <1>7, <2>3 DEF CollReset
<1>8. ASSUME CollReceiveFirst(g) \/ CollReceive(g) PROVE ZeroInv'
  <2>1. TakeView /\ UNCHANGED <<gen, cancelled, got, pend, frame>>
    BY <1>8 DEF CollReceiveFirst, CollReceive
  <2>2. /\ ui' = ui \/ (ui = "send" /\ ui' = "loop")
        /\ \A h \in Gens : work'[h] = work[h] \/ work'[h] = "clear"
    BY <2>1, TakeViewSenders
  <2>3. cpc'[g] \in {"first", "collect", "reset"}
        /\ \A h \in Gens \ {g} : cpc'[h] = cpc[h] /\ coll'[h] = coll[h]
    BY <1>8 DEF CollReceiveFirst, CollReceive
  <2>. QED BY <2>1, <2>2, <2>3
<1>9. ASSUME CollDeliver(g) \/ CollDeliverError(g) PROVE ZeroInv'
  <2>1. /\ work' = [work EXCEPT ![g] = "print"] /\ got' = [got EXCEPT ![g] = coll[g].out]
        /\ coll[g].out.kind # "zero"
        /\ cpc' \in {[cpc EXCEPT ![g] = "wait"], [cpc EXCEPT ![g] = "collect"]}
        /\ ui' = ui \/ ui' = "panicked"
        /\ UNCHANGED <<gen, cancelled, coll, pend, frame>>
    BY <1>9 DEF CollDeliver, CollDeliverError, HandOver
  <2>. QED BY <2>1
<1>. QED BY <1>1, <1>2, <1>3, <1>4, <1>5, <1>6, <1>7, <1>8, <1>9 DEF Collector

LEMMA StepZero == TypeOK /\ GenInv /\ ZeroInv /\ [Next]_vars => ZeroInv'
<1>. SUFFICES ASSUME TypeOK, GenInv, ZeroInv, (Running /\ Step) \/ UNCHANGED vars
              PROVE  ZeroInv'
  BY NextSteps
<1>1. ASSUME ui \in {"loop", "handler", "dialog"}, ui' \in {"handler", "dialog", "send"},
             UNCHANGED <<gen, cancelled, work, got, cpc, coll, pend, frame>>
      PROVE  ZeroInv'
  BY <1>1 DEF ZeroInv, NoZeroFrame
<1>2. CASE Running /\ Step
  <2>1. CASE Notify
    BY <1>1, <2>1 DEF Notify
  <2>. QED BY <1>1, <1>2, <2>1, UserSteps, MainLoopZero, DoWorkZero, CollectorZero DEF Step
<1>3. CASE UNCHANGED vars
  BY <1>3 DEF vars, ZeroInv, NoZeroFrame
<1>. QED BY <1>2, <1>3

\* The empty batch doWork may receive from the statCh its collector has closed
\* never reaches a screen the user can see, however often the UI fails.
THEOREM ZeroBatchNeverShown == Spec => []NoZeroFrame
<1>1. ZeroInv => NoZeroFrame
  BY DEF ZeroInv
<1>. QED BY <1>1, TypeCorrect, GenerationsInOrder, InitZero, StepZero, PTL DEF Spec

-----------------------------------------------------------------------------
(* One collector at a time, unless an external program left one behind     *)

\* Steps that leave a living collector behind are recorded.
NoOrphan == "orphan" \notin mishaps

LEMMA MishapsStay ==
  ASSUME Step
  PROVE  mishaps \subseteq mishaps'
BY DEF Step, StartUI, StartUIFails, MainLoopFails, Restart, Quit, SwitchView, ChangeRefresh,
       ShowExtra, ReloadView, ResendView, ToggleVerbose, AskProgram, RunProgram, Notify,
       Render, WritesRefresh, DoWork, WorkAssign, WorkEnqueue, WorkClear, WorkReceiveClosed,
       WorkPrint, WorkCancelled, WorkJoin, Collector, CollNew, CollDies, CollReceiveFirst,
       CollFirst, CollCollect, CollDeliver, CollCancelled, CollTick, CollReceive, CollReset,
       CollDeliverError

QuerierInv ==
  /\ \A g \in Gens : work[g] \in {"none", "assign"} => cpc[g] = "none"
  /\ NoOrphan => \A g \in Gens : work[g] = "done" => cpc[g] \in {"closed", "dead"}

LEMMA InitQuerier == Init => QuerierInv
BY DEF Init, QuerierInv

LEMMA StepQuerier ==
  ASSUME TypeOK, GenInv, QuerierInv, [Next]_vars
  PROVE  QuerierInv'
<1>. USE DEF TypeOK, QuerierInv, NoOrphan
<1>1. ASSUME \/ StartUI \/ StartUIFails \/ MainLoopFails \/ Restart \/ Quit
             \/ AskProgram \/ RunProgram \/ \E b \in pend : Render(b),
             Running
      PROVE  QuerierInv'
  <2>1. CASE StartUI
    BY <2>1 DEF StartUI, GenInv, Unborn, Gens
  <2>2. CASE RunProgram
    BY <2>2 DEF RunProgram
  <2>3. CASE \/ StartUIFails \/ MainLoopFails \/ Restart \/ Quit \/ AskProgram
             \/ \E b \in pend : Render(b)
    BY <2>3 DEF StartUIFails, MainLoopFails, Restart, Quit, AskProgram, Render
  <2>. QED BY <1>1, <2>1, <2>2, <2>3
<1>2. ASSUME mishaps \subseteq mishaps', UNCHANGED <<work, cpc>>
      PROVE  QuerierInv'
  BY <1>2
<1>3. ASSUME NEW g \in Gens, DoWork(g) PROVE QuerierInv'
  BY <1>3 DEF DoWork, WorkAssign, WorkEnqueue, WorkClear, WorkReceiveClosed,
              WorkPrint, WorkCancelled, WorkJoin, CollFinished
<1>4. ASSUME NEW g \in Gens, Collector(g), Running PROVE QuerierInv'
  <2>1. CASE CollReceiveFirst(g) \/ CollReceive(g)
    <3>1. TakeView /\ cpc[g] \in {"recv", "wait"} /\ UNCHANGED mishaps
          /\ \A h \in Gens \ {g} : cpc'[h] = cpc[h]
      BY <2>1 DEF CollReceiveFirst, CollReceive
    <3>2. \A h \in Gens : work'[h] = work[h] \/ (work[h] = "send" /\ work'[h] = "clear")
      BY <3>1, <1>4, TakeViewSenders
    <3>. QED BY <3>1, <3>2
  <2>2. CASE \/ CollNew(g) \/ CollDies(g) \/ CollFirst(g) \/ CollCollect(g)
             \/ CollCancelled(g) \/ CollTick(g) \/ CollReset(g)
    BY <2>2 DEF CollNew, CollDies, CollFirst, CollCollect, CollCancelled, CollTick, CollReset
  <2>3. CASE CollDeliver(g) \/ CollDeliverError(g)
    BY <2>3 DEF CollDeliver, CollDeliverError, HandOver
  <2>. QED BY <1>4, <2>1, <2>2, <2>3 DEF Collector
<1>5. CASE UNCHANGED vars
  BY <1>5 DEF vars
<1>6. CASE Running /\ Step
  <2>1. mishaps \subseteq mishaps'
    BY <1>6, MishapsStay
  <2>2. CASE Notify
    BY <1>2, <2>2 DEF Notify
  <2>. QED BY <1>1, <1>2, <1>3, <1>4, <1>6, <2>1, <2>2, UserSteps DEF Step
<1>. QED BY <1>5, <1>6, NextSteps

LEMMA QuerierIsLatest ==
  ASSUME GenInv, QuerierInv
  PROVE  OneQuerier
<1>1. NoOrphan => \A g \in Gens : cpc[g] \in Querying => work[g] \notin {"none", "assign", "done"}
  BY DEF QuerierInv, Querying
<1>. QED BY <1>1 DEF GenInv, OneWorker, OneQuerier, NoOrphan

\* No two collectors ever query the connection at the same time, until an external
\* program makes doWork leave its collector: a failed UI is replaced only when its
\* collector has returned.
THEOREM OneQuerierAtATime == Spec => []OneQuerier
<1>1. TypeOK /\ GenInv /\ QuerierInv /\ [Next]_vars => QuerierInv'
  BY StepQuerier
<1>2. GenInv /\ QuerierInv => OneQuerier
  BY QuerierIsLatest
<1>. QED BY <1>1, <1>2, TypeCorrect, GenerationsInOrder, InitQuerier, PTL DEF Spec

-----------------------------------------------------------------------------
(* The collector follows the user                                          *)

\* The points at which a collector has a view.
Serving == {"first", "collect", "deliver", "wait", "reset", "delivererr"}

\* Nobody is in a handler.
Quiet == ui \notin {"handler", "dialog", "send", "panicked"}

\* The handler blocked on viewCh (there is one at most), as it is queued there.
FromUser == {sendq[i] : i \in {j \in 1..Len(sendq) : sendq[j].from = "ui"}}

\* doWork is about to receive from its collector, or already does.
Introduced == work[gen] \in {"clear", "select", "print", "join"}

\* doWork is first in the queue, with the first view.
Presenting ==
  cpc[gen] \in {"new", "recv"} /\ sendq # <<>> /\ Head(sendq).from = "work"

\* What a collector makes of the first view it receives.
Taught(v) == [NoColl EXCEPT !.view = v, !.refresh = v.refresh,
                            !.extra = v.extra, !.verbose = v.verbose]

\* What the collector of this generation remembers, or will when it has received
\* the view of doWork.  Nothing is known of a collector that has received the view
\* of a handler instead, nor of one that has returned.
Minds ==
  (IF gen > 0 /\ cpc[gen] \in Serving /\ Introduced THEN {coll[gen]} ELSE {})
  \cup (IF gen > 0 /\ Presenting THEN {Taught(Head(sendq).view)} ELSE {})

Started == gen = 0 => ui \in {"newgui", "stopped"}

\* The collectors of earlier generations have returned.
OldOver == \A g \in Gens : g # gen => cpc[g] \in {"none", "closed", "dead"}

\* A collector waits for its first view until doWork or a handler has sent it one,
\* and goes no further than its first batch before doWork has sent its own.
Begun ==
  \A g \in Gens :
    /\ cpc[g] \in {"new", "recv"} => work[g] \in {"enqueue", "send"}
    /\ work[g] \in {"enqueue", "send"} => cpc[g] \notin {"wait", "reset", "delivererr"}

\* A view changes at most one of the settings that keep the snapshots.
OneOff(c, v) ==
  /\ ~(RefreshChanged(c, v) /\ ExtraChanged(c, v))
  /\ ~(RefreshChanged(c, v) /\ VerboseChanged(c, v))
  /\ ~(ExtraChanged(c, v) /\ VerboseChanged(c, v))

SameLook(v, w) == v.name = w.name /\ v.extra = w.extra /\ v.verbose = w.verbose

\* The collector is one key press behind at most.
Lag(c) ==
  /\ c.extra = c.view.extra /\ c.verbose = c.view.verbose
  /\ Quiet => SameLook(c.view, view) /\ view.refresh \in {0, c.refresh}
  /\ ui \in {"handler", "dialog"} => OneOff(c, view)
  /\ \A s \in FromUser :
       /\ OneOff(c, s.view)
       /\ SameLook(s.view, view) /\ view.refresh \in {0, s.view.refresh}

Steady == OldOver /\ Begun /\ \A c \in Minds : Lag(c)

\* The interval is in the view only while it is handed over.
Transient ==
  /\ asked # 0 /\ \A n \in Views : saved[n] = 0
  /\ gen > 0 /\ work[gen] \in Starting => ui # "dialog" /\ \A s \in FromUser : ~s.clear
  /\ IF gen > 0 /\ work[gen] \in {"enqueue", "send", "clear"}
     THEN view.refresh = asked
     ELSE /\ Quiet \/ ui = "handler" => view.refresh = 0
          /\ ui = "dialog" => view.refresh = asked
          /\ \A s \in FromUser : view.refresh = IF s.clear THEN asked ELSE 0

\* A view that keeps the snapshots is the one they were taken for.
KeepsView(c, v) == KeepsSnapshots(c, v) => v.name = c.view.name

\* The collector ticks as asked, but for the interval of a dialog on its way.
Timed(c) ==
  /\ c.refresh # 0
  /\ Quiet \/ ui = "handler" => c.refresh = asked
  /\ ui \in {"handler", "dialog"} => KeepsView(c, view)
  /\ \A s \in FromUser :
       /\ KeepsView(c, s.view)
       /\ IF s.clear THEN s.view.refresh = asked
          ELSE c.refresh = asked /\ s.view.refresh \in {0, asked}

\* Snapshots and batches are of the view the collector works for.
Snapped ==
  \A g \in Gens :
    /\ cpc[g] \in Serving => coll[g].snap \in {NoView, coll[g].view.name}
    /\ cpc[g] = "deliver" /\ coll[g].out.kind = "stat" =>
         coll[g].out.base \in {NoView, coll[g].out.view}

AsAsked == ui # "panicked" /\ Transient /\ Snapped /\ \A c \in Minds : Timed(c)

KeyInv ==
  /\ Started
  /\ NoOrphan => Steady
  /\ mishaps = {} => AsAsked

LEMMA RefreshNumbers == Refreshes \subseteq Int /\ \A r \in Refreshes : r >= 0
BY DEF Refreshes, DefaultRefresh

\* What is remembered of a collector has its type.
LEMMA MindTypes ==
  ASSUME TypeOK, NEW c \in Minds
  PROVE  /\ c \in CollState /\ c.view \in ViewRec
         /\ c.refresh \in Int /\ c.refresh >= 0
         /\ gen \in Gens
<1>1. gen > 0 => gen \in Gens
  BY PipelineAssumption DEF TypeOK, Gens
<1>2. gen > 0
  BY DEF Minds
<1>3. CASE c = coll[gen] /\ cpc[gen] \in Serving
  <2>1. c \in CollState
    BY <1>1, <1>2, <1>3 DEF TypeOK
  <2>. QED BY <1>1, <1>2, <2>1, RefreshNumbers DEF CollState
<1>4. CASE Presenting /\ c = Taught(Head(sendq).view)
  <2>1. sendq # <<>> /\ sendq \in Seq(Sender)
    BY <1>4 DEF TypeOK, Presenting
  <2>2. Head(sendq) \in Sender
    BY <2>1
  <2>3. Head(sendq).view \in ViewRec
    BY <2>2 DEF Sender
  <2>4. c \in CollState
    BY <1>4, <2>3, InitTypes DEF Taught, CollState, ViewRec
  <2>. QED BY <1>1, <1>2, <2>4, RefreshNumbers DEF CollState
<1>. QED BY <1>3, <1>4 DEF Minds

\* The queue of viewCh, as far as handlers are concerned.
LEMMA FromUserIndex ==
  \A s : s \in FromUser <=> \E i \in 1..Len(sendq) : sendq[i].from = "ui" /\ s = sendq[i]
BY DEF FromUser

LEMMA NobodySends ==
  ASSUME GenInv, Running, ui # "send"
  PROVE  FromUser = {}
BY DEF GenInv, Senders, FromUser

LEMMA SentTypes ==
  ASSUME TypeOK, NEW s \in FromUser
  PROVE  /\ s \in Sender /\ s.view \in ViewRec /\ s.clear \in BOOLEAN
         /\ s.view.refresh \in Int /\ s.view.refresh >= 0
<1>1. s \in Sender
  <2>1. PICK i \in 1..Len(sendq) : s = sendq[i]
    BY FromUserIndex
  <2>. QED BY <2>1 DEF TypeOK
<1>2. s.view \in ViewRec
  BY <1>1 DEF Sender
<1>. QED BY <1>1, <1>2, RefreshNumbers DEF Sender, ViewRec

\* Completing a send leaves the other senders in the queue.
LEMMA TakeViewSent ==
  ASSUME TypeOK, GenInv, Running, TakeView
  PROVE  /\ FromUser' \subseteq FromUser
         /\ Head(sendq).from = "ui" =>
              /\ Head(sendq) \in FromUser /\ FromUser' = {} /\ ui = "send" /\ ui' = "loop"
              /\ work' = work
              /\ view' = IF Head(sendq).clear THEN [view EXCEPT !.refresh = 0] ELSE view
         /\ Head(sendq).from # "ui" =>
              /\ Head(sendq).from = "work" /\ Head(sendq).gen = gen /\ gen \in Gens
              /\ work[gen] = "send" /\ work' = [work EXCEPT ![gen] = "clear"]
              /\ ui' = ui /\ view' = view
<1>. DEFINE s == Head(sendq)
<1>1. /\ sendq # <<>> /\ sendq' = Tail(sendq)
      /\ ui' = (IF s.from = "ui" THEN "loop" ELSE ui)
      /\ work' = (IF s.from = "work" THEN [work EXCEPT ![s.gen] = "clear"] ELSE work)
      /\ view' = (IF s.clear THEN [view EXCEPT !.refresh = 0] ELSE view)
  BY DEF TakeView
<1>2. /\ s = sendq[1] /\ Len(sendq) \in Nat /\ Len(sendq) >= 1
      /\ Len(sendq') = Len(sendq) - 1
      /\ \A i \in 1..Len(sendq') : sendq'[i] = sendq[i + 1]
  BY <1>1, QueueTail
<1>3. s \in Sender
  BY <1>1 DEF TypeOK
<1>4. s.from \in {"ui", "work"}
  BY <1>3 DEF Sender
<1>. HIDE DEF s
<1>5. FromUser' = {sendq'[i] : i \in {j \in 1..Len(sendq') : sendq'[j].from = "ui"}}
  BY DEF FromUser
<1>6. \A t \in FromUser' : \E i \in 1..Len(sendq') : t = sendq'[i] /\ sendq'[i].from = "ui"
  BY <1>5
<1>7. \A t \in FromUser' : \E k \in 2..Len(sendq) : t = sendq[k] /\ sendq[k].from = "ui"
  <2>. SUFFICES ASSUME NEW t \in FromUser'
                PROVE  \E k \in 2..Len(sendq) : t = sendq[k] /\ sendq[k].from = "ui"
    OBVIOUS
  <2>1. PICK i \in 1..Len(sendq') : t = sendq'[i] /\ sendq'[i].from = "ui"
    BY <1>6
  <2>2. i + 1 \in 2..Len(sendq) /\ t = sendq[i + 1] /\ sendq[i + 1].from = "ui"
    BY <1>2, <2>1
  <2>. QED BY <2>2
<1>8. FromUser' \subseteq FromUser
  BY <1>2, <1>7, FromUserIndex
<1>9. s.from = "ui" => s \in FromUser
  BY <1>2, FromUserIndex
<1>10. s.from = "ui" => FromUser' = {}
  <2>1. s.from = "ui" => \A k \in 2..Len(sendq) : sendq[k].from # "ui"
    BY <1>2 DEF GenInv, Senders
  <2>. QED BY <1>7, <2>1
<1>11. s.from = "ui" => ui = "send"
  BY <1>2 DEF GenInv, Senders
<1>12. s.from = "work" => s.gen \in Gens /\ work[s.gen] = "send" /\ s.gen = gen /\ ~s.clear
  BY <1>2 DEF GenInv, Senders, OneWorker
<1>. QED BY <1>1, <1>4, <1>8, <1>9, <1>10, <1>11, <1>12 DEF s

\* A collector that remembers the same, but for its snapshots and its batch.
Like(c, d) ==
  /\ d.view = c.view /\ d.refresh = c.refresh
  /\ d.extra = c.extra /\ d.verbose = c.verbose

\* The users of viewCh and the view move on without a new key press.
Calm ==
  /\ UNCHANGED <<gen, saved, asked>>
  /\ SameLook(view', view) /\ view'.refresh \in {0, view.refresh}
  /\ FromUser' \subseteq FromUser
  /\ Quiet' => Quiet
  /\ ui' \in {"handler", "dialog"} => ui' = ui

\* In a calm step a collector that remembers the same is as far behind as before.
LEMMA CalmMind ==
  ASSUME Calm, NEW c, NEW d, Like(c, d)
  PROVE  Lag(c) => Lag(d)'
<1>. SUFFICES ASSUME Lag(c) PROVE Lag(d)'
  OBVIOUS
<1>. USE DEF Calm, Like, SameLook
<1>1. d.extra = d.view.extra /\ d.verbose = d.view.verbose
  BY DEF Lag
<1>2. Quiet' => SameLook(d.view, view') /\ view'.refresh \in {0, d.refresh}
  BY DEF Lag
<1>3. ui' \in {"handler", "dialog"} => OneOff(d, view')
  BY DEF Lag, OneOff, RefreshChanged, ExtraChanged, VerboseChanged
<1>4. ASSUME NEW s \in FromUser'
      PROVE  /\ OneOff(d, s.view)
             /\ SameLook(s.view, view') /\ view'.refresh \in {0, s.view.refresh}
  BY <1>4 DEF Lag, OneOff, RefreshChanged, ExtraChanged, VerboseChanged
<1>. QED BY <1>1, <1>2, <1>3, <1>4 DEF Lag

LEMMA CalmTime ==
  ASSUME Calm, NEW c, NEW d, Like(c, d)
  PROVE  Timed(c) => Timed(d)'
<1>. SUFFICES ASSUME Timed(c) PROVE Timed(d)'
  OBVIOUS
<1>. USE DEF Calm, Like, SameLook
<1>1. d.refresh # 0 /\ (Quiet' \/ ui' = "handler" => d.refresh = asked')
  BY DEF Timed
<1>2. ui' \in {"handler", "dialog"} => KeepsView(d, view')
  BY DEF Timed, KeepsView, KeepsSnapshots, RefreshChanged, ExtraChanged, VerboseChanged
<1>3. ASSUME NEW s \in FromUser'
      PROVE  /\ KeepsView(d, s.view)
             /\ IF s.clear THEN s.view.refresh = asked'
                ELSE d.refresh = asked' /\ s.view.refresh \in {0, asked'}
  BY <1>3 DEF Timed, KeepsView, KeepsSnapshots, RefreshChanged, ExtraChanged, VerboseChanged
<1>. QED BY <1>1, <1>2, <1>3 DEF Timed

\* What is remembered of a collector carries over from the state before.
Remembered == \A d \in Minds' : \E c \in Minds : Like(c, d)

LEMMA CalmMinds ==
  ASSUME Calm, Remembered
  PROVE  /\ (\A c \in Minds : Lag(c)) => (\A c \in Minds : Lag(c))'
         /\ (\A c \in Minds : Timed(c)) => (\A c \in Minds : Timed(c))'
<1>1. ASSUME \A c \in Minds : Lag(c), NEW d \in Minds' PROVE Lag(d)'
  <2>1. PICK c \in Minds : Like(c, d)
    BY DEF Remembered
  <2>. QED BY <1>1, <2>1, CalmMind
<1>2. ASSUME \A c \in Minds : Timed(c), NEW d \in Minds' PROVE Timed(d)'
  <2>1. PICK c \in Minds : Like(c, d)
    BY DEF Remembered
  <2>. QED BY <1>2, <2>1, CalmTime
<1>. QED BY <1>1, <1>2

\* The collector keeps what it remembers while the queue keeps its head.
LEMMA SameMinds ==
  ASSUME gen' = gen, sendq' = sendq,
         gen > 0 /\ cpc'[gen] \in Serving /\ Introduced' =>
           cpc[gen] \in Serving /\ Introduced /\ Like(coll[gen], coll'[gen]),
         gen > 0 /\ cpc'[gen] \in {"new", "recv"} => cpc[gen] \in {"new", "recv"}
  PROVE  Remembered
<1>. SUFFICES ASSUME NEW d \in Minds' PROVE \E c \in Minds : Like(c, d)
  BY DEF Remembered
<1>1. CASE gen > 0 /\ cpc'[gen] \in Serving /\ Introduced' /\ d = coll'[gen]
  BY <1>1 DEF Minds
<1>2. CASE gen > 0 /\ Presenting' /\ d = Taught(Head(sendq).view)
  <2>1. Presenting /\ d \in Minds
    BY <1>2 DEF Presenting, Minds
  <2>. QED BY <2>1 DEF Like
<1>3. Taught(Head(sendq).view)' = Taught(Head(sendq).view)
  BY DEF Taught, NoColl, StartView, ZeroBatch
<1>. QED BY <1>1, <1>2, <1>3 DEF Minds

\* The interval stays where it is when nothing happens to it.
LEMMA CalmTransient ==
  ASSUME Calm, Transient, view' = view,
         work'[gen] \in Starting => work[gen] \in Starting,
         work'[gen] \in {"enqueue", "send", "clear"} <=> work[gen] \in {"enqueue", "send", "clear"}
  PROVE  Transient'
<1>. USE DEF Calm
<1>1. /\ asked' # 0 /\ \A n \in Views : saved'[n] = 0
      /\ gen' > 0 /\ work'[gen'] \in Starting => ui' # "dialog" /\ \A s \in FromUser' : ~s.clear
  BY DEF Transient
<1>2. gen' > 0 /\ work'[gen'] \in {"enqueue", "send", "clear"} => view'.refresh = asked'
  BY DEF Transient
<1>3. ~(gen' > 0 /\ work'[gen'] \in {"enqueue", "send", "clear"}) =>
        /\ Quiet' \/ ui' = "handler" => view'.refresh = 0
        /\ ui' = "dialog" => view'.refresh = asked'
        /\ \A s \in FromUser' : view'.refresh = IF s.clear THEN asked' ELSE 0
  BY DEF Transient
<1>. QED BY <1>1, <1>2, <1>3 DEF Transient

Ready == TypeOK /\ GenInv /\ QuerierInv /\ KeyInv /\ Running

LEMMA InitKey == Init => KeyInv
<1>. SUFFICES ASSUME Init PROVE KeyInv
  OBVIOUS
<1>1. /\ ui = "newgui" /\ gen = 0 /\ view = StartView /\ view.refresh = 0
      /\ saved = [n \in Views |-> 0] /\ sendq = <<>>
      /\ work = [g \in Gens |-> "none"] /\ cpc = [g \in Gens |-> "none"]
      /\ asked # 0
  BY DEF Init, StartView, DefaultRefresh
<1>2. FromUser = {}
  BY <1>1 DEF FromUser
<1>3. Minds = {}
  BY <1>1 DEF Minds
<1>4. Steady
  BY <1>1, <1>3 DEF Steady, OldOver, Begun
<1>5. AsAsked
  BY <1>1, <1>2, <1>3 DEF AsAsked, Transient, Snapped, Serving
<1>. QED BY <1>1, <1>4, <1>5 DEF KeyInv, Started

\* mainLoop goes from one quiet point to the next.
LEMMA QuietKey ==
  ASSUME KeyInv, Quiet, Quiet', gen = 0 => ui' \in {"newgui", "stopped"},
         UNCHANGED <<gen, view, saved, sendq, work, cpc, coll, asked, mishaps>>
  PROVE  KeyInv'
<1>1. FromUser' = FromUser
  BY DEF FromUser
<1>2. Calm
  BY <1>1 DEF Calm, SameLook, Quiet
<1>3. Remembered
  BY SameMinds DEF Introduced, Like
<1>4. OldOver' = OldOver /\ Begun' = Begun /\ Snapped' = Snapped
  BY DEF OldOver, Begun, Snapped
<1>5. Transient => Transient'
  BY <1>2, CalmTransient
<1>. HIDE DEF Calm, Remembered
<1>6. Steady => Steady'
  BY <1>2, <1>3, <1>4, CalmMinds DEF Steady
<1>7. AsAsked => AsAsked'
  BY <1>2, <1>3, <1>4, <1>5, CalmMinds DEF AsAsked, Quiet
<1>. QED BY <1>6, <1>7 DEF KeyInv, Started, NoOrphan

\* A new generation has no collector yet, and the last one has no doWork.
LEMMA StartKey ==
  ASSUME Ready, StartUI
  PROVE  KeyInv'
<1>1. /\ ui = "newgui" /\ ui' = "loop" /\ gen' = gen + 1 /\ gen \in Nat
      /\ gen' \in Gens /\ gen' > 0
      /\ work' = [work EXCEPT ![gen'] = "assign"] /\ work'[gen'] = "assign"
      /\ UNCHANGED <<view, saved, sendq, cpc, coll, asked, mishaps>>
  BY PipelineAssumption DEF Ready, TypeOK, StartUI, Gens
<1>2. cpc[gen'] = "none"
  BY <1>1 DEF Ready, GenInv, Unborn
<1>3. gen > 0 => gen \in Gens /\ work[gen] = "done"
  BY <1>1, PipelineAssumption DEF Ready, TypeOK, GenInv, OneWorker, Gens
<1>4. FromUser = {} /\ FromUser' = {}
  BY <1>1, NobodySends DEF Ready, FromUser
<1>5. Minds' = {}
  BY <1>1, <1>2 DEF Minds, Presenting, Serving
<1>6. NoOrphan /\ Steady => Steady'
  <2>1. NoOrphan /\ OldOver => OldOver'
    <3>. SUFFICES ASSUME NoOrphan, OldOver, NEW g \in Gens, g # gen'
                  PROVE  cpc[g] \in {"none", "closed", "dead"}
      BY <1>1 DEF OldOver
    <3>1. CASE g = gen
      <4>1. gen > 0
        BY <3>1, PipelineAssumption DEF Gens
      <4>. QED BY <1>3, <3>1, <4>1 DEF Ready, QuerierInv
    <3>2. CASE g # gen
      BY <3>2 DEF OldOver
    <3>. QED BY <3>1, <3>2
  <2>2. Begun => Begun'
    BY <1>1, <1>2 DEF Ready, TypeOK, Begun
  <2>. QED BY <1>5, <2>1, <2>2 DEF Steady
<1>7. AsAsked => AsAsked'
  <2>1. Transient => view.refresh = 0
    BY <1>1, <1>3 DEF Transient, Quiet
  <2>2. Transient => Transient'
    BY <1>1, <1>4, <2>1 DEF Transient, Starting
  <2>3. Snapped => Snapped'
    BY <1>1 DEF Snapped
  <2>. QED BY <1>1, <1>5, <2>2, <2>3 DEF AsAsked
<1>. QED BY <1>1, <1>6, <1>7 DEF Ready, KeyInv, Started, NoOrphan

LEMMA MainLoopKey ==
  ASSUME Ready,
         \/ StartUI \/ StartUIFails \/ MainLoopFails \/ Restart \/ Quit
         \/ AskProgram \/ RunProgram
         \/ \E b \in pend : Render(b)
  PROVE  KeyInv'
<1>1. CASE StartUI BY <1>1, StartKey
<1>2. CASE StartUIFails
  BY <1>2, QuietKey DEF Ready, StartUIFails, Quiet
<1>3. CASE MainLoopFails
  <2>1. /\ ui \in {"loop", "program"} /\ ui' \in {"wait", "stopped"}
        /\ UNCHANGED <<gen, view, saved, sendq, work, cpc, coll, asked, mishaps>>
    BY <1>3 DEF MainLoopFails
  <2>. QED BY <2>1, QuietKey DEF Ready, KeyInv, Started, Quiet
<1>4. CASE Restart
  BY <1>4, QuietKey DEF Ready, Restart, Quiet
<1>5. CASE Quit
  BY <1>5, QuietKey DEF Ready, Quit, Quiet
<1>6. CASE AskProgram
  BY <1>6, QuietKey DEF Ready, AskProgram, Quiet, KeyInv, Started
<1>7. CASE RunProgram
  BY <1>7 DEF Ready, RunProgram, KeyInv, Started, NoOrphan
<1>8. CASE \E b \in pend : Render(b)
  BY <1>8, QuietKey DEF Ready, Render, Quiet, KeyInv, Started
<1>. QED BY <1>1, <1>2, <1>3, <1>4, <1>5, <1>6, <1>7, <1>8

\* A key press keeps the invariant when it changes one setting, and when a handler
\* that touches the interval does so while doWork does not.
LEMMA PressKey ==
  ASSUME Ready, ui = "loop", ui' \in {"handler", "dialog"}, view' \in ViewRec,
         mishaps' \in {mishaps, mishaps \cup {"early"}},
         UNCHANGED <<gen, sendq, work, cpc, coll>>,
         \/ view'.extra = view.extra /\ view'.verbose = view.verbose
         \/ view'.refresh = view.refresh /\ view'.verbose = view.verbose
         \/ view'.refresh = view.refresh /\ view'.extra = view.extra,
         mishaps' = {} /\ Transient =>
           /\ \A n \in Views : saved'[n] = 0
           /\ ui' = "handler" =>
                /\ asked' = asked /\ view'.refresh = view.refresh
                /\ view'.name # view.name =>
                     view'.extra = view.extra /\ view'.verbose = view.verbose
           /\ ui' = "dialog" =>
                /\ work[gen] \notin Starting
                /\ asked' # 0 /\ view'.refresh = asked' /\ view'.name = view.name
  PROVE  KeyInv'
<1>1. FromUser = {} /\ FromUser' = {} /\ Quiet /\ ~Quiet'
  BY NobodySends DEF Ready, FromUser, Quiet
<1>2. Minds' = Minds
  BY DEF Minds, Introduced, Presenting, Taught, NoColl, StartView, ZeroBatch
<1>3. OldOver' = OldOver /\ Begun' = Begun /\ Snapped' = Snapped
  BY DEF OldOver, Begun, Snapped
<1>4. Steady => Steady'
  <2>1. ASSUME NEW c \in Minds, Lag(c) PROVE Lag(c)'
    <3>1. OneOff(c, view')
      BY <1>1, <2>1, MindTypes DEF Ready, Lag, SameLook, OneOff, RefreshChanged,
         ExtraChanged, VerboseChanged
    <3>. QED BY <1>1, <2>1, <3>1 DEF Lag
  <2>. QED BY <1>2, <1>3, <2>1 DEF Steady
<1>5. ASSUME mishaps' = {}, Transient PROVE Transient'
  <2>1. gen > 0
    BY DEF Ready, TypeOK, KeyInv, Started
  <2>2. CASE ui' = "handler"
    BY <1>1, <1>5, <2>1, <2>2 DEF Transient
  <2>3. CASE ui' = "dialog"
    BY <1>1, <1>5, <2>1, <2>3 DEF Transient, Starting
  <2>. QED BY <2>2, <2>3
<1>6. ASSUME mishaps' = {}, Steady, Transient, NEW c \in Minds, Timed(c) PROVE Timed(c)'
  <2>1. c.refresh # 0 /\ c.refresh = asked
    BY <1>1, <1>6 DEF Timed
  <2>2. /\ SameLook(c.view, view) /\ view.refresh \in {0, c.refresh}
        /\ c.extra = c.view.extra /\ c.verbose = c.view.verbose
    BY <1>1, <1>6 DEF Steady, Lag
  <2>3. KeepsView(c, view')
    BY <1>6, <2>2, MindTypes DEF Ready, SameLook, KeepsView, KeepsSnapshots, RefreshChanged,
       ExtraChanged, VerboseChanged
  <2>4. ui' = "handler" => c.refresh = asked'
    BY <1>6, <2>1
  <2>. QED BY <1>1, <2>1, <2>3, <2>4 DEF Timed
<1>7. mishaps' = {} /\ Steady /\ AsAsked => AsAsked'
  BY <1>2, <1>3, <1>5, <1>6 DEF AsAsked
<1>8. /\ NoOrphan' => NoOrphan
      /\ mishaps' = {} => mishaps = {}
      /\ mishaps = {} => NoOrphan
  BY DEF NoOrphan
<1>9. Started'
  BY DEF Ready, KeyInv, Started
<1>. QED BY <1>4, <1>7, <1>8, <1>9 DEF Ready, KeyInv

\* The interval of the view while the main loop waits for a key.
LEMMA PressState ==
  ASSUME Transient, ui = "loop"
  PROVE  /\ asked # 0 /\ \A n \in Views : saved[n] = 0
         /\ work[gen] \notin Starting => view.refresh = 0
BY DEF Transient, Quiet, Starting

LEMMA NotEarly ==
  ASSUME WritesRefresh
  PROVE  /\ mishaps' \in {mishaps, mishaps \cup {"early"}}
         /\ mishaps' = {} => work[gen] \notin Starting
BY DEF WritesRefresh

LEMMA UserKey ==
  ASSUME Ready,
         \/ \E n \in Views : SwitchView(n)
         \/ \E i \in Answers : ChangeRefresh(i)
         \/ \E e \in Extras \ {0} : ShowExtra(e)
         \/ ReloadView \/ ResendView \/ ToggleVerbose
  PROVE  KeyInv'
<1>0. view \in ViewRec /\ saved \in [Views -> Refreshes] /\ view' \in ViewRec
  BY UserTypes DEF Ready, TypeOK
<1>. USE DEF MayPress
<1>1. ASSUME NEW n \in Views, SwitchView(n) PROVE KeyInv'
  <2>1. /\ ui = "loop" /\ ui' = "handler" /\ WritesRefresh
        /\ saved' = [saved EXCEPT ![view.name] = view.refresh]
        /\ view' = [view EXCEPT !.name = n,
                                !.refresh = IF n = view.name THEN @ ELSE saved[n]]
        /\ UNCHANGED <<gen, sendq, work, cpc, coll, asked>>
    BY <1>1 DEF SwitchView
  <2>2. view'.extra = view.extra /\ view'.verbose = view.verbose
    BY <1>0, <2>1 DEF ViewRec
  <2>3. view'.refresh = IF n = view.name THEN view.refresh ELSE saved[n]
    BY <1>0, <2>1 DEF ViewRec
  <2>4. mishaps' = {} /\ Transient =>
          view'.refresh = view.refresh /\ \A m \in Views : saved'[m] = 0
    BY <1>0, <2>1, <2>3, PressState, NotEarly
  <2>. QED BY <1>0, <2>1, <2>2, <2>4, PressKey, NotEarly
<1>2. ASSUME NEW i \in Answers, ChangeRefresh(i) PROVE KeyInv'
  <2>1. /\ ui = "loop" /\ ui' = "dialog" /\ WritesRefresh /\ asked' = i /\ i # 0
        /\ view' = [view EXCEPT !.refresh = i]
        /\ UNCHANGED <<gen, saved, sendq, work, cpc, coll>>
    BY <1>2 DEF ChangeRefresh, ValidRefresh
  <2>2. /\ view'.extra = view.extra /\ view'.verbose = view.verbose
        /\ view'.name = view.name /\ view'.refresh = i
    BY <1>0, <2>1 DEF ViewRec
  <2>. QED BY <1>0, <2>1, <2>2, PressKey, PressState, NotEarly
<1>3. ASSUME NEW e \in Extras \ {0}, ShowExtra(e) PROVE KeyInv'
  <2>1. /\ ui = "loop" /\ ui' = "handler" /\ mishaps' = mishaps
        /\ UNCHANGED <<gen, saved, sendq, work, cpc, coll, asked>>
    BY <1>3 DEF ShowExtra
  <2>2. view'.refresh = view.refresh /\ view'.name = view.name /\ view'.verbose = view.verbose
    BY <1>0, <1>3 DEF ShowExtra, ViewRec
  <2>. QED BY <1>0, <2>1, <2>2, PressKey, PressState
<1>4. CASE ReloadView
  <2>1. /\ ui = "loop" /\ ui' = "handler" /\ WritesRefresh
        /\ view' = [view EXCEPT !.refresh = saved[view.name]]
        /\ UNCHANGED <<gen, saved, sendq, work, cpc, coll, asked>>
    BY <1>4 DEF ReloadView
  <2>2. /\ view'.extra = view.extra /\ view'.verbose = view.verbose
        /\ view'.name = view.name /\ view'.refresh = saved[view.name] /\ view.name \in Views
    BY <1>0, <2>1 DEF ViewRec
  <2>3. mishaps' = {} /\ Transient =>
          view'.refresh = view.refresh /\ \A m \in Views : saved'[m] = 0
    BY <2>1, <2>2, PressState, NotEarly
  <2>. QED BY <1>0, <2>1, <2>2, <2>3, PressKey, NotEarly
<1>5. CASE ResendView
  <2>1. /\ ui = "loop" /\ ui' = "handler" /\ mishaps' = mishaps /\ view' = view
        /\ UNCHANGED <<gen, saved, sendq, work, cpc, coll, asked>>
    BY <1>5 DEF ResendView
  <2>. QED BY <1>0, <2>1, PressKey, PressState
<1>6. CASE ToggleVerbose
  <2>1. /\ ui = "loop" /\ ui' = "handler" /\ mishaps' = mishaps
        /\ UNCHANGED <<gen, saved, sendq, work, cpc, coll, asked>>
    BY <1>6 DEF ToggleVerbose
  <2>2. view'.refresh = view.refresh /\ view'.name = view.name /\ view'.extra = view.extra
    BY <1>0, <1>6 DEF ToggleVerbose, ViewRec
  <2>. QED BY <1>0, <2>1, <2>2, PressKey, PressState
<1>. QED BY <1>1, <1>2, <1>3, <1>4, <1>5, <1>6

\* A handler that sends the view becomes the only one in the queue.
LEMMA NotifyKey ==
  ASSUME Ready, Notify
  PROVE  KeyInv'
<1>. DEFINE s == [from |-> "ui", gen |-> gen, view |-> view,
                  clear |-> ui = "dialog" /\ ClearsRefresh]
<1>1. /\ ui \in {"handler", "dialog"} /\ ui' = "send" /\ sendq' = Append(sendq, s)
      /\ UNCHANGED <<gen, view, saved, work, cpc, coll, asked, mishaps>>
  BY DEF Notify
<1>2. s.from = "ui" /\ s.view = view /\ (s.clear <=> ui = "dialog")
  BY DEF ClearsRefresh
<1>. HIDE DEF s
<1>3. FromUser = {} /\ ~Quiet'
  BY <1>1, NobodySends DEF Ready, Quiet
<1>4. \A t \in FromUser' : t = s
  <2>. SUFFICES ASSUME NEW t \in FromUser' PROVE t = s
    OBVIOUS
  <2>1. FromUser' = {sendq'[i] : i \in {j \in 1..Len(sendq') : sendq'[j].from = "ui"}}
    BY DEF FromUser
  <2>2. PICK i \in 1..Len(sendq') : t = sendq'[i] /\ sendq'[i].from = "ui"
    BY <2>1
  <2>3. /\ Len(sendq') = Len(sendq) + 1 /\ Len(sendq) \in Nat
        /\ \A j \in 1..Len(sendq) : sendq'[j] = sendq[j]
        /\ sendq'[Len(sendq) + 1] = s
    BY <1>1, QueueAppend DEF Ready
  <2>4. i \notin 1..Len(sendq)
    BY <1>3, <2>2, <2>3, FromUserIndex
  <2>. QED BY <2>2, <2>3, <2>4
<1>5. Minds' \subseteq Minds
  <2>1. Presenting' => Presenting /\ Head(sendq') = Head(sendq)
    <3>1. sendq \in Seq(Sender)
      BY DEF Ready, TypeOK
    <3>2. sendq = <<>> => Head(sendq') = s
      BY <1>1
    <3>3. sendq # <<>> => Head(sendq') = Head(sendq)
      BY <1>1, <3>1
    <3>. QED BY <1>1, <1>2, <3>2, <3>3 DEF Presenting
  <2>2. \A v : Taught(v)' = Taught(v)
    BY DEF Taught, NoColl, StartView, ZeroBatch
  <2>3. Taught(Head(sendq).view)' = Taught(Head(sendq').view)
    BY DEF Taught, NoColl, StartView, ZeroBatch
  <2>. QED BY <1>1, <2>1, <2>2, <2>3 DEF Minds, Introduced
<1>6. OldOver' = OldOver /\ Begun' = Begun /\ Snapped' = Snapped
  BY <1>1 DEF OldOver, Begun, Snapped
<1>7. Steady => Steady'
  <2>1. ASSUME NEW c \in Minds, Lag(c) PROVE Lag(c)'
    BY <1>1, <1>2, <1>3, <1>4, <2>1 DEF Lag, SameLook
  <2>. QED BY <1>5, <1>6, <2>1 DEF Steady
<1>8. Transient => Transient'
  <2>1. gen > 0
    BY <1>1 DEF Ready, TypeOK, KeyInv, Started
  <2>2. Transient => asked # 0 /\ \A n \in Views : saved[n] = 0
    BY DEF Transient
  <2>3. Transient /\ work[gen] \in Starting => ui = "handler"
    BY <1>1, <2>1 DEF Transient
  <2>4. CASE work[gen] \in {"enqueue", "send", "clear"}
    BY <1>1, <1>2, <1>4, <2>1, <2>2, <2>3, <2>4 DEF Transient, Starting
  <2>5. CASE work[gen] \notin {"enqueue", "send", "clear"}
    BY <1>1, <1>2, <1>3, <1>4, <2>1, <2>2, <2>3, <2>5 DEF Transient
  <2>. QED BY <2>4, <2>5
<1>9. ASSUME Transient, NEW c \in Minds, Timed(c) PROVE Timed(c)'
  <2>1. c.refresh # 0 /\ KeepsView(c, view) /\ (ui = "handler" => c.refresh = asked)
    BY <1>1, <1>9 DEF Timed
  <2>2. view.refresh \in {0, asked} /\ (ui = "dialog" => view.refresh = asked)
    BY <1>1, <1>9 DEF Transient, Starting
  <2>. QED BY <1>1, <1>2, <1>3, <1>4, <2>1, <2>2 DEF Timed
<1>10. AsAsked => AsAsked'
  BY <1>1, <1>5, <1>6, <1>8, <1>9 DEF AsAsked
<1>. QED BY <1>1, <1>7, <1>10 DEF Ready, KeyInv, Started, NoOrphan

\* Only the latest doWork takes steps.
LEMMA LatestWorks ==
  ASSUME TypeOK, GenInv, NEW g \in Gens, DoWork(g)
  PROVE  g = gen /\ gen \in Gens /\ gen > 0
<1>1. work[g] \notin {"none", "done"}
  BY DEF DoWork, WorkAssign, WorkEnqueue, WorkClear, WorkReceiveClosed, WorkPrint,
         WorkCancelled, WorkJoin
<1>2. g > 0
  BY PipelineAssumption DEF Gens
<1>. QED BY <1>1, <1>2 DEF GenInv, OneWorker

\* doWork is in the queue only while it sends.
LEMMA HeadFromWork ==
  ASSUME TypeOK, GenInv, sendq # <<>>, Head(sendq).from = "work"
  PROVE  work[gen] = "send"
<1>1. Head(sendq) = sendq[1] /\ 1 \in 1..Len(sendq)
  BY QueueTail
<1>. QED BY <1>1 DEF GenInv, Senders, OneWorker

LEMMA AssignKey ==
  ASSUME Ready, NEW g \in Gens, WorkAssign(g), g = gen, gen > 0
  PROVE  KeyInv'
<1>1. /\ work[gen] = "assign" /\ work' = [work EXCEPT ![gen] = "enqueue"] /\ work'[gen] = "enqueue"
      /\ cpc' = [cpc EXCEPT ![gen] = "new"] /\ cpc'[gen] = "new"
      /\ view' = [view EXCEPT !.refresh = DefaultRefresh] /\ asked' = DefaultRefresh
      /\ view'.refresh = asked' /\ asked' # 0
      /\ UNCHANGED <<ui, gen, saved, sendq, coll, mishaps>>
  BY DEF Ready, TypeOK, WorkAssign, ViewRec, DefaultRefresh
<1>2. Minds' = {}
  <2>1. ~Presenting'
    BY <1>1, HeadFromWork DEF Ready, Presenting
  <2>. QED BY <1>1, <2>1 DEF Minds, Introduced
<1>3. Steady => Steady'
  <2>1. OldOver => OldOver'
    BY <1>1 DEF Ready, TypeOK, OldOver
  <2>2. Begun => Begun'
    BY <1>1 DEF Ready, TypeOK, Begun
  <2>. QED BY <1>2, <2>1, <2>2 DEF Steady
<1>4. FromUser' = FromUser
  BY <1>1 DEF FromUser
<1>5. Transient => Transient'
  BY <1>1, <1>4 DEF Transient, Starting
<1>6. Snapped => Snapped'
  BY <1>1 DEF Ready, TypeOK, Snapped, Serving
<1>7. AsAsked => AsAsked'
  BY <1>1, <1>2, <1>5, <1>6 DEF AsAsked
<1>. QED BY <1>1, <1>3, <1>7 DEF Ready, KeyInv, Started, NoOrphan

\* doWork presents the view of the moment, unless a handler stands before it.
LEMMA EnqueueKey ==
  ASSUME Ready, NEW g \in Gens, WorkEnqueue(g), g = gen, gen > 0
  PROVE  KeyInv'
<1>. DEFINE s == [from |-> "work", gen |-> g, view |-> view, clear |-> FALSE]
<1>1. /\ work[gen] = "enqueue" /\ work' = [work EXCEPT ![gen] = "send"] /\ work'[gen] = "send"
      /\ sendq' = Append(sendq, s)
      /\ UNCHANGED <<ui, gen, view, saved, cpc, coll, asked, mishaps>>
  BY DEF Ready, TypeOK, WorkEnqueue
<1>2. s.from = "work" /\ s.view = view
  OBVIOUS
<1>. HIDE DEF s
<1>3. FromUser' \subseteq FromUser
  <2>1. FromUser' = {sendq'[i] : i \in {j \in 1..Len(sendq') : sendq'[j].from = "ui"}}
    BY DEF FromUser
  <2>2. /\ Len(sendq') = Len(sendq) + 1 /\ Len(sendq) \in Nat
        /\ \A j \in 1..Len(sendq) : sendq'[j] = sendq[j]
        /\ sendq'[Len(sendq) + 1] = s
    BY <1>1, QueueAppend DEF Ready
  <2>. SUFFICES ASSUME NEW t \in FromUser' PROVE t \in FromUser
    OBVIOUS
  <2>3. PICK i \in 1..Len(sendq') : t = sendq'[i] /\ sendq'[i].from = "ui"
    BY <2>1
  <2>4. i \in 1..Len(sendq)
    BY <1>2, <2>2, <2>3
  <2>. QED BY <2>2, <2>3, <2>4, FromUserIndex
<1>4. ASSUME NEW d \in Minds' PROVE d = Taught(view) /\ sendq = <<>>
  <2>1. Presenting' /\ d = Taught(Head(sendq).view)'
    BY <1>1, <1>4 DEF Minds, Introduced
  <2>2. sendq = <<>>
    <3>1. sendq \in Seq(Sender)
      BY DEF Ready, TypeOK
    <3>2. sendq # <<>> => Head(sendq') = Head(sendq)
      BY <1>1, <3>1
    <3>. QED BY <1>1, <2>1, <3>2, HeadFromWork DEF Ready, Presenting
  <2>3. Head(sendq') = s
    BY <1>1, <2>2
  <2>4. Taught(Head(sendq).view)' = Taught(Head(sendq').view)
    BY DEF Taught, NoColl, StartView, ZeroBatch
  <2>. QED BY <1>2, <2>1, <2>2, <2>3, <2>4
<1>5. /\ Taught(view).view = view /\ Taught(view).refresh = view.refresh
      /\ Taught(view).extra = view.extra /\ Taught(view).verbose = view.verbose
  BY DEF Taught, NoColl
<1>6. sendq = <<>> => FromUser' = {}
  <2>1. sendq = <<>> => FromUser = {}
    BY FromUserIndex
  <2>. QED BY <1>3, <2>1
<1>7. OldOver' = OldOver /\ Snapped' = Snapped
  BY <1>1 DEF OldOver, Snapped
<1>8. Steady => Steady'
  <2>1. Begun => Begun'
    BY <1>1 DEF Ready, TypeOK, Begun
  <2>2. ASSUME NEW d \in Minds' PROVE Lag(d)'
    BY <1>1, <1>4, <1>5, <1>6 DEF Lag, SameLook, OneOff, RefreshChanged, ExtraChanged,
       VerboseChanged
  <2>. QED BY <1>7, <2>1, <2>2 DEF Steady
<1>9. Calm
  BY <1>1, <1>3 DEF Calm, SameLook, Quiet
<1>10. Transient => Transient'
  BY <1>1, <1>9, CalmTransient DEF Starting
<1>11. ASSUME Transient, NEW d \in Minds' PROVE Timed(d)'
  <2>1. view.refresh = asked /\ asked # 0
    BY <1>1, <1>11 DEF Transient
  <2>. QED BY <1>1, <1>4, <1>5, <1>6, <2>1 DEF Timed, KeepsView
<1>12. AsAsked => AsAsked'
  BY <1>1, <1>7, <1>10, <1>11 DEF AsAsked
<1>. QED BY <1>1, <1>8, <1>12 DEF Ready, KeyInv, Started, NoOrphan

\* doWork takes its interval back.
LEMMA ClearKey ==
  ASSUME Ready, NEW g \in Gens, WorkClear(g), g = gen, gen > 0
  PROVE  KeyInv'
<1>1. /\ work[gen] = "clear" /\ work' = [work EXCEPT ![gen] = "select"] /\ work'[gen] = "select"
      /\ view' = [view EXCEPT !.refresh = 0]
      /\ view'.refresh = 0 /\ SameLook(view', view)
      /\ UNCHANGED <<ui, gen, saved, sendq, cpc, coll, asked, mishaps>>
  BY DEF Ready, TypeOK, WorkClear, ViewRec, SameLook
<1>2. FromUser' = FromUser
  BY <1>1 DEF FromUser
<1>3. Calm
  BY <1>1, <1>2 DEF Calm, Quiet
<1>4. Remembered
  BY <1>1, SameMinds DEF Introduced, Like
<1>5. OldOver' = OldOver /\ Snapped' = Snapped
  BY <1>1 DEF OldOver, Snapped
<1>6. Begun => Begun'
  BY <1>1 DEF Ready, TypeOK, Begun
<1>7. Transient => Transient'
  BY <1>1, <1>2 DEF Transient, Starting
<1>. HIDE DEF Calm, Remembered
<1>8. Steady => Steady'
  BY <1>3, <1>4, <1>5, <1>6, CalmMinds DEF Steady
<1>9. AsAsked => AsAsked'
  BY <1>1, <1>3, <1>4, <1>5, <1>7, CalmMinds DEF AsAsked
<1>. QED BY <1>1, <1>8, <1>9 DEF Ready, KeyInv, Started, NoOrphan

\* The loop of doWork.
LEMMA LoopKey ==
  ASSUME Ready, NEW g \in Gens, g = gen, gen > 0,
         NEW p \in {"select", "print", "join", "done"},
         work[gen] \in {"select", "print", "join"},
         work' = [work EXCEPT ![gen] = p],
         UNCHANGED <<ui, gen, view, saved, sendq, cpc, coll, asked, mishaps>>
  PROVE  KeyInv'
<1>1. work'[gen] = p
  BY DEF Ready, TypeOK
<1>2. FromUser' = FromUser
  BY DEF FromUser
<1>3. Calm
  BY <1>2 DEF Calm, SameLook, Quiet
<1>4. Remembered
  BY <1>1, SameMinds DEF Introduced, Like
<1>5. OldOver' = OldOver /\ Snapped' = Snapped
  BY DEF OldOver, Snapped
<1>6. Begun => Begun'
  BY <1>1 DEF Ready, TypeOK, Begun
<1>7. Transient => Transient'
  BY <1>1, <1>3, CalmTransient DEF Starting
<1>. HIDE DEF Calm, Remembered
<1>8. Steady => Steady'
  BY <1>3, <1>4, <1>5, <1>6, CalmMinds DEF Steady
<1>9. AsAsked => AsAsked'
  BY <1>3, <1>4, <1>5, <1>7, CalmMinds DEF AsAsked
<1>. QED BY <1>8, <1>9 DEF Ready, KeyInv, Started, NoOrphan

LEMMA DoWorkKey ==
  ASSUME Ready, NEW g \in Gens, DoWork(g)
  PROVE  KeyInv'
<1>1. g = gen /\ gen > 0
  BY LatestWorks DEF Ready
<1>2. CASE WorkAssign(g)        BY <1>1, <1>2, AssignKey
<1>3. CASE WorkEnqueue(g)       BY <1>1, <1>3, EnqueueKey
<1>4. CASE WorkClear(g)         BY <1>1, <1>4, ClearKey
<1>5. CASE WorkReceiveClosed(g) BY <1>1, <1>5, LoopKey DEF WorkReceiveClosed
<1>6. CASE WorkPrint(g)         BY <1>1, <1>6, LoopKey DEF WorkPrint
<1>7. CASE WorkCancelled(g)     BY <1>1, <1>7, LoopKey DEF WorkCancelled
<1>8. CASE WorkJoin(g)          BY <1>1, <1>8, LoopKey DEF WorkJoin
<1>. QED BY <1>2, <1>3, <1>4, <1>5, <1>6, <1>7, <1>8 DEF DoWork

\* A step of the collector other than taking a view.
LEMMA OwnStepKey ==
  ASSUME Ready, NoOrphan, NEW g \in Gens, g = gen, gen > 0,
         cpc[g] \notin {"none", "closed", "dead"},
         NEW q, NEW c,
         cpc' = [cpc EXCEPT ![g] = q], coll' = [coll EXCEPT ![g] = c],
         q \in Serving => cpc[g] \in Serving,
         q \in {"new", "recv"} => cpc[g] = "new",
         q \in {"wait", "reset", "delivererr"} => work[g] = "select" \/ cpc[g] = "reset",
         Like(coll[g], c), c.snap \in {coll[g].snap, c.view.name},
         q = "deliver" /\ c.out.kind = "stat" =>
           c.out.base \in {coll[g].snap, NoView} /\ c.out.view = c.view.name,
         \/ work' = work
         \/ work[g] = "select" /\ work' = [work EXCEPT ![g] = "print"],
         \/ ui' = ui
         \/ ui' = "panicked" /\ work[g] = "select" /\ cpc[g] = "deliver" /\ coll[g].refresh = 0,
         UNCHANGED <<gen, view, saved, sendq, asked, mishaps>>
  PROVE  KeyInv'
<1>1. /\ work \in [Gens -> WorkPoints] /\ cpc \in [Gens -> CollPoints]
      /\ coll \in [Gens -> CollState]
  BY DEF Ready, TypeOK
<1>2. /\ cpc'[g] = q /\ coll'[g] = c
      /\ work'[g] = work[g] \/ (work[g] = "select" /\ work'[g] = "print")
      /\ \A h \in Gens \ {g} : cpc'[h] = cpc[h] /\ coll'[h] = coll[h] /\ work'[h] = work[h]
  BY <1>1
<1>3. Steady
  BY DEF Ready, KeyInv
<1>4. FromUser' = FromUser
  BY DEF FromUser
<1>5. Calm
  BY <1>4 DEF Calm, SameLook, Quiet
<1>6. Remembered
  BY <1>2, SameMinds DEF Introduced
<1>7. OldOver'
  BY <1>2, <1>3 DEF Steady, OldOver
<1>8. Begun'
  <2>1. cpc[g] = "reset" => work[g] \notin {"enqueue", "send"}
    BY <1>3 DEF Steady, Begun
  <2>. QED BY <1>2, <1>3, <2>1 DEF Steady, Begun
<1>9. Transient => Transient'
  BY <1>2, <1>5, CalmTransient DEF Starting
<1>10. Snapped => Snapped'
  <2>. SUFFICES ASSUME Snapped, NEW h \in Gens
                PROVE  /\ cpc'[h] \in Serving => coll'[h].snap \in {NoView, coll'[h].view.name}
                       /\ cpc'[h] = "deliver" /\ coll'[h].out.kind = "stat" =>
                            coll'[h].out.base \in {NoView, coll'[h].out.view}
    BY DEF Snapped
  <2>1. CASE h # g
    BY <1>2, <2>1 DEF Snapped
  <2>2. CASE h = g
    <3>1. q \in Serving => coll[g].snap \in {NoView, coll[g].view.name}
      BY DEF Snapped
    <3>2. coll[g].view.name = c.view.name
      BY DEF Like
    <3>3. q = "deliver" => q \in Serving
      BY DEF Serving
    <3>. QED BY <1>2, <2>2, <3>1, <3>2, <3>3
  <2>. QED BY <2>1, <2>2
<1>11. AsAsked => ui' # "panicked"
  <2>. SUFFICES ASSUME AsAsked, work[g] = "select", cpc[g] = "deliver" PROVE coll[g].refresh # 0
    BY DEF AsAsked
  <2>1. coll[g] \in Minds
    BY DEF Minds, Serving, Introduced
  <2>. QED BY <2>1 DEF AsAsked, Timed
<1>. HIDE DEF Calm, Remembered
<1>12. Steady'
  BY <1>3, <1>5, <1>6, <1>7, <1>8, CalmMinds DEF Steady
<1>13. AsAsked => AsAsked'
  BY <1>5, <1>6, <1>9, <1>10, <1>11, CalmMinds DEF AsAsked
<1>14. Started'
  BY DEF Started
<1>. QED BY <1>12, <1>13, <1>14 DEF Ready, KeyInv

\* The first view: that of doWork is the one presented; after that of a handler
\* nothing more is claimed, doWork will wait for ever.
LEMMA FirstViewKey ==
  ASSUME Ready, NoOrphan, NEW g \in Gens, g = gen, gen > 0, CollReceiveFirst(g)
  PROVE  KeyInv'
<1>0. /\ work \in [Gens -> WorkPoints] /\ cpc \in [Gens -> CollPoints]
      /\ coll \in [Gens -> CollState]
  BY DEF Ready, TypeOK
<1>1. /\ cpc[g] = "recv" /\ TakeView /\ sendq # <<>>
      /\ cpc' = [cpc EXCEPT ![g] = "first"] /\ cpc'[g] = "first"
      /\ coll' = [coll EXCEPT ![g] = Taught(Head(sendq).view)]
      /\ coll'[g] = Taught(Head(sendq).view)
      /\ UNCHANGED <<gen, saved, asked, mishaps>>
  BY <1>0 DEF CollReceiveFirst, TakeView, Taught
<1>2. Steady /\ work[g] \in {"enqueue", "send"}
  BY <1>1 DEF Ready, KeyInv, Steady, Begun
<1>3. Taught(Head(sendq).view).snap = NoView
  BY DEF Taught, NoColl
<1>4. /\ \A h \in Gens \ {g} : cpc'[h] = cpc[h] /\ coll'[h] = coll[h]
  BY <1>0, <1>1
<1>5. OldOver'
  BY <1>1, <1>2, <1>4 DEF Steady, OldOver
<1>6. Snapped => Snapped'
  BY <1>1, <1>3, <1>4 DEF Snapped
<1>7. ~Presenting'
  BY <1>1 DEF Presenting
<1>8. CASE Head(sendq).from = "ui"
  <2>1. /\ Head(sendq) \in FromUser /\ FromUser' = {} /\ ui' = "loop" /\ work' = work
        /\ view' = IF Head(sendq).clear THEN [view EXCEPT !.refresh = 0] ELSE view
    BY <1>1, <1>8, TakeViewSent DEF Ready
  <2>2. Minds' = {}
    BY <1>1, <1>2, <1>7, <2>1 DEF Minds, Introduced
  <2>3. Begun'
    BY <1>1, <1>2, <1>4, <2>1 DEF Steady, Begun
  <2>4. Steady'
    BY <1>5, <2>2, <2>3 DEF Steady
  <2>5. Transient => Transient'
    <3>1. Transient => ~Head(sendq).clear /\ view.refresh = asked
      BY <1>2, <2>1 DEF Transient, Starting
    <3>. QED BY <1>1, <1>2, <2>1, <3>1 DEF Transient, Starting
  <2>6. AsAsked => AsAsked'
    BY <1>6, <2>1, <2>2, <2>5 DEF AsAsked
  <2>7. Started'
    BY <1>1 DEF Started
  <2>. QED BY <1>1, <2>4, <2>6, <2>7 DEF Ready, KeyInv
<1>9. CASE Head(sendq).from # "ui"
  <2>1. /\ FromUser' \subseteq FromUser /\ Head(sendq).from = "work"
        /\ work[gen] = "send" /\ work' = [work EXCEPT ![gen] = "clear"]
        /\ ui' = ui /\ view' = view
    BY <1>1, <1>9, TakeViewSent DEF Ready
  <2>2. work'[gen] = "clear"
    BY <1>0, <2>1
  <2>3. Calm
    BY <1>1, <2>1 DEF Calm, SameLook, Quiet
  <2>4. Remembered
    <3>1. Taught(Head(sendq).view) \in Minds
      BY <1>1, <2>1 DEF Minds, Presenting
    <3>2. \A d \in Minds' : d = coll'[g]
      BY <1>1, <1>7 DEF Minds
    <3>. QED BY <1>1, <3>1, <3>2 DEF Remembered, Like
  <2>5. Begun'
    BY <1>0, <1>1, <1>2, <1>4, <2>1, <2>2 DEF Steady, Begun
  <2>6. Transient => Transient'
    BY <2>1, <2>2, <2>3, CalmTransient DEF Starting
  <2>. HIDE DEF Calm, Remembered
  <2>7. Steady'
    BY <1>2, <1>5, <2>3, <2>4, <2>5, CalmMinds DEF Steady
  <2>8. AsAsked => AsAsked'
    BY <1>6, <2>1, <2>3, <2>4, <2>6, CalmMinds DEF AsAsked
  <2>9. Started'
    BY <1>1 DEF Started
  <2>. QED BY <1>1, <2>7, <2>8, <2>9 DEF Ready, KeyInv
<1>. QED BY <1>8, <1>9

\* A collector that is one key press behind catches up with the view it takes.
LEMMA CatchUp ==
  ASSUME NEW c \in CollState, NEW v \in ViewRec, OneOff(c, v)
  PROVE  LET a == Adjust(c, v) IN
         /\ a \in CollState /\ a.view = v /\ a.extra = v.extra /\ a.verbose = v.verbose
         /\ a.refresh = IF v.refresh > 0 THEN v.refresh ELSE c.refresh
         /\ a.snap = c.snap
<1>1. Adjust(c, v) \in CollState
  BY CollectorTypes
<1>2. Adjust(c, v).view = v /\ Adjust(c, v).snap = c.snap
  BY DEF Adjust, CollState
<1>3. Adjust(c, v).extra = v.extra /\ Adjust(c, v).verbose = v.verbose
  BY DEF Adjust, OneOff, RefreshChanged, ExtraChanged, VerboseChanged, CollState
<1>4. Adjust(c, v).refresh = IF v.refresh > 0 THEN v.refresh ELSE c.refresh
  BY DEF Adjust, RefreshChanged, CollState
<1>. QED BY <1>1, <1>2, <1>3, <1>4

\* Taking a view a handler has sent.
LEMMA NextViewKey ==
  ASSUME Ready, NoOrphan, NEW g \in Gens, g = gen, gen > 0, CollReceive(g)
  PROVE  KeyInv'
<1>. DEFINE c == coll[g]
            s == Head(sendq)
            v == s.view
            a == Adjust(c, v)
<1>0. /\ work \in [Gens -> WorkPoints] /\ cpc \in [Gens -> CollPoints]
      /\ coll \in [Gens -> CollState] /\ view \in ViewRec
  BY DEF Ready, TypeOK
<1>1. /\ cpc[g] = "wait" /\ TakeView /\ sendq # <<>>
      /\ cpc'[g] \in {"collect", "reset"}
      /\ \A h \in Gens \ {g} : cpc'[h] = cpc[h] /\ coll'[h] = coll[h]
      /\ UNCHANGED <<gen, saved, asked, mishaps>>
  BY <1>0 DEF CollReceive, TakeView
<1>2. Steady
  BY DEF Ready, KeyInv
<1>3. work[g] \in {"clear", "select", "print", "join"}
  <2>1. work[g] \notin {"enqueue", "send"}
    BY <1>1, <1>2 DEF Steady, Begun
  <2>2. work[g] \notin {"none", "assign", "done"}
    BY <1>1 DEF Ready, QuerierInv
  <2>3. work[g] \in WorkPoints
    BY <1>0
  <2>. QED BY <2>1, <2>2, <2>3 DEF WorkPoints
<1>4. c \in Minds
  BY <1>1, <1>3 DEF Minds, Serving, Introduced
<1>5. /\ s \in FromUser /\ FromUser' = {} /\ ui' = "loop" /\ work' = work
      /\ view' = IF s.clear THEN [view EXCEPT !.refresh = 0] ELSE view
  BY <1>1, <1>3, TakeViewSent DEF Ready
<1>6. c \in CollState /\ c.refresh \in Int /\ c.refresh >= 0
  BY <1>4, MindTypes DEF Ready
<1>7. v \in ViewRec /\ s.clear \in BOOLEAN /\ v.refresh \in Int /\ v.refresh >= 0
  BY <1>5, SentTypes DEF Ready
<1>8. /\ OneOff(c, v) /\ SameLook(v, view) /\ view.refresh \in {0, v.refresh}
  BY <1>2, <1>4, <1>5 DEF Steady, Lag
<1>9. /\ a \in CollState /\ a.view = v /\ a.extra = v.extra /\ a.verbose = v.verbose
      /\ a.refresh = (IF v.refresh > 0 THEN v.refresh ELSE c.refresh)
      /\ a.snap = c.snap
  BY <1>6, <1>7, <1>8, CatchUp
<1>10. \/ coll' = [coll EXCEPT ![g] = a] /\ KeepsSnapshots(c, v)
       \/ coll' = [coll EXCEPT ![g] = [a EXCEPT !.snap = NoView]]
  BY DEF CollReceive
<1>. HIDE DEF a, c, v, s
<1>11. /\ coll'[g].view = v /\ coll'[g].extra = v.extra /\ coll'[g].verbose = v.verbose
       /\ coll'[g].refresh = (IF v.refresh > 0 THEN v.refresh ELSE c.refresh)
       /\ coll'[g].snap = NoView \/ (coll'[g].snap = c.snap /\ KeepsSnapshots(c, v))
  BY <1>0, <1>9, <1>10 DEF CollState
<1>12. /\ SameLook(view', view) /\ view'.refresh \in {0, v.refresh}
       /\ view'.refresh = IF s.clear THEN 0 ELSE view.refresh
  BY <1>0, <1>5, <1>7, <1>8 DEF SameLook, ViewRec
<1>13. \A d \in Minds' : d = coll'[g]
  BY <1>1 DEF Minds, Presenting
<1>14. Steady'
  <2>1. OldOver' /\ Begun'
    BY <1>1, <1>2, <1>3, <1>5 DEF Steady, OldOver, Begun
  <2>2. view'.refresh \in {0, coll'[g].refresh}
    BY <1>7, <1>11, <1>12
  <2>3. SameLook(coll'[g].view, view')
    BY <1>8, <1>11, <1>12 DEF SameLook
  <2>4. ASSUME NEW d \in Minds' PROVE Lag(d)'
    BY <1>5, <1>11, <1>13, <2>2, <2>3 DEF Lag, Quiet
  <2>. QED BY <2>1, <2>4 DEF Steady
<1>15. AsAsked => AsAsked'
  <2>. SUFFICES ASSUME AsAsked PROVE AsAsked'
    OBVIOUS
  <2>1. /\ Transient /\ Snapped
        /\ c.refresh # 0 /\ KeepsView(c, v) /\ asked # 0
        /\ IF s.clear THEN v.refresh = asked
           ELSE c.refresh = asked /\ v.refresh \in {0, asked}
    BY <1>4, <1>5 DEF AsAsked, Timed, Transient, v
  <2>2. coll'[g].refresh = asked
    BY <1>7, <1>11, <2>1
  <2>3. Transient'
    <3>1. CASE work[gen] = "clear"
      <4>1. view.refresh = asked /\ ~s.clear
        BY <1>5, <2>1, <3>1 DEF Transient, Starting
      <4>. QED BY <1>1, <1>5, <1>12, <2>1, <3>1, <4>1 DEF Transient
    <3>2. CASE work[gen] # "clear"
      <4>1. view.refresh = IF s.clear THEN asked ELSE 0
        BY <1>3, <1>5, <2>1, <3>2 DEF Transient
      <4>2. view'.refresh = 0
        BY <1>12, <4>1
      <4>. QED BY <1>1, <1>3, <1>5, <2>1, <3>2, <4>2 DEF Transient, Starting
    <3>. QED BY <3>1, <3>2
  <2>4. Snapped'
    <3>1. c.snap \in {NoView, c.view.name}
      BY <1>1, <2>1 DEF Snapped, Serving, c
    <3>2. coll'[g].snap \in {NoView, coll'[g].view.name}
      BY <1>11, <2>1, <3>1 DEF KeepsView
    <3>. QED BY <1>1, <2>1, <3>2 DEF Snapped
  <2>5. ASSUME NEW d \in Minds' PROVE Timed(d)'
    BY <1>1, <1>5, <1>13, <2>1, <2>2 DEF Timed
  <2>. QED BY <1>5, <2>3, <2>4, <2>5 DEF AsAsked
<1>16. Started'
  BY <1>1 DEF Started
<1>. QED BY <1>1, <1>14, <1>15, <1>16 DEF Ready, KeyInv

LEMMA CollectorKey ==
  ASSUME Ready, NoOrphan, NEW g \in Gens, Collector(g)
  PROVE  KeyInv'
<1>0. /\ work \in [Gens -> WorkPoints] /\ cpc \in [Gens -> CollPoints]
      /\ coll \in [Gens -> CollState] /\ coll[g] \in CollState
  BY DEF Ready, TypeOK
\* the collectors of earlier generations have returned
<1>1. cpc[g] \notin {"none", "closed", "dead"} /\ g = gen /\ gen > 0
  <2>1. cpc[g] \notin {"none", "closed", "dead"}
    BY DEF Collector, CollNew, CollDies, CollReceiveFirst, CollFirst, CollCollect, CollDeliver,
           CollCancelled, CollTick, CollReceive, CollReset, CollDeliverError
  <2>2. g > 0
    BY PipelineAssumption DEF Gens
  <2>. QED BY <2>1, <2>2 DEF Ready, KeyInv, Steady, OldOver
<1>2. Like(coll[g], coll[g])
  BY DEF Like
<1>3. coll = [coll EXCEPT ![g] = coll[g]]
  BY <1>0
<1>. USE DEF Serving
<1>4. CASE CollNew(g)       BY <1>0, <1>1, <1>2, <1>3, <1>4, OwnStepKey DEF CollNew
<1>5. CASE CollDies(g)      BY <1>0, <1>1, <1>2, <1>3, <1>5, OwnStepKey DEF CollDies
<1>6. CASE CollReceiveFirst(g) BY <1>1, <1>6, FirstViewKey
<1>7. CASE CollFirst(g)
  <2>. DEFINE c == [coll[g] EXCEPT !.snap = coll[g].view.name]
  <2>1. Like(coll[g], c) /\ c.snap = c.view.name
    BY <1>0 DEF CollState, Like
  <2>2. /\ cpc[g] = "first" /\ cpc' = [cpc EXCEPT ![g] = "collect"]
        /\ coll' = [coll EXCEPT ![g] = c]
        /\ UNCHANGED <<ui, gen, view, saved, sendq, work, asked, mishaps>>
    BY <1>7 DEF CollFirst
  <2>. HIDE DEF c
  <2>. QED BY <1>1, <2>1, <2>2, OwnStepKey
<1>8. CASE CollCollect(g)
  <2>1. /\ cpc[g] = "collect" /\ cpc' = [cpc EXCEPT ![g] = "deliver"]
        /\ UNCHANGED <<ui, gen, view, saved, sendq, work, asked, mishaps>>
    BY <1>8 DEF CollCollect
  <2>2. CASE coll' = [coll EXCEPT ![g] = Collected(coll[g])]
    <3>. DEFINE c == Collected(coll[g])
    <3>1. /\ Like(coll[g], c) /\ c.snap = c.view.name
          /\ c.out.base = coll[g].snap /\ c.out.view = c.view.name
      BY <1>0 DEF Collected, CollState, Like
    <3>. HIDE DEF c
    <3>2. coll' = [coll EXCEPT ![g] = c]
      BY <2>2 DEF c
    <3>. QED BY <1>1, <2>1, <3>1, <3>2, OwnStepKey
  <2>3. CASE coll' = [coll EXCEPT ![g].out = ErrorBatch(coll[g])]
    <3>. DEFINE c == [coll[g] EXCEPT !.out = ErrorBatch(coll[g])]
    <3>1. /\ Like(coll[g], c)
          /\ c.snap = coll[g].snap /\ c.out.kind = "error"
      BY <1>0 DEF ErrorBatch, CollState, Like
    <3>2. coll' = [coll EXCEPT ![g] = c]
      BY <2>3
    <3>. HIDE DEF c
    <3>. QED BY <1>1, <2>1, <3>1, <3>2, OwnStepKey
  <2>. QED BY <1>8, <2>2, <2>3 DEF CollCollect
<1>9. CASE CollDeliver(g)
  BY <1>0, <1>1, <1>2, <1>3, <1>9, OwnStepKey DEF CollDeliver, HandOver
<1>10. CASE CollCancelled(g) BY <1>0, <1>1, <1>2, <1>3, <1>10, OwnStepKey DEF CollCancelled
<1>11. CASE CollTick(g)      BY <1>0, <1>1, <1>2, <1>3, <1>11, OwnStepKey DEF CollTick
<1>12. CASE CollReceive(g)   BY <1>1, <1>12, NextViewKey
<1>13. CASE CollReset(g)
  <2>1. /\ cpc[g] = "reset"
        /\ UNCHANGED <<ui, gen, view, saved, sendq, work, asked, mishaps>>
    BY <1>13 DEF CollReset
  <2>2. CASE /\ cpc' = [cpc EXCEPT ![g] = "collect"]
             /\ coll' = [coll EXCEPT ![g].snap = coll[g].view.name]
    <3>. DEFINE c == [coll[g] EXCEPT !.snap = coll[g].view.name]
    <3>1. Like(coll[g], c) /\ c.snap = c.view.name
      BY <1>0 DEF CollState, Like
    <3>2. coll' = [coll EXCEPT ![g] = c]
      BY <2>2
    <3>. HIDE DEF c
    <3>. QED BY <1>1, <2>1, <2>2, <3>1, <3>2, OwnStepKey
  <2>3. CASE /\ cpc' = [cpc EXCEPT ![g] = "delivererr"]
             /\ coll' = [coll EXCEPT ![g].out = ErrorBatch(coll[g])]
    <3>. DEFINE c == [coll[g] EXCEPT !.out = ErrorBatch(coll[g])]
    <3>1. Like(coll[g], c) /\ c.snap = coll[g].snap
      BY <1>0 DEF CollState, Like
    <3>2. coll' = [coll EXCEPT ![g] = c]
      BY <2>3
    <3>. HIDE DEF c
    <3>. QED BY <1>1, <2>1, <2>3, <3>1, <3>2, OwnStepKey
  <2>. QED BY <1>13, <2>2, <2>3 DEF CollReset
<1>14. CASE CollDeliverError(g)
  BY <1>0, <1>1, <1>2, <1>3, <1>14, OwnStepKey DEF CollDeliverError, HandOver
<1>. QED BY <1>4, <1>5, <1>6, <1>7, <1>8, <1>9, <1>10, <1>11, <1>12, <1>13, <1>14
         DEF Collector

\* Once a collector has been left behind only the start of a generation is claimed.
LEMMA OrphanKey ==
  ASSUME Ready, Step, ~NoOrphan
  PROVE  KeyInv'
<1>1. ~NoOrphan' /\ mishaps' # {}
  BY MishapsStay DEF NoOrphan
<1>2. gen' = gen + 1 \/ (gen' = gen /\ (gen = 0 => ui' \in {"newgui", "stopped"}))
  <2>1. CASE StartUI
    BY <2>1 DEF StartUI
  <2>2. CASE StartUIFails
    BY <2>2 DEF StartUIFails
  <2>3. ASSUME NEW g \in Gens, DoWork(g) \/ Collector(g) PROVE gen' = gen /\ gen > 0
    <3>1. gen' = gen
      BY <2>3 DEF DoWork, WorkAssign, WorkEnqueue, WorkClear, WorkReceiveClosed,
         WorkPrint, WorkCancelled, WorkJoin, Collector, CollNew, CollDies, CollReceiveFirst,
         CollFirst, CollCollect, CollDeliver, CollCancelled, CollTick, CollReceive, CollReset,
         CollDeliverError
    <3>2. work[g] # "none" \/ cpc[g] # "none"
      BY <2>3 DEF DoWork, WorkAssign, WorkEnqueue, WorkClear, WorkReceiveClosed,
         WorkPrint, WorkCancelled, WorkJoin, Collector, CollNew, CollDies, CollReceiveFirst,
         CollFirst, CollCollect, CollDeliver, CollCancelled, CollTick, CollReceive, CollReset,
         CollDeliverError
    <3>. QED BY <3>1, <3>2, PipelineAssumption DEF Ready, TypeOK, GenInv, Unborn, Gens
  <2>4. CASE \/ MainLoopFails \/ Quit \/ AskProgram \/ RunProgram \/ Notify
             \/ \E b \in pend : Render(b)
    BY <2>4 DEF Ready, KeyInv, Started, MainLoopFails, Quit, AskProgram, RunProgram,
       Notify, Render
  <2>5. CASE Restart
    BY <2>5 DEF Restart
  <2>. QED BY <2>1, <2>2, <2>3, <2>4, <2>5, UserSteps DEF Step, Ready, KeyInv, Started
<1>3. Started'
  BY <1>2 DEF Ready, TypeOK, Started
<1>. QED BY <1>1, <1>3 DEF KeyInv

LEMMA StepKey == TypeOK /\ GenInv /\ QuerierInv /\ KeyInv /\ [Next]_vars => KeyInv'
<1>. SUFFICES ASSUME TypeOK, GenInv, QuerierInv, KeyInv, (Running /\ Step) \/ UNCHANGED vars
              PROVE  KeyInv'
  BY NextSteps
<1>1. CASE Running /\ Step
  <2>1. Ready
    BY <1>1 DEF Ready
  <2>2. CASE NoOrphan
    BY <1>1, <2>1, <2>2, UserKey, NotifyKey, MainLoopKey, DoWorkKey, CollectorKey DEF Step
  <2>. QED BY <1>1, <2>1, <2>2, OrphanKey
<1>2. CASE UNCHANGED vars
  <2>1. UNCHANGED <<ui, gen, view, saved, sendq, work, cpc, coll, asked, mishaps>>
    BY <1>2 DEF vars
  <2>2. FromUser' = FromUser
    BY <2>1 DEF FromUser
  <2>3. Calm
    BY <2>1, <2>2 DEF Calm, SameLook, Quiet
  <2>4. Remembered
    BY <2>1, SameMinds DEF Introduced, Like
  <2>5. OldOver' = OldOver /\ Begun' = Begun /\ Snapped' = Snapped
    BY <2>1 DEF OldOver, Begun, Snapped
  <2>6. Transient => Transient'
    BY <2>1, <2>3, CalmTransient
  <2>. HIDE DEF Calm, Remembered
  <2>7. Steady => Steady'
    BY <2>3, <2>4, <2>5, CalmMinds DEF Steady
  <2>8. AsAsked => AsAsked'
    BY <2>1, <2>3, <2>4, <2>5, <2>6, CalmMinds DEF AsAsked
  <2>. QED BY <2>1, <2>7, <2>8 DEF KeyInv, Started, NoOrphan
<1>. QED BY <1>1, <1>2

\* Until an external program leaves a collector behind, the collectors of failed
\* UIs have returned and the one at work is at most one key press behind; until a
\* switch, a reload or a refresh dialog interferes with the first view, the
\* interval is in the view only while it is handed over.
THEOREM OneKeyBehind == Spec => []KeyInv
<1>1. TypeOK /\ GenInv /\ QuerierInv /\ [Next]_vars => QuerierInv'
  BY StepQuerier
<1>2. Spec => []QuerierInv
  BY <1>1, TypeCorrect, GenerationsInOrder, InitQuerier, PTL DEF Spec
<1>. QED BY <1>2, StepKey, TypeCorrect, GenerationsInOrder, InitKey, PTL DEF Spec

\* A delta shown to the user is between two snapshots of one view, for any views,
\* keys and failures, until a mishap: a key that touches the interval pressed while
\* doWork introduces the first view, or a collector left behind.
THEOREM DeltasOfOneView == Spec => []DeltaOfOneView
<1>1. KeyInv => DeltaOfOneView
  BY DEF KeyInv, AsAsked, Snapped, DeltaOfOneView
<1>. QED BY <1>1, OneKeyBehind, PTL

\* The current collector is known when the UI has settled.
LEMMA SettledMind ==
  ASSUME TypeOK, KeyInv, Settled, cpc[gen] \in {"collect", "deliver", "wait", "reset"}
  PROVE  coll[gen] \in Minds /\ Quiet
<1>1. gen > 0
  BY DEF TypeOK, KeyInv, Started, Settled
<1>. QED BY <1>1 DEF Settled, Minds, Serving, Introduced, Quiet

\* Between key presses, whenever they came, the collector works for the view on
\* the screen and its trackers agree with it (until one is left behind).
THEOREM CollectorFollowsUser == Spec => []CollectorFollows
<1>1. TypeOK /\ KeyInv => CollectorFollows
  BY SettledMind DEF KeyInv, NoOrphan, Steady, Lag, SameLook, CollectorFollows
<1>. QED BY <1>1, TypeCorrect, OneKeyBehind, PTL

\* Between key presses the collector ticks with the interval asked for last,
\* whatever views were visited in between, until a mishap.
THEOREM RefreshFollowsUser == Spec => []RefreshAsAsked
<1>1. TypeOK /\ KeyInv => RefreshAsAsked
  BY SettledMind DEF KeyInv, AsAsked, Timed, RefreshAsAsked
<1>. QED BY <1>1, TypeCorrect, OneKeyBehind, PTL

\* No collector creates a ticker of an interval of zero before a mishap.
THEOREM TickerNeverPanics == Spec => []NoTickerPanic
<1>1. KeyInv => NoTickerPanic
  BY DEF KeyInv, AsAsked, NoTickerPanic
<1>. QED BY <1>1, OneKeyBehind, PTL

-----------------------------------------------------------------------------
(* The deadlock of a key that overtakes the first view                     *)

\* doWork waits to send its view to a collector that has one already, or none.
Stuck ==
  /\ gen > 0
  /\ work[gen] \in {"enqueue", "send"}
  /\ cpc[gen] \in {"first", "collect", "deliver", "closed", "dead"}

StuckForever ==
  Stuck /\ NoOrphan =>
    Stuck' /\ (ui \in {"send", "exit", "wait"} => ui' = ui)

LEMMA StuckStep ==
  ASSUME Ready, Stuck, NoOrphan, Step
  PROVE  Stuck' /\ (ui \in {"send", "exit", "wait"} => ui' = ui)
<1>0. /\ gen \in Gens /\ work \in [Gens -> WorkPoints] /\ cpc \in [Gens -> CollPoints]
  BY PipelineAssumption DEF Ready, TypeOK, Stuck, Gens
<1>. USE DEF Stuck
<1>1. CASE StartUI
  BY <1>1 DEF StartUI, Ready, GenInv, OneWorker
<1>2. CASE Restart
  BY <1>2 DEF Restart, WorkFinished
<1>3. CASE RunProgram
  BY <1>3 DEF RunProgram
<1>4. CASE \/ StartUIFails \/ MainLoopFails \/ Quit \/ AskProgram \/ Notify
           \/ \E b \in pend : Render(b)
  BY <1>4 DEF StartUIFails, MainLoopFails, Quit, AskProgram, Notify, Render
<1>5. CASE \/ \E n \in Views : SwitchView(n)
           \/ \E i \in Answers : ChangeRefresh(i)
           \/ \E e \in Extras \ {0} : ShowExtra(e)
           \/ ReloadView \/ ResendView \/ ToggleVerbose
  BY <1>5, UserSteps
<1>6. ASSUME NEW g \in Gens, DoWork(g)
      PROVE  Stuck' /\ ui' = ui
  <2>1. g = gen
    BY <1>6, LatestWorks DEF Ready
  <2>. QED BY <1>0, <1>6, <2>1 DEF DoWork, WorkAssign, WorkEnqueue, WorkClear, WorkReceiveClosed,
              WorkPrint, WorkCancelled, WorkJoin
<1>7. ASSUME NEW g \in Gens, Collector(g)
      PROVE  Stuck' /\ ui' = ui
  <2>1. cpc[g] \notin {"none", "closed", "dead"}
    BY <1>7 DEF Collector, CollNew, CollDies, CollReceiveFirst, CollFirst, CollCollect,
       CollDeliver, CollCancelled, CollTick, CollReceive, CollReset, CollDeliverError
  <2>2. g = gen
    BY <2>1 DEF Ready, KeyInv, Steady, OldOver
  <2>3. CASE CollDies(g) \/ CollFirst(g) \/ CollCollect(g) \/ CollCancelled(g)
    BY <1>0, <2>2, <2>3 DEF CollDies, CollFirst, CollCollect, CollCancelled
  <2>4. ~(\/ CollNew(g) \/ CollReceiveFirst(g) \/ CollDeliver(g) \/ CollTick(g)
          \/ CollReceive(g) \/ CollReset(g) \/ CollDeliverError(g))
    BY <2>2 DEF CollNew, CollReceiveFirst, CollDeliver, CollTick, CollReceive, CollReset,
       CollDeliverError, HandOver
  <2>. QED BY <1>7, <2>3, <2>4 DEF Collector
<1>. QED BY <1>1, <1>2, <1>3, <1>4, <1>5, <1>6, <1>7 DEF Step

\* A key handler whose view overtakes that of doWork stops the program for good:
\* doWork keeps waiting for its collector to receive and the collector for doWork,
\* the next handler that sends or runs a program never returns, and after a failure
\* of the UI the wait for doWork never ends.
THEOREM OvertakenForever ==
  Spec => [](Overtaken => Stuck) /\ [][StuckForever]_vars
<1>1. Overtaken => Stuck
  BY DEF Overtaken, Stuck
<1>2. TypeOK /\ GenInv /\ QuerierInv /\ [Next]_vars => QuerierInv'
  BY StepQuerier
<1>3. Spec => []QuerierInv
  BY <1>2, TypeCorrect, GenerationsInOrder, InitQuerier, PTL DEF Spec
<1>4. TypeOK /\ GenInv /\ QuerierInv /\ KeyInv /\ [Next]_vars => [StuckForever]_vars
  <2>. SUFFICES ASSUME TypeOK, GenInv, QuerierInv, KeyInv, Running /\ Step
                PROVE  StuckForever
    BY NextSteps
  <2>. QED BY StuckStep DEF Ready, StuckForever
<1>. QED BY <1>1, <1>3, <1>4, TypeCorrect, GenerationsInOrder, OneKeyBehind, PTL DEF Spec
=============================================================================
