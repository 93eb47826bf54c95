------------------------------- MODULE Dialogs -------------------------------
(***************************************************************************)
(* Dialogs, menus and the help of pgcenter top, and what their answers do: *)
(* signals to backends, the age limit and the idle toggle of the activity  *)
(* query, reload and reset of the server, views chosen in a menu.          *)
(*                                                                         *)
(* A key has the meaning of the window that has the focus, so the table    *)
(* below does not change while a dialog or a menu is open.  Only what      *)
(* config.dialog and config.menu say decides what an answer does, and they *)
(* outlive the windows: after Esc, and after the user interface was built  *)
(* anew.                                                                   *)
(***************************************************************************)
EXTENDS Screen

CONSTANTS
  Activity,     \* the view of sessions
  Statements,   \* the views of pg_stat_statements
  Menus,        \* the views of a menu, in the order of its items; none for the menu of files
  Files,        \* number of configuration files
  MaskGroups,   \* groups of backends that a mask can hold
  GroupsOf,     \* the groups a backend is in
  AgeOf,        \* how long its query or transaction runs
  Ages,         \* age limits the user may enter
  MaxPresses,   \* bound: keys pressed in the windows and to open them
  MaxSwitches   \* bound: switches of views after which they are only chosen in menus

Backends == DOMAIN GroupsOf

ASSUME DialogsAssumption ==
  /\ Activity \in Views /\ Statements \subseteq Views
  /\ DOMAIN Menus \subseteq STRING /\ \A m \in DOMAIN Menus : Menus[m] \in Seq(Views \ {ProcPid}) \ {<<>>}
  /\ Files \in Nat \ {0}
  /\ GroupsOf \in [Backends -> SUBSET MaskGroups] /\ AgeOf \in [Backends -> Nat]
  /\ 0 \in Ages /\ Ages \subseteq Nat
  /\ MaxPresses \in Nat /\ MaxSwitches \in Nat

VARIABLES
  session,    \* bound: this session works on the table, or with dialogs
  presses,    \* counted against the bound
  focus,      \* the window that takes the keys
  dialog,     \* config.dialog
  menu,       \* config.menu
  cursor,     \* the item under the cursor of the menu
  procMask,   \* config.procMask
  age, noIdle,\* queryOptions.QueryAgeThresh and ShowNoIdle
  listed,     \* the age limit in the query of Activity and of ProcPid
  message,    \* the line printed last
  reached,    \* the backends the last key has sent a signal to
  prompt,     \* history: the dialog or the menu that is on the screen
  masked,     \* history: the mask the user entered last
  agedIn      \* history: where the age limit was changed last

windows == <<focus, dialog, menu, cursor, prompt>>
options == <<age, noIdle, listed, agedIn>>
mask    == <<procMask, masked>>
result  == <<message, reached>>
dialogVars == <<session, presses, windows, options, mask, result>>

SignalDialogs == {"cancelQuery", "terminateBackend", "cancelGroup", "terminateGroup"}
DialogTypes ==
  SignalDialogs \cup {"pgReload", "filter", "setMask", "changeAge", "queryReport", "changeRefresh"}

ItemsOf(m) == IF m \in DOMAIN Menus THEN Len(Menus[m]) ELSE Files
MenuTypes  == DOMAIN Menus \cup {"conf"}

DialogInit ==
  /\ Init
  /\ session \in {"table", "dialogs"}
  /\ presses = 0
  /\ focus = "sysstat" /\ dialog = "none" /\ menu = "none" /\ cursor = 0 /\ prompt = "none"
  /\ age = 0 /\ noIdle = FALSE /\ agedIn = Activity
  /\ listed = [v \in {Activity, ProcPid} |-> 0]
  /\ procMask = {} /\ masked = {}
  /\ message = "" /\ reached = {}

-----------------------------------------------------------------------------
Press(window) ==
  /\ session = "dialogs"
  /\ focus = window
  /\ presses < MaxPresses
  /\ presses' = presses + 1
  /\ UNCHANGED session

\* A key that leaves the table as it is.
Quiet(window) ==
  /\ Press(window)
  /\ UNCHANGED vars

Answer(text) == message' = text /\ reached' = {}

\* Where a dialog may be opened.
Allowed(d) ==
  /\ d \in SignalDialogs \cup {"setMask"} => name = Activity
  /\ d = "changeAge" => name \in {Activity, ProcPid}
  /\ d = "queryReport" => name \in Statements

\* Mutant: a dialog that was not reset counts as still open.
Opened_IfNone(d) == IF dialog = "none" THEN d ELSE dialog

Opened(d) == d

DialogOpen(d) ==
  /\ Quiet("sysstat")
  /\ IF Allowed(d)
     THEN /\ focus' = "dialog" /\ dialog' = Opened(d) /\ prompt' = d
          /\ Answer("")
          /\ UNCHANGED <<menu, cursor>>
     ELSE Answer("") /\ UNCHANGED windows
  /\ UNCHANGED <<options, mask>>

\* The dialog is closed; its type stays in config.dialog.
DialogClose == focus' = "sysstat" /\ prompt' = "none" /\ UNCHANGED <<dialog, menu, cursor>>

DialogCancel ==
  /\ Quiet("dialog")
  /\ focus' = "sysstat" /\ dialog' = "none" /\ prompt' = "none"
  /\ Answer("")
  /\ UNCHANGED <<menu, cursor, options, mask>>

Finish(d) ==
  /\ Press("dialog")
  /\ dialog = d
  /\ DialogClose

\* "y" reloads (and the query may fail, or answer NULL); "n" and anything else do not.
FinishReload ==
  /\ Finish("pgReload")
  /\ \E text \in {"", "done", "failed"} : Answer(text)
  /\ UNCHANGED <<vars, options, mask>>

\* A filter and an interval change nothing that is kept here; a report may
\* start a pager, and with it the user interface anew.
FinishOther ==
  /\ \E d \in {"filter", "queryReport", "changeRefresh"} : Finish(d)
  /\ \E text \in {"done", "failed"} : Answer(text)
  /\ UNCHANGED <<vars, options, mask>>

\* The answer is not a number, the query fails, or the backend (if the number
\* is one of them) gets the signal: "done" is printed when there is none, too.
FinishSingle ==
  /\ \E d \in {"cancelQuery", "terminateBackend"} : Finish(d)
  /\ \/ Answer("failed")
     \/ message' = "done" /\ \E b \in Backends : reached' \in {{}, {b}}
  /\ UNCHANGED <<vars, options, mask>>

FinishMask ==
  /\ Finish("setMask")
  /\ \E answer \in SUBSET MaskGroups : procMask' = answer /\ masked' = answer
  /\ Answer("")
  /\ UNCHANGED <<vars, options>>

Members(g) == {b \in Backends : g \in GroupsOf[b] /\ AgeOf[b] > age}

\* The answer counts only if no query failed.
Complete(done) == done = procMask

\* The groups come in any order, each with a query of its own; the first that
\* fails ends it, and the groups before it have got their signals.
FinishGroup ==
  /\ \E d \in {"cancelGroup", "terminateGroup"} : Finish(d)
  /\ IF name # Activity \/ procMask = {}
     THEN Answer("")
     ELSE \E done \in SUBSET procMask :
            /\ reached' = UNION {Members(g) : g \in done}
            /\ message' = IF Complete(done) THEN "signalled" ELSE "failed"
  /\ UNCHANGED <<vars, options, mask>>

\* Mutant: the query of the view is not formatted anew.
Formatted_Not(new) == listed

\* The query of the current view is formatted anew with all options.
Formatted(new) == [listed EXCEPT ![name] = new]

\* An empty answer is 0; what is not a time changes nothing.
FinishAge ==
  /\ Finish("changeAge")
  /\ \/ \E new \in Ages :
          /\ age' = new /\ listed' = Formatted(new) /\ agedIn' = name
          /\ Answer("done")
          /\ UNCHANGED noIdle
     \/ Answer("failed") /\ UNCHANGED options
  /\ UNCHANGED <<vars, mask>>

ToggleIdleConns ==
  /\ name \in {Activity, ProcPid}
  /\ Quiet("sysstat")
  /\ noIdle' = ~noIdle
  /\ listed' = Formatted(age)
  /\ Answer("")
  /\ UNCHANGED <<age, agedIn, windows, mask>>

\* Two statements; the message is about the last one that failed.
ResetStat ==
  /\ Quiet("sysstat")
  /\ \E text \in {"done", "failed"} : Answer(text)
  /\ UNCHANGED <<windows, options, mask>>

-----------------------------------------------------------------------------
(* Menus and help                                                          *)

\* (Without the extension the menu of pg_stat_statements is not opened.)
MenuOpen(m) ==
  /\ Quiet("sysstat")
  /\ focus' = "menu" /\ menu' = m /\ cursor' = 0 /\ prompt' = m
  /\ Answer("")
  /\ UNCHANGED <<dialog, options, mask>>

Below(pos) == IF pos + 1 >= ItemsOf(menu) THEN 0 ELSE pos + 1
Above(pos) == IF pos = 0 THEN ItemsOf(menu) - 1 ELSE pos - 1

MoveCursor ==
  /\ Quiet("menu")
  /\ cursor' \in {Below(cursor), Above(cursor)}
  /\ Answer("")
  /\ UNCHANGED <<focus, dialog, menu, prompt, options, mask>>

\* Esc: config.menu keeps the menu; the cursor goes with the window.
MenuClose ==
  /\ Quiet("menu")
  /\ focus' = "sysstat" /\ prompt' = "none" /\ cursor' = 0
  /\ Answer("")
  /\ UNCHANGED <<dialog, menu, options, mask>>

Selected(m) ==
  /\ Press("menu")
  /\ menu = m
  /\ focus' = "sysstat" /\ menu' = "none" /\ prompt' = "none" /\ cursor' = 0
  /\ Answer("")
  /\ UNCHANGED <<dialog, options, mask>>

\* The first item stands in for a position that has none.
SelectView ==
  \E m \in DOMAIN Menus :
    /\ Selected(m)
    /\ GoTo(IF cursor < ItemsOf(m) THEN Menus[m][cursor + 1] ELSE Menus[m][1])

\* The editor takes the terminal; the user interface is built anew.
SelectFile ==
  /\ Selected("conf")
  /\ UNCHANGED vars

ShowHelp ==
  /\ Quiet("sysstat")
  /\ focus' = "help"
  /\ Answer("")
  /\ UNCHANGED <<dialog, menu, cursor, prompt, options, mask>>

CloseHelp ==
  /\ Quiet("help")
  /\ focus' = "sysstat"
  /\ Answer("")
  /\ UNCHANGED <<dialog, menu, cursor, prompt, options, mask>>

\* The user interface fails, or leaves the terminal to another program, and is
\* built anew; config is the same.
Rebuilt ==
  /\ session = "dialogs"
  /\ focus # "sysstat"
  /\ focus' = "sysstat" /\ prompt' = "none" /\ cursor' = 0
  /\ Answer("")
  /\ UNCHANGED <<vars, session, presses, dialog, menu, options, mask>>

-----------------------------------------------------------------------------
\* The keys of the table; a session with dialogs only goes from view to view.
TableSession == session = "table" /\ Next /\ UNCHANGED dialogVars

ViewKeys ==
  /\ session = "dialogs" /\ focus = "sysstat"
  /\ keys < MaxSwitches
  /\ SwitchViewTo \/ SwitchViewToProcPidStat
  /\ Answer("")
  /\ UNCHANGED <<session, presses, windows, options, mask>>

DialogNext ==
  \/ TableSession \/ ViewKeys
  \/ \E d \in DialogTypes : DialogOpen(d)
  \/ DialogCancel
  \/ FinishReload \/ FinishOther \/ FinishSingle \/ FinishMask \/ FinishGroup \/ FinishAge
  \/ ToggleIdleConns \/ ResetStat
  \/ \E m \in MenuTypes : MenuOpen(m)
  \/ MoveCursor \/ MenuClose \/ SelectView \/ SelectFile
  \/ ShowHelp \/ CloseHelp
  \/ Rebuilt

DialogSpec == DialogInit /\ [][DialogNext]_<<vars, dialogVars>>

-----------------------------------------------------------------------------
\* An answer goes to the dialog whose prompt is on the screen and a selection to
\* an item of the menu that is drawn, whatever was left of earlier ones by Esc,
\* by an answer or by a user interface that failed.
AnswersGoWhereAsked ==
  /\ focus = "dialog" => dialog = prompt
  /\ focus = "menu" => menu = prompt /\ cursor < ItemsOf(menu)

InMask(b) == GroupsOf[b] \cap masked # {}

\* A signal to groups reaches no backend outside the groups the user named last.
\* When the number of signals is reported all of these groups have got theirs,
\* and of their backends exactly those have that are old enough for the list on
\* the screen (if the age limit was last changed there).
SignalsMatchList ==
  /\ message \in {"signalled", "failed"} => \A b \in reached : InMask(b)
  /\ message = "signalled" => \A b \in Backends : InMask(b) /\ AgeOf[b] > age => b \in reached
  /\ message = "signalled" /\ agedIn = Activity =>
       \A b \in Backends : InMask(b) => (b \in reached <=> AgeOf[b] > listed[Activity])
=============================================================================
