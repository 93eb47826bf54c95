---------------------------- MODULE DialogsProofs ----------------------------
(***************************************************************************)
(* For any views, menus, backends and groups, and for any number of keys:  *)
(* answers go to the dialog on the screen, signals to the backends that    *)
(* the mask names and the list shows; and the settings of every view       *)
(* survive switches, toggles, and batches of other views.                  *)
(***************************************************************************)
EXTENDS Dialogs, FiniteSetTheorems, WellFoundedInduction, TLAPS

\* The window that has the focus is the one config.dialog or config.menu tells
\* of, it was opened where it may be, and the view has not changed since.
FocusInv ==
  /\ focus # "sysstat" => session = "dialogs"
  /\ focus = "dialog" => dialog = prompt /\ Allowed(dialog)
  /\ focus = "menu" => menu = prompt /\ menu \in MenuTypes /\ cursor \in 0..(ItemsOf(menu) - 1)

\* The mask is the one that was entered, and the list of Activity has the age
\* limit unless that was changed last in another view.
OptionsInv ==
  /\ procMask = masked
  /\ DOMAIN listed = {Activity, ProcPid}
  /\ agedIn = Activity => listed[Activity] = age

\* What the last key has sent to groups.
SignalsInv ==
  /\ message = "failed" => \A b \in reached : InMask(b)
  /\ message = "signalled" =>
       reached = {b \in Backends : InMask(b) /\ AgeOf[b] > age}

IInv == FocusInv /\ OptionsInv /\ SignalsInv

\* A menu has an item.
LEMMA MenuHasItems == \A m \in MenuTypes : ItemsOf(m) \in Nat \ {0}
<1> SUFFICES ASSUME NEW m \in MenuTypes PROVE ItemsOf(m) \in Nat \ {0}
  OBVIOUS
<1>1. CASE m \in DOMAIN Menus
  <2>1. Menus[m] \in Seq(Views) /\ Menus[m] # <<>>
    BY <1>1, DialogsAssumption
  <2>2. Len(Menus[m]) \in Nat /\ Len(Menus[m]) # 0
    BY <2>1
  <2> QED
    BY <1>1, <2>2 DEF ItemsOf
<1>2. CASE m \notin DOMAIN Menus
  BY <1>2, DialogsAssumption DEF ItemsOf
<1> QED
  BY <1>1, <1>2

\* A message without signals.
LEMMA Answered ==
  ASSUME NEW text, Answer(text), text # "signalled"
  PROVE  SignalsInv'
  BY DEF Answer, SignalsInv

\* No window is open at the start.
LEMMA InitInv == DialogInit => IInv
  BY DEF DialogInit, IInv, FocusInv, OptionsInv, SignalsInv

\* Every step keeps the focus.
LEMMA StepFocus == IInv /\ [DialogNext]_<<vars, dialogVars>> => FocusInv'
<1> SUFFICES ASSUME IInv, [DialogNext]_<<vars, dialogVars>> PROVE FocusInv'
  OBVIOUS
<1> USE DEF IInv, FocusInv, dialogVars, windows
\* Windows that are closed, and steps that keep the window and the view.
<1>0. ASSUME session' = session, focus' = "sysstat" PROVE FocusInv'
  BY <1>0
<1>13. ASSUME UNCHANGED <<session, windows, name>> PROVE FocusInv'
  BY <1>13 DEF Allowed
<1>1. CASE TableSession
  BY <1>1, <1>0 DEF TableSession
<1>2. CASE ViewKeys
  BY <1>2, <1>0 DEF ViewKeys
<1>3. ASSUME NEW d \in DialogTypes, DialogOpen(d) PROVE FocusInv'
  <2>1. session' = session /\ session = "dialogs" /\ name' = name /\ focus = "sysstat"
    BY <1>3 DEF DialogOpen, Quiet, Press, vars, table
  <2>2. CASE Allowed(d)
    BY <1>3, <2>1, <2>2 DEF DialogOpen, Opened, Allowed
  <2>3. CASE ~Allowed(d)
    BY <1>3, <2>1, <2>3, <1>13 DEF DialogOpen
  <2> QED
    BY <2>2, <2>3
<1>4. CASE DialogCancel
  BY <1>4, <1>0 DEF DialogCancel, Quiet, Press
<1>5. CASE FinishReload \/ FinishOther \/ FinishSingle \/ FinishMask \/ FinishGroup \/ FinishAge
  BY <1>5, <1>0 DEF FinishReload, FinishOther, FinishSingle, FinishMask, FinishGroup, FinishAge,
                    Finish, Press, DialogClose
<1>6. CASE ToggleIdleConns \/ ResetStat
  BY <1>6, <1>13 DEF ToggleIdleConns, ResetStat, Quiet, Press, vars, table
<1>7. ASSUME NEW m \in MenuTypes, MenuOpen(m) PROVE FocusInv'
  <2>1. session' = session /\ session = "dialogs" /\ focus' = "menu"
    BY <1>7 DEF MenuOpen, Quiet, Press
  <2>2. menu' = m /\ cursor' = 0 /\ prompt' = m
    BY <1>7 DEF MenuOpen
  <2>3. 0 \in 0..(ItemsOf(m) - 1)
    BY MenuHasItems
  <2>4. ItemsOf(menu)' = ItemsOf(m)
    BY <2>2 DEF ItemsOf
  <2> QED
    BY <2>1, <2>2, <2>3, <2>4
<1>8. CASE MoveCursor
  <2>1. /\ session' = session /\ focus = "menu" /\ menu' = menu /\ prompt' = prompt
        /\ focus' = focus /\ cursor' \in {Below(cursor), Above(cursor)}
    BY <1>8 DEF MoveCursor, Quiet, Press
  <2>2. ItemsOf(menu) \in Nat \ {0} /\ cursor \in 0..(ItemsOf(menu) - 1)
    BY <2>1, MenuHasItems
  <2>3. cursor' \in 0..(ItemsOf(menu) - 1)
    BY <2>1, <2>2 DEF Below, Above
  <2> QED
    BY <2>1, <2>3 DEF ItemsOf
<1>9. CASE MenuClose \/ SelectView \/ SelectFile \/ CloseHelp
  BY <1>9, <1>0 DEF MenuClose, SelectView, SelectFile, Selected, CloseHelp, Quiet, Press
<1>10. CASE ShowHelp
  BY <1>10 DEF ShowHelp, Quiet, Press
<1>11. CASE Rebuilt
  BY <1>11, <1>0 DEF Rebuilt
<1>12. CASE UNCHANGED <<vars, dialogVars>>
  BY <1>12, <1>13 DEF vars, table
<1> QED
  BY <1>1, <1>2, <1>3, <1>4, <1>5, <1>6, <1>7, <1>8, <1>9, <1>10, <1>11, <1>12 DEF DialogNext

\* Every step keeps mask and options.
LEMMA StepOptions == IInv /\ [DialogNext]_<<vars, dialogVars>> => OptionsInv'
<1> SUFFICES ASSUME IInv, [DialogNext]_<<vars, dialogVars>> PROVE OptionsInv'
  OBVIOUS
<1> USE DEF IInv, OptionsInv
<1>0. ASSUME UNCHANGED <<mask, options>> PROVE OptionsInv'
  BY <1>0 DEF mask, options
<1>1. CASE TableSession
  BY <1>1, <1>0 DEF TableSession, dialogVars
<1>2. CASE ViewKeys
  BY <1>2, <1>0 DEF ViewKeys
<1>3. ASSUME NEW d \in DialogTypes, DialogOpen(d) PROVE OptionsInv'
  BY <1>3, <1>0 DEF DialogOpen
<1>4. CASE DialogCancel \/ FinishReload \/ FinishOther \/ FinishSingle \/ FinishGroup \/ ResetStat
  BY <1>4, <1>0 DEF DialogCancel, FinishReload, FinishOther, FinishSingle, FinishGroup, ResetStat
<1>5. CASE FinishMask
  BY <1>5 DEF FinishMask, options
<1>6. CASE FinishAge
  <2>1. focus = "dialog" /\ dialog = "changeAge" /\ UNCHANGED mask
    BY <1>6 DEF FinishAge, Finish, Press
  <2>2. name \in {Activity, ProcPid}
    BY <2>1 DEF FocusInv, Allowed
  <2>3. ASSUME NEW new \in Ages, age' = new, listed' = Formatted(new), agedIn' = name
        PROVE  OptionsInv'
    BY <2>1, <2>2, <2>3 DEF Formatted, mask
  <2> QED
    BY <1>6, <1>0, <2>1, <2>3 DEF FinishAge
<1>7. CASE ToggleIdleConns
  BY <1>7 DEF ToggleIdleConns, Formatted, mask
<1>8. ASSUME NEW m \in MenuTypes, MenuOpen(m) PROVE OptionsInv'
  BY <1>8, <1>0 DEF MenuOpen
<1>9. CASE MoveCursor \/ MenuClose \/ SelectView \/ SelectFile \/ ShowHelp \/ CloseHelp \/ Rebuilt
  BY <1>9, <1>0 DEF MoveCursor, MenuClose, SelectView, SelectFile, Selected, ShowHelp, CloseHelp,
                    Rebuilt
<1>10. CASE UNCHANGED <<vars, dialogVars>>
  BY <1>10, <1>0 DEF dialogVars
<1> QED
  BY <1>1, <1>2, <1>3, <1>4, <1>5, <1>6, <1>7, <1>8, <1>9, <1>10 DEF DialogNext

\* Every step sends signals to the right backends, or none.
LEMMA StepSignals == IInv /\ [DialogNext]_<<vars, dialogVars>> => SignalsInv'
<1> SUFFICES ASSUME IInv, [DialogNext]_<<vars, dialogVars>> PROVE SignalsInv'
  OBVIOUS
<1> USE DEF IInv
<1>0. ASSUME UNCHANGED <<mask, options, result>> PROVE SignalsInv'
  BY <1>0 DEF mask, options, result, SignalsInv, InMask
<1>1. CASE TableSession
  BY <1>1, <1>0 DEF TableSession, dialogVars
<1>2. CASE ViewKeys
  BY <1>2, Answered DEF ViewKeys
<1>3. ASSUME NEW d \in DialogTypes, DialogOpen(d) PROVE SignalsInv'
  BY <1>3, Answered DEF DialogOpen
<1>4. CASE FinishReload \/ FinishOther
  BY <1>4, Answered DEF FinishReload, FinishOther
<1>5. CASE FinishSingle
  <2>1. CASE Answer("failed")
    BY <2>1, Answered
  <2>2. CASE message' = "done"
    BY <2>2 DEF SignalsInv
  <2> QED
    BY <1>5, <2>1, <2>2 DEF FinishSingle
<1>6. CASE FinishGroup
  <2>1. UNCHANGED <<mask, age>>
    BY <1>6 DEF FinishGroup, options
  <2>2. CASE Answer("")
    BY <2>2, Answered
  <2>3. ASSUME NEW done \in SUBSET procMask,
               reached' = UNION {Members(g) : g \in done},
               message' = IF Complete(done) THEN "signalled" ELSE "failed"
        PROVE  SignalsInv'
    <3>1. \A b : b \in reached' <=> \E g \in done : b \in Backends /\ g \in GroupsOf[b] /\ AgeOf[b] > age
      BY <2>3 DEF Members
    <3>2. procMask = masked /\ masked' = masked
      BY <2>1 DEF OptionsInv, mask
    <3>3. \A b \in reached' : InMask(b)'
      BY <2>3, <3>1, <3>2 DEF InMask
    <3>4. ASSUME message' = "signalled"
          PROVE  reached' = {b \in Backends : InMask(b)' /\ AgeOf[b] > age'}
      <4>1. done = masked
        BY <2>3, <3>2, <3>4 DEF Complete
      <4> QED
        BY <2>1, <3>1, <3>2, <4>1 DEF InMask
    <3> QED
      BY <3>3, <3>4 DEF SignalsInv
  <2> QED
    BY <1>6, <2>2, <2>3 DEF FinishGroup
<1>7. CASE FinishMask \/ ToggleIdleConns
  BY <1>7, Answered DEF FinishMask, ToggleIdleConns
<1>8. CASE FinishAge
  BY <1>8, Answered DEF FinishAge
<1>9. CASE ResetStat \/ DialogCancel
  BY <1>9, Answered DEF ResetStat, DialogCancel
<1>10. ASSUME NEW m \in MenuTypes, MenuOpen(m) PROVE SignalsInv'
  BY <1>10, Answered DEF MenuOpen
<1>11. CASE MoveCursor \/ MenuClose \/ SelectView \/ SelectFile \/ ShowHelp \/ CloseHelp \/ Rebuilt
  BY <1>11, Answered DEF MoveCursor, MenuClose, SelectView, SelectFile, Selected, ShowHelp, CloseHelp,
                         Rebuilt
<1>12. CASE UNCHANGED <<vars, dialogVars>>
  BY <1>12, <1>0 DEF dialogVars
<1> QED
  BY <1>1, <1>2, <1>3, <1>4, <1>5, <1>6, <1>7, <1>8, <1>9, <1>10, <1>11, <1>12 DEF DialogNext

\* The invariant holds in every reachable state.
THEOREM DialogInvariant == DialogSpec => []IInv
<1>1. IInv /\ [DialogNext]_<<vars, dialogVars>> => IInv'
  BY StepFocus, StepOptions, StepSignals DEF IInv
<1> QED
  BY InitInv, <1>1, PTL DEF DialogSpec

\* An answer is given to the dialog whose prompt is on the screen, and a
\* selection is one of an item of the menu that is drawn.
THEOREM AnswersRight == DialogSpec => []AnswersGoWhereAsked
<1>1. IInv => AnswersGoWhereAsked
  <2> SUFFICES ASSUME IInv PROVE AnswersGoWhereAsked
    OBVIOUS
  <2>1. focus = "menu" => ItemsOf(menu) \in Nat
    BY MenuHasItems DEF IInv, FocusInv
  <2> QED
    BY <2>1 DEF IInv, FocusInv, AnswersGoWhereAsked
<1> QED
  BY <1>1, DialogInvariant, PTL

\* Signals to groups reach the backends of the mask that the list shows.
THEOREM SignalsRight == DialogSpec => []SignalsMatchList
<1>1. IInv => SignalsMatchList
  BY DEF IInv, SignalsInv, OptionsInv, SignalsMatchList
<1> QED
  BY <1>1, DialogInvariant, PTL

-----------------------------------------------------------------------------
(* The table: what is kept of the settings of every view                   *)

\* Columns that may have a width in a view: columns of its own, or those of a
\* wider result, and then all of these.
Known(v) ==
  {D \in SUBSET Nat : IsFiniteSet(D) /\ (D \subseteq ColumnsOf(v) \/ 0..Ncols[v] \subseteq D)}

WidthMaps(v) == UNION {[D -> Nat \ {0}] : D \in Known(v)}

SettingsOf(v) ==
  [order : ColumnsOf(v), desc : BOOLEAN, widths : WidthMaps(v), cols : Nat,
   aligned : BOOLEAN, all : BOOLEAN]

AnySettings == UNION {SettingsOf(v) : v \in Views}

TableTypes ==
  /\ name \in Views /\ all \in BOOLEAN /\ scrollOffset \in Nat
  /\ view \in SettingsOf(name)
  /\ views \in [Views -> AnySettings] /\ \A v \in Views : views[v] \in SettingsOf(v)
  /\ chosen \in [Views -> Nat \X BOOLEAN]
  /\ \A b \in pending : b.of \in Views /\ b.shape \in Shapes[b.of]

TableInv == TableTypes /\ SettingsKept /\ OwnBatchPrinted

LEMMA ColumnCount == \A v \in Views : Ncols[v] \in Nat \ {0} /\ 0 \in ColumnsOf(v)
BY ScreenAssumption DEF ColumnsOf

LEMMA MinOfTwo == \A a, b \in Int : Min({a, b}) \in {a, b} /\ Min({a, b}) <= a /\ Min({a, b}) <= b
<1> SUFFICES ASSUME NEW a \in Int, NEW b \in Int
             PROVE  Min({a, b}) \in {a, b} /\ Min({a, b}) <= a /\ Min({a, b}) <= b
  OBVIOUS
<1>1. \E x \in {a, b} : \A y \in {a, b} : x =< y
  <2>1. CASE a =< b
    BY <2>1
  <2>2. CASE b =< a
    BY <2>2
  <2> QED
    BY <2>1, <2>2
<1> QED
  BY <1>1 DEF Min

LEMMA MaxOfTwo == \A a, b \in Int : Max({a, b}) \in {a, b} /\ Max({a, b}) >= a /\ Max({a, b}) >= b
<1> SUFFICES ASSUME NEW a \in Int, NEW b \in Int
             PROVE  Max({a, b}) \in {a, b} /\ Max({a, b}) >= a /\ Max({a, b}) >= b
  OBVIOUS
<1>1. \E x \in {a, b} : \A y \in {a, b} : x >= y
  <2>1. CASE a >= b
    BY <2>1
  <2>2. CASE b >= a
    BY <2>2
  <2> QED
    BY <2>1, <2>2
<1> QED
  BY <1>1 DEF Max

\* A width set by the user.
LEMMA WidthSet ==
  ASSUME NEW v \in Views, NEW w \in WidthMaps(v), NEW c \in ColumnsOf(v), NEW x \in Nat \ {0}
  PROVE  [i \in DOMAIN w \cup {c} |-> IF i = c THEN x ELSE w[i]] \in WidthMaps(v)
<1>1. PICK D \in Known(v) : w \in [D -> Nat \ {0}]
  BY DEF WidthMaps
<1>2. D \cup {c} \in Known(v)
  <2>1. IsFiniteSet(D \cup {c})
    BY <1>1, FS_AddElement DEF Known
  <2>2. c \in Nat
    BY ColumnCount DEF ColumnsOf
  <2> QED
    BY <1>1, <2>1, <2>2 DEF Known
<1>3. [i \in D \cup {c} |-> IF i = c THEN x ELSE w[i]] \in [D \cup {c} -> Nat \ {0}]
  BY <1>1
<1>4. DOMAIN w = D
  BY <1>1
<1> QED
  BY <1>2, <1>3, <1>4 DEF WidthMaps

\* The widths SetAlign computes for a result of any view.
LEMMA ShapeFits ==
  ASSUME NEW v \in Views, NEW u \in Views, NEW s \in Shapes[u]
  PROVE  s \in WidthMaps(v)
<1>1. s \in [0..(Ncols[u] - 1) -> Nat \ {0}]
  BY ScreenAssumption
<1>2. Ncols[u] \in Nat \ {0} /\ Ncols[v] \in Nat \ {0}
  BY ColumnCount
<1>3. IsFiniteSet(0..(Ncols[u] - 1))
  BY <1>2, FS_Interval
<1>4. 0..(Ncols[u] - 1) \subseteq ColumnsOf(v) \/ 0..Ncols[v] \subseteq 0..(Ncols[u] - 1)
  BY <1>2 DEF ColumnsOf
<1>5. 0..(Ncols[u] - 1) \in Known(v)
  BY <1>2, <1>3, <1>4 DEF Known
<1> QED
  BY <1>1, <1>5 DEF WidthMaps

\* As many widths as the view has columns are those of its columns.
LEMMA FullMap ==
  ASSUME NEW v \in Views, NEW w \in WidthMaps(v), Cardinality(DOMAIN w) = Ncols[v]
  PROVE  DOMAIN w = ColumnsOf(v)
<1>1. PICK D \in Known(v) : w \in [D -> Nat \ {0}]
  BY DEF WidthMaps
<1>2. DOMAIN w = D /\ IsFiniteSet(D) /\ Ncols[v] \in Nat \ {0} /\ Cardinality(D) = Ncols[v]
  BY <1>1, ColumnCount DEF Known
<1>3. CASE D \subseteq ColumnsOf(v)
  <2>1. IsFiniteSet(ColumnsOf(v)) /\ Cardinality(ColumnsOf(v)) = Ncols[v]
    <3>1. PICK n : n = Ncols[v] - 1 /\ n \in Int /\ 0 <= n
      BY <1>2
    <3>2. IsFiniteSet(0..n) /\ Cardinality(0..n) = n + 1
      <4>1. 0 \in Int /\ n \in Int /\ ~(0 > n)
        BY <3>1
      <4>2. IsFiniteSet(0..n) /\ Cardinality(0..n) = (IF 0 > n THEN 0 ELSE n - 0 + 1)
        BY <4>1, FS_Interval, Zenon
      <4> QED
        BY <4>1, <4>2
    <3> QED
      BY <1>2, <3>1, <3>2 DEF ColumnsOf
  <2>2. D \in SUBSET ColumnsOf(v)
    BY <1>3
  <2>3. Cardinality(ColumnsOf(v)) = Cardinality(D)
    BY <1>2, <2>1
  <2>4. ColumnsOf(v) = D
    BY <2>1, <2>2, <2>3, FS_Subset
  <2> QED
    BY <1>2, <2>4
<1>4. CASE 0..Ncols[v] \subseteq D
  <2>1. Cardinality(0..Ncols[v]) = Ncols[v] + 1
    BY <1>2, FS_Interval
  <2>2. 0..Ncols[v] \in SUBSET D
    BY <1>4
  <2>3. Cardinality(0..Ncols[v]) <= Cardinality(D)
    BY <1>2, <2>2, FS_Subset
  <2> QED
    BY <1>2, <2>1, <2>3
<1> QED
  BY <1>1, <1>3, <1>4 DEF Known

-----------------------------------------------------------------------------
(* The window of columns                                                   *)

\* Induction over the natural numbers, for a set in the place of a predicate.
LEMMA NatSet ==
  ASSUME NEW S, 0 \in S, \A n \in Nat : n \in S => n + 1 \in S
  PROVE  \A n \in Nat : n \in S
<1> DEFINE T == Nat \ S
           R == {p \in Nat \X Nat : p[1] < p[2]}
<1> SUFFICES ASSUME T # {} PROVE FALSE
  OBVIOUS
<1>1. IsWellFoundedOn(R, Nat)
  BY NatLessThanWellFounded DEF OpToRel
<1>2. PICK x \in T : \A y \in T : ~(<<y, x>> \in R)
  <2> HIDE DEF R
  <2> QED
    BY <1>1, WFMin
<1>3. x \in Nat /\ x # 0 /\ x - 1 \in Nat /\ <<x - 1, x>> \in R
  OBVIOUS
<1>4. x - 1 \in S
  BY <1>2, <1>3
<1> QED
  BY <1>3, <1>4

\* f adds up the cells of the columns.
IsAhead(f, n, w) ==
  f = [c \in 0..n |-> IF c = 0 THEN 0 ELSE f[c - 1] + Cell(w, c - 1)]

LEMMA AheadExists == ASSUME NEW w PROVE \A n \in Nat : \E f : IsAhead(f, n, w)
<1> DEFINE S == {n \in Nat : \E f : IsAhead(f, n, w)}
<1>1. 0 \in S
  <2>1. [c \in 0..0 |-> 0] = [c \in 0..0 |-> IF c = 0 THEN 0 ELSE [x \in 0..0 |-> 0][c - 1] + Cell(w, c - 1)]
    OBVIOUS
  <2>2. IsAhead([c \in 0..0 |-> 0], 0, w)
    BY <2>1 DEF IsAhead
  <2> QED
    BY <2>2
<1>2. ASSUME NEW n \in Nat, n \in S PROVE n + 1 \in S
  <2>1. PICK f : IsAhead(f, n, w)
    BY <1>2
  <2>2. /\ DOMAIN f = 0..n
        /\ \A c \in 0..n : f[c] = IF c = 0 THEN 0 ELSE f[c - 1] + Cell(w, c - 1)
    BY <2>1 DEF IsAhead
  <2> DEFINE g == [c \in 0..(n + 1) |-> IF c = n + 1 THEN f[n] + Cell(w, n) ELSE f[c]]
             h == [c \in 0..(n + 1) |-> IF c = 0 THEN 0 ELSE g[c - 1] + Cell(w, c - 1)]
  <2>3. \A c \in 0..(n + 1) : g[c] = h[c]
    <3> SUFFICES ASSUME NEW c \in 0..(n + 1) PROVE g[c] = h[c]
      OBVIOUS
    <3>1. CASE c = n + 1
      <4>1. g[c] = f[n] + Cell(w, n) /\ c - 1 = n /\ c # 0
        BY <3>1
      <4>2. g[n] = f[n]
        OBVIOUS
      <4>3. h[c] = g[c - 1] + Cell(w, c - 1)
        BY <4>1
      <4> QED
        BY <4>1, <4>2, <4>3
    <3>2. CASE c \in 0..n
      <4>1. g[c] = f[c] /\ h[c] = IF c = 0 THEN 0 ELSE g[c - 1] + Cell(w, c - 1)
        BY <3>2
      <4>2. c # 0 => g[c - 1] = f[c - 1]
        BY <3>2
      <4> QED
        BY <2>2, <3>2, <4>1, <4>2
    <3> QED
      BY <3>1, <3>2
  <2>4. g = h
    BY <2>3
  <2>5. IsAhead(g, n + 1, w)
    BY <2>4 DEF IsAhead
  <2> QED
    BY <2>5
<1> HIDE DEF S
<1>3. \A n \in Nat : n \in S
  BY <1>1, <1>2, NatSet
<1> QED
  BY <1>3 DEF S

\* A cell has room for the gap at least.
Gapped(w) == \A c \in Nat : Cell(w, c) \in Nat /\ Cell(w, c) >= 2

\* Where columns begin.
Ahead(n, w) == CHOOSE f : IsAhead(f, n, w)

\* f[c] is where column c begins.
Starts(f, n, w) ==
  /\ f \in [0..n -> Nat] /\ f[0] = 0
  /\ \A c \in 0..(n - 1) : f[c + 1] = f[c] + Cell(w, c)
  /\ \A a, b \in 0..n : a <= b => f[a] <= f[b]

LEMMA AheadStarts == ASSUME NEW n \in Nat, NEW w, Gapped(w) PROVE Starts(Ahead(n, w), n, w)
<1> DEFINE f == Ahead(n, w)
<1>1. IsAhead(f, n, w)
  <2>1. f = CHOOSE g : IsAhead(g, n, w)
    BY DEF Ahead
  <2> HIDE DEF f
  <2> QED
    BY <2>1, AheadExists
<1> HIDE DEF f
<1>2. /\ DOMAIN f = 0..n /\ f = [c \in 0..n |-> f[c]]
      /\ \A c \in 0..n : f[c] = IF c = 0 THEN 0 ELSE f[c - 1] + Cell(w, c - 1)
  BY <1>1 DEF IsAhead
<1>3. f[0] = 0 /\ \A c \in 0..(n - 1) : f[c + 1] = f[c] + Cell(w, c)
  <2>1. 0 \in 0..n
    OBVIOUS
  <2>2. ASSUME NEW c \in 0..(n - 1) PROVE f[c + 1] = f[c] + Cell(w, c)
    <3>1. c + 1 \in 0..n /\ c + 1 # 0 /\ (c + 1) - 1 = c
      OBVIOUS
    <3> QED
      BY <1>2, <3>1
  <2> QED
    BY <1>2, <2>1, <2>2
<1>4. \A c \in 0..n : f[c] \in Nat
  <2> DEFINE S == {c \in Nat : c <= n => f[c] \in Nat}
  <2>1. 0 \in S
    BY <1>3
  <2>2. ASSUME NEW c \in Nat, c \in S PROVE c + 1 \in S
    BY <1>3, <2>2 DEF Gapped
  <2> HIDE DEF S
  <2>3. \A c \in Nat : c \in S
    BY <2>1, <2>2, NatSet
  <2> QED
    BY <2>3 DEF S
<1>5. ASSUME NEW a \in 0..n PROVE \A b \in 0..n : a <= b => f[a] <= f[b]
  <2> DEFINE S == {b \in Nat : b <= n /\ a <= b => f[a] <= f[b]}
  <2>1. 0 \in S
    BY <1>4
  <2>2. ASSUME NEW b \in Nat, b \in S PROVE b + 1 \in S
    <3> SUFFICES ASSUME b + 1 <= n, a <= b + 1 PROVE f[a] <= f[b + 1]
      OBVIOUS
    <3>1. f[b + 1] \in Nat /\ f[a] \in Nat /\ f[b] \in Nat
      BY <1>4
    <3>2. f[b + 1] = f[b] + Cell(w, b) /\ Cell(w, b) \in Nat
      BY <1>3 DEF Gapped
    <3>3. a = b + 1 \/ f[a] <= f[b]
      BY <2>2
    <3> QED
      BY <3>1, <3>2, <3>3
  <2> HIDE DEF S
  <2>3. \A b \in Nat : b \in S
    BY <2>1, <2>2, NatSet
  <2> QED
    BY <2>3 DEF S
<1>6. f \in [0..n -> Nat]
  BY <1>2, <1>4
<1>7. Starts(f, n, w)
  BY <1>3, <1>5, <1>6 DEF Starts
<1> QED
  BY <1>7 DEF f

\* f adds up the cells of the columns from a on.
IsUsed(f, n, w, a) ==
  f = [c \in a..n |-> IF c = a THEN 0 ELSE f[c - 1] + Cell(w, c - 1)]

\* The cells between two columns are the difference of their places.
LEMMA CellsBetween ==
  ASSUME NEW n \in Nat, NEW w, Gapped(w), NEW f, Starts(f, n, w), NEW a \in 0..n, NEW b \in a..n
  PROVE  Cells(n, w, a, b) = f[b] - f[a]
<1>1. /\ \A c \in 0..n : f[c] \in Nat
      /\ \A c \in a..(n - 1) : f[c + 1] = f[c] + Cell(w, c) /\ Cell(w, c) \in Nat
  <2>1. a \in Nat /\ a..(n - 1) \subseteq 0..(n - 1) /\ a..(n - 1) \subseteq Nat
    OBVIOUS
  <2>2. \A c \in 0..n : f[c] \in Nat
    BY DEF Starts
  <2>3. \A c \in 0..(n - 1) : f[c + 1] = f[c] + Cell(w, c)
    BY DEF Starts
  <2>4. \A c \in a..(n - 1) : Cell(w, c) \in Nat
    BY <2>1 DEF Gapped
  <2> QED
    BY <2>1, <2>2, <2>3, <2>4
<1>2. \E u : IsUsed(u, n, w, a)
  <2> DEFINE u == [c \in a..n |-> f[c] - f[a]]
             h == [c \in a..n |-> IF c = a THEN 0 ELSE u[c - 1] + Cell(w, c - 1)]
  <2>1. ASSUME NEW c \in a..n PROVE u[c] = h[c]
    <3>1. CASE c = a
      BY <1>1, <3>1
    <3>2. CASE c # a
      <4>1. c - 1 \in a..(n - 1) /\ c - 1 \in a..n /\ (c - 1) + 1 = c /\ c \in 0..n /\ c - 1 \in 0..n
        BY <3>2
      <4>2. f[c] = f[c - 1] + Cell(w, c - 1) /\ Cell(w, c - 1) \in Nat
        BY <1>1, <4>1
      <4>3. u[c - 1] = f[c - 1] - f[a] /\ u[c] = f[c] - f[a] /\ h[c] = u[c - 1] + Cell(w, c - 1)
        BY <3>2, <4>1
      <4> QED
        BY <1>1, <4>1, <4>2, <4>3
    <3> QED
      BY <3>1, <3>2
  <2>2. u = h
    BY <2>1
  <2>3. IsUsed(u, n, w, a)
    BY <2>2 DEF IsUsed
  <2> QED
    BY <2>3
<1> DEFINE u == CHOOSE g : IsUsed(g, n, w, a)
<1>3. IsUsed(u, n, w, a) /\ Cells(n, w, a, b) = u[b]
  <2>1. Cells(n, w, a, b) = u[b]
    BY DEF Cells, IsUsed
  <2> QED
    BY <1>2, <2>1
<1> HIDE DEF u
<1>4. \A c \in a..n : u[c] = IF c = a THEN 0 ELSE u[c - 1] + Cell(w, c - 1)
  BY <1>3 DEF IsUsed
<1> DEFINE S == {k \in Nat : a + k <= n => u[a + k] = f[a + k] - f[a]}
<1>5. 0 \in S
  BY <1>1, <1>4
<1>6. ASSUME NEW k \in Nat, k \in S PROVE k + 1 \in S
  <2> SUFFICES ASSUME a + (k + 1) <= n PROVE u[a + (k + 1)] = f[a + (k + 1)] - f[a]
    OBVIOUS
  <2> DEFINE c == a + k
  <2>1. c \in a..(n - 1) /\ c + 1 \in a..n /\ c + 1 # a /\ (c + 1) - 1 = c /\ c \in 0..n
    OBVIOUS
  <2>2. u[c] = f[c] - f[a]
    BY <1>6
  <2>3. a + (k + 1) = c + 1
    OBVIOUS
  <2> HIDE DEF c
  <2>4. u[c + 1] = u[c] + Cell(w, c)
    BY <1>4, <2>1
  <2>5. f[c + 1] = f[c] + Cell(w, c) /\ Cell(w, c) \in Nat /\ f[c] \in Nat /\ f[a] \in Nat
    BY <1>1, <2>1
  <2>6. u[c + 1] = f[c + 1] - f[a]
    BY <2>2, <2>4, <2>5
  <2> QED
    BY <2>3, <2>6
<1> HIDE DEF S
<1>7. \A k \in Nat : k \in S
  BY <1>5, <1>6, NatSet
<1>8. u[b] = f[b] - f[a]
  <2>1. PICK k \in Nat : b = a + k
    <3>1. b - a \in Nat /\ b = a + (b - a)
      OBVIOUS
    <3> QED
      BY <3>1
  <2>2. k \in S /\ a + k <= n
    BY <1>7, <2>1
  <2> QED
    BY <2>1, <2>2 DEF S
<1> QED
  BY <1>3, <1>8

\* A set of columns that has, with a column, all before it.
LEMMA FirstOnes ==
  ASSUME NEW a \in Nat, NEW b \in Nat, a <= b, NEW S \in SUBSET (a..(b - 1)),
         \A x \in S, y \in a..(b - 1) : y < x => y \in S
  PROVE  /\ Cardinality(S) \in 0..(b - a)
         /\ \A y \in a..(b - 1) : y \in S <=> y < a + Cardinality(S)
<1> DEFINE R == {p \in Nat \X Nat : p[1] < p[2]}
           T == (a..b) \ S
<1>1. PICK m \in T : \A y \in T : m <= y
  <2>1. b \in T /\ T \subseteq Nat
    OBVIOUS
  <2>2. IsWellFoundedOn(R, Nat)
    BY NatLessThanWellFounded DEF OpToRel
  <2> HIDE DEF T
  <2>3. PICK m \in T : \A y \in T : ~(<<y, m>> \in R)
    <3> HIDE DEF R
    <3> QED
      BY <2>1, <2>2, WFMin
  <2>4. \A y \in T : y \in Nat /\ m \in Nat /\ ~(y < m)
    BY <2>1, <2>3
  <2> QED
    BY <2>4
<1>2. m \in a..b /\ m \notin S
  OBVIOUS
<1>3. S = a..(m - 1)
  <2>1. \A y \in a..(m - 1) : y \in S
    BY <1>1, <1>2
  <2>2. ASSUME NEW y \in S PROVE y \in a..(m - 1)
    <3>1. y \in a..(b - 1) /\ y # m
      BY <1>2
    <3>2. ~(m < y)
      <4>1. m < y => m \in a..(b - 1)
        BY <1>2, <3>1
      <4> QED
        BY <1>2, <4>1
    <3> QED
      BY <1>2, <3>1, <3>2
  <2>3. S \subseteq a..(m - 1) /\ a..(m - 1) \subseteq S
    BY <2>1, <2>2
  <2> HIDE DEF T
  <2> QED
    BY <2>3
<1>4. Cardinality(S) = m - a
  <2>1. PICK z : z = m - 1 /\ z \in Int
    BY <1>2
  <2>2. Cardinality(a..z) = IF a > z THEN 0 ELSE z - a + 1
    BY <2>1, FS_Interval
  <2> QED
    BY <1>2, <1>3, <2>1, <2>2
<1> QED
  BY <1>2, <1>3, <1>4

\* A set of columns that has, with a column, all behind it.
LEMMA LastOnes ==
  ASSUME NEW a \in Nat, NEW b \in Nat, a <= b, NEW S \in SUBSET (a..(b - 1)),
         \A x \in S, y \in a..(b - 1) : x < y => y \in S
  PROVE  /\ Cardinality(S) \in 0..(b - a)
         /\ \A y \in a..(b - 1) : y \in S <=> y >= b - Cardinality(S)
<1> DEFINE T == (a..(b - 1)) \ S
<1>1. T \in SUBSET (a..(b - 1)) /\ \A x \in T, y \in a..(b - 1) : y < x => y \in T
  OBVIOUS
<1>2. /\ Cardinality(T) \in 0..(b - a)
      /\ \A y \in a..(b - 1) : y \in T <=> y < a + Cardinality(T)
  <2> HIDE DEF T
  <2> QED
    BY <1>1, FirstOnes
<1>3. S = (a + Cardinality(T))..(b - 1)
  <2> DEFINE k == a + Cardinality(T)
  <2>1. k \in Nat /\ a <= k /\ \A y \in a..(b - 1) : y \notin S <=> y < k
    BY <1>2
  <2> HIDE DEF k
  <2>2. S \subseteq k..(b - 1)
    BY <2>1
  <2>3. k..(b - 1) \subseteq S
    BY <2>1
  <2> HIDE DEF T
  <2>4. S = k..(b - 1)
    BY <2>2, <2>3
  <2> QED
    BY <2>4 DEF k
<1>4. Cardinality(S) = (b - a) - Cardinality(T)
  <2>1. PICK z, l : z = b - 1 /\ z \in Int /\ l = a + Cardinality(T) /\ l \in Int
    BY <1>2
  <2>2. Cardinality(l..z) = IF l > z THEN 0 ELSE z - l + 1
    BY <2>1, FS_Interval
  <2> HIDE DEF T
  <2> QED
    BY <1>2, <1>3, <2>1, <2>2
<1> QED
  BY <1>2, <1>4

\* What countFit counts: the columns that begin inside the budget.
LEMMA FitsFrom ==
  ASSUME NEW n \in Nat, NEW w, Gapped(w), NEW from \in Nat, from <= n, NEW budget \in Int
  PROVE  /\ FitFrom(n, w, from, budget) \in 0..(n - from)
         /\ \A c \in from..(n - 1) :
              Cells(n, w, from, c) < budget <=> c < from + FitFrom(n, w, from, budget)
<1> DEFINE f == Ahead(n, w)
           S == {c \in from..(n - 1) : Cells(n, w, from, c) < budget}
<1>1. Starts(f, n, w)
  BY AheadStarts
<1> HIDE DEF f
<1>2. \A c \in from..n : Cells(n, w, from, c) = f[c] - f[from] /\ f[c] \in Nat /\ f[from] \in Nat
  <2>1. \A c \in from..n : Cells(n, w, from, c) = f[c] - f[from]
    BY <1>1, CellsBetween
  <2> QED
    BY <1>1, <2>1 DEF Starts
<1>3. ASSUME NEW x \in S, NEW y \in from..(n - 1), y < x PROVE y \in S
  <2>1. f[y] <= f[x]
    BY <1>1, <1>3 DEF Starts
  <2>2. x \in from..n /\ y \in from..n
    BY <1>3
  <2> QED
    BY <1>2, <1>3, <2>1, <2>2
<1>4. FitFrom(n, w, from, budget) = Cardinality(S) /\ S \in SUBSET (from..(n - 1))
  BY DEF FitFrom
<1>5. \A c \in from..(n - 1) : c \in S <=> Cells(n, w, from, c) < budget
  OBVIOUS
<1> HIDE DEF S
<1> QED
  BY <1>3, <1>4, <1>5, FirstOnes

LEMMA FitsAtEnd ==
  ASSUME NEW n \in Nat \ {0}, NEW w, Gapped(w), NEW budget \in Int
  PROVE  /\ FitAtEnd(n, w, budget) \in 0..(n - 1)
         /\ \A c \in 1..(n - 1) :
              Cells(n, w, c + 1, n) < budget <=> c >= n - FitAtEnd(n, w, budget)
<1> DEFINE f == Ahead(n, w)
           S == {c \in 1..(n - 1) : Cells(n, w, c + 1, n) < budget}
<1>1. Starts(f, n, w)
  BY AheadStarts
<1> HIDE DEF f
<1>2. \A c \in 0..n : Cells(n, w, c, n) = f[n] - f[c] /\ f[c] \in Nat /\ f[n] \in Nat
  <2>1. \A c \in 0..n : n \in c..n /\ n \in Nat
    OBVIOUS
  <2>2. \A c \in 0..n : Cells(n, w, c, n) = f[n] - f[c]
    BY <1>1, <2>1, CellsBetween
  <2> QED
    BY <1>1, <2>2 DEF Starts
<1>3. ASSUME NEW x \in S, NEW y \in 1..(n - 1), x < y PROVE y \in S
  <2>1. f[x + 1] <= f[y + 1]
    BY <1>1, <1>3 DEF Starts
  <2>2. x + 1 \in 0..n /\ y + 1 \in 0..n
    BY <1>3
  <2> QED
    BY <1>2, <1>3, <2>1, <2>2
<1>4. FitAtEnd(n, w, budget) = Cardinality(S) /\ S \in SUBSET (1..(n - 1))
  BY DEF FitAtEnd
<1>5. \A c \in 1..(n - 1) : c \in S <=> Cells(n, w, c + 1, n) < budget
  OBVIOUS
<1> HIDE DEF S
<1>6. /\ Cardinality(S) \in 0..(n - 1)
      /\ \A y \in 1..(n - 1) : y \in S <=> y >= n - Cardinality(S)
  <2>1. n \in Nat /\ 1 <= n
    OBVIOUS
  <2> QED
    BY <1>3, <1>4, <2>1, LastOnes
<1> QED
  BY <1>4, <1>5, <1>6

LEMMA CellsOf ==
  ASSUME NEW n \in Nat, NEW w, Gapped(w)
  PROVE  /\ \A a \in 0..n : Cells(n, w, a, a) = 0
         /\ \A a \in 0..n : \A b \in a..n : Cells(n, w, a, b) \in Int
         /\ \A a \in 0..n : \A b \in a..(n - 1) :
              Cells(n, w, a, b + 1) = Cells(n, w, a, b) + Cell(w, b)
         /\ \A a \in 0..(n - 1) : \A b \in (a + 1)..n :
              Cells(n, w, a, b) = Cell(w, a) + Cells(n, w, a + 1, b)
         /\ \A a \in 0..n : \A b, c \in a..n : b <= c => Cells(n, w, a, b) <= Cells(n, w, a, c)
<1> DEFINE f == Ahead(n, w)
<1>1. Starts(f, n, w)
  BY AheadStarts
<1> HIDE DEF f
<1>2. \A a \in 0..n : \A b \in a..n : Cells(n, w, a, b) = f[b] - f[a]
  BY <1>1, CellsBetween
<1>3. \A c \in 0..n : f[c] \in Nat
  BY <1>1 DEF Starts
<1>4. \A c \in 0..(n - 1) : /\ c \in 0..n /\ c + 1 \in 0..n /\ f[c + 1] = f[c] + Cell(w, c)
                            /\ Cell(w, c) \in Nat
  <2>1. \A c \in 0..(n - 1) : f[c + 1] = f[c] + Cell(w, c)
    BY <1>1 DEF Starts
  <2>2. \A c \in 0..(n - 1) : c \in 0..n /\ c + 1 \in 0..n /\ c \in Nat
    OBVIOUS
  <2>3. \A c \in 0..(n - 1) : Cell(w, c) \in Nat
    BY <2>2 DEF Gapped
  <2> QED
    BY <2>1, <2>2, <2>3
<1>5. \A a, b \in 0..n : a <= b => f[a] <= f[b]
  BY <1>1 DEF Starts
<1>6. ASSUME NEW a \in 0..n, NEW b \in a..n, NEW c \in a..n, b <= c
      PROVE  Cells(n, w, a, b) <= Cells(n, w, a, c)
  <2>1. b \in 0..n /\ c \in 0..n
    OBVIOUS
  <2> QED
    BY <1>2, <1>3, <1>5, <1>6, <2>1
<1>7. ASSUME NEW a \in 0..n, NEW b \in a..(n - 1)
      PROVE  Cells(n, w, a, b + 1) = Cells(n, w, a, b) + Cell(w, b)
  <2>1. b \in 0..(n - 1) /\ b \in a..n /\ b + 1 \in a..n
    OBVIOUS
  <2> QED
    BY <1>2, <1>3, <1>4, <2>1
<1>8. ASSUME NEW a \in 0..(n - 1), NEW b \in (a + 1)..n
      PROVE  Cells(n, w, a, b) = Cell(w, a) + Cells(n, w, a + 1, b)
  <2>1. a \in 0..n /\ a + 1 \in 0..n /\ b \in a..n /\ b \in 0..n
    OBVIOUS
  <2> QED
    BY <1>2, <1>3, <1>4, <2>1
<1>9. \A a \in 0..n : \A b \in a..n : Cells(n, w, a, b) \in Int /\ Cells(n, w, a, a) = 0
  <2> SUFFICES ASSUME NEW a \in 0..n, NEW b \in a..n
               PROVE  Cells(n, w, a, b) \in Int /\ Cells(n, w, a, a) = 0
    OBVIOUS
  <2>1. b \in 0..n /\ a \in a..n
    OBVIOUS
  <2> QED
    BY <1>2, <1>3, <2>1
<1>10. \A a \in 0..n : Cells(n, w, a, a) = 0
  <2>1. \A a \in 0..n : a \in a..n
    OBVIOUS
  <2> QED
    BY <1>9, <2>1
<1> QED
  BY <1>6, <1>7, <1>8, <1>9, <1>10

LEMMA Clamped ==
  ASSUME NEW offset \in Int, NEW m \in Nat
  PROVE  Clamp(offset, m) \in 0..m /\ (offset > Clamp(offset, m) => Clamp(offset, m) = m)
BY DEF Clamp

\* The farthest offset leaves a column.
LEMMA OffsetBounds ==
  ASSUME NEW n \in Nat \ {0}, NEW w, Gapped(w), NEW base \in Int
  PROVE  MaxOffset(n, w, base) \in 0..(n - 1)
<1>1. \A b \in Int : FitAtEnd(n, w, b) \in 0..(n - 1)
  BY FitsAtEnd
<1>2. base \in Int /\ TailBudget(base) \in Int
  BY DEF TailBudget, MarkerWidth
<1> QED
  BY <1>1, <1>2 DEF MaxOffset

\* What a frame prints begins on the screen together with the markers, and is all
\* that does.
Fits(n, w, term, win) ==
  LET markers  == (IF win.left THEN 1 ELSE 0) + (IF win.right THEN 1 ELSE 0)
      start(c) == Cell(w, 0) + markers + Cells(n, w, win.first, c)
  IN /\ win.clamped \in 0..(n - 1) /\ win.first = 1 + win.clamped
     /\ win.last \in (win.first - 1)..(n - 1)
     /\ win.left \in BOOLEAN /\ win.right \in BOOLEAN
     /\ \A c \in win.first..win.last : start(c) < term
     /\ win.right => start(win.last + 1) >= term

LEMMA WindowShape ==
  ASSUME NEW n \in Nat, n > 1, NEW w, Gapped(w), NEW term \in Int, NEW offset \in Int,
         NEW win, win = Window(n, w, term, offset)
  PROVE  Fits(n, w, term, win)
<1> DEFINE base == term - Cell(w, 0)
           clamped == Clamp(offset, MaxOffset(n, w, base))
           first   == 1 + clamped
           probed  == FitFrom(n, w, first, base)
           left    == clamped > 0
           right   == first + probed - 1 < n - 1
           room    == base - Reserved(left, right)
           fit     == FitFrom(n, w, first, room)
           last    == first + fit - 1
           markers == (IF left THEN 1 ELSE 0) + (IF last < n - 1 THEN 1 ELSE 0)
           cells(c) == Cells(n, w, first, c)
<1>1. win = [first |-> first, last |-> last, clamped |-> clamped, left |-> left,
             right |-> last < n - 1]
  BY DEF Window
<1>2. base \in Int /\ Cell(w, 0) \in Nat
  BY DEF Gapped
<1>3. clamped \in 0..(n - 1)
  <2>1. PICK top : top = MaxOffset(n, w, base)
    OBVIOUS
  <2>2. top \in 0..(n - 1) /\ clamped = Clamp(offset, top)
    BY <1>2, <2>1, OffsetBounds
  <2> QED
    BY <2>2, Clamped
<1> HIDE DEF clamped
<1>4. first \in 1..n /\ left \in BOOLEAN
  BY <1>3
<1> HIDE DEF first, base
<1>5. /\ probed \in 0..(n - first)
      /\ \A c \in first..(n - 1) : cells(c) < base <=> c < first + probed
  <2>1. first \in Nat /\ first <= n
    BY <1>4
  <2> QED
    BY <1>2, <2>1, FitsFrom
<1> HIDE DEF probed, left
<1>6. room = base - (IF left THEN 1 ELSE 0) - (IF right THEN 1 ELSE 0) /\ room \in Int
  BY <1>2 DEF Reserved, MarkerWidth
<1> HIDE DEF room
<1>7. /\ fit \in 0..(n - first)
      /\ \A c \in first..(n - 1) : cells(c) < room <=> c < first + fit
  <2>1. first \in Nat /\ first <= n
    BY <1>4
  <2> QED
    BY <1>6, <2>1, FitsFrom
<1> HIDE DEF fit
<1>8. /\ \A c \in first..n : cells(c) \in Int
      /\ \A c \in first..(n - 1) : cells(c + 1) = cells(c) + Cell(w, c) /\ Cell(w, c) >= 2 /\ Cell(w, c) \in Nat
      /\ \A b, c \in first..n : b <= c => cells(b) <= cells(c)
  <2>1. first \in 0..n /\ first..n \subseteq 0..n /\ first..(n - 1) \subseteq 0..(n - 1)
    BY <1>4
  <2>2. \A c \in 0..(n - 1) : Cell(w, c) >= 2 /\ Cell(w, c) \in Nat
    BY DEF Gapped
  <2>3. /\ \A b \in first..n : cells(b) \in Int
        /\ \A b \in first..(n - 1) : cells(b + 1) = cells(b) + Cell(w, b)
        /\ \A b, c \in first..n : b <= c => cells(b) <= cells(c)
    BY <2>1, CellsOf
  <2> HIDE DEF cells
  <2> QED
    BY <2>1, <2>2, <2>3
<1> HIDE DEF cells
<1>9. last \in (first - 1)..(n - 1)
  BY <1>4, <1>7
\* A marker that is drawn in the end was reserved, or the last column that was
\* probed has made room for it.
<1>10. ASSUME NEW c \in first..last PROVE cells(c) < base - markers
  <2>1. c \in first..(n - 1) /\ cells(c) < room /\ cells(c) \in Int
    BY <1>4, <1>7, <1>8, <1>9
  <2>2. CASE right \/ ~(last < n - 1)
    BY <1>2, <1>4, <1>6, <2>1, <2>2
  <2>3. CASE ~right /\ last < n - 1
    <3>1. first + probed = n
      BY <1>4, <1>5, <2>3
    <3>2. last + 1 \in first..(n - 1) /\ cells(last + 1) < base /\ cells(last + 1) \in Int
      BY <1>4, <1>5, <1>8, <1>9, <2>3, <3>1
    <3>3. cells(c) + 2 <= cells(last + 1)
      <4>1. cells(last + 1) >= cells(last) + 2 /\ cells(last) \in Int
        BY <1>8, <2>1, <2>3, <1>4, <1>9
      <4>2. c \in first..n /\ last \in first..n /\ c <= last
        BY <1>4, <1>9, <2>1
      <4>3. cells(c) <= cells(last)
        BY <1>8, <4>2
      <4> QED
        BY <2>1, <3>2, <4>1, <4>3
    <3>4. markers = (IF left THEN 1 ELSE 0) + 1
      BY <2>3
    <3> QED
      BY <1>2, <1>4, <1>6, <2>1, <2>3, <3>2, <3>3, <3>4
  <2> QED
    BY <2>2, <2>3
<1>11. last < n - 1 => cells(last + 1) >= base - markers
  <2> SUFFICES ASSUME last < n - 1 PROVE cells(last + 1) >= base - markers
    OBVIOUS
  <2>1. last + 1 \in first..(n - 1) /\ ~(last + 1 < first + fit) /\ cells(last + 1) \in Int
    BY <1>4, <1>7, <1>8, <1>9
  <2>2. cells(last + 1) >= room
    BY <1>6, <1>7, <2>1
  <2>3. room >= base - markers
    BY <1>2, <1>4, <1>6
  <2>4. markers \in Int
    OBVIOUS
  <2> QED
    BY <1>2, <1>6, <2>1, <2>2, <2>3, <2>4
<1> QED
  <2>1. /\ win.first = first /\ win.last = last /\ win.clamped = clamped
        /\ win.left = left /\ win.right = (last < n - 1)
    BY <1>1
  <2>2. first = 1 + clamped /\ base = term - Cell(w, 0)
    BY DEF first, base
  <2>3. \A c \in first..n : cells(c) = Cells(n, w, first, c) /\ cells(c) \in Int
    BY <1>8 DEF cells
  <2>4. \A c \in first..last : Cell(w, 0) + markers + Cells(n, w, first, c) < term
    BY <1>2, <1>4, <1>9, <1>10, <2>2, <2>3
  <2>5. last < n - 1 => Cell(w, 0) + markers + Cells(n, w, first, last + 1) >= term
    BY <1>2, <1>4, <1>9, <1>11, <2>2, <2>3
  <2>6. markers = (IF win.left THEN 1 ELSE 0) + (IF win.right THEN 1 ELSE 0)
    BY <2>1
  <2>0. (last < n - 1) \in BOOLEAN
    BY SMT
  <2> HIDE DEF last, markers
  <2>7. win.left \in BOOLEAN /\ win.right \in BOOLEAN
    BY <1>4, <2>0, <2>1, Zenon
  <2>8. win.right => Cell(w, 0) + markers + Cells(n, w, win.first, win.last + 1) >= term
    BY <2>1, <2>5, Zenon
  <2>9. \A c \in win.first..win.last : Cell(w, 0) + markers + Cells(n, w, win.first, c) < term
    BY <2>1, <2>4
  <2>10. /\ win.clamped \in 0..(n - 1) /\ win.first = 1 + win.clamped
         /\ win.last \in (win.first - 1)..(n - 1)
    BY <1>3, <1>9, <2>1, <2>2
  <2> QED
    BY <2>6, <2>7, <2>8, <2>9, <2>10 DEF Fits

\* Scrolling beyond the farthest offset shows the last column, if no column is
\* wider than it: the walk from the end counts the last column and not the
\* first one of the window, the walk from the front the other way round.
LEMMA WidestReached ==
  ASSUME NEW n \in Nat, n > 1, NEW w, Gapped(w), NEW term \in Int, NEW offset \in Int,
         NEW win, win = Window(n, w, term, offset),
         offset > win.clamped, win.first <= win.last,
         \A c \in 1..(n - 1) : Cell(w, c) <= Cell(w, n - 1)
  PROVE  win.last = n - 1 /\ ~win.right
<1> DEFINE base == term - Cell(w, 0)
           top == MaxOffset(n, w, base)
           clamped == Clamp(offset, top)
           first   == 1 + clamped
           probed  == FitFrom(n, w, first, base)
           left    == clamped > 0
           right   == first + probed - 1 < n - 1
           room    == base - Reserved(left, right)
           fit     == FitFrom(n, w, first, room)
           last    == first + fit - 1
<1>1. win = [first |-> first, last |-> last, clamped |-> clamped, left |-> left,
             right |-> last < n - 1]
  BY DEF Window
<1>2. /\ win.first = first /\ win.last = last /\ win.clamped = clamped
      /\ win.right = (last < n - 1)
  BY <1>1
<1>3. base \in Int /\ n \in Nat \ {0}
  BY DEF Gapped
<1> HIDE DEF base
<1>4. top \in 0..(n - 1)
  BY <1>3, OffsetBounds
<1> DEFINE tail(b) == FitAtEnd(n, w, b)
<1>5. \A b \in Int : /\ tail(b) \in 0..(n - 1)
                     /\ \A c \in 1..(n - 1) : Cells(n, w, c + 1, n) < b <=> c >= n - tail(b)
  BY <1>3, FitsAtEnd
<1>6. top = IF base <= 0 \/ tail(base) = n - 1 THEN 0
            ELSE IF base - 1 > 0 THEN (n - 1) - tail(base - 1) ELSE n - 1
  BY DEF MaxOffset, TailBudget, MarkerWidth
<1> HIDE DEF top, tail
<1>7. clamped = top /\ first = 1 + top
  BY <1>2, <1>4, Clamped
<1> HIDE DEF clamped
<1> USE <1>7
<1>8. first \in 1..n /\ left \in BOOLEAN /\ first \in Nat /\ first <= n /\ (left <=> top > 0)
  BY <1>4
<1> HIDE DEF first
<1>9. \A b \in Int : /\ FitFrom(n, w, first, b) \in 0..(n - first)
                     /\ \A c \in first..(n - 1) :
                          Cells(n, w, first, c) < b <=> c < first + FitFrom(n, w, first, b)
  BY <1>8, FitsFrom
<1>10. room = base - (IF left THEN 1 ELSE 0) - (IF right THEN 1 ELSE 0) /\ room \in Int
  BY <1>3, <1>8 DEF Reserved, MarkerWidth
<1> HIDE DEF room, left
<1>11. first \in 1..(n - 1) /\ Cells(n, w, first, first) < room
  <2>1. fit \in 0..(n - first)
    BY <1>9, <1>10
  <2>2. fit >= 1
    BY <1>2, <1>8, <2>1
  <2>3. first \in 1..(n - 1)
    BY <1>8, <2>1, <2>2
  <2>4. first \in first..(n - 1) /\ first < first + fit
    BY <2>1, <2>2, <2>3
  <2> QED
    BY <1>9, <1>10, <2>3, <2>4
<1>12. base > 0
  <2>1. Cells(n, w, first, first) = 0
    BY <1>8, CellsOf
  <2> QED
    BY <1>3, <1>8, <1>10, <1>11, <2>1
<1>13. /\ Cells(n, w, first, n - 1) <= Cells(n, w, first + 1, n)
       /\ Cells(n, w, first, n - 1) \in Int /\ Cells(n, w, first + 1, n) \in Int
  <2> DEFINE m == n - 1
  <2>0. m + 1 = n /\ m \in first..(n - 1) /\ first \in 0..n /\ first \in 0..(n - 1)
        /\ m \in first..n /\ first + 1 \in 0..n /\ n \in (first + 1)..n
        /\ first \in Nat /\ m \in Nat
    BY <1>11
  <2> HIDE DEF m
  <2>1. Cells(n, w, first, m + 1) = Cells(n, w, first, m) + Cell(w, m)
    BY <2>0, CellsOf
  <2>2. Cells(n, w, first, n) = Cell(w, first) + Cells(n, w, first + 1, n)
    BY <2>0, CellsOf
  <2>3. Cells(n, w, first, m) \in Int /\ Cells(n, w, first + 1, n) \in Int
    BY <2>0, CellsOf
  <2>4. Cell(w, first) <= Cell(w, m) /\ Cell(w, first) \in Nat /\ Cell(w, m) \in Nat
    BY <1>11, <2>0 DEF Gapped, m
  <2>5. Cells(n, w, first, m) <= Cells(n, w, first + 1, n)
    BY <2>0, <2>1, <2>2, <2>3, <2>4
  <2> QED
    BY <2>3, <2>5 DEF m
<1>14. Cells(n, w, first, n - 1) < base - (IF left THEN 1 ELSE 0)
  <2>1. CASE tail(base) = n - 1
    <3>1. top = 0 /\ ~left /\ first = 1
      BY <1>6, <1>8, <2>1 DEF first
    <3>2. 1 \in 1..(n - 1) /\ 1 >= n - tail(base)
      BY <2>1
    <3>3. Cells(n, w, first + 1, n) < base
      BY <1>3, <1>5, <3>1, <3>2
    <3> QED
      BY <1>3, <1>13, <3>1, <3>3
  <2>2. CASE tail(base) # n - 1 /\ base - 1 > 0
    <3>0. base - 1 \in Int
      BY <1>3
    <3>1. top = (n - 1) - tail(base - 1) /\ tail(base - 1) \in 0..(n - 1) /\ tail(base) \in 0..(n - 1)
      BY <1>3, <1>5, <1>6, <1>12, <2>2, <3>0
    <3>2. first = n - tail(base - 1)
      BY <3>1 DEF first
    <3>3. first >= n - tail(base - 1) /\ first \in 1..(n - 1)
      BY <1>11, <3>1, <3>2
    <3>4. Cells(n, w, first + 1, n) < base - 1
      BY <1>5, <3>0, <3>3
    <3>5. top # 0
      <4> SUFFICES ASSUME top = 0 PROVE FALSE
        OBVIOUS
      <4>1. first = 1
        BY <1>8 DEF first
      <4>2. Cells(n, w, 1 + 1, n) < base
        BY <1>3, <1>13, <3>4, <4>1
      <4>3. 1 >= n - tail(base)
        BY <1>3, <1>5, <4>2
      <4> QED
        BY <2>2, <3>1, <4>3
    <3>6. left
      BY <1>4, <1>8, <3>5
    <3> QED
      BY <1>3, <1>13, <3>4, <3>6
  <2>3. CASE tail(base) # n - 1 /\ ~(base - 1 > 0)
    <3>1. top = n - 1
      BY <1>3, <1>6, <1>12, <2>3
    <3>2. first = n
      BY <3>1 DEF first
    <3> QED
      BY <1>11, <3>2
  <2> QED
    BY <2>1, <2>2, <2>3
<1>15. n - 1 \in first..(n - 1)
  BY <1>11
<1>16. ~right
  <2>1. Cells(n, w, first, n - 1) < base
    BY <1>3, <1>8, <1>13, <1>14
  <2>2. n - 1 < first + probed /\ probed \in 0..(n - first)
    BY <1>3, <1>9, <1>15, <2>1
  <2> QED
    BY <1>8, <2>2
<1>17. fit = n - first
  <2>1. Cells(n, w, first, n - 1) < room
    BY <1>3, <1>8, <1>10, <1>14, <1>16
  <2>2. n - 1 < first + fit /\ fit \in 0..(n - first)
    BY <1>9, <1>10, <1>15, <2>1
  <2> QED
    BY <1>8, <2>2
<1>18. last = n - 1
  BY <1>8, <1>17
<1> HIDE DEF last
<1>19. ~(last < n - 1)
  BY <1>18
<1> QED
  BY <1>2, <1>18, <1>19, Zenon

\* Widths a view may have.
LEMMA GappedWidths == ASSUME NEW v \in Views, NEW w \in WidthMaps(v) PROVE Gapped(w)
<1>1. PICK D \in Known(v) : w \in [D -> Nat \ {0}]
  BY DEF WidthMaps
<1>2. \A c \in D : w[c] \in Nat
  BY <1>1
<1>3. DOMAIN w = D
  BY <1>1
<1> QED
  BY <1>2, <1>3 DEF Gapped, Cell

\* Only columns of the result are printed.
LEMMA WindowBounds ==
  ASSUME NEW n \in Nat \ {0}, NEW w, Gapped(w), NEW term \in Int, NEW offset \in Nat, NEW win,
         win = Window(n, w, term, offset)
  PROVE  win.clamped \in Nat /\ Printed(win) \subseteq 0..(n - 1)
<1>1. CASE n <= 1
  BY <1>1 DEF Window, NoWindow, Printed
<1>2. CASE n > 1
  <2>1. /\ win.clamped \in 0..(n - 1) /\ win.first = 1 + win.clamped
        /\ win.last \in (win.first - 1)..(n - 1)
    BY <1>2, WindowShape DEF Fits
  <2> QED
    BY <2>1 DEF Printed
<1> QED
  BY <1>1, <1>2

-----------------------------------------------------------------------------
(* Keys and batches                                                        *)

LEMMA InitTable == Init => TableInv
<1> SUFFICES ASSUME Init PROVE TableInv
  OBVIOUS
<1>1. \A v \in Views : NewSettings \in SettingsOf(v)
  <2> SUFFICES ASSUME NEW v \in Views PROVE NewSettings \in SettingsOf(v)
    OBVIOUS
  <2>1. {} \in Known(v)
    BY FS_EmptySet DEF Known
  <2>2. <<>> \in [{} -> Nat \ {0}]
    OBVIOUS
  <2>3. <<>> \in WidthMaps(v)
    BY <2>1, <2>2 DEF WidthMaps
  <2> QED
    BY <2>3, ColumnCount DEF NewSettings, SettingsOf
<1>2. TableTypes
  BY <1>1, ScreenAssumption DEF Init, TableTypes, AnySettings
<1>3. SettingsKept
  <2>1. NewSettings.order = 0 /\ NewSettings.desc = TRUE /\ NewSettings.all = FALSE
    BY DEF NewSettings
  <2>2. SysViews \subseteq Views
    BY ScreenAssumption
  <2> QED
    BY <2>1, <2>2 DEF Init, SettingsKept, Settings
<1>4. OwnBatchPrinted
  BY DEF Init, OwnBatchPrinted, NoFrame
<1> QED
  BY <1>2, <1>3, <1>4 DEF TableInv

\* Settings that differ in the widths only.
LEMMA SettingsFields ==
  ASSUME NEW v, NEW s \in SettingsOf(v)
  PROVE  /\ s.order \in ColumnsOf(v) /\ s.desc \in BOOLEAN /\ s.widths \in WidthMaps(v)
         /\ s.cols \in Nat /\ s.aligned \in BOOLEAN /\ s.all \in BOOLEAN
         /\ \A w \in WidthMaps(v), c \in Nat, a \in BOOLEAN :
              /\ [s EXCEPT !.widths = w] \in SettingsOf(v)
              /\ [s EXCEPT !.widths = w, !.cols = c, !.aligned = a] \in SettingsOf(v)
         /\ \A o \in ColumnsOf(v), d \in BOOLEAN :
              [s EXCEPT !.order = o, !.desc = d] \in SettingsOf(v)
         /\ \A a \in BOOLEAN : [s EXCEPT !.all = a] \in SettingsOf(v)
BY DEF SettingsOf

LEMMA ChooseTable ==
  ASSUME TableInv, NEW o \in ColumnsOf(name), NEW d \in BOOLEAN, Choose(o, d)
  PROVE  TableInv'
<1>1. /\ view' = [view EXCEPT !.order = o, !.desc = d]
      /\ chosen' = [chosen EXCEPT ![name] = <<o, d>>]
      /\ UNCHANGED <<name, views, all, scrollOffset, pending, shown>>
  BY DEF Choose, Key
<1>2. /\ name \in Views /\ view \in SettingsOf(name) /\ chosen \in [Views -> Nat \X BOOLEAN]
      /\ o \in Nat
  BY ColumnCount DEF TableInv, TableTypes, ColumnsOf
<1>3. view' \in SettingsOf(name)
  BY <1>1, <1>2, SettingsFields
<1>4. view'.order = o /\ view'.desc = d /\ view'.all = view.all
  BY <1>1, <1>2 DEF SettingsOf
<1>5. TableTypes'
  BY <1>1, <1>2, <1>3 DEF TableInv, TableTypes
<1>6. SettingsKept'
  <2>1. \A v \in Views : <<Settings(v).order, Settings(v).desc>> = chosen[v]
    BY DEF TableInv, SettingsKept
  <2>2. \A v \in Views \ {name} : chosen'[v] = chosen[v] /\ Settings(v)' = Settings(v)
    BY <1>1, <1>2 DEF Settings
  <2>3. chosen'[name] = <<o, d>> /\ \A v \in Views : v = name => Settings(v)' = view'
    BY <1>1, <1>2 DEF Settings
  <2>4. ASSUME NEW v \in Views PROVE <<Settings(v)'.order, Settings(v)'.desc>> = chosen'[v]
    <3>1. CASE v = name
      BY <1>4, <2>3, <3>1
    <3>2. CASE v # name
      <4>1. v \in Views \ {name}
        BY <3>2
      <4>2. chosen'[v] = chosen[v] /\ Settings(v)' = Settings(v)
        BY <2>2, <4>1
      <4> QED
        BY <2>1, <4>2
    <3> QED
      BY <3>1, <3>2
  <2>5. \A v \in SysViews : Settings(v)'.all = all'
    BY <1>1, <1>4 DEF TableInv, SettingsKept, Settings
  <2> QED
    BY <2>4, <2>5 DEF SettingsKept
<1>7. OwnBatchPrinted'
  BY <1>1 DEF TableInv, OwnBatchPrinted
<1> QED
  BY <1>5, <1>6, <1>7 DEF TableInv

\* Steps that leave order and direction of every view, and the widths of the
\* right columns.
LEMMA WidthsTable ==
  ASSUME TableInv, NEW w \in WidthMaps(name),
         view' = [view EXCEPT !.widths = w],
         \/ views' = [views EXCEPT ![name].widths = w]
         \/ views' = views,
         UNCHANGED <<name, all, scrollOffset, pending, shown, chosen>>
  PROVE  TableInv'
<1>1. /\ name \in Views /\ view \in SettingsOf(name)
      /\ views \in [Views -> AnySettings] /\ \A v \in Views : views[v] \in SettingsOf(v)
  BY DEF TableInv, TableTypes
<1>2. view' \in SettingsOf(name) /\ view'.order = view.order /\ view'.desc = view.desc
      /\ view'.all = view.all
  BY <1>1, SettingsFields DEF SettingsOf
<1>3. /\ \A v \in Views : views'[v] \in SettingsOf(v)
      /\ views' \in [Views -> AnySettings]
      /\ \A v \in Views \ {name} : views'[v] = views[v]
  <2>1. CASE views' = views
    BY <1>1, <2>1
  <2>2. CASE views' = [views EXCEPT ![name].widths = w]
    <3>1. [views[name] EXCEPT !.widths = w] \in SettingsOf(name)
      BY <1>1, SettingsFields
    <3>2. views'[name] = [views[name] EXCEPT !.widths = w]
      BY <1>1, <2>2
    <3>3. \A v \in Views \ {name} : views'[v] = views[v]
      BY <1>1, <2>2
    <3>4. DOMAIN views' = Views /\ views' = [v \in Views |-> views'[v]]
      BY <1>1, <2>2
    <3>5. \A v \in Views : views'[v] \in SettingsOf(v)
      BY <1>1, <3>1, <3>2, <3>3
    <3>6. \A v \in Views : views'[v] \in AnySettings
      BY <3>5 DEF AnySettings
    <3> QED
      BY <3>3, <3>4, <3>5, <3>6
  <2> QED
    BY <2>1, <2>2
<1>4. TableTypes'
  BY <1>1, <1>2, <1>3 DEF TableInv, TableTypes
<1>5. SettingsKept'
  <2>1. \A v \in Views : /\ Settings(v)'.order = Settings(v).order
                         /\ Settings(v)'.desc = Settings(v).desc
                         /\ Settings(v)'.all = Settings(v).all
    BY <1>2, <1>3 DEF Settings
  <2>2. SysViews \subseteq Views
    BY ScreenAssumption
  <2> QED
    BY <2>1, <2>2 DEF TableInv, SettingsKept
<1>6. OwnBatchPrinted'
  BY DEF TableInv, OwnBatchPrinted
<1> QED
  BY <1>4, <1>5, <1>6 DEF TableInv

LEMMA SetWidthTable ==
  ASSUME TableInv, NEW x \in Nat \ {0}, SetWidth(view.order, x),
         UNCHANGED <<scrollOffset, pending, shown, chosen>>
  PROVE  TableInv'
<1> DEFINE c == view.order
           w == [i \in DOMAIN view.widths \cup {c} |-> IF i = c THEN x ELSE view.widths[i]]
<1>1. name \in Views /\ c \in ColumnsOf(name) /\ view.widths \in WidthMaps(name)
  BY SettingsFields DEF TableInv, TableTypes
<1>2. w \in WidthMaps(name)
  BY <1>1, WidthSet
<1>3. /\ view' = [view EXCEPT !.widths = w]
      /\ views' = IF shared THEN [views EXCEPT ![name].widths = w] ELSE views
      /\ UNCHANGED <<name, all>>
  BY DEF SetWidth
<1> HIDE DEF w
<1> QED
  BY <1>2, <1>3, WidthsTable

LEMMA WidthTypes ==
  ASSUME TableInv
  PROVE  \A c \in ColumnsOf(name) : WidthOf(c) \in Nat
<1>1. view.widths \in WidthMaps(name)
  BY SettingsFields DEF TableInv, TableTypes
<1>2. PICK D \in Known(name) : view.widths \in [D -> Nat \ {0}]
  BY <1>1 DEF WidthMaps
<1> QED
  BY <1>2 DEF WidthOf

\* The view is saved and another one, or the same, is loaded.
LEMMA GoToTable ==
  ASSUME TableInv, NEW v \in Views, GoTo(v)
  PROVE  TableInv'
<1>1. /\ views' = [views EXCEPT ![name] = view] /\ name' = v /\ view' = views'[v]
      /\ scrollOffset' = 0
      /\ UNCHANGED <<all, pending, shown, chosen>>
  BY DEF GoTo, Key, Saved
<1>2. /\ name \in Views /\ view \in SettingsOf(name)
      /\ views \in [Views -> AnySettings] /\ \A u \in Views : views[u] \in SettingsOf(u)
  BY DEF TableInv, TableTypes
<1>3. \A u \in Views : views'[u] = Settings(u)
  BY <1>1, <1>2 DEF Settings
<1>4. \A u \in Views : Settings(u)' = Settings(u)
  BY <1>1, <1>3 DEF Settings
<1>5. \A u \in Views : views'[u] \in SettingsOf(u)
  BY <1>2, <1>3 DEF Settings
<1>6. views' \in [Views -> AnySettings]
  <2>1. view \in AnySettings
    BY <1>2 DEF AnySettings
  <2> QED
    BY <1>1, <1>2, <2>1
<1>7. TableTypes'
  BY <1>1, <1>5, <1>6 DEF TableInv, TableTypes
<1>8. SettingsKept'
  <2>1. SysViews \subseteq Views
    BY ScreenAssumption
  <2> QED
    BY <1>1, <1>4, <2>1 DEF TableInv, SettingsKept
<1>9. OwnBatchPrinted'
  BY <1>1 DEF TableInv, OwnBatchPrinted
<1> QED
  BY <1>7, <1>8, <1>9 DEF TableInv

LEMMA ToggleTable ==
  ASSUME TableInv, ToggleSysTables
  PROVE  TableInv'
<1>1. /\ name \in SysViews /\ all' = ~all
      /\ views' = [v \in Views |-> IF v \in SysViews THEN [views[v] EXCEPT !.all = ~all] ELSE views[v]]
      /\ view' = views'[name]
      /\ chosen' = [chosen EXCEPT ![name] = <<view'.order, view'.desc>>]
      /\ UNCHANGED <<name, scrollOffset, pending, shown>>
  BY DEF ToggleSysTables, Reformatted, Key
<1>2. /\ name \in Views /\ view \in SettingsOf(name) /\ SysViews \subseteq Views
      /\ all \in BOOLEAN /\ chosen \in [Views -> Nat \X BOOLEAN]
      /\ views \in [Views -> AnySettings] /\ \A u \in Views : views[u] \in SettingsOf(u)
  BY ScreenAssumption DEF TableInv, TableTypes
<1>3. \A u \in Views : /\ views'[u] \in SettingsOf(u)
                       /\ views'[u].order = views[u].order /\ views'[u].desc = views[u].desc
                       /\ u \in SysViews => views'[u].all = ~all
  <2> SUFFICES ASSUME NEW u \in Views
               PROVE  /\ views'[u] \in SettingsOf(u)
                      /\ views'[u].order = views[u].order /\ views'[u].desc = views[u].desc
                      /\ u \in SysViews => views'[u].all = ~all
    OBVIOUS
  <2> DEFINE s == views[u]  t == views'[u]
  <2>1. s \in SettingsOf(u) /\ t = IF u \in SysViews THEN [s EXCEPT !.all = ~all] ELSE s
    BY <1>1, <1>2
  <2> HIDE DEF s, t
  <2>2. t \in SettingsOf(u)
    BY <1>2, <2>1, SettingsFields
  <2>3. t.order = s.order /\ t.desc = s.desc /\ (u \in SysViews => t.all = ~all)
    BY <2>1 DEF SettingsOf
  <2> QED
    BY <2>2, <2>3 DEF s, t
<1>4. views' \in [Views -> AnySettings]
  <2>1. \A u \in Views : views'[u] \in AnySettings
    BY <1>3 DEF AnySettings
  <2> QED
    BY <1>1, <2>1
<1>5. view'.order \in Nat /\ view'.desc \in BOOLEAN /\ view' \in SettingsOf(name)
  <2>1. view' \in SettingsOf(name)
    BY <1>1, <1>2, <1>3
  <2>2. view'.order \in ColumnsOf(name) /\ view'.desc \in BOOLEAN
    BY <2>1, SettingsFields
  <2> QED
    BY <1>2, <2>1, <2>2, ColumnCount DEF ColumnsOf
<1>6. chosen' \in [Views -> Nat \X BOOLEAN]
  <2> DEFINE pair == <<view'.order, view'.desc>>
  <2>1. pair \in Nat \X BOOLEAN
    BY <1>5
  <2>2. chosen' = [chosen EXCEPT ![name] = pair]
    BY <1>1
  <2> HIDE DEF pair
  <2> QED
    BY <1>2, <2>1, <2>2
<1>7. TableTypes'
  BY <1>1, <1>2, <1>3, <1>4, <1>5, <1>6 DEF TableInv, TableTypes
<1>8. SettingsKept'
  <2>1. \A u \in Views : Settings(u)' = views'[u]
    BY <1>1 DEF Settings
  <2>2. \A u \in Views : u # name => <<views[u].order, views[u].desc>> = chosen[u]
    BY DEF TableInv, SettingsKept, Settings
  <2>3. ASSUME NEW u \in Views PROVE <<views'[u].order, views'[u].desc>> = chosen'[u]
    <3>1. CASE u = name
      BY <1>1, <1>2, <3>1
    <3>2. CASE u # name
      <4>1. views'[u].order = views[u].order /\ views'[u].desc = views[u].desc
        BY <1>3
      <4>2. chosen'[u] = chosen[u]
        BY <1>1, <1>2, <3>2
      <4> QED
        BY <2>2, <3>2, <4>1, <4>2
    <3> QED
      BY <3>1, <3>2
  <2>4. \A u \in SysViews : views'[u].all = all'
    BY <1>1, <1>2, <1>3
  <2> QED
    BY <1>2, <2>1, <2>3, <2>4 DEF SettingsKept
<1>9. OwnBatchPrinted'
  BY <1>1 DEF TableInv, OwnBatchPrinted
<1> QED
  BY <1>7, <1>8, <1>9 DEF TableInv

LEMMA ShowTable ==
  ASSUME TableInv, Show
  PROVE  TableInv'
<1> DEFINE Win(b) == Window(Ncols[b.of], view'.widths, TermWidth, scrollOffset)
           Ok(b)  == \A c \in Printed(Win(b)) : c \in DOMAIN view'.widths /\ view'.widths[c] > 0
<1> SUFFICES ASSUME NEW b \in pending, pending' = pending \ {b}, Align(b),
                    scrollOffset' = Win(b).clamped,
                    shown' = [of |-> b.of, in |-> name, ok |-> Ok(b), asked |-> scrollOffset,
                              widths |-> view'.widths, win |-> Win(b)],
                    UNCHANGED <<name, views, all, chosen>>
             PROVE  TableInv'
  BY DEF Show
<1>1. /\ name \in Views /\ view \in SettingsOf(name) /\ scrollOffset \in Nat
      /\ b.of \in Views /\ b.shape \in Shapes[b.of]
      /\ Ncols[b.of] \in Nat \ {0} /\ Ncols[b.of] \in Nat
  BY ColumnCount DEF TableInv, TableTypes
<1>2. b.shape \in WidthMaps(name)
  BY <1>1, ShapeFits
<1>3. view' \in SettingsOf(name) /\ view'.order = view.order /\ view'.desc = view.desc
      /\ view'.all = view.all
  <2>1. CASE Consistent(b)
    BY <1>1, <2>1 DEF Align
  <2>2. CASE ~Consistent(b)
    <3>1. view' = [view EXCEPT !.widths = b.shape, !.cols = Ncols[b.of], !.aligned = TRUE]
      BY <2>2 DEF Align
    <3>2. view' \in SettingsOf(name)
      BY <1>1, <1>2, <3>1, SettingsFields
    <3> QED
      BY <1>1, <3>1, <3>2 DEF SettingsOf
  <2> QED
    BY <2>1, <2>2
<1>4. Win(b).clamped \in Nat /\ Printed(Win(b)) \subseteq ColumnsOf(b.of)
  <2>0. Gapped(view'.widths) /\ TermWidth \in Int
    <3>1. view'.widths \in WidthMaps(name)
      BY <1>3, SettingsFields
    <3> QED
      BY <1>1, <3>1, GappedWidths, ScreenAssumption
  <2>1. PICK win : win = Win(b)
    OBVIOUS
  <2>2. win.clamped \in Nat /\ Printed(win) \subseteq 0..(Ncols[b.of] - 1)
    BY <1>1, <2>0, <2>1, WindowBounds
  <2> QED
    BY <2>1, <2>2 DEF ColumnsOf
<1>5. TableTypes'
  <2>1. scrollOffset' \in Nat
    BY <1>4
  <2>2. \A p \in pending' : p.of \in Views /\ p.shape \in Shapes[p.of]
    BY DEF TableInv, TableTypes
  <2> QED
    BY <1>3, <2>1, <2>2 DEF TableInv, TableTypes
<1>6. SettingsKept'
  <2>1. \A v \in Views : /\ Settings(v)'.order = Settings(v).order
                         /\ Settings(v)'.desc = Settings(v).desc
                         /\ Settings(v)'.all = Settings(v).all
    BY <1>3 DEF Settings
  <2>2. SysViews \subseteq Views
    BY ScreenAssumption
  <2> QED
    BY <2>1, <2>2 DEF TableInv, SettingsKept
<1>7. OwnBatchPrinted'
  <2>0. shown'.of = b.of /\ shown'.in = name /\ shown'.ok = Ok(b)
    BY Zenon
  <2> SUFFICES ASSUME b.of = name PROVE Ok(b)
    BY <2>0 DEF OwnBatchPrinted
  <2>1. DOMAIN view'.widths = ColumnsOf(name) /\ view'.widths \in WidthMaps(name)
    <3>1. CASE Consistent(b)
      <4>1. view' = view /\ Cardinality(DOMAIN view.widths) = Ncols[name]
        BY <3>1 DEF Align, Consistent
      <4>2. view.widths \in WidthMaps(name)
        BY <1>1, SettingsFields
      <4> QED
        BY <1>1, <4>1, <4>2, FullMap
    <3>2. CASE ~Consistent(b)
      <4>1. view' = [view EXCEPT !.widths = b.shape, !.cols = Ncols[b.of], !.aligned = TRUE]
        BY <3>2 DEF Align
      <4>2. view'.widths = b.shape
        BY <1>1, <4>1 DEF SettingsOf
      <4>3. DOMAIN b.shape = ColumnsOf(name)
        BY <1>1, ScreenAssumption DEF ColumnsOf
      <4> QED
        BY <1>2, <4>2, <4>3
    <3> QED
      BY <3>1, <3>2
  <2>2. \A c \in ColumnsOf(name) : view'.widths[c] > 0
    <3>1. PICK D \in Known(name) : view'.widths \in [D -> Nat \ {0}]
      BY <2>1 DEF WidthMaps
    <3> QED
      BY <2>1, <3>1
  <2> QED
    BY <1>4, <2>1, <2>2
<1> QED
  BY <1>5, <1>6, <1>7 DEF TableInv

LEMMA StepTable == TableInv /\ [Next]_vars => TableInv'
<1> SUFFICES ASSUME TableInv, [Next]_vars PROVE TableInv'
  OBVIOUS
<1>0. /\ name \in Views /\ view.order \in ColumnsOf(name) /\ view.desc \in BOOLEAN
      /\ Ncols[name] \in Nat \ {0} /\ scrollOffset \in Nat
      /\ WidthOf(view.order) \in Nat
  BY SettingsFields, ColumnCount, WidthTypes DEF TableInv, TableTypes
\* Steps that change neither settings nor the last frame.
<1>1. ASSUME UNCHANGED <<name, view, views, all, shown, chosen>>, scrollOffset' \in Nat,
             \A b \in pending' : b.of \in Views /\ b.shape \in Shapes[b.of]
      PROVE  TableInv'
  <2>1. TableTypes' /\ OwnBatchPrinted'
    BY <1>1 DEF TableInv, TableTypes, OwnBatchPrinted
  <2>2. SettingsKept'
    BY <1>1 DEF TableInv, SettingsKept, Settings
  <2> QED
    BY <2>1, <2>2 DEF TableInv
<1>2. \A b \in pending : b.of \in Views /\ b.shape \in Shapes[b.of]
  BY DEF TableInv, TableTypes
<1>3. CASE OrderKeyLeft \/ OrderKeyRight \/ SwitchSortOrder
  <2>1. PICK o, d : o \in ColumnsOf(name) /\ d \in BOOLEAN /\ Choose(o, d)
    <3>1. CASE OrderKeyLeft
      <4>1. (IF view.order = 0 THEN Ncols[name] - 1 ELSE view.order - 1) \in ColumnsOf(name)
        BY <1>0 DEF ColumnsOf
      <4> QED
        BY <1>0, <3>1, <4>1 DEF OrderKeyLeft
    <3>2. CASE OrderKeyRight
      <4>1. NextColumn \in ColumnsOf(name)
        BY <1>0 DEF ColumnsOf, NextColumn
      <4> QED
        BY <1>0, <3>2, <4>1 DEF OrderKeyRight
    <3>3. CASE SwitchSortOrder
      <4>1. (~view.desc) \in BOOLEAN
        OBVIOUS
      <4>2. Choose(view.order, ~view.desc)
        BY <3>3 DEF SwitchSortOrder
      <4> QED
        BY <1>0, <4>1, <4>2
    <3> QED
      BY <1>3, <3>1, <3>2, <3>3
  <2> QED
    BY <2>1, ChooseTable
<1>4. CASE IncreaseWidth
  <2> DEFINE x == Min({WidthOf(view.order) + Step, MaxWidth})
  <2>1. x \in Nat \ {0}
    <3>1. PICK w : w = WidthOf(view.order) + Step /\ w \in Nat \ {0}
      BY <1>0, ScreenAssumption
    <3>2. w \in Int /\ MaxWidth \in Int
      BY <3>1, ScreenAssumption
    <3>3. Min({w, MaxWidth}) \in {w, MaxWidth}
      BY <3>2, MinOfTwo, Zenon
    <3> QED
      BY <3>1, <3>3, ScreenAssumption
  <2>2. SetWidth(view.order, x) /\ UNCHANGED <<scrollOffset, pending, shown, chosen>>
    BY <1>4 DEF IncreaseWidth, Key
  <2> HIDE DEF x
  <2> QED
    BY <2>1, <2>2, SetWidthTable
<1>5. CASE DecreaseWidth
  <2> DEFINE x == Max({WidthOf(view.order) - Step, NameLen})
  <2>1. x \in Nat \ {0}
    <3>1. PICK w : w = WidthOf(view.order) - Step /\ w \in Int
      BY <1>0, ScreenAssumption
    <3>2. NameLen \in Int
      BY ScreenAssumption
    <3>3. Max({w, NameLen}) \in {w, NameLen} /\ Max({w, NameLen}) >= NameLen
      BY <3>1, <3>2, MaxOfTwo, Zenon
    <3> QED
      BY <3>1, <3>3, ScreenAssumption
  <2>2. UNCHANGED <<scrollOffset, pending, shown, chosen>>
        /\ (SetWidth(view.order, x) \/ UNCHANGED table)
    BY <1>5 DEF DecreaseWidth, Key
  <2> HIDE DEF x
  <2>3. CASE SetWidth(view.order, x)
    BY <2>1, <2>2, <2>3, SetWidthTable
  <2>4. CASE UNCHANGED table
    BY <1>0, <1>1, <1>2, <2>2, <2>4 DEF table
  <2> QED
    BY <2>2, <2>3, <2>4
<1>6. CASE ScrollLeft \/ ScrollRight \/ ProcPidStatRefused
  <2>1. Max({scrollOffset - 1, 0}) \in Nat
    <3>1. scrollOffset - 1 \in Int
      BY <1>0
    <3> QED
      BY <3>1, MaxOfTwo
  <2>2. scrollOffset' \in Nat /\ UNCHANGED <<table, pending, shown, chosen>>
    BY <1>0, <1>6, <2>1 DEF ScrollLeft, ScrollRight, ProcPidStatRefused, Key
  <2> QED
    BY <1>1, <1>2, <2>2 DEF table
<1>7. ASSUME NEW v \in Views, GoTo(v) PROVE TableInv'
  BY <1>7, GoToTable
<1>8. CASE SwitchViewTo \/ SwitchViewToProcPidStat
  BY <1>7, <1>8, ScreenAssumption DEF SwitchViewTo, SwitchViewToProcPidStat
<1>9. CASE SwitchToNext
  <2>1. PICK g \in Groups : GoTo(NextOf(g))
    BY <1>9 DEF SwitchToNext
  <2>2. NextOf(g) \in Views
    <3>1. g \in Seq(Views) /\ g # <<>>
      BY ScreenAssumption
    <3>2. Len(g) \in Nat /\ \A i \in 1..Len(g) : g[i] \in Views
      BY <3>1
    <3>3. 1 \in 1..Len(g)
      BY <3>1, <3>2
    <3>4. CASE \E i \in 1..(Len(g) - 1) : g[i] = name
      <4>1. PICK i : i = CHOOSE j \in 1..(Len(g) - 1) : g[j] = name
        OBVIOUS
      <4>2. i \in 1..(Len(g) - 1)
        BY <3>4, <4>1
      <4>3. i + 1 \in 1..Len(g)
        BY <3>2, <4>2
      <4> QED
        BY <3>2, <3>4, <4>1, <4>3 DEF NextOf
    <3>5. CASE ~\E i \in 1..(Len(g) - 1) : g[i] = name
      BY <3>2, <3>3, <3>5 DEF NextOf
    <3> QED
      BY <3>4, <3>5
  <2> QED
    BY <1>7, <2>1, <2>2
<1>10. CASE ToggleSysTables
  BY <1>10, ToggleTable
<1>11. CASE Batch
  <2>1. UNCHANGED <<table, scrollOffset, shown, chosen>>
    BY <1>11 DEF Batch
  <2>2. \A b \in pending' : b.of \in Views /\ b.shape \in Shapes[b.of]
    BY <1>0, <1>2, <1>11 DEF Batch
  <2> QED
    BY <1>0, <1>1, <2>1, <2>2 DEF table
<1>12. CASE Show
  BY <1>12, ShowTable
<1>13. CASE Restart
  BY <1>0, <1>1, <1>13 DEF Restart, table
<1>14. CASE UNCHANGED vars
  BY <1>0, <1>1, <1>2, <1>14 DEF vars, table
<1> QED
  BY <1>3, <1>4, <1>5, <1>6, <1>8, <1>9, <1>10, <1>11, <1>12, <1>13, <1>14 DEF Next

\* The invariant of the table, for any keys and late batches.
LEMMA TableKept == Spec => []TableInv
BY InitTable, StepTable, PTL DEF Spec

\* Dialogs and menus do to the table nothing its keys do not do.
THEOREM DialogsKeepTable == DialogSpec => Spec
<1>1. DialogInit => Init
  BY DEF DialogInit
<1>2. IInv /\ [DialogNext]_<<vars, dialogVars>> => [Next]_vars
  <2> SUFFICES ASSUME IInv, [DialogNext]_<<vars, dialogVars>> PROVE [Next]_vars
    OBVIOUS
  <2>1. CASE TableSession \/ ViewKeys
    BY <2>1 DEF TableSession, ViewKeys, Next
  <2>2. CASE SelectView
    <3>1. PICK m \in DOMAIN Menus :
            /\ Selected(m)
            /\ GoTo(IF cursor < ItemsOf(m) THEN Menus[m][cursor + 1] ELSE Menus[m][1])
      BY <2>2 DEF SelectView
    <3>2. /\ Menus[m] \in Seq(Views \ {ProcPid}) /\ Menus[m] # <<>>
          /\ ItemsOf(m) = Len(Menus[m])
          /\ cursor \in 0..(ItemsOf(m) - 1)
      BY <3>1, DialogsAssumption DEF IInv, FocusInv, Selected, Press, ItemsOf
    <3>3. Len(Menus[m]) \in Nat /\ \A i \in 1..Len(Menus[m]) : Menus[m][i] \in Views \ {ProcPid}
      BY <3>2
    <3>4. cursor < ItemsOf(m) /\ cursor + 1 \in 1..Len(Menus[m])
      BY <3>2, <3>3
    <3>5. Menus[m][cursor + 1] \in Views \ {ProcPid} /\ GoTo(Menus[m][cursor + 1])
      BY <3>1, <3>3, <3>4
    <3> QED
      BY <3>5 DEF SwitchViewTo, Next
  <2>3. CASE \/ \E d \in DialogTypes : DialogOpen(d)
             \/ DialogCancel \/ ToggleIdleConns \/ ResetStat
             \/ \E m \in MenuTypes : MenuOpen(m)
             \/ MoveCursor \/ MenuClose \/ ShowHelp \/ CloseHelp
    BY <2>3 DEF DialogOpen, DialogCancel, ToggleIdleConns, ResetStat, MenuOpen, MoveCursor,
                MenuClose, ShowHelp, CloseHelp, Quiet
  <2>4. CASE \/ FinishReload \/ FinishOther \/ FinishSingle \/ FinishMask \/ FinishGroup
             \/ FinishAge \/ SelectFile \/ Rebuilt
    BY <2>4 DEF FinishReload, FinishOther, FinishSingle, FinishMask, FinishGroup, FinishAge,
                SelectFile, Rebuilt
  <2>5. CASE UNCHANGED <<vars, dialogVars>>
    BY <2>5
  <2> QED
    BY <2>1, <2>2, <2>3, <2>4, <2>5 DEF DialogNext
<1> QED
  BY <1>1, <1>2, DialogInvariant, PTL DEF Spec, DialogSpec

\* Every view is found again with the order it was left with, and the views of
\* relations show system tables together or not at all.
THEOREM SettingsFoundAgain == DialogSpec => []SettingsKept
<1>1. TableInv => SettingsKept
  BY DEF TableInv
<1> QED
  BY <1>1, TableKept, DialogsKeepTable, PTL

\* A batch of the view on the screen can be printed, whatever batches of other
\* views were aligned in it and whatever widths the user has set.
THEOREM OwnBatchFits == DialogSpec => []OwnBatchPrinted
<1>1. TableInv => OwnBatchPrinted
  BY DEF TableInv
<1> QED
  BY <1>1, TableKept, DialogsKeepTable, PTL

-----------------------------------------------------------------------------
(* The frame on the screen                                                 *)

\* The window of the frame is the one of the widths it was printed with.
FrameInv ==
  shown.win # NoWindow =>
    /\ shown.of \in Views /\ shown.asked \in Nat /\ Gapped(shown.widths)
    /\ shown.win = Window(Ncols[shown.of], shown.widths, TermWidth, shown.asked)

LEMMA FrameShown ==
  ASSUME TableInv, TableInv', Show
  PROVE  FrameInv'
<1> DEFINE Win(b) == Window(Ncols[b.of], view'.widths, TermWidth, scrollOffset)
<1>1. PICK b \in pending :
        /\ name' = name
        /\ shown'.of = b.of /\ shown'.asked = scrollOffset /\ shown'.widths = view'.widths
        /\ shown'.win = Win(b)
  BY DEF Show
<1>2. b.of \in Views /\ scrollOffset \in Nat
  BY DEF TableInv, TableTypes
<1>3. view'.widths \in WidthMaps(name') /\ name' \in Views
  <2>1. name' \in Views /\ view' \in SettingsOf(name')
    BY DEF TableInv, TableTypes
  <2> QED
    BY <2>1, SettingsFields
<1>4. Gapped(view'.widths)
  BY <1>3, GappedWidths
<1>5. \A w : Gapped(w)' <=> Gapped(w)
  BY DEF Gapped, Cell
<1> QED
  BY <1>1, <1>2, <1>4, <1>5 DEF FrameInv

\* The frame is kept by all steps that do not print.
LEMMA FrameKept == Spec => [](TableInv /\ FrameInv)
<1>1. Init => FrameInv
  BY DEF Init, FrameInv, NoFrame
<1>2. TableInv /\ FrameInv /\ [Next]_vars /\ TableInv' => FrameInv'
  <2> SUFFICES ASSUME TableInv, FrameInv, [Next]_vars, TableInv' PROVE FrameInv'
    OBVIOUS
  <2>1. CASE Show
    BY <2>1, FrameShown
  <2>2. CASE UNCHANGED shown
    BY <2>2 DEF FrameInv
  <2>3. CASE \/ OrderKeyLeft \/ OrderKeyRight \/ SwitchSortOrder
             \/ IncreaseWidth \/ DecreaseWidth
             \/ ScrollLeft \/ ScrollRight
    BY <2>2, <2>3 DEF OrderKeyLeft, OrderKeyRight, SwitchSortOrder, Choose, IncreaseWidth,
                      DecreaseWidth, ScrollLeft, ScrollRight, Key
  <2>4. CASE \/ SwitchViewTo \/ SwitchToNext \/ SwitchViewToProcPidStat \/ ProcPidStatRefused
             \/ ToggleSysTables \/ Batch \/ Restart \/ UNCHANGED vars
    BY <2>2, <2>4 DEF SwitchViewTo, SwitchToNext, SwitchViewToProcPidStat, GoTo,
                      ProcPidStatRefused, ToggleSysTables, Key, Batch, Restart, vars
  <2> QED
    BY <2>1, <2>3, <2>4 DEF Next
<1> QED
  BY <1>1, <1>2, TableKept, PTL DEF Spec

LEMMA MarkersCounted ==
  ASSUME NEW win, win.left \in BOOLEAN, win.right \in BOOLEAN
  PROVE  Cardinality({m \in {"left", "right"} : win[m]}) =
           (IF win.left THEN 1 ELSE 0) + (IF win.right THEN 1 ELSE 0)
<1> DEFINE S == {m \in {"left", "right"} : win[m]}
<1>1. Cardinality({}) = 0 /\ IsFiniteSet({})
  BY FS_EmptySet
<1>2. Cardinality({"left"}) = 1 /\ IsFiniteSet({"left"}) /\ Cardinality({"right"}) = 1
  BY FS_Singleton
<1>3. Cardinality({"left"} \cup {"right"}) = 2
  BY <1>2, FS_AddElement
<1>4. CASE win.left /\ win.right
  <2>1. S = {"left"} \cup {"right"}
    BY <1>4
  <2> QED
    BY <1>3, <1>4, <2>1
<1>5. CASE win.left /\ ~win.right
  <2>1. S = {"left"}
    BY <1>5
  <2> QED
    BY <1>2, <1>5, <2>1
<1>6. CASE ~win.left /\ win.right
  <2>1. S = {"right"}
    BY <1>6
  <2> QED
    BY <1>2, <1>6, <2>1
<1>7. CASE ~win.left /\ ~win.right
  <2>1. S = {}
    BY <1>7
  <2> QED
    BY <1>1, <1>7, <2>1
<1> QED
  BY <1>4, <1>5, <1>6, <1>7

\* What is printed begins on the screen, beside the markers, and a column hidden
\* on the right and its marker would begin behind it: for any widths, any
\* terminal and any offset.
THEOREM WindowFitsScreen == DialogSpec => []WindowFits
<1>1. FrameInv => WindowFits
  <2> SUFFICES ASSUME FrameInv, Ncols[shown.of] > 1, shown.win # NoWindow
               PROVE  LET n == Ncols[shown.of]
                          win == shown.win
                          markers == Cardinality({m \in {"left", "right"} : win[m]})
                          start(c) == Cell(shown.widths, 0) + markers
                                        + Cells(n, shown.widths, win.first, c)
                      IN /\ win.first \in 1..n /\ win.last < n
                         /\ \A c \in win.first..win.last : start(c) < TermWidth
                         /\ win.right => start(win.last + 1) >= TermWidth
    BY DEF WindowFits
  <2> DEFINE n == Ncols[shown.of]
             w == shown.widths
             win == shown.win
             m == (IF win.left THEN 1 ELSE 0) + (IF win.right THEN 1 ELSE 0)
  <2>1. /\ n \in Nat /\ n > 1 /\ Gapped(w) /\ shown.asked \in Int /\ TermWidth \in Int
        /\ win = Window(n, w, TermWidth, shown.asked)
    BY ColumnCount, ScreenAssumption DEF FrameInv
  <2> HIDE DEF n, w, win
  <2>2. /\ win.clamped \in 0..(n - 1) /\ win.first = 1 + win.clamped
        /\ win.last \in (win.first - 1)..(n - 1)
        /\ win.left \in BOOLEAN /\ win.right \in BOOLEAN
        /\ \A c \in win.first..win.last : Cell(w, 0) + m + Cells(n, w, win.first, c) < TermWidth
        /\ win.right => Cell(w, 0) + m + Cells(n, w, win.first, win.last + 1) >= TermWidth
    <3>1. Fits(n, w, TermWidth, win)
      BY <2>1, WindowShape
    <3> QED
      BY <3>1 DEF Fits
  <2>3. Cardinality({x \in {"left", "right"} : win[x]}) = m
    BY <2>2, MarkersCounted
  <2> HIDE DEF m
  <2>4. win.first \in 1..n /\ win.last < n
    BY <2>1, <2>2
  <2> QED
    BY <2>2, <2>3, <2>4 DEF n, w, win
<1> QED
  BY <1>1, FrameKept, DialogsKeepTable, PTL

\* Scrolling as far as it goes shows the last column where that is the widest:
\* the walks from the end and from the front agree on widths and markers.
THEOREM WidestIsReached == DialogSpec => []WideLastReached
<1>1. FrameInv => WideLastReached
  <2> SUFFICES ASSUME FrameInv, AtTheEnd,
                      \A c \in 1..(Ncols[shown.of] - 1) :
                        Cell(shown.widths, c) <= Cell(shown.widths, Ncols[shown.of] - 1)
               PROVE  shown.win.last = Ncols[shown.of] - 1 /\ ~shown.win.right
    BY DEF WideLastReached
  <2> DEFINE n == Ncols[shown.of]
             w == shown.widths
             win == shown.win
  <2>1. win # NoWindow
    BY DEF AtTheEnd, NoWindow
  <2>2. /\ n \in Nat /\ Gapped(w) /\ shown.asked \in Int /\ TermWidth \in Int
        /\ win = Window(n, w, TermWidth, shown.asked)
    BY <2>1, ColumnCount, ScreenAssumption DEF FrameInv
  <2>3. n > 1
    BY <2>1, <2>2 DEF Window
  <2>4. shown.asked > win.clamped /\ win.first <= win.last
    BY DEF AtTheEnd
  <2>5. \A c \in 1..(n - 1) : Cell(w, c) <= Cell(w, n - 1)
    OBVIOUS
  <2> HIDE DEF n, w, win
  <2>6. win.last = n - 1 /\ ~win.right
    BY <2>2, <2>3, <2>4, <2>5, WidestReached
  <2> QED
    BY <2>6 DEF n, win
<1> QED
  BY <1>1, FrameKept, DialogsKeepTable, PTL
=============================================================================
