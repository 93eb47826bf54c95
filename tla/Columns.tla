------------------------------- MODULE Columns -------------------------------
(***************************************************************************)
(* visibleColumns of pgcenter top: which columns of a table with n columns *)
(* are printed on a terminal of a given width.  Column 0 is always         *)
(* printed; of the others, as many as begin inside the screen, from        *)
(* 1 + offset on, with a marker on each side that hides some.  w gives the *)
(* width of a column; a column it does not know counts as empty.           *)
(***************************************************************************)
EXTENDS Integers, FiniteSets, FiniteSetsExt

\* Cells a column is printed on, with the gap behind it.
Cell(w, c) == (IF c \in DOMAIN w /\ w[c] > 0 THEN w[c] ELSE 0) + 2

\* Cells of the columns from one up to another, without that one.
Cells(n, w, from, upto) ==
  LET used[c \in from..n] == IF c = from THEN 0 ELSE used[c - 1] + Cell(w, c - 1)
  IN used[upto]

MarkerWidth == 1

\* countFit forwards: the columns from "from" on that begin inside the budget.
FitFrom(n, w, from, budget) ==
  Cardinality({c \in from..(n - 1) : Cells(n, w, from, c) < budget})

\* countFit backwards from the last column.
FitAtEnd(n, w, budget) ==
  Cardinality({c \in 1..(n - 1) : Cells(n, w, c + 1, n) < budget})

\* Mutant: the left marker is not reserved for the walk from the end.
TailBudget_NoMarker(base) == base

TailBudget(base) == base - MarkerWidth

\* The smallest offset that is supposed to show the last column.
MaxOffset(n, w, base) ==
  LET tail(budget) == FitAtEnd(n, w, budget)
  IN IF base <= 0 \/ tail(base) = n - 1 THEN 0
     ELSE IF TailBudget(base) > 0 THEN (n - 1) - tail(TailBudget(base))
     ELSE n - 1

Clamp(offset, m) == IF offset < 0 THEN 0 ELSE IF offset > m THEN m ELSE offset

\* Mutant: the markers cost nothing.
Reserved_Nothing(left, right) == 0

Reserved(left, right) ==
  (IF left THEN MarkerWidth ELSE 0) + (IF right THEN MarkerWidth ELSE 0)

NoWindow == [first |-> 1, last |-> 0, clamped |-> 0, left |-> FALSE, right |-> FALSE]

Window(n, w, term, offset) ==
  LET base    == term - Cell(w, 0)
      clamped == Clamp(offset, MaxOffset(n, w, base))
      first   == 1 + clamped
      left    == clamped > 0
      right   == first + FitFrom(n, w, first, base) - 1 < n - 1
      last    == first + FitFrom(n, w, first, base - Reserved(left, right)) - 1
  IN IF n <= 1 THEN NoWindow
     ELSE [first |-> first, last |-> last, clamped |-> clamped,
           left |-> left, right |-> last < n - 1]
=============================================================================
