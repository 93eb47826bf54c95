------------------------------- MODULE Results -------------------------------
(***************************************************************************)
(* What is done to a result (stat.PGresult) before it is shown: it is      *)
(* compared with an earlier one row by row, sorted, filtered and cut.      *)
(*                                                                         *)
(* A result is a sequence of rows, a row a function from columns (counted  *)
(* from 0) to values.  A value is a string; what matters of it is whether  *)
(* it reads as a number or as a duration, which one, and where it sorts    *)
(* among all strings.                                                      *)
(***************************************************************************)
EXTENDS Integers, Sequences, FiniteSets

CONSTANT Lex(_)   \* the place of a value among all strings

Num(n)      == [kind |-> "number", n |-> n]
Duration(n) == [kind |-> "duration", n |-> n]
Text(n)     == [kind |-> "text", n |-> n]

Empty == Text(0)

Value == [kind : {"number", "duration", "text"}, n : Int]

\* Division as Go does it: towards zero.
Quotient(a, b) == IF a >= 0 THEN a \div b ELSE -((-a) \div b)

\* The interval in whole seconds; one less than a second long counts as one.
\* Time is in half seconds.
Interval(t) == IF t < 2 THEN 1 ELSE t \div 2

\* Mutant: rows are compared by their position in the result.
Before_SamePlace(prev, row, i, ukey) ==
  {j \in DOMAIN prev : j = i}

\* The rows of prev that have the key of row i of the other result.
Before(prev, row, i, ukey) ==
  {j \in DOMAIN prev : prev[j][ukey] = row[ukey]}

First(S) == CHOOSE i \in S : \A j \in S : i <= j

\* The values of curr that are subtracted from: row, row of prev, column.
Pairs(curr, prev, cols, ukey) ==
  {p \in (DOMAIN curr) \X (DOMAIN prev) \X cols :
     LET S == Before(prev, curr[p[1]], p[1], ukey)
     IN S # {} /\ p[2] = First(S) /\ p[3] \in DOMAIN curr[p[1]]}

\* The earlier result lacks a column: an index out of range.
DiffPanics(curr, prev, cols, ukey) ==
  \E p \in Pairs(curr, prev, cols, ukey) : p[3] \notin DOMAIN prev[p[2]]

\* diffPair is given a value that is not a number.
DiffFails(curr, prev, cols, ukey) ==
  /\ ~DiffPanics(curr, prev, cols, ukey)
  /\ \E p \in Pairs(curr, prev, cols, ukey) :
       curr[p[1]][p[3]].kind # "number" \/ prev[p[2]][p[3]].kind # "number"

\* Every row of curr with the growth per second in the columns cols, or as it is
\* when prev has no row with its key.
Diff(curr, prev, itv, cols, ukey) ==
  [i \in DOMAIN curr |->
     LET S == Before(prev, curr[i], i, ukey)
     IN IF S = {} THEN curr[i]
        ELSE [c \in DOMAIN curr[i] |->
                IF c \in cols
                THEN Num(Quotient(curr[i][c].n - prev[First(S)][c].n, itv))
                ELSE curr[i][c]]]

\* The value of the first row decides how all of them are compared: as numbers,
\* as durations or as strings; what cannot be read so counts as 0.
SortKey(kind, x) ==
  IF kind = "text" THEN Lex(x) ELSE IF x.kind = kind THEN x.n ELSE 0

\* The rows at the places in the domain of upto: k-th the one that has k places
\* up to itself.
InOrder(rows, upto) ==
  [k \in 1..Cardinality(DOMAIN upto) |->
     rows[CHOOSE i \in DOMAIN upto : Cardinality(upto[i]) = k]]

\* Stable sort by one column.
Sorted(rows, col, desc) ==
  LET key(i) == SortKey(rows[1][col].kind, rows[i][col])
      above(j, i) == IF desc THEN key(j) > key(i) ELSE key(j) < key(i)
  IN InOrder(rows, [i \in DOMAIN rows |->
       {j \in DOMAIN rows : above(j, i) \/ (~above(i, j) /\ j <= i)}])

\* Compare: difference and sort.
Compared(curr, prev, itv, cols, ukey, col, desc) ==
  Sorted(Diff(curr, prev, itv, cols, ukey), col, desc)

\* The rows at the places in S, in their order.
Picked(rows, S) == InOrder(rows, [i \in S |-> {j \in S : j <= i}])

\* The first rows, up to the limit (0: no limit).
Limited(rows, limit) ==
  SubSeq(rows, 1, IF limit = 0 \/ limit > Len(rows) THEN Len(rows) ELSE limit)
=============================================================================
