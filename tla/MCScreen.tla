------------------------------- MODULE MCScreen -------------------------------
\* A small instance of Screen and Dialogs: six views with two to five columns,
\* two menus of views, three backends in three groups.
EXTENDS Dialogs

MCViews == {"activity", "procpidstat", "tables", "sizes", "statements_timings", "statements_general"}
MCGroups == {<<"statements_timings", "statements_general">>}
MCNcols ==
  [v \in MCViews |->
     CASE v = "tables" -> 2
       [] v \in {"activity", "sizes"} -> 3
       [] v \in {"procpidstat", "statements_timings"} -> 4
       [] OTHER -> 5]

\* The last column of a result is its widest one, the second one is, or all
\* are alike.
MCShapes ==
  [v \in MCViews |->
     LET n == MCNcols[v]
         wideLast == [c \in 0..(n - 1) |-> IF c = n - 1 THEN 15 ELSE 3]
         wideSecond == [c \in 0..(n - 1) |-> IF c = 1 THEN 40 ELSE 5]
         alike == [c \in 0..(n - 1) |-> 7]
     IN CASE v = "activity" -> {wideLast, wideSecond}
          [] v = "statements_general" -> {alike, wideLast}
          [] OTHER -> {wideLast}]

MCMenus == [pgss |-> <<"statements_timings", "statements_general">>, progress |-> <<"tables", "sizes", "activity">>]

\* A short query, a long one that waits for a lock, and a session idle for long.
MCGroupsOf == [b \in {"short", "waiting", "idle"} |->
  CASE b = "short" -> {"active"} [] b = "waiting" -> {"active", "lock"} [] OTHER -> {"idle"}]
MCAgeOf == [b \in {"short", "waiting", "idle"} |-> IF b = "short" THEN 1 ELSE 2]
=============================================================================
