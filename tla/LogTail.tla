-------------------------------- MODULE LogTail --------------------------------
(***************************************************************************)
(* The log tail of "pgcenter top": the panel that shows the last lines of  *)
(* the PostgreSQL log.  A frame asks for the size of the file by its path, *)
(* reads through the handle opened earlier, and finds the file again when  *)
(* it got smaller than remembered; the server writes, truncates, rotates   *)
(* and removes logs between any two of these steps.  An error of a frame   *)
(* or of a key ends the UI; mainLoop builds the next one unless errors     *)
(* come too fast.  A file is a sequence of bytes, NL among them.           *)
(***************************************************************************)
EXTENDS Integers, Sequences, FiniteSets, FiniteSetsExt

CONSTANTS
  Paths,          \* names of log files
  StartPath,      \* the name at the start; holds the start time of the server
  FallbackPath,   \* log_filename with 000000 in place of the start time
  LinesLimit,     \* lines of the panel below its header
  BufSize,        \* bytes read at most
  MaxWrites,      \* bound: writes of the server
  MaxRotations    \* bound: truncations, rotations and removals

ASSUME LogAssumption ==
  /\ {StartPath, FallbackPath} \subseteq Paths
  /\ {LinesLimit, BufSize, MaxWrites, MaxRotations} \subseteq Nat

VARIABLES
  \* the server and the file system
  content,     \* the bytes of every file ever created, a sequence of files
  dir,         \* dir[p]: the file of that name, NoFile if there is none
  current,     \* the name of the log the server writes
  modern,      \* the server has pg_current_logfile()
  writes, rotations,
  \* config.logtail
  path, file, size,
  \* the UI
  ui,          \* running, failed (MainLoop returned an error), stopped
  extra,       \* config.view.ShowExtra
  frame,       \* where printStat is
  statted,     \* size reported to this frame (0 outside one)
  shown,       \* what the extra view holds
  \* history
  lag          \* the log was cut or replaced, or the UI rebuilt, since the
               \* panel last followed the file

server == <<content, dir, current, modern, writes, rotations>>
logtail == <<path, file, size>>
panel  == <<extra, frame, statted, shown>>
vars   == <<server, logtail, ui, panel, lag>>

NL == 0
NoFile == 0     \* no such file: a path without a file, a handle never opened
Closed == -1    \* a handle after Close
NotRead == <<-1>>  \* no buffer; a buffer of no line at all is <<>>
Blank == [head |-> "none", text |-> <<>>]
Other == [head |-> "other", text |-> <<>>]

FileAt(p) == IF dir[p] = NoFile THEN <<>> ELSE content[dir[p]]
Exists(p) == dir[p] # NoFile
Opened == file \notin {NoFile, Closed}

Init ==
  /\ content = <<<<>>>>
  /\ dir = [p \in Paths |-> IF p = StartPath THEN 1 ELSE NoFile]
  /\ current = StartPath
  /\ modern \in BOOLEAN
  /\ writes = 0 /\ rotations = 0
  /\ path = "none" /\ file = NoFile /\ size = 0
  /\ ui = "running"
  /\ extra = "none" /\ frame = "idle" /\ statted = 0 /\ shown = Blank
  /\ lag = FALSE

-----------------------------------------------------------------------------
(* The server and logrotate                                                *)

\* A line, or a part of one.
Chunks(n) == {<<n, NL>>, <<n>>}

Write ==
  /\ writes < MaxWrites
  /\ Exists(current)
  /\ writes' = writes + 1
  /\ \E c \in Chunks(writes') : content' = [content EXCEPT ![dir[current]] = @ \o c]
  /\ UNCHANGED <<dir, current, modern, rotations, logtail, ui, panel, lag>>

\* Of the rotations only those of the file behind the panel make it lag.
Disturbed(p) == lag' = (lag \/ (extra = "logtail" /\ p = path))

Rotated ==
  /\ rotations < MaxRotations
  /\ rotations' = rotations + 1
  /\ UNCHANGED <<modern, writes, logtail, ui, panel>>

\* logrotate with copytruncate.
Truncate ==
  /\ Rotated
  /\ Exists(current)
  /\ content' = [content EXCEPT ![dir[current]] = <<>>]
  /\ Disturbed(current)
  /\ UNCHANGED <<dir, current>>

\* logrotate that renames the log and creates a new one.
Replace ==
  /\ Rotated
  /\ content' = Append(content, <<>>)
  /\ dir' = [dir EXCEPT ![current] = Len(content')]
  /\ Disturbed(current)
  /\ UNCHANGED current

\* The logging collector goes on in a file of another name and truncates it.
Switch ==
  /\ Rotated
  /\ \E p \in Paths \ {current} :
       /\ current' = p
       /\ IF Exists(p)
          THEN content' = [content EXCEPT ![dir[p]] = <<>>] /\ UNCHANGED dir
          ELSE content' = Append(content, <<>>) /\ dir' = [dir EXCEPT ![p] = Len(content')]
       /\ Disturbed(p)

\* Old logs are removed.
Remove ==
  /\ Rotated
  /\ \E p \in Paths \ {current} :
       /\ Exists(p)
       /\ dir' = [dir EXCEPT ![p] = NoFile]
       /\ Disturbed(p)
  /\ UNCHANGED <<content, current>>

-----------------------------------------------------------------------------
(* log.go                                                                  *)

\* lookupPostgresLogfile: from the settings and the start time of the server.
Assembled ==
  CASE Exists(StartPath)    -> StartPath
    [] ~Exists(StartPath) /\ Exists(FallbackPath) -> FallbackPath
    [] OTHER                -> "none"

\* GetPostgresCurrentLogfile: the query may fail, the name may be empty.
CurrentLogfile == {IF modern THEN current ELSE Assembled, "none"}

\* The newlines the backward scan looks at, up to number LinesLimit + 1.
Scanned(c) == {p \in 1..Len(c) : p > Len(c) - BufSize /\ c[p] = NL}
Counted(c) ==
  {p \in Scanned(c) : Cardinality({q \in Scanned(c) : q >= p}) <= LinesLimit + 1}
BeginningReached(c) == Len(c) < BufSize /\ Cardinality(Scanned(c)) <= LinesLimit

\* Mutant: reading starts at the newline instead of behind it.
Startpos_AtNewline(c) ==
  IF BeginningReached(c) \/ Counted(c) = {} THEN 1 ELSE Min(Counted(c))

\* Reading starts behind the last newline seen, at the beginning without one.
Startpos(c) ==
  IF BeginningReached(c) \/ Counted(c) = {} THEN 1 ELSE Min(Counted(c)) + 1

\* Logfile.Read: at most BufSize bytes from there on.
ReadRecent(c) == SubSeq(c, Startpos(c), Min({Len(c), Startpos(c) + BufSize - 1}))
Readable == Opened /\ content[file] # <<>>

-----------------------------------------------------------------------------
(* showExtra                                                               *)

\* A handler or a frame returned an error: MainLoop returns it.
Fail ==
  /\ ui' = "failed"
  /\ frame' = "idle"

NoFailure == UNCHANGED ui

Pressed == ui = "running" /\ frame = "idle" /\ UNCHANGED server

\* Mutant: the size remembered from an earlier panel is kept.
Forgotten_Kept == size
Forgotten == 0

\* The key of the log tail while another panel or none is open.
OpenPanel ==
  /\ Pressed
  /\ extra # "logtail"
  /\ \E p \in CurrentLogfile :
       IF p = "none"
       THEN Fail /\ UNCHANGED <<logtail, extra, statted, shown, lag>>
       ELSE /\ NoFailure
            /\ path' = p
            /\ size' = Forgotten
            /\ UNCHANGED <<frame, statted>>
            /\ IF FileAt(p) = <<>>
               THEN UNCHANGED <<file, extra, shown, lag>>
               ELSE /\ file' = dir[p]
                    /\ extra' = "logtail"
                    /\ shown' = IF extra = "none" THEN Blank ELSE shown
                    /\ lag' = FALSE

\* The same key closes the panel, and the file first.
ClosePanel ==
  /\ Pressed
  /\ extra = "logtail"
  /\ IF Opened
     THEN /\ file' = Closed
          /\ extra' = "none" /\ shown' = Blank /\ lag' = FALSE
          /\ NoFailure /\ UNCHANGED frame
     ELSE Fail /\ UNCHANGED <<file, extra, shown, lag>>
  /\ UNCHANGED <<path, size, statted>>

\* The key of another panel; the file stays open.
OpenOther ==
  /\ Pressed
  /\ extra' = IF extra = "other" THEN "none" ELSE "other"
  /\ shown' = IF extra \in {"none", "other"} THEN Blank ELSE shown
  /\ lag' = FALSE
  /\ NoFailure
  /\ UNCHANGED <<logtail, frame, statted>>

-----------------------------------------------------------------------------
(* printStat                                                               *)

FrameOther ==
  /\ Pressed
  /\ extra = "other"
  /\ shown' = Other
  /\ NoFailure
  /\ UNCHANGED <<logtail, extra, frame, statted, lag>>

\* readLogfileRecent: nothing to do for a file that is unchanged or empty.
Changed == FileAt(path) # <<>> /\ Len(FileAt(path)) # size

FrameStat ==
  /\ Pressed
  /\ extra = "logtail"
  /\ IF Exists(path)
     THEN /\ statted' = Len(FileAt(path))
          /\ \/ Changed /\ frame' = "read"
                /\ lag' = IF file = dir[path] THEN FALSE ELSE lag
             \/ ~Changed /\ frame' = "nothing" /\ UNCHANGED lag
          /\ NoFailure
     ELSE Fail /\ UNCHANGED <<statted, lag>>
  /\ UNCHANGED <<logtail, extra, shown>>

\* printLogtail: the header names the path p as it is after the frame.
Display(p, text) ==
  shown' = IF text # NotRead THEN [head |-> p, text |-> text]
           ELSE IF statted < size THEN Blank ELSE shown

\* The handle Reopen gets: the old one is closed even if there is no new one.
Reopened(p) == IF p \in Paths /\ Exists(p) THEN dir[p] ELSE Closed

\* Mutant: the result of the query is assigned before its error is looked at.
NewPath_Unchecked(p) == p
NewPath(p) == IF p = "none" THEN path ELSE p

\* The rest of the frame once it has read text, or NotRead.  The
\* file is looked up again when it got smaller, after the text was read.
FinishSame(text) ==
  /\ statted >= size
  /\ frame' = "idle" /\ size' = statted
  /\ Display(path, text)
  /\ NoFailure
  /\ UNCHANGED <<path, file, lag>>

FinishReopen(text) ==
  /\ statted < size
  /\ Opened
  /\ \E p \in CurrentLogfile :
       /\ file' = Reopened(p)
       /\ path' = NewPath(p)
       /\ IF Reopened(p) = Closed
          THEN Fail /\ UNCHANGED <<size, shown, lag>>
          ELSE /\ frame' = "idle" /\ size' = statted
               /\ Display(p, text)
               /\ lag' = (lag \/ dir[p] # file)
               /\ NoFailure

\* Close fails on a handle that an earlier Reopen left closed.
FinishClosed ==
  /\ statted < size
  /\ ~Opened
  /\ Fail
  /\ UNCHANGED <<logtail, shown, lag>>

Finish(text) ==
  /\ FinishSame(text) \/ FinishReopen(text) \/ FinishClosed
  /\ statted' = 0
  /\ UNCHANGED <<server, extra>>

FrameRead ==
  /\ frame = "read"
  /\ Readable
  /\ Finish(ReadRecent(content[file]))

\* Seek fails on an empty file and on a closed handle.
FrameReadFails ==
  /\ frame = "read"
  /\ ~Readable
  /\ Fail
  /\ statted' = 0
  /\ UNCHANGED <<server, logtail, extra, shown, lag>>

FrameNothing ==
  /\ frame = "nothing"
  /\ Finish(NotRead)

-----------------------------------------------------------------------------
(* mainLoop                                                                *)

\* A new UI; layout makes an empty extra view, the log tail keeps its file.
\* Any error may be the one errorRate.check finds to be too many.
Restart ==
  /\ ui = "failed"
  /\ \/ ui' = "stopped" /\ UNCHANGED <<shown, lag>>
     \/ ui' = "running" /\ shown' = Blank /\ lag' = (extra = "logtail")
  /\ UNCHANGED <<server, logtail, extra, frame, statted>>

-----------------------------------------------------------------------------
Server == Write \/ Truncate \/ Replace \/ Switch \/ Remove
Keys   == OpenPanel \/ ClosePanel \/ OpenOther
Frames == FrameOther \/ FrameStat \/ FrameRead \/ FrameReadFails \/ FrameNothing

Next == Server \/ Keys \/ Frames \/ Restart

\* Frames come with every tick of the collector, and mainLoop restarts the UI.
Spec == Init /\ [][Next]_vars /\ WF_vars(Frames) /\ WF_vars(Restart)

-----------------------------------------------------------------------------
(* Properties                                                              *)

Handles == {NoFile, Closed} \cup DOMAIN content
Names == Paths \cup {"none"}

\* Type invariant: in particular a path in use names a log, and a handle in
\* use is one of a file that was opened (config.logtail of an open panel).
TypeOK ==
  /\ \A i \in DOMAIN content : content[i] \in Seq(Nat)
  /\ dir \in [Paths -> {NoFile} \cup DOMAIN content] /\ Exists(current)
  /\ path \in Names /\ file \in Handles /\ size \in Nat
  /\ ui \in {"running", "failed", "stopped"}
  /\ extra \in {"none", "logtail", "other"}
  /\ frame \in {"idle", "read", "nothing"}
  /\ extra = "logtail" => path # "none" /\ file # NoFile
  /\ frame # "idle" => extra = "logtail" /\ ui = "running"
  /\ shown.head \in Names \cup {"other"}

\* What the panel should hold of file c: the longest ending of it that begins
\* with a line, has at most LinesLimit line ends and fits in the buffer.
LineStarts(c) == {1} \cup {p + 1 : p \in {q \in 1..Len(c) : c[q] = NL}}
Fits(c, p) ==
  /\ Len(c) - p + 1 < BufSize
  /\ Cardinality({q \in p..Len(c) : c[q] = NL}) <= LinesLimit
Endings(c) == {p \in LineStarts(c) : Fits(c, p)}
IsRecent(text, c) ==
  Endings(c) # {} => text = SubSeq(c, Min(Endings(c)), Len(c))

\* Between two frames, a panel whose remembered size is the size of the log
\* shows the last lines of that log: not looking at an unchanged file
\* (readLogfileRecent) loses nothing, unless the file was cut or replaced, or
\* the UI rebuilt, since it was last read.
QuietMeansShown ==
  extra = "logtail" /\ ui = "running" /\ frame = "idle" /\ ~lag
    /\ FileAt(path) # <<>> /\ Len(FileAt(path)) = size
  => shown.head = path /\ IsRecent(shown.text, FileAt(path))

\* A panel that has the file of its path open, and whose file is longer than
\* remembered, catches up, whatever made it lag before: it shows the last
\* lines of the file, unless the log is rotated once more, the path changes,
\* a frame fails or the user closes the panel.
Behind(r, p) ==
  /\ extra = "logtail" /\ ui = "running" /\ rotations = r /\ path = p
  /\ file = dir[path] /\ FileAt(path) # <<>> /\ Len(FileAt(path)) > size
CaughtUp == path \in Paths /\ shown.head = path /\ IsRecent(shown.text, FileAt(path))
CatchesUp ==
  \A r \in 0..MaxRotations : \A p \in Paths :
    Behind(r, p) ~> (CaughtUp \/ extra # "logtail" \/ ui # "running"
                       \/ rotations > r \/ path # p)
===============================================================================
