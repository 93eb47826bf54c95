----------------------------- MODULE LogTailProofs -----------------------------
(***************************************************************************)
(* Theorems of LogTail: for logs of any contents, any number of names,     *)
(* writes and rotations, and any height of the panel and size of the       *)
(* buffer, a panel shows the end of the log it follows.                    *)
(***************************************************************************)
EXTENDS LogTail, FiniteSetTheorems, WellFoundedInduction, TLAPS

-----------------------------------------------------------------------------
(* What a frame reads                                                      *)

LEMMA LeastOf ==
  ASSUME NEW S \in SUBSET Nat, S # {}
  PROVE  Min(S) \in S /\ \A y \in S : Min(S) <= y
<1> DEFINE R == {p \in Nat \X Nat : p[1] < p[2]}
<1>1. IsWellFoundedOn(R, Nat)
  BY NatLessThanWellFounded DEF OpToRel
<1>2. PICK x \in S : \A y \in S : ~(<<y, x>> \in R)
  <2> HIDE DEF R
  <2> QED
    BY <1>1, WFMin
<1>3. \A y \in S : x <= y
  <2> SUFFICES ASSUME NEW y \in S PROVE x <= y
    OBVIOUS
  <2>1. <<y, x>> \in Nat \X Nat /\ ~(y < x)
    BY <1>2
  <2> QED
    BY <2>1
<1> QED
  BY <1>3 DEF Min

\* The line ends of c from position p on.
LineEnds(c, p) == {q \in p..Len(c) : c[q] = NL}

LEMMA LineEndsFinite ==
  ASSUME NEW c \in Seq(Nat), NEW p \in Nat
  PROVE  IsFiniteSet(LineEnds(c, p)) /\ Cardinality(LineEnds(c, p)) \in Nat
<1>1. Len(c) \in Int /\ p \in Int
  OBVIOUS
<1>2. IsFiniteSet(p..Len(c))
  BY <1>1, FS_Interval
<1>3. LineEnds(c, p) \in SUBSET (p..Len(c))
  BY DEF LineEnds
<1>4. IsFiniteSet(LineEnds(c, p))
  BY <1>2, <1>3, FS_Subset
<1> QED
  BY <1>4, FS_CardinalityType

LEMMA CountedAreNats == ASSUME NEW c \in Seq(Nat) PROVE Counted(c) \in SUBSET Nat
<1>1. Len(c) \in Nat
  OBVIOUS
<1> QED
  BY <1>1 DEF Counted, Scanned

\* The scan counts a line end and those behind it.
LEMMA CountFrom ==
  ASSUME NEW c \in Seq(Nat), NEW q \in Scanned(c)
  PROVE  /\ q \in 1..Len(c)
         /\ Cardinality({r \in Scanned(c) : r >= q}) = Cardinality(LineEnds(c, q + 1)) + 1
<1>1. /\ q \in 1..Len(c) /\ q > Len(c) - BufSize /\ c[q] = NL
      /\ Len(c) \in Nat /\ BufSize \in Nat /\ q \in Nat /\ q + 1 \in Nat
  BY LogAssumption DEF Scanned
<1>2. {r \in Scanned(c) : r >= q} = LineEnds(c, q + 1) \cup {q}
  BY <1>1 DEF Scanned, LineEnds
<1>3. q \notin LineEnds(c, q + 1)
  BY <1>1 DEF LineEnds
<1>4. IsFiniteSet(LineEnds(c, q + 1)) /\ Cardinality(LineEnds(c, q + 1)) \in Nat
  BY <1>1, LineEndsFinite
<1> HIDE DEF LineEnds
<1> QED
  BY <1>1, <1>2, <1>3, <1>4, FS_AddElement

\* Where the longest ending begins: behind a line end that the scan counts, or at
\* the beginning when the scan reached it.
LEMMA EndingsAreCounted ==
  ASSUME NEW c \in Seq(Nat), NEW p \in Endings(c), ~BeginningReached(c)
  PROVE  p - 1 \in Counted(c)
<1>1. /\ Len(c) \in Nat /\ BufSize \in Nat /\ LinesLimit \in Nat
      /\ p = 1 \/ \E q \in 1..Len(c) : c[q] = NL /\ p = q + 1
      /\ Len(c) - p + 1 < BufSize /\ Cardinality(LineEnds(c, p)) <= LinesLimit
  BY LogAssumption DEF Endings, Fits, LineStarts, LineEnds
<1>2. CASE p = 1
  <2>1. Len(c) < BufSize
    BY <1>1, <1>2
  <2>2. Scanned(c) = LineEnds(c, 1)
    BY <1>1, <2>1 DEF Scanned, LineEnds
  <2> QED
    BY <1>1, <1>2, <2>1, <2>2 DEF BeginningReached
<1>3. CASE \E q \in 1..Len(c) : c[q] = NL /\ p = q + 1
  <2>1. PICK q \in 1..Len(c) : c[q] = NL /\ p = q + 1
    BY <1>3
  <2>2. q \in Scanned(c) /\ q \in Nat /\ q + 1 \in Nat
    BY <1>1, <2>1 DEF Scanned
  <2>3. Cardinality({r \in Scanned(c) : r >= q}) = Cardinality(LineEnds(c, p)) + 1
    BY <2>1, <2>2, CountFrom
  <2>4. Cardinality(LineEnds(c, p)) \in Nat
    BY <2>1, <2>2, LineEndsFinite
  <2>5. Cardinality({r \in Scanned(c) : r >= q}) <= LinesLimit + 1
    BY <1>1, <2>3, <2>4
  <2>6. q \in Counted(c)
    BY <2>2, <2>5 DEF Counted
  <2> QED
    BY <2>1, <2>2, <2>6
<1> QED
  BY <1>1, <1>2, <1>3

LEMMA CountedIsEnding ==
  ASSUME NEW c \in Seq(Nat), NEW q \in Counted(c)
  PROVE  q \in 1..Len(c) /\ q > Len(c) - BufSize /\ q + 1 \in Endings(c)
<1>1. /\ Len(c) \in Nat /\ BufSize \in Nat /\ LinesLimit \in Nat
      /\ q \in Scanned(c) /\ Cardinality({r \in Scanned(c) : r >= q}) <= LinesLimit + 1
  BY LogAssumption DEF Counted
<1>2. q \in 1..Len(c) /\ q > Len(c) - BufSize /\ c[q] = NL /\ q + 1 \in Nat
  BY <1>1 DEF Scanned
<1>3. Cardinality(LineEnds(c, q + 1)) \in Nat
  BY <1>2, LineEndsFinite
<1>4. Cardinality({r \in Scanned(c) : r >= q}) = Cardinality(LineEnds(c, q + 1)) + 1
  BY <1>1, CountFrom
<1>5. Cardinality(LineEnds(c, q + 1)) <= LinesLimit
  BY <1>1, <1>3, <1>4
<1>6. q + 1 \in LineStarts(c)
  BY <1>2 DEF LineStarts
<1>7. Fits(c, q + 1)
  BY <1>1, <1>2, <1>5 DEF Fits, LineEnds
<1> QED
  BY <1>2, <1>6, <1>7 DEF Endings

LEMMA StartOfEnding ==
  ASSUME NEW c \in Seq(Nat), Endings(c) # {}
  PROVE  /\ Startpos(c) = Min(Endings(c))
         /\ Startpos(c) \in Nat /\ Startpos(c) >= 1 /\ Len(c) - Startpos(c) + 1 < BufSize
<1>1. Len(c) \in Nat /\ BufSize \in Nat /\ LinesLimit \in Nat
  BY LogAssumption
<1>2. Endings(c) \in SUBSET Nat /\ \A p \in Endings(c) : p >= 1 /\ Len(c) - p + 1 < BufSize
  BY <1>1 DEF Endings, LineStarts, Fits
<1>3. Min(Endings(c)) \in Endings(c) /\ \A p \in Endings(c) : Min(Endings(c)) <= p
  BY <1>2, LeastOf
<1>4. ASSUME NEW s \in Endings(c), \A p \in Endings(c) : s <= p PROVE s = Min(Endings(c))
  BY <1>2, <1>3, <1>4
<1>5. CASE BeginningReached(c)
  <2>1. Len(c) < BufSize /\ Cardinality(Scanned(c)) <= LinesLimit
    BY <1>5 DEF BeginningReached
  <2>2. Scanned(c) = LineEnds(c, 1)
    BY <1>1, <2>1 DEF Scanned, LineEnds
  <2>3. 1 \in LineStarts(c) /\ Fits(c, 1)
    BY <1>1, <2>1, <2>2 DEF LineStarts, Fits, LineEnds
  <2>4. 1 \in Endings(c)
    BY <2>3 DEF Endings
  <2>5. Startpos(c) = 1
    BY <1>5 DEF Startpos
  <2> QED
    BY <1>2, <1>4, <2>4, <2>5
<1>6. CASE ~BeginningReached(c)
  <2>1. Counted(c) # {} /\ Counted(c) \in SUBSET Nat
    <3>1. \E p \in Endings(c) : p - 1 \in Counted(c)
      BY <1>6, EndingsAreCounted
    <3> QED
      BY <3>1, CountedAreNats
  <2>2. Min(Counted(c)) \in Counted(c) /\ \A q \in Counted(c) : Min(Counted(c)) <= q
    BY <2>1, LeastOf
  <2>3. Startpos(c) = Min(Counted(c)) + 1
    BY <1>6, <2>1 DEF Startpos
  <2>4. Startpos(c) \in Endings(c)
    BY <2>2, <2>3, CountedIsEnding
  <2>5. \A p \in Endings(c) : Startpos(c) <= p
    <3> SUFFICES ASSUME NEW p \in Endings(c) PROVE Startpos(c) <= p
      OBVIOUS
    <3>1. p - 1 \in Counted(c)
      BY <1>6, EndingsAreCounted
    <3>2. p \in Nat /\ Min(Counted(c)) \in Nat
      BY <1>2, <2>1, <2>2
    <3> QED
      BY <2>2, <2>3, <3>1, <3>2
  <2> QED
    BY <1>2, <1>4, <2>4, <2>5
<1>7. <<-1>>[1] \notin Nat
  OBVIOUS
<1> QED
  BY <1>5, <1>6, <1>7, Zenon

LEMMA LesserOf == \A a, b \in Nat : a <= b => Min({a, b}) = a
<1> SUFFICES ASSUME NEW a \in Nat, NEW b \in Nat, a <= b PROVE Min({a, b}) = a
  OBVIOUS
<1>1. {a, b} \in SUBSET Nat /\ {a, b} # {}
  OBVIOUS
<1>2. Min({a, b}) \in {a, b} /\ \A y \in {a, b} : Min({a, b}) <= y
  BY <1>1, LeastOf
<1> QED
  BY <1>2

\* A frame reads the longest ending of a log that fits: the backward scan of
\* Logfile.Read for one more line end than the panel has lines, and the limit of
\* its buffer, leave out no line that could be shown and show none too many.
THEOREM ReadsRecent ==
  ASSUME NEW c \in Seq(Nat)
  PROVE  IsRecent(ReadRecent(c), c)
<1> SUFFICES ASSUME Endings(c) # {} PROVE ReadRecent(c) = SubSeq(c, Min(Endings(c)), Len(c))
  BY DEF IsRecent
<1>1. /\ Startpos(c) = Min(Endings(c)) /\ Startpos(c) \in Nat /\ Startpos(c) >= 1
      /\ Len(c) - Startpos(c) + 1 < BufSize
  BY StartOfEnding
<1>2. Len(c) \in Nat /\ BufSize \in Nat
  BY LogAssumption
<1>3. Startpos(c) + BufSize - 1 \in Nat /\ Len(c) <= Startpos(c) + BufSize - 1
  BY <1>1, <1>2
<1>4. Min({Len(c), Startpos(c) + BufSize - 1}) = Len(c)
  BY <1>2, <1>3, LesserOf
<1> QED
  BY <1>1, <1>4 DEF ReadRecent

\* It reads bytes, and so never what stands for nothing read.
LEMMA ReadsBytes ==
  ASSUME NEW c \in Seq(Nat)
  PROVE  ReadRecent(c) # NotRead
<1> SUFFICES ASSUME ReadRecent(c) = <<-1>> PROVE FALSE
  BY DEF NotRead
<1>1. Len(c) \in Nat /\ BufSize \in Nat
  BY LogAssumption
<1>2. Startpos(c) \in Nat /\ Startpos(c) >= 1
  <2>1. CASE BeginningReached(c) \/ Counted(c) = {}
    BY <2>1 DEF Startpos
  <2>2. CASE ~(BeginningReached(c) \/ Counted(c) = {})
    <3>1. Counted(c) # {} /\ Counted(c) \in SUBSET Nat
      BY <2>2, CountedAreNats
    <3>2. Min(Counted(c)) \in Nat
      BY <3>1, LeastOf
    <3> QED
      BY <2>2, <3>2 DEF Startpos
  <2> QED
    BY <2>1, <2>2
<1>3. PICK s : s = Startpos(c) /\ s \in Nat /\ s >= 1
  BY <1>2
<1>4. PICK n : n = Min({Len(c), s + BufSize - 1}) /\ n \in Nat /\ n <= Len(c)
  <2>1. {Len(c), s + BufSize - 1} \in SUBSET Nat /\ {Len(c), s + BufSize - 1} # {}
    BY <1>1, <1>3
  <2>2. /\ Min({Len(c), s + BufSize - 1}) \in {Len(c), s + BufSize - 1}
        /\ \A y \in {Len(c), s + BufSize - 1} : Min({Len(c), s + BufSize - 1}) <= y
    BY <2>1, LeastOf
  <2> QED
    BY <2>1, <2>2
<1>5. SubSeq(c, s, n) = <<-1>>
  BY <1>3, <1>4 DEF ReadRecent
<1>6. s <= n
  <2>1. Len(SubSeq(c, s, n)) = 1
    BY <1>5
  <2> QED
    BY <1>1, <1>3, <1>4, <2>1
<1>7. c[s] \in Nat /\ SubSeq(c, s, n)[1] = c[s]
  BY <1>1, <1>3, <1>4, <1>6
<1>8. c[s] = -1
  BY <1>5, <1>7
<1> QED
  BY <1>7, <1>8

-----------------------------------------------------------------------------
(* Types                                                                   *)

\* What the types rest on besides: no file has two names.
OneName == \A p, q \in Paths : dir[p] = dir[q] => dir[p] = NoFile \/ p = q

TypeInv ==
  /\ TypeOK /\ OneName
  /\ content \in Seq(Seq(Nat)) /\ current \in Paths
  /\ writes \in Nat /\ statted \in Nat /\ lag \in BOOLEAN

-----------------------------------------------------------------------------
(* The panel follows the file                                              *)

Shows == shown.head = path /\ IsRecent(shown.text, FileAt(path))

\* A panel that nothing has made lag has the log of its path open, and remembers
\* no more of it than there is: what it remembers it shows.
FollowInv ==
  extra = "logtail" /\ ui = "running" /\ ~lag =>
    /\ file = dir[path]
    /\ frame = "idle" =>
         /\ size <= Len(FileAt(path))
         /\ size = Len(FileAt(path)) /\ size # 0 => Shows
    /\ frame # "idle" => statted <= Len(FileAt(path))
    /\ frame = "nothing" =>
         statted = 0 \/ (statted = size /\ (statted = Len(FileAt(path)) => Shows))

LEMMA Updated ==
  ASSUME NEW S, NEW s \in Seq(S), NEW k \in 1..Len(s), NEW x \in S
  PROVE  /\ [s EXCEPT ![k] = x] \in Seq(S) /\ Len([s EXCEPT ![k] = x]) = Len(s)
         /\ \A i \in 1..Len(s) : [s EXCEPT ![k] = x][i] = IF i = k THEN x ELSE s[i]
OBVIOUS

LEMMA Extended ==
  ASSUME NEW S, NEW s \in Seq(S), NEW x \in S
  PROVE  /\ Append(s, x) \in Seq(S) /\ Len(Append(s, x)) = Len(s) + 1
         /\ \A i \in 1..Len(s) : Append(s, x)[i] = s[i]
OBVIOUS

LEMMA Longer ==
  ASSUME NEW a \in Seq(Nat), NEW c \in Seq(Nat), Len(c) > 0
  PROVE  a \o c \in Seq(Nat) /\ Len(a \o c) > Len(a)
<1>1. Len(a \o c) = Len(a) + Len(c) /\ Len(a) \in Nat /\ Len(c) \in Nat
  OBVIOUS
<1>2. a \o c \in Seq(Nat)
  OBVIOUS
<1> QED
  BY <1>1, <1>2

\* A name stands for a file or for none, and a file is a sequence of bytes.
LEMMA FileTypes ==
  ASSUME TypeInv
  PROVE  /\ Len(content) \in Nat /\ DOMAIN content = 1..Len(content)
         /\ \A i \in 1..Len(content) : content[i] \in Seq(Nat)
         /\ dir \in [Paths -> 0..Len(content)]
         /\ dir[current] \in 1..Len(content)
<1>1. /\ content \in Seq(Seq(Nat)) /\ current \in Paths /\ dir[current] # 0
      /\ dir \in [Paths -> {0} \cup DOMAIN content]
  BY DEF TypeInv, TypeOK, Exists, NoFile
<1>2. Len(content) \in Nat /\ DOMAIN content = 1..Len(content)
      /\ \A i \in 1..Len(content) : content[i] \in Seq(Nat)
  BY <1>1
<1>3. {0} \cup (1..Len(content)) = 0..Len(content)
  BY <1>2
<1>4. dir \in [Paths -> 0..Len(content)]
  BY <1>1, <1>2, <1>3
<1>5. dir[current] \in 0..Len(content)
  BY <1>1, <1>4
<1> QED
  BY <1>1, <1>2, <1>4, <1>5

LEMMA LogOfPath ==
  ASSUME TypeInv, NEW p \in Paths
  PROVE  /\ FileAt(p) \in Seq(Nat) /\ Len(FileAt(p)) \in Nat
         /\ FileAt(p) # <<>> => dir[p] \in 1..Len(content) /\ dir[p] # NoFile /\ FileAt(p) = content[dir[p]]
<1>1. dir[p] \in 0..Len(content)
  BY FileTypes
<1>2. CASE dir[p] = 0
  BY <1>2 DEF FileAt, NoFile
<1>3. CASE dir[p] # 0
  <2>1. dir[p] \in 1..Len(content)
    BY <1>1, <1>3, FileTypes
  <2>2. FileAt(p) = content[dir[p]] /\ FileAt(p) \in Seq(Nat)
    BY <1>3, <2>1, FileTypes DEF FileAt, NoFile
  <2> QED
    BY <2>1, <2>2 DEF NoFile
<1> QED
  BY <1>2, <1>3

\* The name a query may return.
LEMMA LogNames == ASSUME TypeInv PROVE CurrentLogfile \subseteq Names
BY LogAssumption DEF TypeInv, CurrentLogfile, Assembled, Names

-----------------------------------------------------------------------------
(* Steps of the server                                                     *)

\* What a step of the server leaves of the file of a name.
Kept(p) ==
  /\ dir'[p] = dir[p]
  /\ FileAt(p)' = FileAt(p) \/ Len(FileAt(p)') > Len(FileAt(p))

ServerKeeps ==
  /\ content' \in Seq(Seq(Nat)) /\ Len(content) <= Len(content')
  /\ dir' \in [Paths -> 0..Len(content')] /\ current' \in Paths /\ dir'[current'] # 0
  /\ OneName'
  /\ writes' \in Nat /\ lag' \in BOOLEAN
  /\ UNCHANGED <<logtail, ui, panel>>
  /\ lag => lag'
  /\ extra = "logtail" /\ ~lag' => \A p \in Paths : p = path => Kept(p)

LEMMA WriteKeeps == ASSUME TypeInv, Write PROVE ServerKeeps
<1> DEFINE k == dir[current]
<1>1. PICK c \in Chunks(writes') : content' = [content EXCEPT ![k] = @ \o c]
  BY DEF Write
<1>2. /\ writes' = writes + 1 /\ UNCHANGED <<dir, current, logtail, ui, panel, lag>>
  BY DEF Write
<1>3. k \in 1..Len(content) /\ content[k] \in Seq(Nat) /\ content \in Seq(Seq(Nat)) /\ writes \in Nat
  BY FileTypes DEF TypeInv
<1>4. c \in Seq(Nat) /\ Len(c) > 0
  <2>1. PICK w : w = writes' /\ w \in Nat
    BY <1>2, <1>3
  <2>2. c = <<w, 0>> \/ c = <<w>>
    BY <1>1, <2>1 DEF Chunks, NL
  <2>3. CASE c = <<w, 0>>
    BY <2>1, <2>3
  <2>4. CASE c = <<w>>
    BY <2>1, <2>4
  <2> QED
    BY <2>2, <2>3, <2>4
<1> HIDE DEF k
<1>5. content[k] \o c \in Seq(Nat) /\ Len(content[k] \o c) > Len(content[k])
  BY <1>3, <1>4, Longer
<1>6. content' = [content EXCEPT ![k] = content[k] \o c]
  BY <1>1, <1>3
<1>7. /\ content' \in Seq(Seq(Nat)) /\ Len(content') = Len(content)
      /\ \A i \in 1..Len(content) : content'[i] = IF i = k THEN content[k] \o c ELSE content[i]
  BY <1>3, <1>5, <1>6, Updated
<1>8. \A p \in Paths : Kept(p)
  <2> SUFFICES ASSUME NEW p \in Paths PROVE Kept(p)
    OBVIOUS
  <2>1. dir[p] \in 0..Len(content)
    BY FileTypes
  <2>2. CASE dir[p] = 0
    BY <1>2, <2>2 DEF Kept, FileAt, NoFile
  <2>3. CASE dir[p] # 0
    <3>1. dir[p] \in 1..Len(content)
      BY <2>1, <2>3, FileTypes
    <3>2. FileAt(p) = content[dir[p]] /\ FileAt(p)' = content'[dir[p]]
      BY <1>2, <2>3 DEF FileAt, NoFile
    <3> QED
      BY <1>2, <1>5, <1>7, <3>1, <3>2 DEF Kept
  <2> QED
    BY <2>2, <2>3
<1>9. /\ dir' \in [Paths -> 0..Len(content')] /\ current' \in Paths /\ dir'[current'] # 0
      /\ lag \in BOOLEAN /\ Len(content) \in Nat
  BY <1>2, <1>7, FileTypes DEF TypeInv
<1>10. OneName'
  BY <1>2 DEF TypeInv, OneName
<1> QED
  BY <1>2, <1>3, <1>7, <1>8, <1>9, <1>10 DEF ServerKeeps

\* A step that empties, gives a new file to, or removes the name p.
LEMMA RotatedKeeps ==
  ASSUME TypeInv, Rotated, NEW p \in Paths, Disturbed(p), current' \in Paths,
         \/ /\ Exists(p) /\ UNCHANGED dir /\ dir[current'] # 0
            /\ content' = [content EXCEPT ![dir[p]] = <<>>]
         \/ /\ current' = p
            /\ content' = Append(content, <<>>) /\ dir' = [dir EXCEPT ![p] = Len(content')]
         \/ /\ UNCHANGED content /\ current' # p /\ dir[current'] # 0
            /\ dir' = [dir EXCEPT ![p] = NoFile]
  PROVE  ServerKeeps
<1>1. /\ content \in Seq(Seq(Nat)) /\ Len(content) \in Nat /\ <<>> \in Seq(Nat)
      /\ dir \in [Paths -> 0..Len(content)] /\ OneName
      /\ writes \in Nat /\ lag \in BOOLEAN
  BY FileTypes DEF TypeInv
<1>2. UNCHANGED <<writes, logtail, ui, panel>> /\ lag' = (lag \/ (extra = "logtail" /\ p = path))
  BY DEF Rotated, Disturbed
<1>3. ASSUME \A q \in Paths : q # p => Kept(q)
      PROVE  /\ lag' \in BOOLEAN /\ (lag => lag')
             /\ extra = "logtail" /\ ~lag' => \A q \in Paths : q = path => Kept(q)
  BY <1>1, <1>2, <1>3
<1>4. ASSUME Exists(p), UNCHANGED dir, dir[current'] # 0,
             content' = [content EXCEPT ![dir[p]] = <<>>]
      PROVE  ServerKeeps
  <2>1. dir[p] \in 1..Len(content)
    BY <1>1, <1>4 DEF Exists, NoFile
  <2>2. /\ content' \in Seq(Seq(Nat)) /\ Len(content') = Len(content)
        /\ \A i \in 1..Len(content) : content'[i] = IF i = dir[p] THEN <<>> ELSE content[i]
    BY <1>1, <1>4, <2>1, Updated
  <2>3. ASSUME NEW q \in Paths, q # p PROVE Kept(q)
    <3>1. dir[q] \in 0..Len(content) /\ (dir[q] = dir[p] => dir[q] = 0)
      BY <1>1, <2>3 DEF OneName, NoFile
    <3>2. dir[q] # 0 => content'[dir[q]] = content[dir[q]]
      <4> SUFFICES ASSUME dir[q] # 0 PROVE content'[dir[q]] = content[dir[q]]
        OBVIOUS
      <4>1. dir[q] \in 1..Len(content) /\ dir[q] # dir[p]
        BY <1>1, <3>1
      <4> QED
        BY <2>2, <4>1
    <3> QED
      BY <1>4, <3>2 DEF Kept, FileAt, NoFile
  <2>4. OneName'
    BY <1>1, <1>4 DEF OneName
  <2>5. /\ lag' \in BOOLEAN /\ (lag => lag')
        /\ extra = "logtail" /\ ~lag' => \A q \in Paths : q = path => Kept(q)
    BY <1>3, <2>3
  <2> QED
    <3>1. /\ Len(content) <= Len(content') /\ dir' \in [Paths -> 0..Len(content')]
          /\ current' \in Paths /\ dir'[current'] # 0
      <4>1. Len(content') = Len(content)
        BY <2>2
      <4>2. Len(content) <= Len(content') /\ dir \in [Paths -> 0..Len(content')]
        BY <1>1, <4>1
      <4>3. dir' = dir /\ dir[current'] # 0
        BY <1>4
      <4> QED
        BY <4>2, <4>3
    <3>2. UNCHANGED <<logtail, ui, panel>> /\ writes' \in Nat
      BY <1>1, <1>2
    <3> QED
      BY <2>2, <2>4, <2>5, <3>1, <3>2 DEF ServerKeeps
<1>5. ASSUME current' = p, content' = Append(content, <<>>),
             dir' = [dir EXCEPT ![p] = Len(content')]
      PROVE  ServerKeeps
  <2>1. /\ content' \in Seq(Seq(Nat)) /\ Len(content') = Len(content) + 1
        /\ \A i \in 1..Len(content) : content'[i] = content[i]
    BY <1>1, <1>5, Extended
  <2>2. \A q \in Paths : dir'[q] = IF q = p THEN Len(content) + 1 ELSE dir[q]
    BY <1>1, <1>5, <2>1
  <2>3. dir' \in [Paths -> 0..Len(content')] /\ dir'[p] # 0
    BY <1>1, <1>5, <2>1, <2>2
  <2>4. OneName'
    BY <1>1, <2>2 DEF OneName, NoFile
  <2>5. ASSUME NEW q \in Paths, q # p PROVE Kept(q)
    <3>1. dir'[q] = dir[q] /\ (dir[q] # 0 => content'[dir[q]] = content[dir[q]])
      BY <1>1, <2>1, <2>2, <2>5
    <3> QED
      BY <3>1 DEF Kept, FileAt, NoFile
  <2>6. /\ lag' \in BOOLEAN /\ (lag => lag')
        /\ extra = "logtail" /\ ~lag' => \A q \in Paths : q = path => Kept(q)
    BY <1>3, <2>5
  <2> QED
    <3>1. Len(content) <= Len(content') /\ current' \in Paths /\ dir'[current'] # 0
      BY <1>1, <1>5, <2>1, <2>3
    <3>2. UNCHANGED <<logtail, ui, panel>> /\ writes' \in Nat
      BY <1>1, <1>2
    <3> QED
      BY <2>1, <2>3, <2>4, <2>6, <3>1, <3>2 DEF ServerKeeps
<1>6. ASSUME UNCHANGED content, current' # p, dir[current'] # 0, dir' = [dir EXCEPT ![p] = NoFile]
      PROVE  ServerKeeps
  <2>1. \A q \in Paths : dir'[q] = IF q = p THEN 0 ELSE dir[q]
    BY <1>1, <1>6 DEF NoFile
  <2>2. dir' \in [Paths -> 0..Len(content')] /\ dir'[current'] # 0
    BY <1>1, <1>6, <2>1 DEF NoFile
  <2>3. OneName'
    BY <1>1, <2>1 DEF OneName, NoFile
  <2>4. ASSUME NEW q \in Paths, q # p PROVE Kept(q)
    BY <1>6, <2>1, <2>4 DEF Kept, FileAt
  <2>5. /\ lag' \in BOOLEAN /\ (lag => lag')
        /\ extra = "logtail" /\ ~lag' => \A q \in Paths : q = path => Kept(q)
    BY <1>3, <2>4
  <2> QED
    BY <1>1, <1>2, <1>6, <2>2, <2>3, <2>5 DEF ServerKeeps
<1> QED
  BY <1>4, <1>5, <1>6

LEMMA ServerSteps == ASSUME TypeInv, Server PROVE ServerKeeps
<1>1. current \in Paths /\ dir[current] # 0
  BY DEF TypeInv, TypeOK, Exists, NoFile
<1>2. CASE Write
  BY <1>2, WriteKeeps
<1>3. CASE Truncate
  BY <1>1, <1>3, RotatedKeeps DEF Truncate
<1>4. CASE Replace
  BY <1>1, <1>4, RotatedKeeps DEF Replace
<1>5. CASE Switch
  <2>1. PICK p \in Paths \ {current} :
          /\ current' = p
          /\ IF Exists(p)
             THEN content' = [content EXCEPT ![dir[p]] = <<>>] /\ UNCHANGED dir
             ELSE content' = Append(content, <<>>) /\ dir' = [dir EXCEPT ![p] = Len(content')]
          /\ Disturbed(p)
    BY <1>5 DEF Switch
  <2>2. Rotated
    BY <1>5 DEF Switch
  <2>3. CASE Exists(p)
    <3>1. dir[current'] # 0
      BY <2>1, <2>3 DEF Exists, NoFile
    <3> QED
      BY <2>1, <2>2, <2>3, <3>1, RotatedKeeps
  <2>4. CASE ~Exists(p)
    BY <2>1, <2>2, <2>4, RotatedKeeps
  <2> QED
    BY <2>3, <2>4
<1>6. CASE Remove
  <2>1. PICK p \in Paths \ {current} : dir' = [dir EXCEPT ![p] = NoFile] /\ Disturbed(p)
    BY <1>6 DEF Remove
  <2>2. Rotated /\ UNCHANGED <<content, current>>
    BY <1>6 DEF Remove
  <2>3. current' \in Paths /\ current' # p /\ dir[current'] # 0
    BY <1>1, <2>1, <2>2
  <2> QED
    BY <2>1, <2>2, <2>3, RotatedKeeps
<1> QED
  BY <1>2, <1>3, <1>4, <1>5, <1>6 DEF Server

LEMMA ServerTypes == ASSUME TypeInv, ServerKeeps PROVE TypeInv'
<1>1. /\ content' \in Seq(Seq(Nat)) /\ Len(content) <= Len(content')
      /\ dir' \in [Paths -> 0..Len(content')] /\ current' \in Paths /\ dir'[current'] # 0
      /\ UNCHANGED <<path, file, size, ui, extra, frame, statted, shown>>
  BY DEF ServerKeeps, logtail, panel
<1>2. Len(content) \in Nat /\ Len(content') \in Nat /\ DOMAIN content = 1..Len(content)
      /\ DOMAIN content' = 1..Len(content') /\ \A i \in 1..Len(content') : content'[i] \in Seq(Nat)
  BY <1>1, FileTypes
<1>3. {0} \cup DOMAIN content' = 0..Len(content') /\ Handles \subseteq Handles'
  BY <1>1, <1>2 DEF Handles
<1>4. dir' \in [Paths -> {NoFile} \cup DOMAIN content'] /\ Exists(current)'
  BY <1>1, <1>3 DEF Exists, NoFile
<1>5. TypeOK'
  BY <1>1, <1>2, <1>3, <1>4 DEF TypeInv, TypeOK, Names
<1> QED
  BY <1>1, <1>5 DEF TypeInv, ServerKeeps, panel

LEMMA ServerFollow == ASSUME TypeInv, FollowInv, ServerKeeps PROVE FollowInv'
<1> SUFFICES ASSUME extra = "logtail", ui = "running", ~lag'
             PROVE  /\ file = dir'[path]
                    /\ frame = "idle" =>
                         /\ size <= Len(FileAt(path)')
                         /\ size = Len(FileAt(path)') /\ size # 0 => Shows'
                    /\ frame # "idle" => statted <= Len(FileAt(path)')
                    /\ frame = "nothing" =>
                         statted = 0 \/ (statted = size /\ (statted = Len(FileAt(path)') => Shows'))
  BY DEF FollowInv, ServerKeeps, logtail, panel
<1>1. UNCHANGED <<path, shown>> /\ ~lag /\ lag \in BOOLEAN
  BY DEF ServerKeeps, logtail, panel, TypeInv
<1>2. path \in Paths /\ size \in Nat /\ statted \in Nat
  BY DEF TypeInv, TypeOK, Names
<1>3. dir'[path] = dir[path] /\ (FileAt(path)' = FileAt(path) \/ Len(FileAt(path)') > Len(FileAt(path)))
  BY <1>1, <1>2 DEF ServerKeeps, Kept
<1>4. /\ file = dir[path]
      /\ frame = "idle" =>
           /\ size <= Len(FileAt(path))
           /\ size = Len(FileAt(path)) /\ size # 0 => Shows
      /\ frame # "idle" => statted <= Len(FileAt(path))
      /\ frame = "nothing" =>
           statted = 0 \/ (statted = size /\ (statted = Len(FileAt(path)) => Shows))
  BY <1>1 DEF FollowInv
<1>5. CASE FileAt(path)' = FileAt(path)
  <2>1. Shows => Shows'
    BY <1>1, <1>5 DEF Shows
  <2> QED
    BY <1>3, <1>4, <1>5, <2>1
<1>6. CASE Len(FileAt(path)') > Len(FileAt(path))
  <2>1. PICK m, n : m = Len(FileAt(path)) /\ n = Len(FileAt(path)') /\ n > m /\ m \in Nat
    BY <1>2, <1>6, LogOfPath
  <2>2. n \in Nat
    <3>1. FileAt(path)' \in Seq(Nat)
      <4>1. TypeInv'
        BY ServerTypes
      <4>2. dir'[path] \in 0..Len(content')
        BY <1>2 DEF ServerKeeps
      <4>3. content' \in Seq(Seq(Nat))
        BY DEF ServerKeeps
      <4> QED
        BY <1>1, <4>2, <4>3 DEF FileAt, NoFile
    <3> QED
      BY <2>1, <3>1
  <2> QED
    BY <1>2, <1>3, <1>4, <2>1, <2>2
<1> QED
  BY <1>3, <1>5, <1>6

-----------------------------------------------------------------------------
(* Steps of the panel                                                      *)

\* What a step of the panel needs to keep the types.
LEMMA PanelTypes ==
  ASSUME TypeInv, UNCHANGED server,
         path' \in Names, file' \in Handles, size' \in Nat, statted' \in Nat, lag' \in BOOLEAN,
         ui' \in {"running", "failed", "stopped"}, extra' \in {"none", "logtail", "other"},
         frame' \in {"idle", "read", "nothing"},
         extra' = "logtail" => path' # "none" /\ file' # NoFile,
         frame' # "idle" => extra' = "logtail" /\ ui' = "running",
         shown'.head \in Names \cup {"other"}
  PROVE  TypeInv'
<1>1. UNCHANGED <<content, dir, current, writes>>
  BY DEF server
<1>2. TypeOK'
  BY <1>1 DEF TypeInv, TypeOK, Exists, Handles
<1> QED
  BY <1>1, <1>2 DEF TypeInv, OneName

\* An empty follow-up: another panel or none, or a UI that failed.
LEMMA NotFollowing ==
  ASSUME extra' # "logtail" \/ ui' # "running" \/ lag'
  PROVE  FollowInv'
BY DEF FollowInv

LEMMA KeyTypes ==
  ASSUME TypeInv, FollowInv, Keys
  PROVE  TypeInv' /\ FollowInv'
<1>1. /\ path \in Names /\ file \in Handles /\ size \in Nat /\ statted \in Nat /\ lag \in BOOLEAN
      /\ ui = "running" /\ extra \in {"none", "logtail", "other"} /\ frame = "idle"
      /\ extra = "logtail" => path # "none" /\ file # NoFile
      /\ shown.head \in Names \cup {"other"}
      /\ UNCHANGED server
  BY DEF TypeInv, TypeOK, Keys, OpenPanel, ClosePanel, OpenOther, Pressed
<1>2. Blank.head \in Names \cup {"other"} /\ Closed \in Handles /\ Closed # NoFile
  BY DEF Blank, Names, Closed, NoFile, Handles
<1>3. CASE OpenPanel
  <2>1. PICK p \in CurrentLogfile :
          IF p = "none"
          THEN Fail /\ UNCHANGED <<logtail, extra, statted, shown, lag>>
          ELSE /\ NoFailure
               /\ path' = p
               /\ size' = Forgotten
               /\ UNCHANGED <<frame, statted>>
               /\ IF FileAt(p) = <<>>
                  THEN UNCHANGED <<file, extra, shown, lag>>
                  ELSE /\ file' = dir[p]
                       /\ extra' = "logtail"
                       /\ shown' = IF extra = "none" THEN Blank ELSE shown
                       /\ lag' = FALSE
    BY <1>3 DEF OpenPanel
  <2>2. extra # "logtail"
    BY <1>3 DEF OpenPanel
  <2>3. CASE p = "none"
    <3>1. ui' = "failed" /\ frame' = "idle" /\ UNCHANGED <<path, file, size, extra, statted, shown, lag>>
      BY <2>1, <2>3 DEF Fail, logtail
    <3> QED
      BY <1>1, <3>1, PanelTypes, NotFollowing
  <2>4. CASE p # "none" /\ FileAt(p) = <<>>
    <3>1. p \in Names
      BY LogNames
    <3>2. /\ path' = p /\ size' = 0
          /\ UNCHANGED <<ui, frame, statted, file, extra, shown, lag>>
      BY <2>1, <2>4 DEF NoFailure, Forgotten
    <3> QED
      BY <1>1, <2>2, <3>1, <3>2, PanelTypes, NotFollowing
  <2>5. CASE p # "none" /\ FileAt(p) # <<>>
    <3>1. p \in Paths /\ p \in Names
      BY <2>5, LogNames DEF Names
    <3>2. /\ path' = p /\ size' = 0 /\ file' = dir[p] /\ extra' = "logtail" /\ lag' = FALSE
          /\ shown' = (IF extra = "none" THEN Blank ELSE shown)
          /\ UNCHANGED <<ui, frame, statted>>
      BY <2>1, <2>5 DEF NoFailure, Forgotten
    <3>3. dir[p] \in 1..Len(content) /\ dir[p] # NoFile
      BY <2>5, <3>1, LogOfPath
    <3>4. dir[p] \in Handles
      BY <3>3, FileTypes DEF Handles
    <3>5. shown'.head \in Names \cup {"other"}
      BY <1>1, <1>2, <3>2
    <3>6. TypeInv'
      BY <1>1, <2>5, <3>1, <3>2, <3>3, <3>4, <3>5, PanelTypes
    <3>7. Len(FileAt(path)') \in Nat /\ dir' = dir
      <4>1. FileAt(path)' = FileAt(p) /\ dir' = dir
        BY <1>1, <3>2 DEF FileAt, server
      <4> QED
        BY <3>1, <4>1, LogOfPath
    <3>8. FollowInv'
      BY <1>1, <3>2, <3>7 DEF FollowInv
    <3> QED
      BY <3>6, <3>8
  <2> QED
    BY <2>3, <2>4, <2>5
<1>4. CASE ClosePanel
  <2>1. CASE Opened
    <3>1. /\ file' = Closed /\ extra' = "none" /\ shown' = Blank /\ lag' = FALSE
          /\ UNCHANGED <<ui, frame, path, size, statted>>
      BY <1>4, <2>1 DEF ClosePanel, NoFailure
    <3> QED
      BY <1>1, <1>2, <3>1, PanelTypes, NotFollowing
  <2>2. CASE ~Opened
    <3>1. /\ ui' = "failed" /\ frame' = "idle"
          /\ UNCHANGED <<file, extra, shown, lag, path, size, statted>>
      BY <1>4, <2>2 DEF ClosePanel, Fail
    <3> QED
      BY <1>1, <3>1, PanelTypes, NotFollowing
  <2> QED
    BY <2>1, <2>2
<1>5. CASE OpenOther
  <2>1. /\ extra' \in {"none", "other"} /\ shown' \in {Blank, shown} /\ lag' = FALSE
        /\ UNCHANGED <<ui, path, file, size, frame, statted>>
    BY <1>5 DEF OpenOther, NoFailure, logtail
  <2> QED
    BY <1>1, <1>2, <2>1, PanelTypes, NotFollowing
<1> QED
  BY <1>3, <1>4, <1>5 DEF Keys

\* A frame asks for the size of the log.
LEMMA StatFollow ==
  ASSUME TypeInv, FollowInv, FrameStat
  PROVE  TypeInv' /\ FollowInv'
<1>1. /\ path \in Paths /\ file \in Handles /\ file # NoFile /\ size \in Nat /\ statted \in Nat
      /\ lag \in BOOLEAN /\ ui = "running" /\ extra = "logtail" /\ frame = "idle"
      /\ shown.head \in Names \cup {"other"}
      /\ UNCHANGED <<server, path, file, size, extra, shown>> /\ path # "none"
  BY DEF TypeInv, TypeOK, Names, FrameStat, Pressed, logtail
<1>2. CASE Exists(path)
  <2>1. PICK n : n = Len(FileAt(path)) /\ n \in Nat
    BY <1>1, LogOfPath
  <2>2. FileAt(path)' = FileAt(path) /\ UNCHANGED dir /\ (Shows => Shows')
    BY <1>1 DEF FileAt, server, Shows
  <2>3. /\ statted' = n /\ UNCHANGED ui
        /\ \/ Changed /\ frame' = "read" /\ lag' = IF file = dir[path] THEN FALSE ELSE lag
           \/ ~Changed /\ frame' = "nothing" /\ UNCHANGED lag
    BY <1>2, <2>1 DEF FrameStat, NoFailure
  <2>4. frame' \in {"read", "nothing"} /\ lag' \in BOOLEAN
    BY <1>1, <2>3
  <2>5. TypeInv'
    BY <1>1, <2>1, <2>3, <2>4, PanelTypes DEF Names
  <2>6. CASE frame' = "read"
    <3>1. ~lag' => file = dir[path]
      BY <1>1, <2>3, <2>6 DEF FollowInv
    <3>2. UNCHANGED <<path, file, size, extra, ui>> /\ statted' <= Len(FileAt(path)')
      BY <1>1, <2>1, <2>2, <2>3
    <3> QED
      BY <2>2, <2>5, <2>6, <3>1, <3>2 DEF FollowInv
  <2>7. CASE frame' = "nothing"
    <3>1. UNCHANGED lag /\ (FileAt(path) = <<>> \/ n = size)
      BY <2>1, <2>3, <2>7 DEF Changed
    <3>2. n # 0 => n = size
      BY <2>1, <3>1
    <3>3. UNCHANGED <<path, file, size, extra, ui, lag>> /\ statted' <= Len(FileAt(path)')
      BY <1>1, <2>1, <2>2, <2>3, <3>1
    <3>4. ~lag => file = dir[path]
      BY <1>1 DEF FollowInv
    <3>5. ~lag /\ n = size /\ size # 0 => Shows
      BY <1>1, <2>1 DEF FollowInv
    <3>6. statted' = 0 \/ statted' = size
      BY <2>3, <3>2
    <3>7. ~lag /\ statted' = size /\ size # 0 => Shows'
      BY <2>2, <2>3, <3>5
    <3> QED
      BY <2>2, <2>5, <2>7, <3>3, <3>4, <3>6, <3>7 DEF FollowInv
  <2> QED
    BY <2>4, <2>5, <2>6, <2>7
<1>3. CASE ~Exists(path)
  <2>1. ui' = "failed" /\ frame' = "idle" /\ UNCHANGED <<statted, lag>>
    BY <1>3 DEF FrameStat, Fail
  <2> QED
    BY <1>1, <2>1, PanelTypes, NotFollowing DEF Names
<1> QED
  BY <1>2, <1>3

\* What Reopen leaves: the file of the name it was told, or a closed handle.
LEMMA ReopenedTypes ==
  ASSUME TypeInv, NEW p
  PROVE  /\ Reopened(p) \in Handles /\ Reopened(p) # NoFile
         /\ Reopened(p) # Closed => p \in Paths /\ Reopened(p) = dir[p] /\ dir[p] # NoFile
<1>1. CASE p \in Paths /\ Exists(p)
  <2>1. dir[p] \in 0..Len(content) /\ dir[p] # 0
    BY <1>1, FileTypes DEF Exists, NoFile
  <2>2. dir[p] \in Handles
    BY <2>1, FileTypes DEF Handles
  <2> QED
    BY <1>1, <2>1, <2>2 DEF Reopened, NoFile
<1>2. CASE ~(p \in Paths /\ Exists(p))
  BY <1>2 DEF Reopened, Handles, Closed, NoFile
<1> QED
  BY <1>1, <1>2

\* What a frame shows if it read text, nothing, or what was shown before.
ReadsRight(text) ==
  \/ text = NotRead /\ frame = "nothing"
  \/ /\ text # NotRead /\ frame = "read"
     /\ file = dir[path] => IsRecent(text, FileAt(path))

\* The rest of the frame.
LEMMA FinishFollow ==
  ASSUME TypeInv, FollowInv, NEW text, frame # "idle", ReadsRight(text), Finish(text)
  PROVE  TypeInv' /\ FollowInv'
<1>1. /\ path \in Paths /\ path # "none" /\ file \in Handles /\ file # NoFile
      /\ size \in Nat /\ statted \in Nat
      /\ lag \in BOOLEAN /\ ui = "running" /\ extra = "logtail" /\ frame \in {"read", "nothing"}
      /\ shown.head \in Names \cup {"other"} /\ OneName
      /\ dir \in [Paths -> 0..Len(content)]
  BY FileTypes DEF TypeInv, TypeOK, Names
<1>2. UNCHANGED <<server, extra>> /\ statted' = 0 /\ dir' = dir
  BY DEF Finish, server
<1>3. PICK n : n = Len(FileAt(path)) /\ n \in Nat
  BY <1>1, LogOfPath
<1>4. ~lag => /\ file = dir[path] /\ statted <= n
              /\ frame = "nothing" => statted = 0 \/ (statted = size /\ (statted = n => Shows))
  BY <1>1, <1>3 DEF FollowInv
<1>5. Blank.head \in Names \cup {"other"}
  BY DEF Blank, Names
<1>6. CASE FinishSame(text)
  <2>1. /\ statted >= size /\ frame' = "idle" /\ size' = statted
        /\ UNCHANGED <<ui, path, file, lag>>
        /\ shown' = IF text # NotRead THEN [head |-> path, text |-> text] ELSE shown
    BY <1>1, <1>6 DEF FinishSame, NoFailure, Display
  <2>2. shown'.head \in Names \cup {"other"}
    BY <1>1, <2>1 DEF Names
  <2>3. TypeInv'
    BY <1>1, <1>2, <2>1, <2>2, PanelTypes DEF Names
  <2>4. FileAt(path)' = FileAt(path)
    BY <1>2, <2>1 DEF FileAt, server
  <2>5. ASSUME ~lag, statted = n, statted # 0 PROVE Shows'
    <3>1. CASE text = NotRead
      <4>1. Shows /\ UNCHANGED shown
        BY <1>4, <2>1, <2>5, <3>1 DEF ReadsRight
      <4> QED
        BY <2>1, <2>4, <4>1 DEF Shows
    <3>2. CASE text # NotRead
      <4>1. IsRecent(text, FileAt(path)) /\ shown' = [head |-> path, text |-> text]
        BY <1>4, <2>1, <2>5, <3>2 DEF ReadsRight
      <4>2. shown'.head = path /\ shown'.text = text
        BY <4>1
      <4> QED
        BY <2>1, <2>4, <4>1, <4>2 DEF Shows
    <3> QED
      BY <3>1, <3>2
  <2>6. FollowInv'
    BY <1>2, <1>3, <1>4, <2>1, <2>4, <2>5 DEF FollowInv
  <2> QED
    BY <2>3, <2>6
<1>7. CASE FinishReopen(text)
  <2>1. PICK p \in CurrentLogfile :
          /\ file' = Reopened(p)
          /\ path' = NewPath(p)
          /\ IF Reopened(p) = Closed
             THEN Fail /\ UNCHANGED <<size, shown, lag>>
             ELSE /\ frame' = "idle" /\ size' = statted
                  /\ Display(p, text)
                  /\ lag' = (lag \/ dir[p] # file)
                  /\ NoFailure
    BY <1>7 DEF FinishReopen
  <2>2. p \in Names /\ path' \in Names /\ path' # "none"
    BY <1>1, <2>1, LogNames DEF NewPath, Names
  <2>3. file' \in Handles /\ file' # NoFile
    BY <2>1, ReopenedTypes
  <2>4. statted < size
    BY <1>7 DEF FinishReopen
  <2>5. CASE Reopened(p) = Closed
    <3>1. ui' = "failed" /\ frame' = "idle" /\ UNCHANGED <<size, shown, lag>>
      BY <2>1, <2>5 DEF Fail
    <3> QED
      BY <1>1, <1>2, <2>2, <2>3, <3>1, PanelTypes, NotFollowing
  <2>6. CASE Reopened(p) # Closed
    <3>1. /\ frame' = "idle" /\ size' = statted /\ lag' = (lag \/ dir[p] # file) /\ UNCHANGED ui
          /\ shown' = IF text # NotRead THEN [head |-> p, text |-> text] ELSE Blank
      BY <2>1, <2>4, <2>6 DEF NoFailure, Display
    <3>2. shown'.head \in Names \cup {"other"}
      BY <1>5, <2>2, <3>1
    <3>3. TypeInv'
      BY <1>1, <1>2, <2>2, <2>3, <3>1, <3>2, PanelTypes
    <3>4. ASSUME ~lag'
          PROVE  /\ ~lag /\ path' = path /\ file' = dir[path] /\ p = path
      <4>1. ~lag /\ dir[p] = file /\ p \in Paths /\ file' = dir[p] /\ dir[p] # NoFile
        BY <1>1, <2>1, <2>6, <3>1, <3>4, ReopenedTypes
      <4>2. p = path
        BY <1>1, <1>4, <4>1 DEF OneName
      <4> QED
        BY <1>1, <2>1, <4>1, <4>2 DEF NewPath
    <3>5. FollowInv'
      <4> SUFFICES ASSUME ~lag' PROVE FollowInv'
        BY NotFollowing
      <4>1. ~lag /\ path' = path /\ file' = dir[path] /\ p = path
        BY <3>4
      <4>2. FileAt(path)' = FileAt(path)
        BY <1>2, <4>1 DEF FileAt, server
      <4>3. ASSUME statted = n, statted # 0 PROVE Shows'
        <5>1. text # NotRead
          BY <1>1, <1>4, <2>4, <4>1, <4>3 DEF ReadsRight
        <5>2. IsRecent(text, FileAt(path)) /\ shown' = [head |-> path, text |-> text]
          BY <1>4, <3>1, <4>1, <5>1 DEF ReadsRight
        <5>3. shown'.head = path /\ shown'.text = text
          BY <5>2
        <5> QED
          BY <4>1, <4>2, <5>2, <5>3 DEF Shows
      <4> QED
        BY <1>2, <1>3, <1>4, <3>1, <4>1, <4>2, <4>3 DEF FollowInv
    <3> QED
      BY <3>3, <3>5
  <2> QED
    BY <2>5, <2>6
<1>8. CASE FinishClosed
  <2>1. ui' = "failed" /\ frame' = "idle" /\ UNCHANGED <<path, file, size, shown, lag>>
    BY <1>8 DEF FinishClosed, Fail, logtail
  <2> QED
    BY <1>1, <1>2, <2>1, PanelTypes, NotFollowing DEF Names
<1> QED
  BY <1>6, <1>7, <1>8 DEF Finish

LEMMA FrameFollow ==
  ASSUME TypeInv, FollowInv, Frames
  PROVE  TypeInv' /\ FollowInv'
<1>1. CASE FrameOther
  <2>1. /\ ui = "running" /\ extra = "other" /\ shown' = Other
        /\ UNCHANGED <<server, path, file, size, ui, extra, frame, statted, lag>>
    BY <1>1 DEF FrameOther, Pressed, NoFailure, logtail
  <2>2. shown'.head = "other"
    BY <2>1 DEF Other
  <2>3. /\ path \in Names /\ file \in Handles /\ size \in Nat /\ statted \in Nat /\ lag \in BOOLEAN
        /\ frame \in {"idle", "read", "nothing"} /\ (frame # "idle" => extra = "logtail")
    BY DEF TypeInv, TypeOK
  <2> QED
    BY <2>1, <2>2, <2>3, PanelTypes, NotFollowing
<1>2. CASE FrameStat
  BY <1>2, StatFollow
<1>3. CASE FrameRead
  <2>1. frame = "read" /\ Opened /\ content[file] # <<>> /\ Finish(ReadRecent(content[file]))
    BY <1>3 DEF FrameRead, Readable
  <2>2. path \in Paths /\ file \in 1..Len(content)
    BY <2>1, FileTypes DEF TypeInv, TypeOK, Names, Handles, Opened, NoFile, Closed
  <2>3. content[file] \in Seq(Nat)
    BY <2>2, FileTypes
  <2>4. IsRecent(ReadRecent(content[file]), content[file]) /\ ReadRecent(content[file]) # NotRead
    BY <2>3, ReadsRecent, ReadsBytes
  <2>5. file = dir[path] => FileAt(path) = content[file]
    BY <2>2 DEF FileAt, NoFile
  <2>6. ReadsRight(ReadRecent(content[file]))
    BY <2>1, <2>4, <2>5 DEF ReadsRight
  <2> QED
    BY <2>1, <2>6, FinishFollow
<1>4. CASE FrameReadFails
  <2>1. /\ frame = "read" /\ ui' = "failed" /\ frame' = "idle" /\ statted' = 0
        /\ UNCHANGED <<server, path, file, size, extra, shown, lag>>
    BY <1>4 DEF FrameReadFails, Fail, logtail
  <2>2. /\ path \in Names /\ file \in Handles /\ size \in Nat /\ lag \in BOOLEAN
        /\ extra \in {"none", "logtail", "other"}
        /\ extra = "logtail" => path # "none" /\ file # NoFile
        /\ shown.head \in Names \cup {"other"}
    BY DEF TypeInv, TypeOK
  <2> QED
    BY <2>1, <2>2, PanelTypes, NotFollowing
<1>5. CASE FrameNothing
  <2>1. frame = "nothing" /\ Finish(NotRead) /\ ReadsRight(NotRead)
    BY <1>5 DEF FrameNothing, ReadsRight
  <2> QED
    BY <2>1, FinishFollow
<1> QED
  BY <1>1, <1>2, <1>3, <1>4, <1>5 DEF Frames

LEMMA RestartFollow ==
  ASSUME TypeInv, FollowInv, Restart
  PROVE  TypeInv' /\ FollowInv'
<1>1. /\ path \in Names /\ file \in Handles /\ size \in Nat /\ statted \in Nat /\ lag \in BOOLEAN
      /\ extra \in {"none", "logtail", "other"}
      /\ extra = "logtail" => path # "none" /\ file # NoFile
      /\ shown.head \in Names \cup {"other"}
      /\ ui = "failed" /\ frame = "idle"
      /\ UNCHANGED <<server, path, file, size, extra, frame, statted>>
  BY DEF TypeInv, TypeOK, Restart, logtail
<1>2. Blank.head \in Names \cup {"other"}
  BY DEF Blank, Names
<1>3. CASE ui' = "stopped" /\ UNCHANGED <<shown, lag>>
  BY <1>1, <1>3, PanelTypes, NotFollowing
<1>4. CASE ui' = "running" /\ shown' = Blank /\ lag' = (extra = "logtail")
  BY <1>1, <1>2, <1>4, PanelTypes, NotFollowing
<1> QED
  BY <1>3, <1>4 DEF Restart

-----------------------------------------------------------------------------
LEMMA InitFollow == Init => TypeInv /\ FollowInv
<1> SUFFICES ASSUME Init PROVE TypeInv /\ FollowInv
  OBVIOUS
<1>1. content = <<<<>>>> /\ content \in Seq(Seq(Nat)) /\ DOMAIN content = {1} /\ content[1] = <<>>
  BY DEF Init
<1>2. /\ StartPath \in Paths /\ current = StartPath
      /\ dir = [p \in Paths |-> IF p = StartPath THEN 1 ELSE 0]
  BY LogAssumption DEF Init, NoFile
<1>3. dir \in [Paths -> {NoFile} \cup DOMAIN content] /\ Exists(current)
  BY <1>1, <1>2 DEF Exists, NoFile
<1>4. TypeOK
  <2>1. \A i \in DOMAIN content : content[i] \in Seq(Nat)
    <3>1. <<>> \in Seq(Nat)
      OBVIOUS
    <3> QED
      BY <1>1, <3>1, Zenon
  <2>2. shown.head = "none" /\ shown.head \in Names
    BY DEF Init, Blank, Names
  <2>3. path \in Names /\ file \in Handles /\ size \in Nat
    BY DEF Init, Names, Handles
  <2>4. ui = "running" /\ extra = "none" /\ frame = "idle"
    BY DEF Init
  <2> QED
    BY <1>3, <2>1, <2>2, <2>3, <2>4 DEF TypeOK
<1>5. OneName
  BY <1>2 DEF OneName, NoFile
<1>6. current \in Paths /\ writes \in Nat /\ statted \in Nat /\ lag \in BOOLEAN
  BY <1>2 DEF Init
<1>7. TypeInv
  BY <1>1, <1>4, <1>5, <1>6 DEF TypeInv
<1>8. FollowInv
  BY DEF Init, FollowInv
<1> QED
  BY <1>7, <1>8

LEMMA StepFollow ==
  ASSUME TypeInv, FollowInv, [Next]_vars
  PROVE  TypeInv' /\ FollowInv'
<1>1. CASE Server
  BY <1>1, ServerSteps, ServerTypes, ServerFollow
<1>2. CASE Keys
  BY <1>2, KeyTypes
<1>3. CASE Frames
  BY <1>3, FrameFollow
<1>4. CASE Restart
  BY <1>4, RestartFollow
<1>5. CASE UNCHANGED vars
  <2>1. UNCHANGED <<server, path, file, size, ui, extra, frame, statted, shown, lag>>
    BY <1>5 DEF vars, logtail, panel
  <2>2. UNCHANGED <<content, dir, current, writes>>
    BY <2>1 DEF server
  <2>3. FileAt(path)' = FileAt(path)
    BY <2>1, <2>2 DEF FileAt
  <2>4. Shows' = Shows
    BY <2>1, <2>3 DEF Shows
  <2>5. FollowInv'
    BY <2>1, <2>2, <2>3, <2>4 DEF FollowInv
  <2>6. TypeInv'
    BY <2>1, <2>2 DEF TypeInv, TypeOK, Exists, OneName, Handles
  <2> QED
    BY <2>5, <2>6
<1> QED
  BY <1>1, <1>2, <1>3, <1>4, <1>5 DEF Next

\* A panel that nothing has made lag has the log of its path open and remembers
\* no more of it than there is, between any two steps of a frame and the server.
THEOREM PanelFollows == Spec => [](TypeInv /\ FollowInv)
BY InitFollow, StepFollow, PTL DEF Spec

\* The panel and the files keep their types: a path in use is the name of a log,
\* and a handle in use is that of a file that was opened.
THEOREM LogTypeCorrect == Spec => []TypeOK
<1>1. TypeInv => TypeOK
  BY DEF TypeInv
<1> QED
  BY <1>1, PanelFollows, PTL

\* A panel that does not look at a log of unchanged size has lost nothing of it:
\* whatever is written between the two steps of a frame, and however the log is
\* cut, replaced or removed, it shows the last lines unless it is known to lag.
THEOREM QuietPanelShows == Spec => []QuietMeansShown
<1>1. TypeInv /\ FollowInv => QuietMeansShown
  <2> SUFFICES ASSUME TypeInv, FollowInv,
                      extra = "logtail", ui = "running", frame = "idle", ~lag,
                      FileAt(path) # <<>>, Len(FileAt(path)) = size
               PROVE  shown.head = path /\ IsRecent(shown.text, FileAt(path))
    BY DEF QuietMeansShown
  <2>1. path \in Paths
    BY DEF TypeInv, TypeOK, Names
  <2>2. FileAt(path) \in Seq(Nat) /\ FileAt(path) # <<>>
    BY <2>1, LogOfPath
  <2>3. Len(FileAt(path)) # 0
    BY <2>2
  <2>4. Shows
    BY <2>3 DEF FollowInv
  <2> QED
    BY <2>4 DEF Shows
<1> QED
  BY <1>1, PanelFollows, PTL
==============================================================================
