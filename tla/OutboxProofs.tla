----------------------------- MODULE OutboxProofs -----------------------------
(***************************************************************************)
(* That the files of a session are an append-only log, that a line which   *)
(* is lost is reported, and that no file outgrows its limit, for any       *)
(* number of emitters, lines, cleanups and restarts.                       *)
(***************************************************************************)
EXTENDS Outbox, TLAPS, WellFoundedInduction

Holds(e) == jobs[e].step \in {"append", "rename", "reopen"}
Framed(e) == jobs[e].step \in {"framed", "append"}

\* The lock is one emitter's, who has a writer; in the middle of a rotation no file is active.
Lock ==
    /\ \A e, d \in Emitters : Holds(e) /\ Holds(d) => e = d
    /\ \A e \in Emitters :
          /\ Holds(e) => writer # NoWriter
          /\ jobs[e].step = "reopen" => disk.active = NoFile

\* The handle is that of the active file, if there is one, and the next number is free.
Handle ==
    writer # NoWriter =>
        /\ writer.file \in Files
        /\ writer.seq > 0 /\ \A n \in DOMAIN disk.segs : n < writer.seq
        /\ disk.active # NoFile => disk.active = writer.file

\* A file has one name, and there is a last segment.
Named ==
    /\ \A m, n \in Names : FileAt(m) = FileAt(n) => m = n
    /\ \E n \in Nat : \A s \in DOMAIN disk.segs : s <= n

\* What is written to is read last, wherever it has got to.
Placed ==
    writer # NoWriter =>
        \A n \in Names : FileAt(n) = writer.file => \A m \in Names \ {n} : Earlier(m, n)

\* A line that is still to be written is written nowhere, and nobody else writes it.
Fresh ==
    /\ \A e \in Emitters : jobs[e].step \notin {"idle", "mark"} => jobs[e].line # 0
    /\ \A f \in Files : \A i \in DOMAIN inodes[f] : inodes[f][i].line \in 1..hist.lines
    /\ \A e \in Emitters : Framed(e) =>
          /\ \A f \in Files : \A i \in DOMAIN inodes[f] : inodes[f][i].line # jobs[e].line
          /\ \A d \in Emitters : Framed(d) /\ jobs[d].line = jobs[e].line => d = e

LogInv == TypeOK /\ Lock /\ Handle /\ Named /\ Placed /\ Fresh

\* Until an append fails, only earlier processes have torn lines, and what is written
\* goes to the active file.
OldTears ==
    ~ failed =>
        \A f \in Files : \A i \in DOMAIN inodes[f] :
            ~ inodes[f][i].whole => inodes[f][i].line <= hist.before

OnActive ==
    ~ failed /\ ~ hist.cleaned /\ writer # NoWriter =>
        writer.file = disk.active \/ \E e \in Emitters : jobs[e].step = "reopen"

Cleaned == cleaner # "idle" => hist.cleaned

\* What is written can be read, from the append on.
Known(line) == Readable(line) \/ BehindAnOldTear(line)

Kept ==
    ~ failed /\ ~ hist.cleaned =>
        /\ \A line \in hist.returned : Known(line)
        /\ \A e \in Emitters : jobs[e].step \in {"rename", "reopen", "store"} => Known(jobs[e].line)

LossInv == LogInv /\ OldTears /\ OnActive /\ Cleaned /\ Kept

\* A file that goes on being written is not yet too long, but for what restarts add.
Sized ==
    ~ hist.failures =>
        /\ \A f \in Files : Len(inodes[f]) <= limit + 1 + hist.restarts
        /\ writer # NoWriter =>
              /\ writer.size = Len(inodes[writer.file])
              /\ (\A e \in Emitters : jobs[e].step \notin {"rename", "reopen"}) =>
                     writer.size <= limit + hist.restarts
        /\ writer = NoWriter /\ disk.active # NoFile =>
              Len(inodes[disk.active]) <= limit + hist.restarts

SizeInv == LogInv /\ Sized

\* The part of it about files: what is written, under which names, by whom.
Stored ==
    /\ inodes \in Seq(Seq(Pieces))
    /\ DOMAIN disk = {"dir", "active", "segs", "marker"}
    /\ disk.dir \in BOOLEAN /\ disk.marker \in BOOLEAN
    /\ disk.active \in Files \cup {NoFile}
    /\ DOMAIN disk.segs \subseteq Nat \ {0} /\ Range(disk.segs) \subseteq Files
    /\ writer \in [file : Files \cup {NoFile}, size : Nat, seq : Nat]
    /\ Handle /\ Named /\ Placed

\* What is read remains, at the same places of files that may have other names.
Carried ==
    \A n \in Names : \E k \in Names' : \A i \in DOMAIN Contents[n] :
        i \in DOMAIN Contents'[k] /\ Contents'[k][i] = Contents[n][i]

\* Steps that leave what is read alone, add to it, and remove it.
Alike ==
    /\ PiecesOf(Contents') = PiecesOf(Contents) /\ OrderOf(Contents') = OrderOf(Contents)
    /\ Carried

Longer(piece) ==
    /\ PiecesOf(Contents') = PiecesOf(Contents) \cup {piece}
    /\ OrderOf(Contents') = OrderOf(Contents) \cup (PiecesOf(Contents) \X {piece})
    /\ Carried

Emptied == PiecesOf(Contents') = {} /\ OrderOf(Contents') = {}

\* A piece goes to the file of the writer, which may be gone afterwards.
Wrote(piece) ==
    /\ writer # NoWriter /\ Writes(writer.file, piece)
    /\ UNCHANGED disk
    /\ \/ writer' = NoWriter
       \/ /\ writer' \in [file : {writer.file}, size : Nat, seq : {writer.seq}]

-----------------------------------------------------------------------------
(* Numbers.                                                                *)

\* A nonempty set of numbers with a bound has a greatest one.
LEMMA MaxIs ==
    ASSUME NEW S \in SUBSET Nat, S # {}, NEW n \in Nat, \A s \in S : s <= n
    PROVE  Max(S) \in S /\ \A s \in S : s <= Max(S)
<1> DEFINE Gaps == {n - s : s \in S}
           Less == OpToRel(<, Nat)
<1>1. Gaps \subseteq Nat
  OBVIOUS
<1>2. Gaps # {}
  OBVIOUS
<1>3. \A x, y \in Nat : <<x, y>> \in Less <=> x < y
  BY DEF OpToRel
<1> HIDE DEF Less
<1>4. IsWellFoundedOn(Less, Nat)
  BY NatLessThanWellFounded DEF Less
<1>5. PICK gap \in Gaps : \A other \in Gaps : ~ (<<other, gap>> \in Less)
  BY <1>1, <1>2, <1>4, WFMin
<1>6. PICK m \in S : gap = n - m
  OBVIOUS
<1>7. ASSUME NEW s \in S
      PROVE  s <= m
  <2>1. ~ (n - s < n - m)
    BY <1>1, <1>3, <1>5, <1>6
  <2> QED
    BY <2>1
<1> QED
  BY <1>6, <1>7 DEF Max

-----------------------------------------------------------------------------
(* What is read.                                                           *)

\* The pieces of some files, one by one, and their order.
LEMMA PieceOf ==
    ASSUME NEW C
    PROVE  \A x : x \in PiecesOf(C) <=> (\E n \in DOMAIN C : \E i \in DOMAIN C[n] : x = C[n][i])
  BY DEF PiecesOf, Range

LEMMA OrderedIn ==
    ASSUME NEW C
    PROVE  \A x : x \in OrderOf(C) <=> (\E p, q : x = <<p, q>> /\ ReadBefore(C, p, q))
<1>1. ASSUME NEW x \in OrderOf(C)
      PROVE  \E p, q : x = <<p, q>> /\ ReadBefore(C, p, q)
  BY DEF OrderOf
<1>2. ASSUME NEW p, NEW q, ReadBefore(C, p, q)
      PROVE  <<p, q>> \in OrderOf(C)
  <2>1. p \in PiecesOf(C) /\ q \in PiecesOf(C)
    BY <1>2, PieceOf DEF ReadBefore
  <2> QED
    BY <1>2, <2>1 DEF OrderOf
<1> QED
  BY <1>1, <1>2

\* New names for the same files in the same order, and further files that are empty,
\* are read alike.
Renames(C, D, g) ==
    /\ \A n \in DOMAIN C : g[n] \in DOMAIN D /\ D[g[n]] = C[n]
    /\ \A m, n \in DOMAIN C : Earlier(g[m], g[n]) <=> Earlier(m, n)
    /\ \A m, n \in DOMAIN C : g[m] = g[n] => m = n
    /\ \A k \in DOMAIN D : (\E n \in DOMAIN C : k = g[n]) \/ DOMAIN D[k] = {}

LEMMA ReadAlike ==
    ASSUME NEW C, NEW D, NEW g, Renames(C, D, g)
    PROVE  PiecesOf(D) = PiecesOf(C) /\ OrderOf(D) = OrderOf(C)
<1>0. /\ \A n \in DOMAIN C : g[n] \in DOMAIN D /\ D[g[n]] = C[n]
      /\ \A m, n \in DOMAIN C : Earlier(g[m], g[n]) <=> Earlier(m, n)
      /\ \A m, n \in DOMAIN C : g[m] = g[n] => m = n
      /\ \A k \in DOMAIN D : (\E n \in DOMAIN C : k = g[n]) \/ DOMAIN D[k] = {}
  BY DEF Renames
<1>1. PiecesOf(D) = PiecesOf(C)
  <2>1. ASSUME NEW x \in PiecesOf(C)
        PROVE  x \in PiecesOf(D)
    <3>1. PICK n, i : n \in DOMAIN C /\ i \in DOMAIN C[n] /\ x = C[n][i]
      BY PieceOf
    <3>2. g[n] \in DOMAIN D /\ i \in DOMAIN D[g[n]] /\ x = D[g[n]][i]
      BY <1>0, <3>1
    <3> QED
      BY <3>2, PieceOf
  <2>2. ASSUME NEW x \in PiecesOf(D)
        PROVE  x \in PiecesOf(C)
    <3>1. PICK k, i : k \in DOMAIN D /\ i \in DOMAIN D[k] /\ x = D[k][i]
      BY PieceOf
    <3>2. PICK n \in DOMAIN C : k = g[n]
      BY <1>0, <3>1
    <3>3. i \in DOMAIN C[n] /\ x = C[n][i]
      BY <1>0, <3>1, <3>2
    <3> QED
      BY <3>2, <3>3, PieceOf
  <2> QED
    BY <2>1, <2>2
<1>2. ASSUME NEW p, NEW q
      PROVE  ReadBefore(C, p, q) <=> ReadBefore(D, p, q)
  <2>1. ASSUME ReadBefore(C, p, q)
        PROVE  ReadBefore(D, p, q)
    <3>1. PICK m, n, i, j :
              /\ m \in DOMAIN C /\ n \in DOMAIN C
              /\ i \in DOMAIN C[m] /\ j \in DOMAIN C[n]
              /\ p = C[m][i] /\ q = C[n][j]
              /\ Earlier(m, n) \/ (m = n /\ i < j)
      BY <2>1 DEF ReadBefore
    <3>2. /\ g[m] \in DOMAIN D /\ g[n] \in DOMAIN D
          /\ i \in DOMAIN D[g[m]] /\ j \in DOMAIN D[g[n]]
          /\ p = D[g[m]][i] /\ q = D[g[n]][j]
          /\ Earlier(g[m], g[n]) \/ (g[m] = g[n] /\ i < j)
      BY <1>0, <3>1
    <3> QED
      BY <3>2 DEF ReadBefore
  <2>2. ASSUME ReadBefore(D, p, q)
        PROVE  ReadBefore(C, p, q)
    <3>1. PICK k, l, i, j :
              /\ k \in DOMAIN D /\ l \in DOMAIN D
              /\ i \in DOMAIN D[k] /\ j \in DOMAIN D[l]
              /\ p = D[k][i] /\ q = D[l][j]
              /\ Earlier(k, l) \/ (k = l /\ i < j)
      BY <2>2 DEF ReadBefore
    <3>2. PICK m \in DOMAIN C, n \in DOMAIN C : k = g[m] /\ l = g[n]
      BY <1>0, <3>1
    <3>3. /\ i \in DOMAIN C[m] /\ j \in DOMAIN C[n]
          /\ p = C[m][i] /\ q = C[n][j]
          /\ Earlier(m, n) \/ (m = n /\ i < j)
      BY <1>0, <3>1, <3>2
    <3> QED
      BY <3>3 DEF ReadBefore
  <2> QED
    BY <2>1, <2>2
<1>3. OrderOf(D) = OrderOf(C)
  <2>1. ASSUME NEW x
        PROVE  x \in OrderOf(D) <=> x \in OrderOf(C)
    <3>1. x \in OrderOf(D) <=> (\E p, q : x = <<p, q>> /\ ReadBefore(D, p, q))
      BY OrderedIn
    <3>2. x \in OrderOf(C) <=> (\E p, q : x = <<p, q>> /\ ReadBefore(C, p, q))
      BY OrderedIn
    <3> QED
      BY <1>2, <3>1, <3>2
  <2> QED
    BY <2>1 DEF OrderOf
<1> QED
  BY <1>1, <1>3

\* A piece at the end of the last file is read last.
AppendsTo(C, D, n0, piece) ==
    /\ n0 \in DOMAIN C /\ C[n0] \in Seq(Pieces) /\ piece \in Pieces
    /\ DOMAIN C \subseteq Nat /\ DOMAIN D = DOMAIN C
    /\ \A n \in DOMAIN C : D[n] = IF n = n0 THEN Append(C[n0], piece) ELSE C[n]
    /\ \A m \in DOMAIN C \ {n0} : Earlier(m, n0)

LEMMA ReadOn ==
    ASSUME NEW C, NEW D, NEW n0, NEW piece, AppendsTo(C, D, n0, piece)
    PROVE  /\ PiecesOf(D) = PiecesOf(C) \cup {piece}
           /\ OrderOf(D) = OrderOf(C) \cup (PiecesOf(C) \X {piece})
<1>0. /\ n0 \in DOMAIN C /\ C[n0] \in Seq(Pieces) /\ piece \in Pieces
      /\ DOMAIN C \subseteq Nat /\ DOMAIN D = DOMAIN C
      /\ \A n \in DOMAIN C : D[n] = IF n = n0 THEN Append(C[n0], piece) ELSE C[n]
      /\ \A m \in DOMAIN C \ {n0} : Earlier(m, n0)
  BY DEF AppendsTo
<1> DEFINE last == Len(C[n0]) + 1
<1>1. /\ Len(C[n0]) \in Nat /\ DOMAIN C[n0] = 1..Len(C[n0])
      /\ DOMAIN D[n0] = DOMAIN C[n0] \cup {last} /\ last \notin DOMAIN C[n0]
      /\ \A i \in DOMAIN C[n0] : D[n0][i] = C[n0][i] /\ i < last /\ ~ (last < i)
      /\ D[n0][last] = piece /\ ~ (last < last)
  <2>1. D[n0] = Append(C[n0], piece)
    BY <1>0
  <2> QED
    BY <1>0, <2>1
<1>2. \A n \in DOMAIN C : n # n0 => D[n] = C[n] /\ ~ Earlier(n0, n)
  BY <1>0 DEF Earlier, Active
<1>3. ~ Earlier(n0, n0)
  BY <1>0 DEF Earlier, Active
<1> HIDE DEF last
<1>4. \A n \in DOMAIN C : DOMAIN C[n] \subseteq DOMAIN D[n] /\ \A i \in DOMAIN C[n] : D[n][i] = C[n][i]
  BY <1>0, <1>1, <1>2
<1>5. \A n \in DOMAIN D : \A i \in DOMAIN D[n] :
          (n \in DOMAIN C /\ i \in DOMAIN C[n] /\ D[n][i] = C[n][i])
            \/ (n = n0 /\ i = last /\ D[n][i] = piece)
  BY <1>0, <1>1, <1>2
<1>6. PiecesOf(D) = PiecesOf(C) \cup {piece}
  <2>1. ASSUME NEW x \in PiecesOf(C)
        PROVE  x \in PiecesOf(D)
    <3>1. PICK n, i : n \in DOMAIN C /\ i \in DOMAIN C[n] /\ x = C[n][i]
      BY PieceOf
    <3>2. n \in DOMAIN D /\ i \in DOMAIN D[n] /\ x = D[n][i]
      BY <1>0, <1>4, <3>1
    <3> QED
      BY <3>2, PieceOf
  <2>2. piece \in PiecesOf(D)
    BY <1>0, <1>1, PieceOf
  <2>3. ASSUME NEW x \in PiecesOf(D), x # piece
        PROVE  x \in PiecesOf(C)
    <3>1. PICK n, i : n \in DOMAIN D /\ i \in DOMAIN D[n] /\ x = D[n][i]
      BY PieceOf
    <3> QED
      BY <1>5, <2>3, <3>1, PieceOf
  <2> QED
    BY <2>1, <2>2, <2>3
<1>7. ASSUME NEW p, NEW q
      PROVE  ReadBefore(D, p, q) <=> ReadBefore(C, p, q) \/ (p \in PiecesOf(C) /\ q = piece)
  <2>1. ASSUME ReadBefore(C, p, q)
        PROVE  ReadBefore(D, p, q)
    <3>1. PICK m, n, i, j :
              /\ m \in DOMAIN C /\ n \in DOMAIN C
              /\ i \in DOMAIN C[m] /\ j \in DOMAIN C[n]
              /\ p = C[m][i] /\ q = C[n][j]
              /\ Earlier(m, n) \/ (m = n /\ i < j)
      BY <2>1 DEF ReadBefore
    <3>2. /\ m \in DOMAIN D /\ n \in DOMAIN D /\ i \in DOMAIN D[m] /\ j \in DOMAIN D[n]
          /\ p = D[m][i] /\ q = D[n][j]
      BY <1>0, <1>4, <3>1
    <3> QED
      BY <3>1, <3>2 DEF ReadBefore
  <2>2. ASSUME p \in PiecesOf(C), q = piece
        PROVE  ReadBefore(D, p, q)
    <3>1. PICK m, i : m \in DOMAIN C /\ i \in DOMAIN C[m] /\ p = C[m][i]
      BY <2>2, PieceOf
    <3>2. m \in DOMAIN D /\ i \in DOMAIN D[m] /\ p = D[m][i]
      BY <1>0, <1>4, <3>1
    <3>3. n0 \in DOMAIN D /\ last \in DOMAIN D[n0] /\ q = D[n0][last]
      BY <1>0, <1>1, <2>2
    <3>4. Earlier(m, n0) \/ (m = n0 /\ i < last)
      BY <1>0, <1>1, <3>1
    <3> QED
      BY <3>2, <3>3, <3>4 DEF ReadBefore
  <2>3. ASSUME ReadBefore(D, p, q)
        PROVE  ReadBefore(C, p, q) \/ (p \in PiecesOf(C) /\ q = piece)
    <3>1. PICK m, n, i, j :
              /\ m \in DOMAIN D /\ n \in DOMAIN D
              /\ i \in DOMAIN D[m] /\ j \in DOMAIN D[n]
              /\ p = D[m][i] /\ q = D[n][j]
              /\ Earlier(m, n) \/ (m = n /\ i < j)
      BY <2>3 DEF ReadBefore
    <3>2. CASE m = n0 /\ i = last
      <4>1. ~ Earlier(m, n)
        BY <1>0, <1>2, <1>3, <3>1, <3>2
      <4> QED
        BY <1>1, <3>1, <3>2, <4>1
    <3>3. CASE m \in DOMAIN C /\ i \in DOMAIN C[m] /\ D[m][i] = C[m][i]
      <4>1. p \in PiecesOf(C)
        BY <3>1, <3>3, PieceOf
      <4>2. CASE n \in DOMAIN C /\ j \in DOMAIN C[n] /\ D[n][j] = C[n][j]
        BY <3>1, <3>3, <4>2 DEF ReadBefore
      <4>3. CASE n = n0 /\ j = last /\ D[n][j] = piece
        BY <3>1, <4>1, <4>3
      <4> QED
        BY <1>0, <1>5, <3>1, <4>2, <4>3
    <3> QED
      BY <1>0, <1>5, <3>1, <3>2, <3>3
  <2> QED
    BY <2>1, <2>2, <2>3
<1>8. OrderOf(D) = OrderOf(C) \cup (PiecesOf(C) \X {piece})
  <2>1. ASSUME NEW x
        PROVE  x \in OrderOf(D) <=> x \in OrderOf(C) \cup (PiecesOf(C) \X {piece})
    <3>1. x \in OrderOf(D) <=> (\E p, q : x = <<p, q>> /\ ReadBefore(D, p, q))
      BY OrderedIn
    <3>2. x \in OrderOf(C) <=> (\E p, q : x = <<p, q>> /\ ReadBefore(C, p, q))
      BY OrderedIn
    <3>3. x \in PiecesOf(C) \X {piece} <=> (\E p, q : x = <<p, q>> /\ p \in PiecesOf(C) /\ q = piece)
      OBVIOUS
    <3> QED
      BY <1>7, <3>1, <3>2, <3>3
  <2> QED
    BY <2>1
<1> QED
  BY <1>6, <1>8

-----------------------------------------------------------------------------
(* The files.                                                              *)

LEMMA FileTypes ==
    ASSUME Stored
    PROVE  /\ Len(inodes) \in Nat /\ Files = DOMAIN inodes /\ NoFile \notin Files
           /\ Len(inodes) + 1 \notin Files
           /\ \A f \in Files : inodes[f] \in Seq(Pieces)
  BY DEF Stored, Files, NoFile

LEMMA NameTypes ==
    ASSUME Stored
    PROVE  /\ Names \subseteq Nat /\ Active \notin DOMAIN disk.segs /\ Active \in Nat
           /\ DOMAIN disk.segs \subseteq Nat \ {0}
           /\ \A n \in Names : FileAt(n) \in Files
           /\ \A n \in DOMAIN disk.segs : n \in Names /\ FileAt(n) = disk.segs[n]
           /\ FileAt(Active) = disk.active
           /\ Active \in Names <=> disk.active # NoFile
           /\ \A n \in Names : n # Active => n \in DOMAIN disk.segs
<1>1. Active \notin DOMAIN disk.segs /\ Active \in Nat /\ DOMAIN disk.segs \subseteq Nat \ {0}
  BY DEF Stored, Active
<1>2. \A n \in Names : n # Active => n \in DOMAIN disk.segs
  BY DEF Names
<1>3. \A n \in DOMAIN disk.segs : disk.segs[n] \in Files
  BY DEF Stored, Range
<1>4. Active \in Names <=> disk.active # NoFile
  BY <1>1 DEF Names
<1>5. disk.active # NoFile => disk.active \in Files
  BY DEF Stored
<1>6. FileAt(Active) = disk.active
  BY DEF FileAt
<1>7. \A n \in DOMAIN disk.segs : n \in Names /\ FileAt(n) = disk.segs[n]
  BY <1>1 DEF FileAt, Names
<1>8. \A n \in Names : FileAt(n) \in Files
  BY <1>2, <1>3, <1>4, <1>5, <1>6, <1>7
<1>9. Names \subseteq Nat
  BY <1>1, <1>2
<1> QED
  BY <1>1, <1>2, <1>4, <1>6, <1>7, <1>8, <1>9

LEMMA Reads ==
    /\ DOMAIN Contents = Names
    /\ \A n \in Names : Contents[n] = inodes[FileAt(n)]
  BY DEF Contents

\* Where no file is touched that has a name.
LEMMA NamesStay ==
    ASSUME Stored, UNCHANGED disk, \A n \in Names : inodes'[FileAt(n)] = inodes[FileAt(n)]
    PROVE  Alike /\ Names' = Names /\ \A n \in Names : FileAt(n)' = FileAt(n)
<1>1. Names' = Names /\ \A n : FileAt(n)' = FileAt(n)
  BY DEF Names, FileAt
<1>2. Contents' = Contents
  BY <1>1 DEF Contents
<1>3. Carried
  BY <1>1, <1>2, Reads DEF Carried
<1> QED
  BY <1>1, <1>2, <1>3 DEF Alike

\* The next number is greater than that of any segment.
LEMMA NextIsFree ==
    ASSUME Stored
    PROVE  NextSeq \in Nat \ {0} /\ \A n \in DOMAIN disk.segs : n < NextSeq
<1> DEFINE S == DOMAIN disk.segs \cup {0}
<1>1. S \in SUBSET Nat /\ S # {}
  BY DEF Stored
<1>2. PICK n \in Nat : \A s \in DOMAIN disk.segs : s <= n
  BY DEF Stored, Named
<1>3. \A s \in S : s <= n
  BY <1>2
<1> HIDE DEF S
<1>4. Max(S) \in S /\ \A s \in S : s <= Max(S)
  BY <1>1, <1>3, MaxIs
<1>5. NextSeq = Max(S) + 1
  BY DEF NextSeq, S
<1>6. Max(S) \in Nat /\ \A s \in DOMAIN disk.segs : s \in Nat /\ s <= Max(S)
  BY <1>1, <1>4 DEF S
<1> QED
  BY <1>5, <1>6

\* A new active file, where there is none, and a handle to it.
LEMMA NewFile ==
    ASSUME Stored, disk.active = NoFile,
           inodes' = Append(inodes, <<>>),
           disk' \in [dir : BOOLEAN, active : {Len(inodes) + 1}, segs : {disk.segs},
                      marker : BOOLEAN],
           writer'.file = Len(inodes) + 1, writer'.size = 0, writer'.seq \in Nat \ {0},
           writer' \in [file : Nat, size : Nat, seq : Nat],
           \A n \in DOMAIN disk.segs : n < writer'.seq
    PROVE  Stored' /\ Alike
<1>1. /\ Files' = Files \cup {Len(inodes) + 1}
      /\ \A f \in Files : inodes'[f] = inodes[f]
      /\ inodes'[Len(inodes) + 1] = <<>>
      /\ inodes' \in Seq(Seq(Pieces))
  <2>1. inodes \in Seq(Seq(Pieces)) /\ <<>> \in Seq(Pieces)
    BY DEF Stored
  <2> QED
    BY <2>1 DEF Files
<1>2. disk'.active = Len(inodes) + 1 /\ disk'.segs = disk.segs
  OBVIOUS
<1>3. Len(inodes) + 1 # NoFile /\ Len(inodes) + 1 \notin Files
  BY FileTypes DEF NoFile
<1>4. /\ Names' = Names \cup {Active} /\ Active \notin Names
      /\ \A n \in Names : FileAt(n)' = FileAt(n)
      /\ FileAt(Active)' = Len(inodes) + 1
  BY <1>2, <1>3, NameTypes DEF Names, FileAt
<1>5. /\ Contents'[Active] = <<>>
      /\ \A n \in Names : Contents'[n] = Contents[n]
      /\ DOMAIN Contents' = DOMAIN Contents \cup {Active}
  <2>1. \A n \in Names : FileAt(n) \in Files
    BY NameTypes
  <2> QED
    BY <1>1, <1>4, <2>1 DEF Contents
<1>6. Alike
  <2> DEFINE g == [n \in Names |-> n]
  <2>1. DOMAIN Contents = Names /\ \A n \in Names : g[n] = n
    BY Reads
  <2> HIDE DEF g
  <2>2. Renames(Contents, Contents', g)
    BY <1>5, <2>1 DEF Renames
  <2>4. PiecesOf(Contents') = PiecesOf(Contents) /\ OrderOf(Contents') = OrderOf(Contents)
    BY <2>2, ReadAlike
  <2>5. Carried
    BY <1>4, <1>5 DEF Carried
  <2> QED
    BY <2>4, <2>5 DEF Alike
<1>7. Handle'
  BY <1>1, <1>2 DEF Handle
<1>8. Named'
  <2>1. \A n \in Names : FileAt(n) # Len(inodes) + 1
    BY <1>3, NameTypes
  <2>2. \A m, n \in Names : FileAt(m) = FileAt(n) => m = n
    BY DEF Stored, Named
  <2>3. ASSUME NEW m \in Names', NEW n \in Names', FileAt(m)' = FileAt(n)'
        PROVE  m = n
    <3>1. CASE m \in Names /\ n \in Names
      BY <1>4, <2>2, <2>3, <3>1
    <3>2. CASE m = Active \/ n = Active
      BY <1>4, <2>1, <2>3, <3>2
    <3> QED
      BY <1>4, <3>1, <3>2
  <2> QED
    BY <1>2, <2>3 DEF Stored, Named
<1>9. Placed'
  <2>1. \A n \in Names' : FileAt(n)' = writer'.file => n = Active
    BY <1>3, <1>4, NameTypes
  <2>2. \A m : m # Active => Earlier(m, Active)
    BY DEF Earlier
  <2> QED
    BY <2>1, <2>2 DEF Placed
<1>10. DOMAIN disk.segs \subseteq Nat \ {0} /\ Range(disk.segs) \subseteq Files
  BY DEF Stored
<1>11. /\ disk'.active \in Files' \cup {NoFile} /\ writer'.file \in Files'
       /\ Range(disk'.segs) \subseteq Files' /\ DOMAIN disk'.segs \subseteq Nat \ {0}
  BY <1>1, <1>2, <1>10
<1>12. writer' \in [file : Files' \cup {NoFile}, size : Nat, seq : Nat]
  BY <1>11
<1> QED
  BY <1>1, <1>6, <1>7, <1>8, <1>9, <1>11, <1>12 DEF Stored

\* An opened writer.
LEMMA OpensKeeps ==
    ASSUME Stored, Opens
    PROVE  Stored' /\ Alike /\ writer' # NoWriter
<1>1. CASE /\ disk.active # NoFile
           /\ writer' = [file |-> disk.active, size |-> Len(inodes[disk.active]), seq |-> NextSeq]
           /\ UNCHANGED <<inodes, disk>>
  <2>1. Alike /\ Names' = Names /\ \A n \in Names : FileAt(n)' = FileAt(n)
    BY <1>1, NamesStay
  <2>2. disk.active \in Files /\ inodes[disk.active] \in Seq(Pieces)
    BY <1>1, FileTypes DEF Stored
  <2>3. writer' \in [file : Files, size : Nat, seq : Nat \ {0}]
    BY <1>1, <2>2, NextIsFree
  <2>4. Handle'
    BY <1>1, <2>2, NextIsFree DEF Handle, Files
  <2>5. Named'
    BY <1>1, <2>1 DEF Stored, Named
  <2>6. Placed'
    <3>1. \A n \in Names : FileAt(n) = disk.active => n = Active
      BY <1>1, NameTypes DEF Stored, Named
    <3>2. \A m : m # Active => Earlier(m, Active)
      BY DEF Earlier
    <3> QED
      BY <1>1, <2>1, <3>1, <3>2 DEF Placed
  <2>7. writer' # NoWriter
    BY <1>1 DEF NoWriter
  <2> QED
    BY <1>1, <2>1, <2>3, <2>4, <2>5, <2>6, <2>7 DEF Stored, Files
<1>2. CASE /\ disk.active = NoFile
           /\ inodes' = Append(inodes, <<>>)
           /\ disk' = [disk EXCEPT !.dir = TRUE, !.active = Len(inodes) + 1]
           /\ writer' = [file |-> Len(inodes) + 1, size |-> 0, seq |-> NextSeq]
  <2>1. disk' \in [dir : BOOLEAN, active : {Len(inodes) + 1}, segs : {disk.segs}, marker : BOOLEAN]
    BY <1>2 DEF Stored
  <2>2. /\ writer'.file = Len(inodes) + 1 /\ writer'.size = 0 /\ writer'.seq = NextSeq
        /\ writer' \in [file : Nat, size : Nat, seq : Nat]
    BY <1>2, FileTypes, NextIsFree
  <2>3. Stored' /\ Alike
    BY <1>2, <2>1, <2>2, NewFile, NextIsFree
  <2>4. writer' # NoWriter
    BY <2>2, FileTypes DEF NoWriter, NoFile
  <2> QED
    BY <2>3, <2>4
<1> QED
  BY <1>1, <1>2 DEF Opens

\* Steps that may make the directory or the marker, or lose the writer.
LEMMA NothingWritten ==
    ASSUME Stored, UNCHANGED inodes,
           disk' \in [dir : BOOLEAN, active : {disk.active}, segs : {disk.segs}, marker : BOOLEAN],
           writer' \in {writer, NoWriter}
    PROVE  Stored' /\ Alike
<1>1. disk'.active = disk.active /\ disk'.segs = disk.segs
  OBVIOUS
<1>2. Names' = Names /\ \A n : FileAt(n)' = FileAt(n)
  BY <1>1 DEF Names, FileAt
<1>3. Contents' = Contents
  BY <1>2 DEF Contents
<1>4. Carried
  BY <1>2, <1>3, Reads DEF Carried
<1>5. Alike
  BY <1>3, <1>4 DEF Alike
<1>6. Handle' /\ Named' /\ Placed'
  BY <1>1, <1>2 DEF Stored, Handle, Named, Placed, Files
<1>7. NoWriter \in [file : Files \cup {NoFile}, size : Nat, seq : Nat]
  BY DEF NoWriter
<1> QED
  BY <1>1, <1>5, <1>6, <1>7 DEF Stored, Files

\* A directory without files.
LEMMA EmptiedKeeps ==
    ASSUME Stored, UNCHANGED <<inodes, writer>>,
           disk' = EmptyDir \/ disk' = [EmptyDir EXCEPT !.dir = TRUE]
    PROVE  Stored' /\ Emptied
<1>1. /\ disk'.active = NoFile /\ DOMAIN disk'.segs = {}
      /\ DOMAIN disk' = {"dir", "active", "segs", "marker"}
      /\ disk'.dir \in BOOLEAN /\ disk'.marker \in BOOLEAN
  <2>1. PICK dir \in BOOLEAN :
            disk' = [dir |-> dir, active |-> NoFile, segs |-> <<>>, marker |-> FALSE]
    BY DEF EmptyDir
  <2>2. disk'.active = NoFile /\ disk'.segs = <<>>
    BY <2>1
  <2>3. DOMAIN disk'.segs = {}
    BY <2>2
  <2>4. disk'.dir \in BOOLEAN /\ disk'.marker \in BOOLEAN
    BY <2>1
  <2>5. DOMAIN disk' = {"dir", "active", "segs", "marker"}
    BY <2>1
  <2> QED
    BY <2>2, <2>3, <2>4, <2>5
<1>2. Names' = {}
  BY <1>1 DEF Names
<1>3. DOMAIN Contents' = {}
  BY <1>2 DEF Contents
<1>4. PiecesOf(Contents') = {}
  BY <1>3 DEF PiecesOf
<1>5. OrderOf(Contents') = {}
  BY <1>4 DEF OrderOf
<1>6. Handle' /\ Named' /\ Placed'
  BY <1>1, <1>2 DEF Stored, Handle, Named, Placed, Files
<1>7. Range(disk'.segs) = {}
  BY <1>1 DEF Range
<1> QED
  BY <1>1, <1>4, <1>5, <1>6, <1>7 DEF Stored, Files, Emptied

\* The active file becomes the last segment.
LEMMA RenameKeeps ==
    ASSUME Stored, writer # NoWriter, disk.active # NoFile,
           writer' = [writer EXCEPT !.seq = @ + 1],
           disk' = [disk EXCEPT !.active = NoFile, !.segs = AddSegment(@, writer.seq, disk.active)],
           UNCHANGED inodes
    PROVE  Stored' /\ Alike
<1>0. PICK last : last = writer.seq
  OBVIOUS
<1>1. /\ last \in Nat \ {0} /\ last # Active
      /\ \A n \in DOMAIN disk.segs : n \in Nat \ {0} /\ n < last /\ n # last
      /\ disk.active \in Files /\ disk.active = writer.file
  BY <1>0, NameTypes DEF Stored, Handle, Active
<1>2. /\ writer' \in [file : {writer.file}, size : Nat, seq : {last + 1}]
      /\ writer'.file = writer.file /\ writer'.seq = last + 1
  BY <1>0 DEF Stored
<1>3. /\ disk'.active = NoFile /\ disk'.segs = AddSegment(disk.segs, last, disk.active)
      /\ DOMAIN disk' = DOMAIN disk /\ disk'.dir = disk.dir /\ disk'.marker = disk.marker
  BY <1>0 DEF Stored
<1>4. /\ DOMAIN disk'.segs = DOMAIN disk.segs \cup {last}
      /\ disk'.segs[last] = disk.active
      /\ \A n \in DOMAIN disk.segs : disk'.segs[n] = disk.segs[n]
  BY <1>1, <1>3 DEF AddSegment
<1>5. PICK g : g = [n \in Names |-> IF n = Active THEN last ELSE n]
  OBVIOUS
<1>6. /\ Active \in Names /\ Names = DOMAIN disk.segs \cup {Active}
      /\ Names' = DOMAIN disk.segs \cup {last}
      /\ g[Active] = last /\ \A n \in DOMAIN disk.segs : g[n] = n
  BY <1>1, <1>3, <1>4, <1>5, NameTypes DEF Names
<1>7. /\ FileAt(last)' = FileAt(Active)
      /\ \A n \in DOMAIN disk.segs : FileAt(n)' = FileAt(n)
  BY <1>1, <1>4, NameTypes DEF FileAt
<1>8. /\ DOMAIN Contents' = DOMAIN disk.segs \cup {last}
      /\ Contents'[last] = Contents[Active]
      /\ \A n \in DOMAIN disk.segs : Contents'[n] = Contents[n]
  BY <1>6, <1>7 DEF Contents
<1>9. /\ \A n \in Names : g[n] \in Names' /\ FileAt(g[n])' = FileAt(n)
      /\ \A k \in Names' : \E n \in Names : k = g[n]
      /\ \A m, n \in Names : g[m] = g[n] => m = n
  BY <1>1, <1>6, <1>7
<1>10. \A m, n \in Names : Earlier(g[m], g[n]) <=> Earlier(m, n)
  BY <1>1, <1>6 DEF Earlier, Active
<1>11. Alike
  <2>1. Renames(Contents, Contents', g)
    BY <1>6, <1>8, <1>9, <1>10, Reads DEF Renames
  <2>2. Carried
    <3> SUFFICES ASSUME NEW n \in Names
                 PROVE  \E k \in Names' : \A i \in DOMAIN Contents[n] :
                            i \in DOMAIN Contents'[k] /\ Contents'[k][i] = Contents[n][i]
      BY DEF Carried
    <3>1. g[n] \in Names' /\ Contents'[g[n]] = Contents[n]
      BY <1>6, <1>8, <1>9
    <3> QED
      BY <3>1
  <2> QED
    BY <2>1, <2>2, ReadAlike DEF Alike
<1>12. Handle'
  <2>1. writer'.file \in Files' /\ writer'.seq > 0
    BY <1>1, <1>2 DEF Files
  <2>2. \A n \in DOMAIN disk'.segs : n < writer'.seq
    BY <1>1, <1>2, <1>4
  <2> QED
    BY <1>3, <2>1, <2>2 DEF Handle
<1>13. Named'
  <2>1. \A m, n \in Names' : FileAt(m)' = FileAt(n)' => m = n
    BY <1>9 DEF Stored, Named
  <2>2. \A s \in DOMAIN disk'.segs : s <= last
    BY <1>1, <1>4
  <2> QED
    BY <1>1, <2>1, <2>2 DEF Named
<1>14. Placed'
  <2> SUFFICES ASSUME NEW k \in Names', FileAt(k)' = writer.file, NEW m \in Names' \ {k}
               PROVE  Earlier(m, k)
    BY <1>2 DEF Placed
  <2>1. PICK n \in Names : k = g[n]
    BY <1>9
  <2>2. PICK l \in Names : m = g[l]
    BY <1>9
  <2>3. FileAt(n) = writer.file /\ l # n
    BY <1>9, <2>1, <2>2
  <2>4. Earlier(l, n)
    BY <2>3 DEF Stored, Placed
  <2> QED
    BY <1>10, <2>1, <2>2, <2>4
<1>15. Range(disk'.segs) \subseteq Files
  BY <1>1, <1>4 DEF Range, Stored
<1> QED
  BY <1>1, <1>2, <1>3, <1>4, <1>11, <1>12, <1>13, <1>14, <1>15 DEF Stored, Files

\* What is written through the handle is read last, or by nobody.
LEMMA WritesKeeps ==
    ASSUME Stored, NEW piece \in Pieces, Wrote(piece)
    PROVE  Stored' /\ (Alike \/ Longer(piece))
<1>1. writer.file \in Files /\ \A n \in Names : FileAt(n) \in Files
  BY NameTypes DEF Stored, Handle, Wrote
<1>2. /\ Files' = Files /\ Len(inodes') = Len(inodes)
      /\ inodes' \in Seq(Seq(Pieces))
      /\ inodes'[writer.file] = Append(inodes[writer.file], piece)
      /\ \A f \in Files : f # writer.file => inodes'[f] = inodes[f]
  <2>1. inodes \in Seq(Seq(Pieces)) /\ writer.file \in DOMAIN inodes
    BY <1>1, FileTypes DEF Stored
  <2>2. Append(inodes[writer.file], piece) \in Seq(Pieces)
    BY <2>1
  <2>3. inodes' = [inodes EXCEPT ![writer.file] = Append(inodes[writer.file], piece)]
    BY DEF Wrote, Writes
  <2> QED
    BY <2>1, <2>2, <2>3 DEF Files
<1>3. UNCHANGED disk
  BY DEF Wrote
<1>4. Names' = Names /\ \A n : FileAt(n)' = FileAt(n)
  BY <1>3 DEF Names, FileAt
<1>5. Stored'
  <2>1. writer' = NoWriter \/ (writer'.file = writer.file /\ writer'.seq = writer.seq)
    BY DEF Wrote
  <2>2. Handle' /\ Named' /\ Placed'
    BY <1>2, <1>3, <1>4, <2>1 DEF Stored, Handle, Named, Placed, Wrote
  <2>3. writer' \in [file : Files \cup {NoFile}, size : Nat, seq : Nat]
    BY <1>1 DEF Wrote, NoWriter, Stored
  <2> QED
    BY <1>2, <1>3, <2>2, <2>3 DEF Stored
<1>6. CASE \A n \in Names : FileAt(n) # writer.file
  BY <1>1, <1>2, <1>3, <1>5, <1>6, NamesStay
<1>7. CASE \E n \in Names : FileAt(n) = writer.file
  <2>1. PICK n0 \in Names : FileAt(n0) = writer.file
    BY <1>7
  <2>2. \A n \in Names : FileAt(n) = writer.file <=> n = n0
    BY <2>1 DEF Stored, Named
  <2>3. DOMAIN Contents = Names /\ DOMAIN Contents' = Names
    BY <1>4 DEF Contents
  <2>4. \A n \in Names : Contents'[n] =
            IF n = n0 THEN Append(Contents[n0], piece) ELSE Contents[n]
    BY <1>1, <1>2, <1>4, <2>1, <2>2 DEF Contents
  <2>5. Contents[n0] \in Seq(Pieces) /\ Names \subseteq Nat
    BY <1>1, <2>1, FileTypes, NameTypes, Reads
  <2>6. \A m \in Names \ {n0} : Earlier(m, n0)
    BY <2>1 DEF Stored, Placed, Wrote
  <2>7. AppendsTo(Contents, Contents', n0, piece)
    BY <2>3, <2>4, <2>5, <2>6 DEF AppendsTo
  <2>8. Carried
    <3> SUFFICES ASSUME NEW n \in Names, NEW i \in DOMAIN Contents[n]
                 PROVE  i \in DOMAIN Contents'[n] /\ Contents'[n][i] = Contents[n][i]
      BY <1>4 DEF Carried
    <3>1. CASE n = n0
      <4>1. Contents'[n0] = Append(Contents[n0], piece)
        BY <2>1, <2>4
      <4>2. i \in DOMAIN Contents[n0]
        BY <3>1
      <4>3. i \in 1..Len(Contents[n0]) /\ Len(Contents[n0]) \in Nat
        BY <2>5, <4>2
      <4> QED
        BY <2>5, <3>1, <4>1, <4>3
    <3>2. CASE n # n0
      BY <2>4, <3>2
    <3> QED
      BY <3>1, <3>2
  <2> QED
    BY <1>5, <2>7, <2>8, ReadOn DEF Longer
<1> QED
  BY <1>6, <1>7

-----------------------------------------------------------------------------
(* What a step does to the files.                                          *)

\* Pieces at new places are of this set.
Only(new) ==
    \A f \in Files' : \A i \in DOMAIN inodes'[f] :
        \/ f \in Files /\ i \in DOMAIN inodes[f] /\ inodes'[f][i] = inodes[f][i]
        \/ inodes'[f][i] \in new

Untouched == Alike /\ Only({})

Written(e) ==
    /\ jobs[e].step = "append"
    /\ \E p \in {Whole(jobs[e].line), Torn(jobs[e].line)} :
          Wrote(p) /\ (Alike \/ Longer(p)) /\ Only({p})

Removed == cleaner # "idle" /\ Emptied /\ Only({})

Booked ==
    /\ limit \in Limits
    /\ jobs \in [Emitters -> [step : Steps, line : 0..hist.lines, flush : BOOLEAN]]
    /\ failed \in BOOLEAN
    /\ cleaner \in {"idle", "dropped", "unlinked"}
    /\ hist \in [lines : 0..MaxLines, before : Nat, returned : SUBSET (1..hist.lines),
                 cleanups : 0..MaxUpsets, restarts : 0..MaxUpsets,
                 failures : BOOLEAN, cleaned : BOOLEAN]

LEMMA Parts == LogInv <=> Stored /\ Booked /\ Lock /\ Fresh
  BY DEF LogInv, Stored, Booked, TypeOK

LEMMA OnlyOld ==
    ASSUME Stored, inodes' = inodes \/ inodes' = Append(inodes, <<>>)
    PROVE  Only({})
<1>1. CASE inodes' = inodes
  BY <1>1 DEF Only, Files
<1>2. CASE inodes' = Append(inodes, <<>>)
  <2>1. inodes \in Seq(Seq(Pieces))
    BY DEF Stored
  <2>2. /\ Files' = Files \cup {Len(inodes) + 1}
        /\ \A f \in Files : inodes'[f] = inodes[f]
        /\ inodes'[Len(inodes) + 1] = <<>>
    BY <1>2, <2>1 DEF Files
  <2>3. DOMAIN inodes'[Len(inodes) + 1] = {}
    BY <2>2
  <2> QED
    BY <2>2, <2>3 DEF Only
<1> QED
  BY <1>1, <1>2

LEMMA OnlyOne ==
    ASSUME Stored, NEW piece \in Pieces, Wrote(piece)
    PROVE  Only({piece})
<1>1. /\ writer.file \in Files /\ inodes \in Seq(Seq(Pieces))
      /\ inodes[writer.file] \in Seq(Pieces)
  BY FileTypes DEF Stored, Handle, Wrote
<1>2. inodes' = [inodes EXCEPT ![writer.file] = Append(inodes[writer.file], piece)]
  BY DEF Wrote, Writes
<1>3. /\ Files' = Files
      /\ \A f \in Files : f # writer.file => inodes'[f] = inodes[f]
      /\ inodes'[writer.file] = Append(inodes[writer.file], piece)
  BY <1>1, <1>2, FileTypes DEF Files
<1> SUFFICES ASSUME NEW f \in Files, NEW i \in DOMAIN inodes'[f]
             PROVE  \/ i \in DOMAIN inodes[f] /\ inodes'[f][i] = inodes[f][i]
                    \/ inodes'[f][i] = piece
  BY <1>3 DEF Only
<1>4. CASE f # writer.file
  BY <1>3, <1>4
<1>5. CASE f = writer.file
  <2>1. inodes'[f] = Append(inodes[f], piece) /\ inodes[f] \in Seq(Pieces)
    BY <1>1, <1>3, <1>5
  <2> QED
    BY <2>1
<1> QED
  BY <1>4, <1>5

\* The parts of what an emitter may have written.
LEMMA WroteKeeps ==
    ASSUME LogInv, NEW e \in Emitters, jobs[e].step = "append",
           NEW p \in {Whole(jobs[e].line), Torn(jobs[e].line)}, Wrote(p)
    PROVE  Stored' /\ Written(e)
<1>1. jobs[e].line \in Nat
  BY Parts DEF Booked
<1>2. Whole(jobs[e].line) \in Pieces /\ Torn(jobs[e].line) \in Pieces
  BY <1>1 DEF Pieces, Whole, Torn
<1> QED
  BY <1>2, Parts, OnlyOne, WritesKeeps DEF Written

LEMMA LeftAlone ==
    ASSUME Stored, UNCHANGED <<inodes, disk, writer>>
    PROVE  Stored' /\ Untouched
<1>1. Names' = Names /\ \A n : FileAt(n)' = FileAt(n)
  BY DEF Names, FileAt
<1>2. Alike
  BY NamesStay
<1>3. Stored'
  BY <1>1 DEF Stored, Handle, Named, Placed, Files
<1> QED
  BY <1>2, <1>3, OnlyOld DEF Untouched

LEMMA DropKeeps ==
    ASSUME Stored, UNCHANGED <<inodes, disk>>, writer' = NoWriter
    PROVE  Stored' /\ Untouched
<1>1. Names' = Names /\ \A n : FileAt(n)' = FileAt(n)
  BY DEF Names, FileAt
<1>2. Alike
  BY NamesStay
<1>3. NoWriter \in [file : Files \cup {NoFile}, size : Nat, seq : Nat]
  BY DEF NoWriter
<1>4. Stored'
  BY <1>1, <1>3 DEF Stored, Handle, Named, Placed, Files
<1> QED
  BY <1>2, <1>4, OnlyOld DEF Untouched

LEMMA OpeningTouches ==
    ASSUME Stored, HasWriter \/ Opens \/ OpenFails
    PROVE  Stored' /\ Untouched
<1>1. CASE HasWriter
  BY <1>1, LeftAlone DEF HasWriter
<1>2. CASE Opens
  <2>1. inodes' = inodes \/ inodes' = Append(inodes, <<>>)
    BY <1>2 DEF Opens
  <2> QED
    BY <1>2, <2>1, OnlyOld, OpensKeeps DEF Untouched
<1>3. CASE OpenFails
  <2>1. PICK made \in BOOLEAN : disk' = [disk EXCEPT !.dir = @ \/ made]
    BY <1>3 DEF OpenFails
  <2>2. disk' = [dir |-> disk.dir \/ made, active |-> disk.active, segs |-> disk.segs,
                 marker |-> disk.marker]
    BY <2>1 DEF Stored
  <2>3. disk' \in [dir : BOOLEAN, active : {disk.active}, segs : {disk.segs}, marker : BOOLEAN]
    BY <2>2 DEF Stored
  <2> QED
    BY <1>3, <2>3, NothingWritten, OnlyOld DEF OpenFails, Untouched
<1> QED
  BY <1>1, <1>2, <1>3

\* One step, at the files.
LEMMA Effects ==
    ASSUME LogInv, Next
    PROVE  Stored' /\ (Untouched \/ Removed \/ \E e \in Emitters : Written(e))
<1> Stored /\ Booked /\ Lock /\ Fresh
  BY Parts
<1>1. ASSUME NEW e \in Emitters, Emit(e)
      PROVE  Stored' /\ Untouched
  BY <1>1, OpeningTouches DEF Emit
<1>2. ASSUME NEW e \in Emitters, FlushBare(e)
      PROVE  Stored' /\ Untouched
  BY <1>2, LeftAlone DEF FlushBare
<1>3. ASSUME NEW e \in Emitters, Acquire(e)
      PROVE  Stored' /\ Untouched
  BY <1>3, OpeningTouches DEF Acquire
<1>4. ASSUME NEW e \in Emitters, AppendLine(e)
      PROVE  Stored' /\ Written(e)
  <2> DEFINE p == Whole(jobs[e].line)
  <2>1. jobs[e].step = "append" /\ Writes(writer.file, p) /\ UNCHANGED disk
        /\ writer' = [writer EXCEPT !.size = @ + 1]
    BY <1>4 DEF AppendLine
  <2>2. writer # NoWriter /\ writer \in [file : Files \cup {NoFile}, size : Nat, seq : Nat]
    BY <2>1 DEF Lock, Holds, Stored
  <2>3. writer' \in [file : {writer.file}, size : Nat, seq : {writer.seq}]
    BY <2>1, <2>2
  <2>4. Wrote(p)
    BY <2>1, <2>2, <2>3 DEF Wrote
  <2> QED
    BY <2>1, <2>4, WroteKeeps
<1>5. ASSUME NEW e \in Emitters, AppendFails(e)
      PROVE  Stored' /\ (Untouched \/ Written(e))
  <2>1. jobs[e].step = "append" /\ UNCHANGED disk /\ UNCHANGED writer
    BY <1>5 DEF AppendFails
  <2>2. writer # NoWriter /\ writer \in [file : Files \cup {NoFile}, size : Nat, seq : Nat]
    BY <2>1 DEF Lock, Holds, Stored
  <2>3. CASE UNCHANGED inodes
    BY <2>1, <2>3, LeftAlone
  <2>4. ASSUME NEW p \in {Whole(jobs[e].line), Torn(jobs[e].line)}, Writes(writer.file, p)
        PROVE  Stored' /\ Written(e)
    <3>1. writer' \in [file : {writer.file}, size : Nat, seq : {writer.seq}]
      BY <2>1, <2>2
    <3>2. Wrote(p)
      BY <2>1, <2>2, <2>4, <3>1 DEF Wrote
    <3> QED
      BY <2>1, <2>4, <3>2, WroteKeeps
  <2> QED
    BY <1>5, <2>3, <2>4 DEF AppendFails
<1>6. ASSUME NEW e \in Emitters, Rename(e)
      PROVE  Stored' /\ Untouched
  <2>1. writer # NoWriter /\ UNCHANGED inodes /\ writer' = [writer EXCEPT !.seq = @ + 1]
    BY <1>6 DEF Rename, Lock, Holds
  <2>2. CASE /\ disk.active # NoFile
             /\ disk' = [disk EXCEPT !.active = NoFile,
                                     !.segs = AddSegment(@, writer.seq, disk.active)]
    BY <2>1, <2>2, OnlyOld, RenameKeeps DEF Untouched
  <2>3. CASE UNCHANGED disk
    <3>1. Names' = Names /\ \A n : FileAt(n)' = FileAt(n)
      BY <2>3 DEF Names, FileAt
    <3>2. Alike
      BY <2>1, <2>3, NamesStay
    <3>3. /\ writer \in [file : Files \cup {NoFile}, size : Nat, seq : Nat]
          /\ writer' \in [file : Files \cup {NoFile}, size : Nat, seq : Nat]
          /\ writer'.file = writer.file /\ writer'.seq = writer.seq + 1
      BY <2>1 DEF Stored
    <3>4. Handle' /\ Named' /\ Placed'
      BY <2>1, <2>3, <3>1, <3>3 DEF Stored, Handle, Named, Placed, Files
    <3> QED
      BY <2>1, <2>3, <3>2, <3>3, <3>4, OnlyOld DEF Stored, Untouched, Files
  <2> QED
    BY <1>6, <2>2, <2>3 DEF Rename
<1>7. ASSUME NEW e \in Emitters, Reopen(e)
      PROVE  Stored' /\ Untouched
  <2>1. writer # NoWriter /\ disk.active = NoFile
    BY <1>7 DEF Reopen, Lock, Holds
  <2>2. CASE /\ inodes' = Append(inodes, <<>>)
             /\ disk' = [disk EXCEPT !.active = Len(inodes) + 1]
             /\ writer' = [writer EXCEPT !.file = Len(inodes) + 1, !.size = 0]
    <3>1. disk' = [dir |-> disk.dir, active |-> Len(inodes) + 1, segs |-> disk.segs,
                   marker |-> disk.marker]
      BY <2>2 DEF Stored
    <3>2. disk' \in [dir : BOOLEAN, active : {Len(inodes) + 1}, segs : {disk.segs},
                     marker : BOOLEAN]
      BY <3>1 DEF Stored
    <3>3. /\ writer \in [file : Files \cup {NoFile}, size : Nat, seq : Nat]
          /\ writer.seq \in Nat \ {0} /\ \A n \in DOMAIN disk.segs : n < writer.seq
      BY <2>1 DEF Stored, Handle
    <3>4. /\ writer'.file = Len(inodes) + 1 /\ writer'.size = 0 /\ writer'.seq = writer.seq
          /\ writer' \in [file : Nat, size : Nat, seq : Nat]
      <4>1. writer' = [file |-> Len(inodes) + 1, size |-> 0, seq |-> writer.seq]
        BY <2>2, <3>3
      <4>2. Len(inodes) + 1 \in Nat
        BY FileTypes
      <4> QED
        BY <3>3, <4>1, <4>2
    <3>5. Stored' /\ Alike
      BY <2>1, <2>2, <3>2, <3>3, <3>4, NewFile
    <3> QED
      BY <2>2, <3>5, OnlyOld DEF Untouched
  <2>3. CASE UNCHANGED <<inodes, disk, writer>>
    BY <2>3, LeftAlone
  <2> QED
    BY <1>7, <2>2, <2>3 DEF Reopen
<1>8. ASSUME NEW e \in Emitters, StoreLeg(e)
      PROVE  Stored' /\ Untouched
  BY <1>8, LeftAlone DEF StoreLeg
<1>9. ASSUME NEW e \in Emitters, Mark(e)
      PROVE  Stored' /\ Untouched
  <2>1. PICK made \in BOOLEAN : disk' = [disk EXCEPT !.marker = @ \/ (disk.dir /\ made)]
    BY <1>9 DEF Mark
  <2>2. disk' = [dir |-> disk.dir, active |-> disk.active, segs |-> disk.segs,
                 marker |-> disk.marker \/ (disk.dir /\ made)]
    BY <2>1 DEF Stored
  <2>3. disk' \in [dir : BOOLEAN, active : {disk.active}, segs : {disk.segs}, marker : BOOLEAN]
    BY <2>2 DEF Stored
  <2> QED
    BY <1>9, <2>3, NothingWritten, OnlyOld DEF Mark, Untouched
<1>10. ASSUME DropWriter
       PROVE  Stored' /\ Untouched
  <2>1. UNCHANGED <<inodes, disk>> /\ writer' = NoWriter
    BY <1>10 DEF DropWriter
  <2> QED
    BY <2>1, DropKeeps
<1>11. ASSUME Unlink
       PROVE  Stored' /\ Removed
  BY <1>11, EmptiedKeeps, OnlyOld DEF Unlink, Removed
<1>12. ASSUME RemoveDir
       PROVE  Stored' /\ (Removed \/ Untouched)
  <2>1. cleaner # "idle" /\ UNCHANGED <<inodes, writer>>
    BY <1>12 DEF RemoveDir
  <2>2. CASE disk' = EmptyDir
    BY <2>1, <2>2, EmptiedKeeps, OnlyOld DEF Removed
  <2>3. CASE disk' = disk
    BY <2>1, <2>3, LeftAlone
  <2> QED
    BY <1>12, <2>2, <2>3 DEF RemoveDir
<1>13. ASSUME CleanupFails
       PROVE  Stored' /\ Untouched
  BY <1>13, LeftAlone DEF CleanupFails
<1>14. ASSUME Crash
       PROVE  Stored' /\ (Untouched \/ \E e \in Emitters : Written(e))
  <2>1. writer' = NoWriter /\ UNCHANGED disk
    BY <1>14 DEF Crash
  <2>2. CASE UNCHANGED inodes
    BY <2>1, <2>2, DropKeeps
  <2>3. ASSUME NEW e \in Emitters, jobs[e].step = "append",
               NEW p \in {Whole(jobs[e].line), Torn(jobs[e].line)}, Writes(writer.file, p)
        PROVE  Stored' /\ Written(e)
    <3>1. Wrote(p)
      BY <2>1, <2>3 DEF Wrote, Lock, Holds
    <3> QED
      BY <2>3, <3>1, WroteKeeps
  <2> QED
    BY <1>14, <2>2, <2>3 DEF Crash
<1> QED
  BY <1>1, <1>2, <1>3, <1>4, <1>5, <1>6, <1>7, <1>8, <1>9, <1>10, <1>11, <1>12, <1>13, <1>14
     DEF Next, Emitting

-----------------------------------------------------------------------------
(* The emitters and the books.                                             *)

Jobs(lines) == [step : Steps, line : 0..lines, flush : BOOLEAN]
Histories(lines) ==
    [lines : 0..MaxLines, before : Nat, returned : SUBSET (1..lines),
     cleanups : 0..MaxUpsets, restarts : 0..MaxUpsets, failures : BOOLEAN, cleaned : BOOLEAN]

\* A step of an emitter changes its own job, draws at most one line, and takes the lock
\* where it is free.
Moves(e) ==
    /\ hist'.lines \in {hist.lines, hist.lines + 1}
    /\ hist' \in Histories(hist'.lines)
    /\ failed' \in BOOLEAN /\ cleaner' = cleaner
    /\ \E j \in Jobs(hist'.lines) :
          /\ jobs' = [jobs EXCEPT ![e] = j]
          /\ j.step \notin {"idle", "mark"} => j.line # 0
          /\ j.step \in {"framed", "append"} =>
                \/ j.line = hist.lines + 1 /\ hist'.lines = hist.lines + 1
                \/ j.line = jobs[e].line /\ jobs[e].step = "framed"
          /\ j.step \in {"append", "rename", "reopen"} =>
                (Holds(e) \/ ~ Locked) /\ writer' # NoWriter

LEMMA BookTypes ==
    ASSUME Booked
    PROVE  /\ hist \in Histories(hist.lines) /\ hist.lines \in Nat
           /\ hist.lines \in 0..MaxLines /\ hist.returned \in SUBSET (1..hist.lines)
           /\ failed \in BOOLEAN
           /\ jobs \in [Emitters -> Jobs(hist.lines)]
  BY OutboxAssumption DEF Booked, Jobs, Histories

LEMMA JobTypes ==
    ASSUME Booked, NEW e \in Emitters
    PROVE  /\ jobs[e] \in Jobs(hist.lines)
           /\ jobs[e].step \in Steps /\ jobs[e].line \in 0..hist.lines /\ jobs[e].flush \in BOOLEAN
           /\ hist \in Histories(hist.lines) /\ hist.lines \in Nat
           /\ hist.lines \in 0..MaxLines /\ hist.returned \in SUBSET (1..hist.lines)
           /\ failed \in BOOLEAN
  BY BookTypes DEF Jobs

LEMMA GoesTo ==
    ASSUME Booked, NEW e \in Emitters, NEW step \in Steps, Goes(e, step)
    PROVE  \E j \in Jobs(hist.lines) :
               /\ jobs' = [jobs EXCEPT ![e] = j]
               /\ j.step = step /\ j.line = jobs[e].line
<1> DEFINE j == [jobs[e] EXCEPT !.step = step]
<1>1. j \in Jobs(hist.lines) /\ j.step = step /\ j.line = jobs[e].line
  BY JobTypes DEF Jobs
<1>2. jobs' = [jobs EXCEPT ![e] = j]
  BY DEF Goes
<1> QED
  BY <1>1, <1>2

LEMMA EmitMoves ==
    ASSUME LogInv, NEW e \in Emitters, Emit(e)
    PROVE  Moves(e)
<1> Booked
  BY Parts
<1>1. PICK flush \in BOOLEAN :
          jobs' = [jobs EXCEPT ![e] = [step |-> "framed", line |-> hist.lines + 1, flush |-> flush]]
  BY DEF Emit
<1>2. hist' = [hist EXCEPT !.lines = @ + 1] /\ hist.lines < MaxLines /\ UNCHANGED <<failed, cleaner>>
  BY DEF Emit
<1>3. hist'.lines = hist.lines + 1 /\ hist' \in Histories(hist'.lines)
  BY <1>2, JobTypes, OutboxAssumption DEF Histories
<1> DEFINE j == [step |-> "framed", line |-> hist.lines + 1, flush |-> flush]
<1>4. /\ j \in Jobs(hist'.lines) /\ j.step = "framed"
      /\ j.line = hist.lines + 1 /\ j.line # 0
  BY <1>3, JobTypes DEF Jobs, Steps
<1>5. jobs' = [jobs EXCEPT ![e] = j]
  BY <1>1
<1> HIDE DEF j
<1> QED
  BY <1>2, <1>3, <1>4, <1>5, JobTypes DEF Moves

\* Steps after which the emitter goes on with its line.
LEMMA GoingMoves ==
    ASSUME LogInv, NEW e \in Emitters,
           NEW step \in Steps, Goes(e, step),
           step # "framed", step # "append" \/ jobs[e].step = "framed",
           step = "mark" \/ jobs[e].step \notin {"idle", "mark"},
           step \in {"append", "rename", "reopen"} =>
               (Holds(e) \/ ~ Locked) /\ writer' # NoWriter,
           hist' = hist \/ hist' = [hist EXCEPT !.failures = TRUE],
           failed' \in BOOLEAN, cleaner' = cleaner
    PROVE  Moves(e)
<1> Booked /\ Fresh
  BY Parts
<1>1. hist'.lines = hist.lines /\ hist' \in Histories(hist.lines)
  BY JobTypes DEF Histories
<1>2. PICK j \in Jobs(hist.lines) :
          /\ jobs' = [jobs EXCEPT ![e] = j]
          /\ j.step = step /\ j.line = jobs[e].line
  BY GoesTo
<1>3. step # "mark" => jobs[e].line # 0
  BY DEF Fresh
<1> QED
  BY <1>1, <1>2, <1>3 DEF Moves

LEMMA ReturnsTo ==
    ASSUME Booked, NEW e \in Emitters, Returns(e)
    PROVE  \E j \in Jobs(hist.lines) :
               jobs' = [jobs EXCEPT ![e] = j] /\ j.step \in {"idle", "mark"}
<1> DEFINE j == IF jobs[e].flush THEN [jobs[e] EXCEPT !.step = "mark"] ELSE Idle
<1>1. jobs' = [jobs EXCEPT ![e] = j]
  BY DEF Returns
<1>2. Idle \in Jobs(hist.lines) /\ Idle.step = "idle"
  BY JobTypes DEF Jobs, Idle, Steps
<1>3. [jobs[e] EXCEPT !.step = "mark"] \in Jobs(hist.lines) /\ [jobs[e] EXCEPT !.step = "mark"].step = "mark"
  BY JobTypes DEF Jobs, Steps
<1> QED
  BY <1>1, <1>2, <1>3

LEMMA EmittingMoves ==
    ASSUME LogInv, NEW e \in Emitters, Emitting(e)
    PROVE  Moves(e)
<1> Booked /\ Lock /\ Fresh /\ Stored
  BY Parts
<1> USE DEF Steps
<1>1. CASE FlushBare(e)
  BY <1>1, GoingMoves, JobTypes DEF FlushBare
<1>2. CASE Acquire(e)
  <2>1. /\ jobs[e].step = "framed" /\ ~ Locked /\ cleaner' = cleaner
        /\ \/ (HasWriter \/ Opens) /\ Goes(e, "append") /\ UNCHANGED <<failed, hist>>
           \/ Goes(e, "store") /\ Fails
    BY <1>2 DEF Acquire
  <2>2. HasWriter \/ Opens => writer' # NoWriter
    BY OpensKeeps DEF HasWriter
  <2> QED
    BY <2>1, <2>2, GoingMoves, JobTypes DEF Fails
<1>3. CASE AppendLine(e)
  <2>1. writer # NoWriter /\ writer \in [file : Files \cup {NoFile}, size : Nat, seq : Nat]
    BY <1>3 DEF AppendLine, Lock, Holds, Stored
  <2>2. writer' # NoWriter
    BY <1>3, <2>1 DEF AppendLine, NoWriter
  <2>3. PICK step \in {"rename", "store"} : Goes(e, step)
    BY <1>3 DEF AppendLine
  <2> QED
    BY <1>3, <2>2, <2>3, GoingMoves, JobTypes DEF AppendLine, Holds
<1>4. CASE AppendFails(e)
  BY <1>4, GoingMoves, JobTypes DEF AppendFails, Fails
<1>5. CASE Rename(e)
  <2>1. writer # NoWriter /\ writer \in [file : Files \cup {NoFile}, size : Nat, seq : Nat]
    BY <1>5 DEF Rename, Lock, Holds, Stored
  <2>2. writer' # NoWriter
    BY <1>5, <2>1 DEF Rename, NoWriter
  <2>3. PICK step \in {"reopen", "store"} : Goes(e, step)
    BY <1>5 DEF Rename
  <2>4. /\ jobs[e].step = "rename" /\ cleaner' = cleaner
        /\ UNCHANGED <<failed, hist>> \/ Fails
    BY <1>5 DEF Rename
  <2> QED
    BY <2>2, <2>3, <2>4, GoingMoves, JobTypes DEF Holds, Fails
<1>6. CASE Reopen(e)
  <2>1. /\ jobs[e].step = "reopen" /\ cleaner' = cleaner /\ Goes(e, "store")
        /\ UNCHANGED <<failed, hist>> \/ Fails
    BY <1>6 DEF Reopen
  <2> QED
    BY <2>1, GoingMoves, JobTypes DEF Fails
<1>7. CASE StoreLeg(e)
  <2>1. /\ jobs[e].step = "store" /\ Returns(e) /\ failed' \in BOOLEAN
        /\ hist' = [hist EXCEPT !.returned = @ \cup {jobs[e].line}] /\ cleaner' = cleaner
    BY <1>7, JobTypes DEF StoreLeg
  <2>2. jobs[e].line \in 1..hist.lines
    BY <2>1, JobTypes DEF Fresh
  <2>3. hist'.lines = hist.lines /\ hist' \in Histories(hist.lines)
    BY <2>1, <2>2, JobTypes DEF Histories
  <2> QED
    BY <2>1, <2>3, ReturnsTo DEF Moves
<1>8. CASE Mark(e)
  <2>1. jobs' = [jobs EXCEPT ![e] = Idle] /\ UNCHANGED <<failed, cleaner, hist>>
    BY <1>8 DEF Mark
  <2>2. Idle \in Jobs(hist.lines) /\ Idle.step = "idle"
    BY JobTypes DEF Jobs, Idle
  <2> QED
    BY <2>1, <2>2, JobTypes DEF Moves
<1> QED
  BY <1>1, <1>2, <1>3, <1>4, <1>5, <1>6, <1>7, <1>8, EmitMoves DEF Emitting

LEMMA JobsAfter ==
    ASSUME Booked, NEW e \in Emitters, Moves(e)
    PROVE  /\ \A d \in Emitters : d # e => jobs'[d] = jobs[d]
           /\ jobs'[e] \in Jobs(hist'.lines)
           /\ jobs'[e].step \notin {"idle", "mark"} => jobs'[e].line # 0
           /\ jobs'[e].step \in {"framed", "append"} =>
                 \/ jobs'[e].line = hist.lines + 1 /\ hist'.lines = hist.lines + 1
                 \/ jobs'[e].line = jobs[e].line /\ jobs[e].step = "framed"
           /\ jobs'[e].step \in {"append", "rename", "reopen"} =>
                 (Holds(e) \/ ~ Locked) /\ writer' # NoWriter
           /\ DOMAIN jobs = Emitters /\ DOMAIN jobs' = Emitters
           /\ jobs' \in [Emitters -> Jobs(hist'.lines)]
<1>1. jobs \in [Emitters -> Jobs(hist.lines)]
  BY DEF Booked, Jobs
<1>2. PICK j \in Jobs(hist'.lines) :
          /\ jobs' = [jobs EXCEPT ![e] = j]
          /\ j.step \notin {"idle", "mark"} => j.line # 0
          /\ j.step \in {"framed", "append"} =>
                \/ j.line = hist.lines + 1 /\ hist'.lines = hist.lines + 1
                \/ j.line = jobs[e].line /\ jobs[e].step = "framed"
          /\ j.step \in {"append", "rename", "reopen"} =>
                (Holds(e) \/ ~ Locked) /\ writer' # NoWriter
  BY DEF Moves
<1>3. jobs'[e] = j /\ \A d \in Emitters : d # e => jobs'[d] = jobs[d]
  BY <1>1, <1>2
<1>4. hist.lines \in Nat /\ hist'.lines \in {hist.lines, hist.lines + 1}
  BY JobTypes DEF Moves
<1>5. Jobs(hist.lines) \subseteq Jobs(hist'.lines)
  BY <1>4 DEF Jobs
<1>6. jobs' \in [Emitters -> Jobs(hist'.lines)]
  BY <1>1, <1>2, <1>5
<1> QED
  BY <1>1, <1>2, <1>3, <1>6

LEMMA BooksStay ==
    ASSUME LogInv, Next
    PROVE  Booked'
<1> Booked
  BY Parts
<1>1. ASSUME NEW e \in Emitters, Emitting(e)
      PROVE  Booked'
  <2>1. Moves(e) /\ limit' = limit
    BY <1>1, EmittingMoves DEF Next
  <2>2. jobs' \in [Emitters -> Jobs(hist'.lines)]
    BY <2>1, JobsAfter
  <2>3. hist' \in Histories(hist'.lines) /\ failed' \in BOOLEAN /\ cleaner' = cleaner
    BY <2>1 DEF Moves
  <2> QED
    BY <2>1, <2>2, <2>3 DEF Booked, Jobs, Histories
<1>2. MayUpset => hist.cleanups + 1 \in 0..MaxUpsets /\ hist.restarts + 1 \in 0..MaxUpsets
  BY BookTypes, OutboxAssumption DEF MayUpset, Histories
<1>3. CASE DropWriter
  <2>1. hist' = [hist EXCEPT !.cleanups = @ + 1, !.cleaned = TRUE]
    BY <1>3 DEF DropWriter
  <2>2. hist'.lines = hist.lines /\ hist' \in Histories(hist.lines)
    BY <1>3, <1>2, <2>1, BookTypes DEF DropWriter, Histories
  <2> QED
    BY <1>3, <2>2 DEF DropWriter, Booked, Histories, Next
<1>4. CASE Unlink \/ RemoveDir \/ CleanupFails
  BY <1>4 DEF Unlink, RemoveDir, CleanupFails, Booked, Next
<1>5. CASE Crash
  <2>1. hist' = [hist EXCEPT !.before = hist.lines, !.returned = {},
                            !.restarts = @ + 1, !.cleaned = FALSE]
    BY <1>5 DEF Crash
  <2>2. hist'.lines = hist.lines /\ hist' \in Histories(hist.lines)
    BY <1>5, <1>2, <2>1, BookTypes DEF Crash, Histories
  <2>3. Idle \in Jobs(hist.lines)
    BY BookTypes DEF Jobs, Idle, Steps
  <2>4. jobs' \in [Emitters -> Jobs(hist.lines)]
    BY <1>5, <2>3 DEF Crash
  <2> QED
    BY <1>5, <2>2, <2>4 DEF Crash, Booked, Histories, Jobs, Next
<1> QED
  BY <1>1, <1>3, <1>4, <1>5 DEF Next

LEMMA LockStays ==
    ASSUME LogInv, Next
    PROVE  Lock'
<1> Booked /\ Lock /\ Stored
  BY Parts
<1>1. ASSUME NEW e \in Emitters, Emitting(e)
      PROVE  Lock'
  <2>1. Moves(e)
    BY <1>1, EmittingMoves
  <2>2. ASSUME NEW d \in Emitters, d # e, Holds(d)
        PROVE  writer' = writer /\ disk'.active = disk.active
    <3>1. Locked /\ ~ Holds(e)
      BY <2>2 DEF Locked, Lock, Holds
    <3>2. FlushBare(e) \/ StoreLeg(e) \/ Mark(e)
      BY <1>1, <3>1 DEF Emitting, Emit, Acquire, AppendLine, AppendFails, Rename, Reopen, Holds
    <3> QED
      BY <3>2 DEF FlushBare, StoreLeg, Mark, Stored
  <2>3. jobs'[e].step = "reopen" => disk'.active = NoFile
    <3>1. CASE Rename(e)
      <4>1. CASE disk'.active = NoFile
        BY <4>1
      <4>2. CASE Goes(e, "store")
        BY <4>2, JobTypes DEF Booked, Goes
      <4> QED
        BY <3>1, <4>1, <4>2 DEF Rename, Stored
    <3>2. CASE ~ Rename(e)
      <4>1. jobs \in [Emitters -> Jobs(hist.lines)]
        BY DEF Booked, Jobs
      <4>2. \A j : jobs' = [jobs EXCEPT ![e] = j] => jobs'[e] = j
        BY <4>1
      <4>3. \A step \in Steps : Goes(e, step) => jobs'[e].step = step
        BY <4>2, JobTypes DEF Goes, Jobs
      <4>4. CASE Emit(e)
        BY <4>2, <4>4 DEF Emit
      <4>5. CASE StoreLeg(e)
        BY <4>2, <4>5, ReturnsTo DEF StoreLeg
      <4>6. CASE Mark(e)
        BY <4>2, <4>6 DEF Mark, Idle
      <4> QED
        BY <1>1, <3>2, <4>3, <4>4, <4>5, <4>6
           DEF Emitting, FlushBare, Acquire, AppendLine, AppendFails, Reopen, Steps
    <3> QED
      BY <3>1, <3>2
  <2>4. ASSUME NEW c \in Emitters, NEW d \in Emitters, Holds(c)', Holds(d)', c # d
        PROVE  FALSE
    <3>1. ASSUME NEW a \in Emitters, NEW b \in Emitters, Holds(a)', Holds(b)', a = e, b # e
          PROVE  FALSE
      <4>1. Holds(b)
        BY <2>1, <3>1, JobsAfter DEF Holds
      <4>2. Holds(e) \/ ~ Locked
        BY <2>1, <3>1, JobsAfter DEF Holds
      <4> QED
        BY <3>1, <4>1, <4>2 DEF Lock, Locked, Holds
    <3>2. CASE c # e /\ d # e
      <4>1. Holds(c) /\ Holds(d)
        BY <2>1, <2>4, <3>2, JobsAfter DEF Holds
      <4> QED
        BY <2>4, <4>1 DEF Lock
    <3> QED
      BY <2>4, <3>1, <3>2
  <2>5. ASSUME NEW d \in Emitters, Holds(d)'
        PROVE  writer' # NoWriter /\ (jobs'[d].step = "reopen" => disk'.active = NoFile)
    <3>1. CASE d = e
      BY <2>1, <2>3, <2>5, <3>1, JobsAfter DEF Holds
    <3>2. CASE d # e
      <4>1. Holds(d) /\ jobs'[d] = jobs[d]
        BY <2>1, <2>5, <3>2, JobsAfter DEF Holds
      <4> QED
        BY <2>2, <3>2, <4>1 DEF Lock
    <3> QED
      BY <3>1, <3>2
  <2> QED
    BY <2>4, <2>5 DEF Lock, Holds
<1>2. CASE DropWriter
  BY <1>2 DEF DropWriter, Lock, Locked, Holds
<1>3. CASE Unlink \/ RemoveDir \/ CleanupFails
  BY <1>3 DEF Unlink, RemoveDir, CleanupFails, Lock, Holds, EmptyDir
<1>4. CASE Crash
  BY <1>4 DEF Crash, Lock, Holds, Idle
<1> QED
  BY <1>1, <1>2, <1>3, <1>4 DEF Next

LEMMA LineStaysFresh ==
    ASSUME LogInv, Next, Stored', Booked'
    PROVE  Fresh'
<1> Stored /\ Booked /\ Lock /\ Fresh
  BY Parts
<1>1. hist.lines \in Nat /\ hist'.lines \in Nat /\ hist.lines <= hist'.lines
  <2>1. hist.lines \in Nat /\ hist'.lines \in Nat
    BY BookTypes DEF Booked
  <2>2. \A e \in Emitters : Emitting(e) => hist.lines <= hist'.lines
    BY <2>1, EmittingMoves DEF Moves
  <2>3. DropWriter \/ Unlink \/ RemoveDir \/ CleanupFails \/ Crash => hist'.lines = hist.lines
    BY BookTypes DEF DropWriter, Unlink, RemoveDir, CleanupFails, Crash, Histories
  <2> QED
    BY <2>1, <2>2, <2>3 DEF Next
<1>2. Only({}) \/ \E e \in Emitters : Written(e)
  BY Effects DEF Untouched, Removed
\* A piece at a new place is of a line that was being written.
<1>3. ASSUME NEW f \in Files', NEW i \in DOMAIN inodes'[f]
      PROVE  \/ f \in Files /\ i \in DOMAIN inodes[f] /\ inodes'[f][i].line = inodes[f][i].line
             \/ \E e \in Emitters : jobs[e].step = "append" /\ inodes'[f][i].line = jobs[e].line
  <2>1. CASE Only({})
    BY <2>1 DEF Only
  <2>2. ASSUME NEW e \in Emitters, Written(e)
        PROVE  \/ f \in Files /\ i \in DOMAIN inodes[f] /\ inodes'[f][i].line = inodes[f][i].line
               \/ jobs[e].step = "append" /\ inodes'[f][i].line = jobs[e].line
    <3>1. PICK p \in {Whole(jobs[e].line), Torn(jobs[e].line)} : Only({p})
      BY <2>2 DEF Written
    <3>2. p.line = jobs[e].line /\ jobs[e].step = "append"
      BY <2>2 DEF Whole, Torn, Written
    <3> QED
      BY <3>1, <3>2 DEF Only
  <2> QED
    BY <1>2, <2>1, <2>2
<1>4. ASSUME NEW f \in Files', NEW i \in DOMAIN inodes'[f]
      PROVE  inodes'[f][i].line \in 1..hist.lines
  <2>1. \A e \in Emitters : jobs[e].step = "append" => jobs[e].line \in 1..hist.lines
    BY JobTypes DEF Fresh
  <2> QED
    BY <1>3, <2>1 DEF Fresh
<1>5. \A f \in Files' : \A i \in DOMAIN inodes'[f] : inodes'[f][i].line \in 1..hist'.lines
  BY <1>1, <1>4
<1>6. ASSUME NEW e \in Emitters, Emitting(e)
      PROVE  Fresh'
  <2>1. Moves(e)
    BY <1>6, EmittingMoves
  <2>2. \A d \in Emitters : jobs'[d].step \notin {"idle", "mark"} => jobs'[d].line # 0
    BY <2>1, JobsAfter DEF Fresh
  \* The line of a writer is new, or the one it had before.
  <2>3. ASSUME NEW d \in Emitters, Framed(d)'
        PROVE  \/ d = e /\ jobs'[d].line = hist.lines + 1
               \/ Framed(d) /\ jobs'[d].line = jobs[d].line /\ (d = e => jobs[d].step # "append")
    BY <2>1, <2>3, JobsAfter DEF Framed
  <2>4. ASSUME NEW d \in Emitters, Framed(d)', NEW f \in Files', NEW i \in DOMAIN inodes'[f]
        PROVE  inodes'[f][i].line # jobs'[d].line
    <3>1. CASE jobs'[d].line = hist.lines + 1
      BY <1>1, <1>4, <3>1
    <3>2. CASE Framed(d) /\ jobs'[d].line = jobs[d].line /\ (d = e => jobs[d].step # "append")
      <4>1. CASE f \in Files /\ i \in DOMAIN inodes[f] /\ inodes'[f][i].line = inodes[f][i].line
        BY <3>2, <4>1 DEF Fresh
      <4>2. ASSUME NEW c \in Emitters, jobs[c].step = "append", inodes'[f][i].line = jobs[c].line
            PROVE  inodes'[f][i].line # jobs'[d].line
        <5>1. c = e
          <6>1. CASE c # e
            <7>1. Locked /\ ~ Holds(e)
              BY <4>2, <6>1 DEF Locked, Lock, Holds
            <7>2. UNCHANGED inodes
              BY <1>6, <7>1 DEF Emitting, Emit, FlushBare, Acquire, AppendLine, AppendFails,
                                Rename, Reopen, StoreLeg, Mark, Holds
            <7>3. Files' = Files
              BY <7>2 DEF Files
            <7>4. FALSE
              BY <4>2, <7>2, <7>3 DEF Fresh, Framed
            <7> QED
              BY <7>4
          <6> QED
            BY <6>1
        <5>2. c # d
          BY <3>2, <4>2, <5>1
        <5>3. Framed(c) /\ Framed(d)
          BY <3>2, <4>2 DEF Framed
        <5> QED
          BY <3>2, <4>2, <5>2, <5>3 DEF Fresh
      <4> QED
        BY <1>3, <4>1, <4>2
    <3> QED
      BY <2>3, <2>4, <3>1, <3>2
  <2>5. ASSUME NEW c \in Emitters, NEW d \in Emitters, Framed(c)', Framed(d)',
               jobs'[c].line = jobs'[d].line
        PROVE  c = d
    <3>1. \A b \in Emitters : Framed(b) => jobs[b].line # hist.lines + 1
      BY <1>1, JobTypes
    <3> QED
      BY <2>3, <2>5, <3>1 DEF Fresh
  <2> QED
    BY <1>5, <2>2, <2>4, <2>5 DEF Fresh
<1>7. CASE DropWriter \/ Unlink \/ RemoveDir \/ CleanupFails
  <2>1. UNCHANGED <<inodes, jobs>>
    BY <1>7 DEF DropWriter, Unlink, RemoveDir, CleanupFails
  <2>2. Files' = Files
    BY <2>1 DEF Files
  <2> QED
    BY <1>5, <2>1, <2>2 DEF Fresh, Framed
<1>8. CASE Crash
  BY <1>5, <1>8 DEF Crash, Fresh, Framed, Idle
<1> QED
  BY <1>6, <1>7, <1>8 DEF Next

\* The files and the lock from one step to the next.
LEMMA LogInvStep ==
    ASSUME LogInv, [Next]_vars
    PROVE  LogInv'
<1>1. CASE Next
  BY <1>1, Effects, BooksStay, LockStays, LineStaysFresh, Parts
     DEF LogInv, Stored, Booked, TypeOK
<1>2. CASE UNCHANGED vars
  <2>1. Names' = Names /\ \A n : FileAt(n)' = FileAt(n)
    BY <1>2 DEF vars, Names, FileAt
  <2> QED
    BY <1>2, <2>1 DEF vars, LogInv, TypeOK, Lock, Handle, Named, Placed, Fresh, Files, Holds, Framed
<1> QED
  BY <1>1, <1>2

LEMMA LogInvInit ==
    ASSUME Init
    PROVE  LogInv /\ PiecesOf(Contents) = {} /\ OrderOf(Contents) = {}
<1>1. /\ inodes = <<>> /\ disk = EmptyDir /\ writer = NoWriter
      /\ jobs = [e \in Emitters |-> Idle] /\ hist = NoHistory /\ limit \in Limits
      /\ failed = FALSE /\ cleaner = "idle"
  BY DEF Init
<1>2. disk.active = NoFile /\ disk.segs = <<>> /\ disk.dir = FALSE /\ disk.marker = FALSE
  BY <1>1 DEF EmptyDir
<1>3. DOMAIN disk.segs = {} /\ DOMAIN disk = {"dir", "active", "segs", "marker"}
  <2>1. DOMAIN disk.segs = {}
    BY <1>2
  <2>2. DOMAIN disk = {"dir", "active", "segs", "marker"}
    BY <1>1 DEF EmptyDir
  <2> QED
    BY <2>1, <2>2
<1>4. Names = {}
  BY <1>2, <1>3 DEF Names
<1>5. Files = {} /\ inodes \in Seq(Seq(Pieces))
  BY <1>1 DEF Files
<1>6. Range(disk.segs) = {}
  BY <1>3 DEF Range
<1>7. writer \in [file : Files \cup {NoFile}, size : Nat, seq : Nat]
  BY <1>1 DEF NoWriter
<1>8. Stored
  BY <1>1, <1>2, <1>3, <1>4, <1>5, <1>6, <1>7 DEF Stored, Handle, Named, Placed
<1>9. Booked
  <2>1. Idle \in Jobs(0)
    BY DEF Jobs, Idle, Steps
  <2>2. hist \in Histories(0) /\ hist.lines = 0
    BY <1>1, OutboxAssumption DEF NoHistory, Histories
  <2> QED
    BY <1>1, <2>1, <2>2 DEF Booked, Jobs, Histories
<1>10. Lock /\ Fresh
  BY <1>1, <1>5 DEF Lock, Holds, Fresh, Framed, Idle
<1>11. DOMAIN Contents = {}
  BY <1>4 DEF Contents
<1>12. PiecesOf(Contents) = {}
  BY <1>11 DEF PiecesOf
<1>13. OrderOf(Contents) = {}
  BY <1>12 DEF OrderOf
<1> QED
  BY <1>8, <1>9, <1>10, <1>12, <1>13, Parts

THEOREM LogInvariant == Spec => []LogInv
<1>1. Init => LogInv
  BY LogInvInit
<1>2. LogInv /\ [Next]_vars => LogInv'
  BY LogInvStep
<1> QED
  BY <1>1, <1>2, PTL DEF Spec

-----------------------------------------------------------------------------
(* The log.                                                                *)

LEMMA LogStep ==
    ASSUME LogInv, [Next]_vars
    PROVE  [Ledger!Next]_(Ledger!outbox)
<1> Stored /\ Booked /\ Fresh
  BY Parts
<1>1. LogInv'
  BY LogInvStep
<1>2. (cleaner' # "idle") \in BOOLEAN
  OBVIOUS
<1>3. CASE Alike
  BY <1>2, <1>3 DEF Alike, Ledger!Next
<1>4. CASE cleaner # "idle" /\ Emptied
  BY <1>2, <1>4 DEF Emptied, Ledger!Next, Ledger!Clear
<1>5. ASSUME NEW e \in Emitters, jobs[e].step = "append",
             NEW p \in {Whole(jobs[e].line), Torn(jobs[e].line)}, Longer(p)
      PROVE  Ledger!Next
  <2>1. p.line = jobs[e].line
    BY DEF Whole, Torn
  <2>2. \A x \in PiecesOf(Contents) : x.line # p.line
    <3> SUFFICES ASSUME NEW x \in PiecesOf(Contents)
                 PROVE  x.line # p.line
      OBVIOUS
    <3>1. PICK n, i : n \in DOMAIN Contents /\ i \in DOMAIN Contents[n] /\ x = Contents[n][i]
      BY PieceOf
    <3>2. FileAt(n) \in Files /\ i \in DOMAIN inodes[FileAt(n)] /\ x = inodes[FileAt(n)][i]
      BY <3>1, NameTypes, Reads
    <3> QED
      BY <1>5, <2>1, <3>2 DEF Fresh, Framed
  <2>3. p.line \notin Ledger!Lines
    BY <2>2 DEF Ledger!Lines
  <2>4. p \in PiecesOf(Contents')
    BY <1>5 DEF Longer
  <2> QED
    BY <1>2, <1>5, <2>3, <2>4 DEF Longer, Ledger!Next, Ledger!Add
<1>6. CASE Next
  BY <1>3, <1>4, <1>5, <1>6, Effects DEF Untouched, Removed, Written
<1>7. CASE UNCHANGED vars
  <2>1. Contents' = Contents
    BY <1>7 DEF vars, Contents, Names, FileAt
  <2> QED
    BY <1>7, <2>1 DEF vars, Ledger!outbox
<1> QED
  BY <1>6, <1>7

\* The files of a session are an append-only log.
THEOREM OutboxIsALog == Spec => LogKept
<1>1. Init => Ledger!Init
  BY LogInvInit DEF Init, Ledger!Init
<1>2. LogInv /\ [Next]_vars => [Ledger!Next]_(Ledger!outbox)
  BY LogStep
<1> QED
  BY <1>1, <1>2, LogInvariant, PTL DEF Spec, LogKept, Ledger!Spec

\* The order of a log: each line has one place in it.
Ordered(P, O) ==
    /\ \A p, q \in P :
          /\ p # q => p.line # q.line /\ (<<p, q>> \in O \/ <<q, p>> \in O)
          /\ <<p, q>> \in O => <<q, p>> \notin O
    /\ \A p, q, r \in P : <<p, q>> \in O /\ <<q, r>> \in O => <<p, r>> \in O

LEMMA OrderGrows ==
    ASSUME NEW P, NEW O, Ordered(P, O), O \subseteq P \X P, NEW new, \A p \in P : p.line # new.line
    PROVE  Ordered(P \cup {new}, O \cup (P \X {new}))
<1> DEFINE Q == O \cup (P \X {new})
<1>1. new \notin P
  OBVIOUS
<1>2. \A p, q \in P : <<p, q>> \in Q <=> <<p, q>> \in O
  BY <1>1
<1>3. /\ \A p \in P : <<p, new>> \in Q /\ <<new, p>> \notin Q
      /\ <<new, new>> \notin Q
  BY <1>1
<1> HIDE DEF Q
<1>4. \A p, q \in P \cup {new} :
          /\ p # q => p.line # q.line /\ (<<p, q>> \in Q \/ <<q, p>> \in Q)
          /\ <<p, q>> \in Q => <<q, p>> \notin Q
  BY <1>2, <1>3 DEF Ordered
<1>5. ASSUME NEW p \in P \cup {new}, NEW q \in P \cup {new}, NEW r \in P \cup {new},
             <<p, q>> \in Q, <<q, r>> \in Q
      PROVE  <<p, r>> \in Q
  <2>1. p \in P /\ q \in P
    BY <1>3, <1>5
  <2>2. CASE r \in P
    BY <1>2, <1>5, <2>1, <2>2 DEF Ordered
  <2> QED
    BY <1>3, <2>1, <2>2
<1> QED
  BY <1>4, <1>5 DEF Ordered, Q

\* The lines on disk have one order.
THEOREM LogHasOneOrder == Spec => []Ledger!InOrder
<1> DEFINE P == PiecesOf(Contents)
           O == OrderOf(Contents)
<1>1. Ledger!InOrder <=> Ordered(P, O)
  BY DEF Ledger!InOrder, Ordered
<1>2. Init => Ordered(P, O)
  BY LogInvInit DEF Ordered
<1>3. ASSUME LogInv, Ordered(P, O), [Next]_vars
      PROVE  Ordered(P, O)'
  <2>1. [Ledger!Next]_(Ledger!outbox)
    BY <1>3, LogStep
  <2>2. CASE P' = P /\ O' = O
    BY <1>3, <2>2 DEF Ordered
  <2>3. CASE P' = {}
    BY <2>3 DEF Ordered
  <2>4. ASSUME NEW new, \A p \in P : p.line # new.line,
               P' = P \cup {new}, O' = O \cup (P \X {new})
        PROVE  Ordered(P, O)'
    <3>1. O \subseteq P \X P
      BY DEF OrderOf
    <3> HIDE DEF P, O
    <3>2. Ordered(P \cup {new}, O \cup (P \X {new}))
      BY <1>3, <2>4, <3>1, OrderGrows
    <3> QED
      BY <2>4, <3>2 DEF Ordered
  <2>5. CASE Ledger!Add
    <3>1. PICK new \in P' : /\ new.line \notin {p.line : p \in P}
                            /\ P' = P \cup {new} /\ O' = O \cup (P \X {new})
      BY <2>5 DEF Ledger!Add, Ledger!Lines
    <3>2. \A p \in P : p.line # new.line
      BY <3>1
    <3> HIDE DEF P, O
    <3> QED
      BY <2>4, <3>1, <3>2
  <2> QED
    BY <2>1, <2>2, <2>3, <2>5 DEF Ledger!Next, Ledger!Clear, Ledger!outbox
<1>4. LogInv /\ Ordered(P, O) /\ [Next]_vars => Ordered(P, O)'
  BY <1>3
<1> HIDE DEF P, O
<1> QED
  BY <1>1, <1>2, <1>4, LogInvariant, PTL DEF Spec

-----------------------------------------------------------------------------
(* What is lost.                                                           *)

LEMMA ContentTypes ==
    ASSUME Stored, NEW n \in Names
    PROVE  /\ Contents[n] = inodes[FileAt(n)] /\ FileAt(n) \in Files
           /\ Contents[n] \in Seq(Pieces) /\ Len(Contents[n]) \in Nat
           /\ DOMAIN Contents[n] = 1..Len(Contents[n])
           /\ \A i \in DOMAIN Contents[n] : Contents[n][i] \in Pieces
<1>1. Contents[n] = inodes[FileAt(n)] /\ FileAt(n) \in Files
  BY NameTypes, Reads
<1>2. Contents[n] \in Seq(Pieces)
  BY <1>1, FileTypes
<1> QED
  BY <1>1, <1>2

\* What can be read stays readable as long as nothing is removed.
LEMMA KnownStays ==
    ASSUME Stored, Carried, NEW line, Known(line),
           hist.before \in Nat, hist'.before \in Nat, hist.before <= hist'.before
    PROVE  Known(line)'
<1>1. CASE Readable(line)
  <2>1. PICK n \in Names, i \in Nat :
            /\ i \in DOMAIN Contents[n] /\ Contents[n][i].line = line /\ Contents[n][i].whole
            /\ i = 1 \/ Contents[n][i - 1].whole
    BY <1>1, ContentTypes DEF Readable
  <2>2. PICK k \in Names' : \A j \in DOMAIN Contents[n] :
            j \in DOMAIN Contents'[k] /\ Contents'[k][j] = Contents[n][j]
    BY DEF Carried
  <2>3. i # 1 => i - 1 \in DOMAIN Contents[n]
    BY <2>1, ContentTypes
  <2>4. /\ i \in DOMAIN Contents'[k] /\ Contents'[k][i].line = line /\ Contents'[k][i].whole
        /\ i = 1 \/ Contents'[k][i - 1].whole
    BY <2>1, <2>2, <2>3
  <2> QED
    BY <2>4 DEF Readable, Known
<1>2. CASE BehindAnOldTear(line)
  <2>1. PICK n \in Names, i \in Nat \ {1} :
            /\ i \in DOMAIN Contents[n] /\ Contents[n][i].line = line
            /\ ~ Contents[n][i - 1].whole /\ Contents[n][i - 1].line <= hist.before
    BY <1>2, ContentTypes DEF BehindAnOldTear
  <2>2. PICK k \in Names' : \A j \in DOMAIN Contents[n] :
            j \in DOMAIN Contents'[k] /\ Contents'[k][j] = Contents[n][j]
    BY DEF Carried
  <2>3. i - 1 \in DOMAIN Contents[n]
    BY <2>1, ContentTypes
  <2>4. Contents[n][i - 1].line \in Nat
    BY <2>3, ContentTypes DEF Pieces
  <2>5. /\ i \in DOMAIN Contents'[k] \ {1} /\ Contents'[k][i].line = line
        /\ ~ Contents'[k][i - 1].whole /\ Contents'[k][i - 1].line <= hist'.before
    BY <2>1, <2>2, <2>3, <2>4
  <2> QED
    BY <2>5 DEF BehindAnOldTear, Known
<1> QED
  BY <1>1, <1>2 DEF Known

\* A line at the end of the active file can be read, or an old tear is before it.
LEMMA AppendedIsKnown ==
    ASSUME LossInv, ~ failed, ~ hist.cleaned, NEW e \in Emitters, AppendLine(e), NEW line,
           line = jobs[e].line
    PROVE  Known(line)'
<1> LogInv /\ OldTears /\ OnActive /\ Stored /\ Booked /\ Lock
  BY Parts DEF LossInv
<1>1. /\ jobs[e].step = "append" /\ UNCHANGED <<disk, hist>>
      /\ inodes' = [inodes EXCEPT ![writer.file] = Append(@, Whole(line))]
  BY DEF AppendLine, Writes
<1>2. writer # NoWriter /\ \A d \in Emitters : jobs[d].step # "reopen"
  BY <1>1 DEF Lock, Holds
<1>3. writer.file = disk.active /\ writer.file \in Files
  BY <1>2 DEF OnActive, Stored, Handle
<1>4. Active \in Names /\ FileAt(Active) = writer.file
  BY <1>3, FileTypes, NameTypes
<1>5. Names' = Names /\ FileAt(Active)' = FileAt(Active)
  BY <1>1 DEF Names, FileAt
<1> DEFINE old == inodes[writer.file]
           last == Len(old) + 1
<1>6. old \in Seq(Pieces) /\ Len(old) \in Nat
  BY <1>3, FileTypes
<1>7. Contents'[Active] = Append(old, Whole(line))
  BY <1>1, <1>3, <1>4, <1>5, FileTypes DEF Contents
<1>8. /\ last \in DOMAIN Contents'[Active] /\ Contents'[Active][last] = Whole(line)
      /\ \A i \in 1..Len(old) : Contents'[Active][i] = old[i] /\ old[i] \in Pieces
  BY <1>6, <1>7
<1>9. Contents'[Active][last].line = line /\ Contents'[Active][last].whole
  BY <1>8 DEF Whole
<1>10. Active \in Names'
  BY <1>4, <1>5
<1>11. \A i \in 1..Len(old) : ~ old[i].whole => old[i].line <= hist.before
  BY <1>3, <1>6 DEF OldTears
<1>12. last \in Nat /\ (last # 1 => last - 1 \in 1..Len(old))
  BY <1>6
<1> HIDE DEF old, last
<1>13. CASE last = 1 \/ Contents'[Active][last - 1].whole
  BY <1>8, <1>9, <1>10, <1>13 DEF Known, Readable
<1>14. CASE last # 1 /\ ~ Contents'[Active][last - 1].whole
  <2>1. last \in DOMAIN Contents'[Active] \ {1} /\ Contents'[Active][last - 1].line <= hist'.before
    BY <1>1, <1>8, <1>11, <1>12, <1>14
  <2> QED
    BY <1>9, <1>10, <1>14, <2>1 DEF Known, BehindAnOldTear
<1> QED
  BY <1>13, <1>14

\* What an emitter does to the flags that say what has gone wrong.
LEMMA Flags ==
    ASSUME Booked, NEW e \in Emitters, Emitting(e)
    PROVE  /\ hist'.before = hist.before /\ hist'.cleaned = hist.cleaned
           /\ failed => failed'
           /\ AppendFails(e) => failed'
           /\ hist.failures => hist'.failures
           /\ hist'.restarts = hist.restarts
<1> hist \in Histories(hist.lines)
  BY BookTypes
<1> USE DEF Histories
<1>1. AppendFails(e) => failed'
  BY DEF AppendFails, Fails
<1>2. CASE Emit(e)
  BY <1>1, <1>2 DEF Emit
<1>3. CASE FlushBare(e) \/ Mark(e) \/ AppendLine(e)
  BY <1>1, <1>3 DEF FlushBare, Mark, AppendLine
<1>4. CASE Acquire(e) \/ AppendFails(e) \/ Rename(e) \/ Reopen(e)
  <2>1. hist' = hist \/ hist' = [hist EXCEPT !.failures = TRUE]
    BY <1>4 DEF Acquire, AppendFails, Rename, Reopen, Fails
  <2>2. failed => failed'
    BY <1>4 DEF Acquire, AppendFails, Rename, Reopen, Fails
  <2> QED
    BY <1>1, <2>1, <2>2
<1>5. CASE StoreLeg(e)
  <2>1. PICK fails \in BOOLEAN : failed' = (failed \/ fails)
    BY <1>5 DEF StoreLeg
  <2>2. hist' = [hist EXCEPT !.returned = @ \cup {jobs[e].line}]
    BY <1>5 DEF StoreLeg
  <2> QED
    BY <1>1, <2>1, <2>2
<1> QED
  BY <1>2, <1>3, <1>4, <1>5 DEF Emitting

LEMMA OldTearsStay ==
    ASSUME LossInv, Next, LogInv'
    PROVE  OldTears'
<1> LogInv /\ OldTears /\ Stored /\ Booked /\ Lock
  BY Parts DEF LossInv
<1> SUFFICES ASSUME ~ failed', NEW f \in Files', NEW i \in DOMAIN inodes'[f], ~ inodes'[f][i].whole
             PROVE  inodes'[f][i].line <= hist'.before
  BY DEF OldTears
<1>1. CASE Crash
  <2>1. inodes'[f][i].line \in 1..hist'.lines
    BY DEF LogInv, Fresh
  <2>2. hist'.before = hist.lines /\ hist'.lines = hist.lines /\ hist.lines \in Nat
    BY <1>1, BookTypes DEF Crash, Histories
  <2> QED
    BY <2>1, <2>2
<1>2. ASSUME NEW new, Only(new), \A p \in new : p.whole, ~ failed, hist'.before = hist.before
      PROVE  inodes'[f][i].line <= hist'.before
  BY <1>2 DEF Only, OldTears
<1>3. ASSUME NEW e \in Emitters, AppendLine(e)
      PROVE  inodes'[f][i].line <= hist'.before
  <2> DEFINE p == Whole(jobs[e].line)
  <2>1. ~ failed /\ hist'.before = hist.before
    BY <1>3, Flags DEF Emitting
  <2>2. /\ jobs[e].step = "append" /\ Writes(writer.file, p) /\ UNCHANGED disk
        /\ writer' = [writer EXCEPT !.size = @ + 1]
        /\ writer \in [file : Files \cup {NoFile}, size : Nat, seq : Nat] /\ writer # NoWriter
    BY <1>3 DEF AppendLine, Stored, Lock, Holds
  <2>3. Wrote(p)
    BY <2>2 DEF Wrote
  <2>4. p \in Pieces /\ p.whole
    BY JobTypes DEF Pieces, Whole
  <2>5. Only({p})
    BY <2>3, <2>4, OnlyOne
  <2> HIDE DEF p
  <2> QED
    BY <1>2, <2>1, <2>4, <2>5
<1>4. ASSUME NEW e \in Emitters, Emitting(e), ~ AppendLine(e)
      PROVE  inodes'[f][i].line <= hist'.before
  <2>1. ~ failed /\ hist'.before = hist.before /\ ~ AppendFails(e)
    BY <1>4, Flags
  <2>2. inodes' = inodes \/ inodes' = Append(inodes, <<>>)
    BY <1>4, <2>1 DEF Emitting, Emit, FlushBare, Acquire, Rename, Reopen, StoreLeg, Mark,
                      HasWriter, Opens, OpenFails
  <2> QED
    BY <1>2, <2>1, <2>2, OnlyOld
<1>5. CASE DropWriter \/ Unlink \/ RemoveDir \/ CleanupFails
  <2>1. ~ failed /\ inodes' = inodes
    BY <1>5 DEF DropWriter, Unlink, RemoveDir, CleanupFails
  <2>2. hist' = hist \/ hist' = [hist EXCEPT !.cleanups = @ + 1, !.cleaned = TRUE]
    BY <1>5 DEF DropWriter, Unlink, RemoveDir, CleanupFails
  <2>3. hist'.before = hist.before
    BY <2>2, BookTypes DEF Histories
  <2> QED
    BY <1>2, <2>1, <2>3, OnlyOld
<1> QED
  BY <1>1, <1>3, <1>4, <1>5 DEF Next

LEMMA StaysOnActive ==
    ASSUME LossInv, Next, LogInv'
    PROVE  OnActive'
<1> LogInv /\ OnActive /\ Cleaned /\ Stored /\ Booked /\ Lock
  BY Parts DEF LossInv
<1> SUFFICES ASSUME ~ failed', ~ hist'.cleaned, writer' # NoWriter
             PROVE  writer'.file = disk'.active \/ \E e \in Emitters : jobs'[e].step = "reopen"
  BY DEF OnActive
<1>1. ASSUME NEW e \in Emitters, Emitting(e)
      PROVE  writer'.file = disk'.active \/ \E d \in Emitters : jobs'[d].step = "reopen"
  <2>1. ~ failed /\ ~ hist.cleaned /\ Moves(e)
    BY <1>1, EmittingMoves, Flags
  <2>2. ASSUME writer'.file = writer.file, disk'.active = disk.active, writer # NoWriter,
               jobs[e].step # "reopen"
        PROVE  writer'.file = disk'.active \/ \E d \in Emitters : jobs'[d].step = "reopen"
    <3>1. CASE writer.file = disk.active
      BY <2>2, <3>1
    <3>2. ASSUME NEW d \in Emitters, jobs[d].step = "reopen"
          PROVE  jobs'[d].step = "reopen"
      BY <2>1, <2>2, <3>2, JobsAfter
    <3> QED
      BY <2>1, <2>2, <3>1, <3>2 DEF OnActive
  <2>3. CASE Emit(e) \/ Acquire(e)
    <3>1. jobs[e].step # "reopen" /\ (HasWriter \/ Opens \/ (OpenFails /\ writer = NoWriter))
      BY <2>3 DEF Emit, Acquire
    <3>2. CASE Opens
      <4>1. CASE disk' = disk /\ writer'.file = disk.active
        BY <4>1
      <4>2. CASE /\ disk' = [disk EXCEPT !.dir = TRUE, !.active = Len(inodes) + 1]
                 /\ writer'.file = Len(inodes) + 1
        BY <4>2 DEF Stored
      <4> QED
        BY <3>2, <4>1, <4>2 DEF Opens
    <3>3. CASE HasWriter
      BY <2>2, <3>1, <3>3 DEF HasWriter
    <3> QED
      BY <3>1, <3>2, <3>3 DEF OpenFails
  <2>4. CASE FlushBare(e) \/ StoreLeg(e) \/ Mark(e)
    BY <2>2, <2>4 DEF FlushBare, StoreLeg, Mark, Stored
  <2>5. CASE AppendLine(e)
    <3>1. writer # NoWriter /\ writer'.file = writer.file
      BY <2>5 DEF AppendLine, Lock, Holds, Stored
    <3> QED
      BY <2>2, <2>5, <3>1 DEF AppendLine
  <2>6. CASE AppendFails(e)
    BY <1>1, <2>6, Flags
  <2>7. CASE Rename(e)
    <3>1. Goes(e, "reopen")
      BY <2>7 DEF Rename, Fails
    <3> QED
      BY <3>1, BookTypes DEF Goes
  <2>8. CASE Reopen(e)
    BY <2>8 DEF Reopen, Fails, Stored
  <2> QED
    BY <1>1, <2>3, <2>4, <2>5, <2>6, <2>7, <2>8 DEF Emitting
<1>2. CASE DropWriter \/ Crash
  BY <1>2 DEF DropWriter, Crash
<1>3. CASE Unlink \/ RemoveDir \/ CleanupFails
  BY <1>3 DEF Unlink, RemoveDir, CleanupFails, Cleaned
<1> QED
  BY <1>1, <1>2, <1>3 DEF Next

LEMMA CleanedStays ==
    ASSUME LossInv, Next
    PROVE  Cleaned'
<1> Booked /\ Cleaned
  BY Parts DEF LossInv
<1>1. ASSUME NEW e \in Emitters, Emitting(e)
      PROVE  Cleaned'
  <2>1. LogInv
    BY DEF LossInv
  <2> QED
    BY <1>1, <2>1, EmittingMoves, Flags DEF Cleaned, Moves
<1>2. CASE DropWriter \/ Unlink \/ RemoveDir \/ CleanupFails \/ Crash
  BY <1>2, BookTypes DEF DropWriter, Unlink, RemoveDir, CleanupFails, Crash, Cleaned, Histories
<1> QED
  BY <1>1, <1>2 DEF Next

LEMMA KeptStays ==
    ASSUME LossInv, Next, LogInv'
    PROVE  Kept'
<1> LogInv /\ Kept /\ Cleaned /\ Stored /\ Booked /\ Fresh
  BY Parts DEF LossInv
<1> SUFFICES ASSUME ~ failed', ~ hist'.cleaned
             PROVE  /\ \A line \in hist'.returned : Known(line)'
                    /\ \A d \in Emitters : jobs'[d].step \in {"rename", "reopen", "store"} =>
                           Known(jobs[d].line)'
  BY DEF Kept
<1>1. ASSUME NEW e \in Emitters, Emitting(e)
      PROVE  /\ \A line \in hist'.returned : Known(line)'
             /\ \A d \in Emitters : jobs'[d].step \in {"rename", "reopen", "store"} =>
                    Known(jobs[d].line)'
  <2>1. ~ failed /\ ~ hist.cleaned /\ hist'.before = hist.before /\ Moves(e) /\ ~ AppendFails(e)
    BY <1>1, EmittingMoves, Flags
  <2>2. hist.before \in Nat
    BY BookTypes DEF Histories
  <2>3. Carried
    BY <2>1, Effects DEF Cleaned, Untouched, Removed, Written, Alike, Longer
  <2>4. ASSUME NEW line, Known(line)
        PROVE  Known(line)'
    BY <2>1, <2>2, <2>3, <2>4, KnownStays
  \* The line of an emitter that has appended it.
  <2>5. ASSUME NEW d \in Emitters, jobs'[d].step \in {"rename", "reopen", "store"}, NEW line,
               line = jobs'[d].line
        PROVE  Known(line)'
    <3>1. CASE d # e
      <4>1. jobs'[d] = jobs[d]
        BY <2>1, <3>1, JobsAfter
      <4> QED
        BY <2>1, <2>4, <2>5, <4>1 DEF Kept
    <3>2. CASE d = e
      <4>1. jobs \in [Emitters -> Jobs(hist.lines)]
        BY BookTypes
      <4>2. \A j : jobs' = [jobs EXCEPT ![e] = j] => jobs'[e] = j
        BY <4>1
      <4>3. CASE AppendLine(e)
        <5>1. line = jobs[e].line
          BY <2>5, <3>2, <4>2, <4>3, GoesTo DEF AppendLine, Goes, Jobs
        <5> QED
          BY <2>1, <4>3, <5>1, AppendedIsKnown
      <4>4. CASE Rename(e) \/ Reopen(e)
        <5>1. /\ jobs[e].step \in {"rename", "reopen"}
              /\ Goes(e, "reopen") \/ Goes(e, "store")
          BY <4>4 DEF Rename, Reopen
        <5>2. jobs'[e].line = jobs[e].line
          BY <4>2, <5>1, JobTypes DEF Goes, Jobs
        <5> QED
          BY <2>1, <2>4, <2>5, <3>2, <5>1, <5>2 DEF Kept
      <4>5. CASE Acquire(e)
        <5>1. Goes(e, "append")
          BY <4>5 DEF Acquire, Fails
        <5>2. jobs'[e].step = "append"
          BY <4>2, <5>1, JobTypes DEF Goes, Jobs
        <5>3. jobs'[d].step \notin {"rename", "reopen", "store"}
          BY <3>2, <5>2
        <5> QED
          BY <2>5, <5>3, Zenon
      <4>6. CASE Emit(e) \/ FlushBare(e) \/ Mark(e)
        <5>1. jobs'[e].step \in {"framed", "mark", "idle"}
          BY <4>2, <4>6, JobTypes DEF Emit, FlushBare, Mark, Goes, Idle, Jobs
        <5> QED
          BY <2>5, <3>2, <5>1
      <4>7. CASE StoreLeg(e)
        <5>1. jobs'[e].step \in {"idle", "mark"}
          BY <4>2, <4>7, ReturnsTo DEF StoreLeg
        <5> QED
          BY <2>5, <3>2, <5>1
      <4> QED
        BY <1>1, <2>1, <4>3, <4>4, <4>5, <4>6, <4>7 DEF Emitting
    <3> QED
      BY <3>1, <3>2
  <2>6. ASSUME NEW line \in hist'.returned
        PROVE  Known(line)'
    <3>1. CASE line \in hist.returned
      BY <2>1, <2>4, <3>1 DEF Kept
    <3>2. CASE line \notin hist.returned
      <4>1. StoreLeg(e)
        BY <1>1, <2>1, <3>2, BookTypes
           DEF Emitting, Emit, FlushBare, Acquire, AppendLine, Rename, Reopen, Mark, Fails, Histories
      <4>2. line = jobs[e].line /\ jobs[e].step = "store"
        BY <3>2, <4>1, BookTypes DEF StoreLeg, Histories
      <4> QED
        BY <2>1, <2>4, <4>2 DEF Kept
    <3> QED
      BY <3>1, <3>2
  <2>7. ASSUME NEW d \in Emitters, jobs'[d].step \in {"rename", "reopen", "store"}
        PROVE  Known(jobs[d].line)'
    <3>1. PICK line : line = jobs'[d].line
      OBVIOUS
    <3>2. Known(line)'
      BY <2>5, <2>7, <3>1
    <3> QED
      BY <3>1, <3>2 DEF Known, Readable, BehindAnOldTear
  <2> QED
    BY <2>6, <2>7
<1>2. CASE DropWriter \/ Unlink \/ RemoveDir \/ CleanupFails
  <2>1. hist'.cleaned
    BY <1>2, BookTypes DEF DropWriter, Unlink, RemoveDir, CleanupFails, Cleaned, Histories
  <2> QED
    BY <2>1
<1>3. CASE Crash
  BY <1>3, BookTypes DEF Crash, Idle, Histories
<1> QED
  BY <1>1, <1>2, <1>3 DEF Next

LEMMA LossInvStep ==
    ASSUME LossInv, [Next]_vars
    PROVE  LossInv'
<1>1. LogInv'
  BY LogInvStep DEF LossInv
<1>2. CASE Next
  BY <1>1, <1>2, OldTearsStay, StaysOnActive, CleanedStays, KeptStays DEF LossInv
<1>3. CASE UNCHANGED vars
  <2>1. Names' = Names /\ Contents' = Contents /\ Files' = Files
    BY <1>3 DEF vars, Names, Contents, FileAt, Files
  <2>2. ASSUME ~ failed', ~ hist'.cleaned
        PROVE  /\ \A line \in hist'.returned : Known(line)'
               /\ \A d \in Emitters : jobs'[d].step \in {"rename", "reopen", "store"} =>
                      Known(jobs[d].line)'
    <3>1. ASSUME NEW line, Known(line)
          PROVE  Known(line)'
      BY <1>3, <2>1, <3>1 DEF vars, Known, Readable, BehindAnOldTear
    <3>2. ASSUME NEW d \in Emitters, jobs'[d].step \in {"rename", "reopen", "store"}
          PROVE  Known(jobs[d].line)'
      <4>1. PICK line : line = jobs'[d].line
        OBVIOUS
      <4>2. Known(line)'
        BY <1>3, <2>2, <3>1, <3>2, <4>1 DEF vars, LossInv, Kept
      <4> QED
        BY <4>1, <4>2 DEF Known, Readable, BehindAnOldTear
    <3> QED
      BY <1>3, <2>2, <3>1, <3>2 DEF vars, LossInv, Kept
  <2>3. Kept'
    BY <2>2 DEF Kept
  <2> QED
    BY <1>1, <1>3, <2>1, <2>3 DEF vars, LossInv, OldTears, OnActive, Cleaned
<1> QED
  BY <1>2, <1>3

\* A line whose emit returned can be read, or its loss is known.
THEOREM NoSilentLoss == Spec => []LossIsKnown
<1>1. Init => LossInv
  <2> SUFFICES ASSUME Init
               PROVE  LossInv
    OBVIOUS
  <2>1. LogInv
    BY LogInvInit
  <2> QED
    BY <2>1 DEF Init, LossInv, OldTears, OnActive, Cleaned, Kept, NoHistory, Idle, Files
<1>2. LossInv /\ [Next]_vars => LossInv'
  BY LossInvStep
<1>3. LossInv => LossIsKnown
  BY DEF LossInv, Kept, Known, LossIsKnown
<1> QED
  BY <1>1, <1>2, <1>3, PTL DEF Spec

-----------------------------------------------------------------------------
(* How long the files are.                                                 *)

Rotating == \E e \in Emitters : jobs[e].step \in {"rename", "reopen"}

LEMMA SizeTypes ==
    ASSUME Booked
    PROVE  limit \in Nat /\ hist.restarts \in Nat /\ hist.failures \in BOOLEAN
  BY BookTypes, OutboxAssumption DEF Booked, Histories

LEMMA SizedParts ==
    Sized <=>
        (~ hist.failures =>
            /\ \A f \in Files : Len(inodes[f]) <= limit + 1 + hist.restarts
            /\ writer # NoWriter =>
                  /\ writer.size = Len(inodes[writer.file])
                  /\ ~ Rotating => writer.size <= limit + hist.restarts
            /\ writer = NoWriter /\ disk.active # NoFile =>
                  Len(inodes[disk.active]) <= limit + hist.restarts)
  BY DEF Sized, Rotating

\* Where the files and the writer stay as they are.
LEMMA SameSizes ==
    ASSUME SizeInv, limit' = limit, hist'.restarts = hist.restarts,
           hist'.failures = hist.failures, UNCHANGED <<inodes, writer>>,
           disk'.active \in {disk.active, NoFile}, Rotating => Rotating'
    PROVE  Sized'
<1>1. Files' = Files
  BY DEF Files
<1> QED
  BY <1>1, SizedParts DEF SizeInv, Sized, Rotating

\* An opened writer knows the size of its file.
LEMMA OpenedSize ==
    ASSUME SizeInv, ~ hist.failures, Opens, writer = NoWriter
    PROVE  /\ \A f \in Files' : Len(inodes'[f]) <= limit + 1 + hist.restarts
           /\ writer'.size = Len(inodes'[writer'.file]) /\ writer'.size <= limit + hist.restarts
<1> Sized /\ Booked /\ Stored /\ LogInv
  BY Parts DEF SizeInv
<1>1. CASE /\ disk.active # NoFile
           /\ writer' = [file |-> disk.active, size |-> Len(inodes[disk.active]), seq |-> NextSeq]
           /\ inodes' = inodes
  BY <1>1 DEF Sized, Files
<1>2. CASE /\ inodes' = Append(inodes, <<>>)
           /\ writer' = [file |-> Len(inodes) + 1, size |-> 0, seq |-> NextSeq]
  <2>1. inodes \in Seq(Seq(Pieces))
    BY DEF Stored
  <2>2. /\ Files' = Files \cup {Len(inodes) + 1}
        /\ \A f \in Files : inodes'[f] = inodes[f]
        /\ inodes'[Len(inodes) + 1] = <<>>
    BY <1>2, <2>1 DEF Files
  <2>3. Len(inodes'[Len(inodes) + 1]) = 0
    BY <2>2
  <2>4. writer'.file = Len(inodes) + 1 /\ writer'.size = 0
    BY <1>2
  <2> QED
    BY <2>2, <2>3, <2>4, SizeTypes DEF Sized
<1> QED
  BY <1>1, <1>2 DEF Opens

\* A line more.
LEMMA WrittenSize ==
    ASSUME LogInv, writer # NoWriter, NEW p \in Pieces, Writes(writer.file, p)
    PROVE  /\ Files' = Files /\ writer.file \in Files
           /\ Len(inodes[writer.file]) \in Nat
           /\ Len(inodes'[writer.file]) = Len(inodes[writer.file]) + 1
           /\ \A f \in Files : f # writer.file => inodes'[f] = inodes[f]
<1> Stored
  BY Parts
<1>1. writer.file \in Files /\ inodes \in Seq(Seq(Pieces)) /\ inodes[writer.file] \in Seq(Pieces)
  BY FileTypes DEF Stored, Handle
<1>2. inodes' = [inodes EXCEPT ![writer.file] = Append(inodes[writer.file], p)]
  BY DEF Writes
<1>3. inodes'[writer.file] = Append(inodes[writer.file], p)
  BY <1>1, <1>2, FileTypes
<1> QED
  BY <1>1, <1>2, <1>3, FileTypes DEF Files

LEMMA SizedStep ==
    ASSUME SizeInv, Next, LogInv'
    PROVE  Sized'
<1> LogInv /\ Sized /\ Booked /\ Stored /\ Lock /\ limit' = limit
  BY Parts DEF SizeInv, Next
<1> limit \in Nat /\ hist.restarts \in Nat /\ hist.failures \in BOOLEAN
  BY SizeTypes
<1>1. ASSUME NEW e \in Emitters, Emitting(e)
      PROVE  Sized'
  <2>1. hist'.restarts = hist.restarts /\ (hist.failures => hist'.failures) /\ Moves(e)
    BY <1>1, EmittingMoves, Flags
  <2> SUFFICES ASSUME ~ hist'.failures
               PROVE  Sized'
    BY DEF Sized
  <2>2. ~ hist.failures /\ hist'.failures = hist.failures
    BY <2>1, SizeTypes, BooksStay, BookTypes DEF Moves, Histories
  <2>3. \A d \in Emitters : d # e => jobs'[d] = jobs[d]
    BY <2>1, JobsAfter
  <2>4. jobs[e].step \notin {"rename", "reopen"} => (Rotating => Rotating')
    BY <2>3 DEF Rotating
  <2>5. CASE Emit(e) \/ Acquire(e)
    <3>1. /\ jobs[e].step \notin {"rename", "reopen"}
          /\ HasWriter \/ (writer = NoWriter /\ Opens) \/ OpenFails
      BY <2>5 DEF Emit, Acquire
    <3>2. CASE HasWriter
      BY <2>1, <2>2, <2>4, <3>1, <3>2, SameSizes DEF SizeInv, HasWriter
    <3>3. CASE OpenFails
      BY <2>1, <2>2, <2>4, <3>1, <3>3, SameSizes DEF SizeInv, OpenFails, Stored
    <3>4. CASE writer = NoWriter /\ Opens
      BY <2>1, <2>2, <3>4, OpenedSize, OpensKeeps DEF SizeInv, Sized
    <3> QED
      BY <3>1, <3>2, <3>3, <3>4
  <2>6. CASE FlushBare(e) \/ StoreLeg(e) \/ Mark(e)
    BY <2>1, <2>2, <2>4, <2>6, SameSizes DEF SizeInv, FlushBare, StoreLeg, Mark, Stored
  <2>7. CASE AppendLine(e)
    <3>1. /\ jobs[e].step = "append" /\ writer # NoWriter
          /\ writer \in [file : Files \cup {NoFile}, size : Nat, seq : Nat]
          /\ writer' = [writer EXCEPT !.size = @ + 1]
          /\ Writes(writer.file, Whole(jobs[e].line))
          /\ Goes(e, IF TooLong(writer.size + 1) THEN "rename" ELSE "store")
      BY <2>7 DEF AppendLine, Lock, Holds, Stored
    <3>2. Whole(jobs[e].line) \in Pieces
      BY JobTypes DEF Whole, Pieces
    <3>3. ~ Rotating
      BY <3>1 DEF Rotating, Lock, Holds
    <3>4. writer.size = Len(inodes[writer.file]) /\ writer.size <= limit + hist.restarts
      BY <2>2, <3>1, <3>3, SizedParts
    <3>5. /\ Files' = Files /\ writer.file \in Files
          /\ Len(inodes'[writer.file]) = writer.size + 1
          /\ \A f \in Files : f # writer.file => inodes'[f] = inodes[f]
      BY <3>1, <3>2, <3>4, WrittenSize
    <3>6. writer'.file = writer.file /\ writer'.size = writer.size + 1 /\ writer.size \in Nat
      BY <3>1
    <3>7. TooLong(writer.size + 1) => Rotating'
      <4>1. TooLong(writer.size + 1) => jobs'[e].step = "rename"
        BY <3>1, BookTypes DEF Goes, Jobs
      <4> QED
        BY <4>1 DEF Rotating
    <3>8. ~ Rotating' => writer'.size <= limit + hist.restarts
      BY <3>6, <3>7 DEF TooLong
    <3>9. \A f \in Files : Len(inodes'[f]) <= limit + 1 + hist.restarts
      BY <2>2, <3>4, <3>5, <3>6 DEF Sized
    <3>10. writer' # NoWriter
      BY <3>1 DEF NoWriter
    <3> QED
      BY <2>1, <3>5, <3>6, <3>8, <3>9, <3>10 DEF Sized, Rotating
  <2>8. CASE AppendFails(e)
    BY <2>8, SizeTypes, BookTypes DEF AppendFails, Fails, Histories
  <2>9. CASE Rename(e)
    <3>1. /\ jobs[e].step = "rename" /\ writer # NoWriter
          /\ writer \in [file : Files \cup {NoFile}, size : Nat, seq : Nat]
          /\ writer' = [writer EXCEPT !.seq = @ + 1] /\ inodes' = inodes
      BY <2>9 DEF Rename, Lock, Holds, Stored
    <3>2. Goes(e, "reopen")
      BY <2>9, SizeTypes, BookTypes DEF Rename, Fails, Histories
    <3>3. Rotating'
      BY <3>2, BookTypes DEF Rotating, Goes, Jobs
    <3>4. writer'.file = writer.file /\ writer'.size = writer.size /\ writer' # NoWriter
      BY <3>1 DEF NoWriter
    <3> QED
      BY <2>1, <2>2, <3>1, <3>3, <3>4 DEF Sized, Rotating, Files
  <2>10. CASE Reopen(e)
    <3>1. /\ inodes' = Append(inodes, <<>>) /\ inodes \in Seq(Seq(Pieces))
          /\ writer' = [writer EXCEPT !.file = Len(inodes) + 1, !.size = 0]
          /\ writer \in [file : Files \cup {NoFile}, size : Nat, seq : Nat]
      BY <2>10, SizeTypes, BookTypes DEF Reopen, Fails, Histories, Stored
    <3>2. /\ Files' = Files \cup {Len(inodes) + 1}
          /\ \A f \in Files : inodes'[f] = inodes[f]
          /\ inodes'[Len(inodes) + 1] = <<>>
      BY <3>1 DEF Files
    <3>3. Len(inodes'[Len(inodes) + 1]) = 0
      BY <3>2
    <3>4. writer'.file = Len(inodes) + 1 /\ writer'.size = 0
      BY <3>1
    <3>5. writer' # NoWriter
      BY <3>4, FileTypes DEF NoWriter, NoFile
    <3> QED
      BY <2>1, <2>2, <3>2, <3>3, <3>4, <3>5 DEF Sized
  <2> QED
    BY <1>1, <2>5, <2>6, <2>7, <2>8, <2>9, <2>10 DEF Emitting
<1>2. CASE DropWriter
  <2>1. /\ ~ Locked /\ UNCHANGED <<inodes, disk, jobs>> /\ writer' = NoWriter
        /\ hist'.restarts = hist.restarts /\ hist'.failures = hist.failures
    BY <1>2, BookTypes DEF DropWriter, Histories
  <2>2. ~ Rotating /\ Files' = Files
    BY <2>1 DEF Locked, Rotating, Files
  <2>3. writer # NoWriter /\ disk.active # NoFile => disk.active = writer.file
    BY DEF Stored, Handle
  <2> QED
    BY <2>1, <2>2, <2>3, SizedParts DEF Sized
<1>3. CASE Unlink \/ RemoveDir \/ CleanupFails
  <2>1. /\ UNCHANGED <<inodes, writer, hist, jobs>>
        /\ disk' \in {disk, EmptyDir, [EmptyDir EXCEPT !.dir = TRUE]}
    BY <1>3 DEF Unlink, RemoveDir, CleanupFails
  <2>2. disk'.active \in {disk.active, NoFile}
    BY <2>1 DEF EmptyDir
  <2> QED
    BY <2>1, <2>2, SameSizes DEF SizeInv, Rotating
<1>4. CASE Crash
  <2>1. /\ UNCHANGED disk /\ writer' = NoWriter
        /\ hist'.restarts = hist.restarts + 1 /\ hist'.failures = hist.failures
    BY <1>4, BookTypes DEF Crash, Histories
  <2> SUFFICES ASSUME ~ hist.failures
               PROVE  Sized'
    BY <2>1 DEF Sized
  <2>2. disk.active # NoFile => disk.active \in Files
    BY DEF Stored
  <2>3. Files' = Files /\ \A f \in Files : Len(inodes'[f]) <= limit + 1 + hist.restarts
    <3>1. CASE UNCHANGED inodes
      BY <3>1 DEF Sized, Files
    <3>2. ASSUME NEW e \in Emitters, jobs[e].step = "append",
                 NEW p \in {Whole(jobs[e].line), Torn(jobs[e].line)}, Writes(writer.file, p)
          PROVE  Files' = Files /\ \A f \in Files : Len(inodes'[f]) <= limit + 1 + hist.restarts
      <4>1. writer # NoWriter /\ ~ Rotating
        BY <3>2 DEF Lock, Holds, Rotating
      <4>2. p \in Pieces
        <5>1. Whole(jobs[e].line) \in Pieces /\ Torn(jobs[e].line) \in Pieces
          BY JobTypes DEF Pieces, Whole, Torn
        <5> QED
          BY <5>1
      <4>3. writer.size = Len(inodes[writer.file]) /\ writer.size <= limit + hist.restarts
        BY <4>1, SizedParts
      <4>4. /\ Files' = Files
            /\ Len(inodes[writer.file]) \in Nat
            /\ Len(inodes'[writer.file]) = Len(inodes[writer.file]) + 1
            /\ \A f \in Files : f # writer.file => inodes'[f] = inodes[f]
        BY <3>2, <4>1, <4>2, WrittenSize
      <4>5. Len(inodes'[writer.file]) <= limit + 1 + hist.restarts
        BY <4>3, <4>4
      <4>6. \A f \in Files : Len(inodes[f]) <= limit + 1 + hist.restarts
        BY DEF Sized
      <4>7. ASSUME NEW f \in Files
            PROVE  Len(inodes'[f]) <= limit + 1 + hist.restarts
        <5>1. CASE f = writer.file
          BY <4>5, <5>1
        <5>2. CASE f # writer.file
          BY <4>4, <4>6, <5>2
        <5> QED
          BY <5>1, <5>2
      <4> QED
        BY <4>4, <4>7
    <3> QED
      BY <1>4, <3>1, <3>2 DEF Crash
  <2>4. \A f \in Files : Len(inodes'[f]) \in Nat
    <3>1. inodes' \in Seq(Seq(Pieces))
      BY DEF LogInv, TypeOK
    <3>2. \A f \in Files' : inodes'[f] \in Seq(Pieces)
      BY <3>1 DEF Files
    <3> QED
      BY <2>3, <3>2
  <2>5. limit + hist'.restarts = limit + 1 + hist.restarts
    BY <2>1
  <2>6. \A f \in Files : Len(inodes'[f]) <= limit + 1 + hist'.restarts
    BY <2>1, <2>3, <2>4
  <2> QED
    BY <2>1, <2>2, <2>3, <2>5, <2>6 DEF Sized
<1> QED
  BY <1>1, <1>2, <1>3, <1>4 DEF Next

LEMMA SizeInvStep ==
    ASSUME SizeInv, [Next]_vars
    PROVE  SizeInv'
<1>1. LogInv'
  BY LogInvStep DEF SizeInv
<1>2. CASE Next
  BY <1>1, <1>2, SizedStep DEF SizeInv
<1>3. CASE UNCHANGED vars
  BY <1>1, <1>3, SameSizes DEF vars, SizeInv, Rotating
<1> QED
  BY <1>2, <1>3

\* A file is rotated as soon as it is too long.
THEOREM RotationIsPrompt == Spec => []FilesAreBounded
<1>1. Init => SizeInv
  <2> SUFFICES ASSUME Init
               PROVE  SizeInv
    OBVIOUS
  <2>1. LogInv
    BY LogInvInit
  <2>2. Files = {} /\ disk.active = NoFile /\ writer = NoWriter
    BY DEF Init, Files, EmptyDir
  <2> QED
    BY <2>1, <2>2 DEF SizeInv, Sized
<1>2. SizeInv /\ [Next]_vars => SizeInv'
  BY SizeInvStep
<1>3. SizeInv => FilesAreBounded
  BY DEF SizeInv, LogInv, Sized, FilesAreBounded
<1> QED
  BY <1>1, <1>2, <1>3, PTL DEF Spec

=============================================================================
