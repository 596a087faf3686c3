--------------------------- MODULE LogTailProofs ---------------------------
(***************************************************************************)
(* Proofs about main's reading of the log, for any log, any number of      *)
(* files and any rotations.                                                *)
(***************************************************************************)
EXTENDS LogTail, WellFoundedInduction, FiniteSetTheorems, TLAPS

-----------------------------------------------------------------------------
(* Pieces and lines.                                                       *)

\* The parts of a piece's number.
LEMMA Parts ==
  ASSUME NEW p \in Nat \ {0}
  PROVE  /\ Part(p) \in 1 .. 3 /\ LineOf(p) \in Nat \ {0}
         /\ p = 3 * (LineOf(p) - 1) + Part(p)
  BY DEF Part, LineOf

\* A line ends with its third piece: pieces that follow each other are of one
\* line if none but the last is a third.
LEMMA OneLine ==
  ASSUME NEW a \in Nat \ {0}, NEW b \in Nat \ {0}, a <= b,
         \A p \in a .. b - 1 : Part(p) # 3
  PROVE  LineOf(a) = LineOf(b)
<1>1. /\ Part(a) \in 1 .. 3 /\ LineOf(a) \in Nat \ {0} /\ a = 3 * (LineOf(a) - 1) + Part(a)
      /\ Part(b) \in 1 .. 3 /\ LineOf(b) \in Nat \ {0} /\ b = 3 * (LineOf(b) - 1) + Part(b)
  BY Parts
<1>2. LineOf(a) <= LineOf(b)
  BY <1>1
<1>3. ASSUME LineOf(a) < LineOf(b) PROVE FALSE
  <2> DEFINE p == 3 * LineOf(a)
  <2>1. p \in a .. b - 1 /\ p \in Nat \ {0}
    BY <1>1, <1>3
  <2>2. Part(p) \in 1 .. 3 /\ LineOf(p) \in Nat \ {0} /\ p = 3 * (LineOf(p) - 1) + Part(p)
    BY <2>1, Parts
  <2>3. Part(p) = 3
    BY <2>2, <1>1
  <2> QED
    BY <2>1, <2>3
<1> QED
  BY <1>1, <1>2, <1>3

\* A set of numbers has a least one.
LEMMA LeastIs ==
  ASSUME NEW S \in SUBSET Nat, S # {}
  PROVE  \E m \in S : \A n \in S : m <= n
<1>1. PICK m \in S : \A n \in S : ~ (<<n, m>> \in OpToRel(<, Nat))
  BY NatLessThanWellFounded, WFMin
<1>2. \A n \in S : ~ (n < m)
  BY <1>1 DEF OpToRel
<1> QED
  BY <1>2

-----------------------------------------------------------------------------
(* The files.                                                              *)

\* The log's name stands for the newest file or none, the name server writes to
\* one that is no newer, and those that are newer are empty.
Names ==
  /\ path \in {0, nfile} /\ (path = 0 => nfile < MaxFile)
  /\ writing <= nfile /\ file <= nfile
  /\ \A f \in File : f > writing => content[f] = <<>>

\* A file has the pieces written between two rotations, one after another.
Contiguous ==
  /\ \A f \in File : \A i, j \in DOMAIN content[f] : content[f][j] = content[f][i] + (j - i)
  /\ content[writing] # <<>> => content[writing][Len(content[writing])] = npiece
  /\ \A f \in File : \A i \in DOMAIN content[f] : content[f][i] <= npiece

\* Pieces in a newer file are newer.
Ordered ==
  \A f, g \in File : f < g =>
    \A i \in DOMAIN content[f], j \in DOMAIN content[g] : content[f][i] < content[g][j]

\* main opens the log again only if its name stands for another file: the inode
\* it compares with is that of the file it reads, or the name has passed to
\* another before the inode was asked for.
Opening ==
  /\ first <=> file # 0
  /\ file = 0 => handled = <<>> /\ pc \in {"fopen", "exit"}
  /\ pc \in {"fgets", "lstat", "sleep"} => sbuf = last_inode /\ (path = file => last_inode = file)
  /\ pc = "fopen" /\ path # 0 => path # file

\* What is still to be read is newer than what was handled.
Newer ==
  \A h \in ToSet(handled) :
    /\ h[2] <= npiece
    /\ \A f \in File : \A j \in DOMAIN content[f] :
         f > file \/ (f = file /\ j > pos) => h[2] < content[f][j]

FilesInv == TypeOK /\ Names /\ Contiguous /\ Ordered
TailInv == FilesInv /\ Opening /\ Newer /\ InOrderOnce

\* At first there is nothing to read.
LEMMA InitTail == Init => TailInv
<1> SUFFICES ASSUME Init PROVE TailInv
  OBVIOUS
<1>1. /\ content = [f \in File |-> <<>>] /\ handled = <<>> /\ ToSet(handled) = {}
      /\ 1 \in File /\ \A f \in File : content[f] = <<>> /\ DOMAIN content[f] = {}
  BY BoundAssumption DEF Init, File, ToSet
<1>2. TypeOK
  <2>1. content \in [File -> Seq(Piece)] /\ handled \in Seq(Piece \X Piece)
    BY <1>1
  <2>2. pos \in 0 .. (IF file = 0 THEN 0 ELSE Len(content[file]))
    BY DEF Init
  <2>3. path \in File /\ nfile \in File /\ writing \in File /\ npiece = 0 /\ late \in SUBSET Piece
    BY <1>1 DEF Init
  <2> QED
    BY <2>1, <2>2, <2>3 DEF Init, TypeOK
<1>3. Names /\ Contiguous /\ Ordered
  BY <1>1 DEF Init, Names, Contiguous, Ordered, File
<1>4. Opening
  BY <1>1 DEF Init, Opening
<1>5. Newer /\ InOrderOnce
  BY <1>1, <1>2 DEF Newer, InOrderOnce
<1> QED
  BY <1>2, <1>3, <1>4, <1>5 DEF TailInv, FilesInv

-----------------------------------------------------------------------------
(* The name server and the rotations.                                      *)

\* A write adds pieces to one file.
LEMMA Written ==
  ASSUME TypeOK, NEW n \in 1 .. 3, write(n)
  PROVE  /\ content' \in [File -> Seq(Piece)] /\ npiece' = npiece + n /\ npiece' \in Piece
         /\ \A f \in File : f # writing => content'[f] = content[f]
         /\ Len(content'[writing]) = Len(content[writing]) + n
         /\ DOMAIN content'[writing] = 1 .. Len(content[writing]) + n
         /\ \A i \in 1 .. Len(content[writing]) + n :
              content'[writing][i] = IF i <= Len(content[writing]) THEN content[writing][i]
                                     ELSE npiece + (i - Len(content[writing]))
         /\ ToSet([i \in 1 .. n |-> npiece + i]) = npiece + 1 .. npiece + n
<1> DEFINE new == [i \in 1 .. n |-> npiece + i]
           old == content[writing]
<1>1. new \in Seq(Piece) /\ Len(new) = n /\ DOMAIN new = 1 .. n /\ \A i \in 1 .. n : new[i] = npiece + i
  BY BoundAssumption DEF write, TypeOK, Piece
<1>2. old \in Seq(Piece) /\ Len(old) \in Nat /\ writing \in File
  BY DEF TypeOK
<1>3. content' = [content EXCEPT ![writing] = old \o new]
  BY DEF write
<1>4. ToSet(new) = npiece + 1 .. npiece + n
  <2>1. ASSUME NEW p \in npiece + 1 .. npiece + n PROVE p \in ToSet(new)
    <3>1. p - npiece \in 1 .. n /\ p = npiece + (p - npiece)
      BY DEF TypeOK, Piece
    <3> QED
      BY <3>1, <1>1 DEF ToSet
  <2>2. ASSUME NEW i \in 1 .. n PROVE npiece + i \in npiece + 1 .. npiece + n
    BY DEF TypeOK, Piece
  <2> QED
    BY <2>1, <2>2, <1>1 DEF ToSet
<1> HIDE DEF new, old
<1>5. /\ old \o new \in Seq(Piece) /\ Len(old \o new) = Len(old) + n
      /\ DOMAIN (old \o new) = 1 .. Len(old) + n
  BY <1>1, <1>2
<1>6. ASSUME NEW i \in 1 .. Len(old) + n
      PROVE  (old \o new)[i] = IF i <= Len(old) THEN old[i] ELSE npiece + (i - Len(old))
  <2>1. (old \o new)[i] = IF i <= Len(old) THEN old[i] ELSE new[i - Len(old)]
    BY <1>1, <1>2
  <2>2. i > Len(old) => i - Len(old) \in 1 .. n
    BY <1>2
  <2> QED
    BY <2>1, <2>2, <1>1, <1>2
<1>7. content'[writing] = old \o new /\ \A f \in File : f # writing => content'[f] = content[f]
  BY <1>2, <1>3 DEF TypeOK
<1>8. content' \in [File -> Seq(Piece)] /\ npiece' = npiece + n /\ npiece' \in Piece
  BY <1>3, <1>5 DEF TypeOK, write
<1> QED
  BY <1>4, <1>5, <1>6, <1>7, <1>8 DEF old, new

\* A write keeps the files and what main relies on.
LEMMA WriteStep == ASSUME TailInv, NEW n \in 1 .. 3, write(n) PROVE TailInv'
<1> USE DEF TailInv, FilesInv
<1> DEFINE w == writing
           l == Len(content[writing])
           new == [i \in 1 .. n |-> npiece + i]
<1>1. /\ UNCHANGED <<path, nfile, writing, main, fixed>>
      /\ late' = late \/ late' = late \cup ToSet(new)
  BY DEF write
<1>2. /\ content' \in [File -> Seq(Piece)] /\ npiece' = npiece + n /\ npiece' \in Piece
      /\ \A f \in File : f # w => content'[f] = content[f]
      /\ Len(content'[w]) = l + n
      /\ DOMAIN content'[w] = 1 .. l + n
      /\ \A i \in 1 .. l + n : content'[w][i] = IF i <= l THEN content[w][i] ELSE npiece + (i - l)
      /\ ToSet(new) = npiece + 1 .. npiece + n
  BY Written
<1>3. /\ w \in File /\ l \in Nat /\ npiece \in Nat /\ DOMAIN content[w] = 1 .. l /\ nfile \in Nat
      /\ w \in Nat /\ file \in Nat /\ pos \in Nat /\ File \subseteq Nat
      /\ \A f \in File : content[f] \in Seq(Piece) /\ Len(content[f]) \in Nat
                        /\ DOMAIN content[f] = 1 .. Len(content[f])
      /\ \A f \in File : \A i \in DOMAIN content[f] : content[f][i] \in Nat
  BY BoundAssumption DEF TypeOK, File, Piece
<1>4. l > 0 => content[w][l] = npiece
  BY <1>3 DEF Contiguous
<1> HIDE DEF w, l, new
<1>5. \A i \in 1 .. l : content[w][i] = npiece + (i - l)
  <2> SUFFICES ASSUME NEW i \in 1 .. l PROVE content[w][i] = npiece + (i - l)
    OBVIOUS
  <2>1. content[w][l] = content[w][i] + (l - i) /\ content[w][i] \in Nat
    BY <1>3 DEF Contiguous
  <2>2. l \in Nat /\ npiece \in Nat /\ i \in Nat /\ l > 0
    BY <1>3
  <2> QED
    BY <2>1, <2>2, <1>4
<1>6. \A i \in 1 .. l + n : content'[w][i] = npiece + (i - l)
  <2> SUFFICES ASSUME NEW i \in 1 .. l + n PROVE content'[w][i] = npiece + (i - l)
    OBVIOUS
  <2>1. content'[w][i] = IF i <= l THEN content[w][i] ELSE npiece + (i - l)
    BY <1>2
  <2>2. l \in Nat /\ i \in Nat /\ (i <= l => i \in 1 .. l)
    BY <1>3
  <2> QED
    BY <2>1, <2>2, <1>5
<1>7. TypeOK'
  <2>1. late' \in SUBSET Piece
    <3>1. npiece + 1 .. npiece + n \subseteq Piece
      <4>1. npiece' = npiece + n /\ npiece' \in Piece /\ npiece \in Nat
        BY <1>2, <1>3
      <4> QED
        BY <4>1, BoundAssumption DEF Piece
    <3> QED
      BY <1>1, <1>2, <3>1 DEF TypeOK
  <2>2. pos' \in 0 .. (IF file' = 0 THEN 0 ELSE Len(content'[file']))
    <3>1. file' = file /\ pos' = pos /\ (file # 0 => Len(content'[file]) >= Len(content[file]))
      <4>1. file' = file /\ pos' = pos /\ file \in File \cup {0}
        BY <1>1 DEF main, TypeOK
      <4>2. file = w => Len(content'[file]) >= Len(content[file])
        BY <1>2, <1>3 DEF l, w
      <4>3. file # 0 /\ file # w => Len(content'[file]) >= Len(content[file])
        BY <4>1, <1>2, <1>3
      <4> QED
        BY <4>1, <4>2, <4>3
    <3>2. file # 0 => Len(content'[file]) \in Nat
      BY <1>2 DEF TypeOK
    <3> QED
      BY <3>1, <3>2, <1>3 DEF TypeOK
  <2> QED
    BY <1>1, <1>2, <2>1, <2>2 DEF TypeOK, main, fixed
<1>8. Names'
  BY <1>1, <1>2, <1>3 DEF Names, main, w
<1>9. Contiguous'
  <2>1. ASSUME NEW f \in File
        PROVE  /\ \A i, j \in DOMAIN content'[f] : content'[f][j] = content'[f][i] + (j - i)
               /\ \A i \in DOMAIN content'[f] : content'[f][i] <= npiece'
    <3>1. CASE f = w
      BY <3>1, <1>2, <1>3, <1>6
    <3>2. CASE f # w
      <4>1. content'[f] = content[f]
        BY <3>2, <1>2
      <4>2. npiece \in Nat /\ npiece' = npiece + n /\ n \in Nat
        BY <1>2, <1>3
      <4>3. \A i \in DOMAIN content[f] : content[f][i] <= npiece /\ content[f][i] \in Nat
        BY <1>3 DEF Contiguous
      <4>4. \A i \in DOMAIN content[f] : content[f][i] <= npiece'
        BY <4>2, <4>3
      <4> QED
        BY <4>1, <4>4 DEF Contiguous
    <3> QED
      BY <3>1, <3>2
  <2>2. writing' = w /\ content'[w][l + n] = npiece'
    BY <1>1, <1>2, <1>3, <1>6 DEF w
  <2> QED
    BY <2>1, <2>2, <1>2 DEF Contiguous
<1>10. Ordered'
  <2> SUFFICES ASSUME NEW f \in File, NEW g \in File, f < g,
                      NEW i \in DOMAIN content'[f], NEW j \in DOMAIN content'[g]
               PROVE  content'[f][i] < content'[g][j]
    BY DEF Ordered
  <2>1. g <= w
    <3> SUFFICES ASSUME g > w PROVE FALSE
      BY <1>3
    <3>1. g # w /\ content[g] = <<>>
      BY <1>3 DEF Names, w
    <3>2. content'[g] = <<>>
      BY <3>1, <1>2
    <3> QED
      BY <3>2
  <2>2. f # w /\ content'[f] = content[f] /\ i \in DOMAIN content[f]
    BY <2>1, <1>2, <1>3
  <2>3. CASE g # w
    BY <2>2, <2>3, <1>2 DEF Ordered
  <2>4. CASE g = w
    <3>1. j \in 1 .. l + n /\ content'[g][j] = npiece + (j - l)
      BY <2>4, <1>2, <1>6
    <3>2. CASE j <= l
      <4>1. j \in DOMAIN content[g] /\ content[g][j] = npiece + (j - l)
        BY <3>1, <3>2, <2>4, <1>3, <1>5
      <4> QED
        BY <4>1, <3>1, <2>2 DEF Ordered
    <3>3. CASE j > l
      <4>1. content[f][i] <= npiece /\ content[f][i] \in Nat
        BY <2>2, <1>3 DEF Contiguous
      <4> QED
        BY <4>1, <3>1, <3>3, <2>2, <1>3
    <3> QED
      BY <3>1, <3>2, <3>3, <1>3
  <2> QED
    BY <2>3, <2>4
<1>11. Opening'
  BY <1>1 DEF Opening, main
<1>12. Newer'
  <2>1. handled' = handled /\ file' = file /\ pos' = pos
    BY <1>1 DEF main
  <2> SUFFICES ASSUME NEW h \in ToSet(handled)
               PROVE  /\ h[2] <= npiece'
                      /\ \A f \in File : \A j \in DOMAIN content'[f] :
                           f > file \/ (f = file /\ j > pos) => h[2] < content'[f][j]
    BY <2>1 DEF Newer
  <2>2. h[2] \in Nat /\ h[2] <= npiece
    <3>1. h \in Piece \X Piece
      BY DEF TypeOK, ToSet
    <3> QED
      BY <3>1, BoundAssumption DEF Newer, Piece
  <2>3. ASSUME NEW f \in File, NEW j \in DOMAIN content'[f], f > file \/ (f = file /\ j > pos)
        PROVE  h[2] < content'[f][j]
    <3>1. CASE f # w
      BY <3>1, <2>3, <1>2 DEF Newer
    <3>2. CASE f = w
      <4>1. j \in 1 .. l + n /\ content'[f][j] = npiece + (j - l)
        BY <3>2, <1>2, <1>6
      <4>2. CASE j <= l
        <5>1. j \in DOMAIN content[f] /\ content[f][j] = npiece + (j - l)
          BY <4>1, <4>2, <3>2, <1>3, <1>5
        <5> QED
          BY <5>1, <4>1, <2>3 DEF Newer
      <4>3. CASE j > l
        BY <4>1, <4>3, <2>2, <1>3
      <4> QED
        BY <4>1, <4>2, <4>3, <1>3
    <3> QED
      BY <3>1, <3>2
  <2> QED
    BY <2>2, <2>3, <1>2, <1>3
<1>13. InOrderOnce'
  BY <1>1, <1>7 DEF InOrderOnce, main
<1> QED
  BY <1>7, <1>8, <1>9, <1>10, <1>11, <1>12, <1>13

\* Files and numbers are numbers.
LEMMA Numbers ==
  ASSUME TypeOK
  PROVE  /\ File \subseteq Nat \ {0} /\ Piece \subseteq Nat \ {0} /\ nfile \in File /\ writing \in File
         /\ path \in Nat /\ file \in Nat /\ npiece \in Nat /\ pos \in Nat
         /\ \A f \in File : content[f] \in Seq(Piece) /\ Len(content[f]) \in Nat
                           /\ DOMAIN content[f] = 1 .. Len(content[f])
         /\ \A f \in File : \A i \in DOMAIN content[f] : content[f][i] \in Piece
         /\ \A h \in ToSet(handled) : h \in Piece \X Piece
<1>1. File \subseteq Nat \ {0} /\ Piece \subseteq Nat \ {0}
  BY BoundAssumption DEF File, Piece
<1>2. /\ nfile \in File /\ writing \in File /\ path \in Nat /\ file \in Nat /\ npiece \in Nat
      /\ content \in [File -> Seq(Piece)] /\ handled \in Seq(Piece \X Piece)
  BY <1>1 DEF TypeOK
<1>3. \A f \in File : content[f] \in Seq(Piece) /\ Len(content[f]) \in Nat
                     /\ DOMAIN content[f] = 1 .. Len(content[f])
  BY <1>2
<1>4. pos \in Nat
  BY <1>3 DEF TypeOK
<1>5. \A f \in File : \A i \in DOMAIN content[f] : content[f][i] \in Piece
  BY <1>3
<1>6. \A h \in ToSet(handled) : h \in Piece \X Piece
  BY <1>2 DEF ToSet
<1> QED
  BY <1>1, <1>2, <1>3, <1>4, <1>5, <1>6

\* A rotation keeps the files and what main relies on.
LEMMA RotationStep == ASSUME TailInv, rename \/ create \/ reopen PROVE TailInv'
<1> USE DEF TailInv, FilesInv
<1>1. /\ File \subseteq Nat \ {0} /\ nfile \in File /\ writing \in File
      /\ path \in Nat /\ file \in Nat
  BY Numbers
<1>2. UNCHANGED <<content, npiece, main, fixed, late>>
  BY DEF rename, create, reopen
<1>3. /\ path' \in File \cup {0} /\ nfile' \in File /\ writing' \in File
      /\ path' \in {0, nfile'} /\ (path' = 0 => nfile' < MaxFile)
      /\ writing' <= nfile' /\ file <= nfile' /\ writing <= writing'
      /\ path' \in {0, path} \/ path' > file
      /\ content[writing'] # <<>> => writing' = writing
  <2>1. CASE rename
    BY <2>1, <1>1 DEF rename, Names
  <2>2. CASE create
    BY <2>2, <1>1, BoundAssumption DEF create, Names, File
  <2>3. CASE reopen
    BY <2>3, <1>1 DEF reopen, Names, main
  <2> QED
    BY <2>1, <2>2, <2>3
<1>4. TypeOK'
  BY <1>2, <1>3 DEF TypeOK, main, fixed
<1>5. Names' /\ Contiguous' /\ Ordered'
  <2>1. \A f \in File : f > writing' => content'[f] = <<>>
    <3> SUFFICES ASSUME NEW f \in File, f > writing' PROVE content[f] = <<>>
      BY <1>2
    <3>1. f \in Nat /\ writing \in Nat /\ writing' \in Nat /\ writing <= writing'
      BY <1>1, <1>3
    <3>2. f > writing
      BY <3>1
    <3> QED
      BY <3>2 DEF Names
  <2> QED
    BY <1>2, <1>3, <2>1 DEF Names, Contiguous, Ordered, main
<1>6. Opening'
  BY <1>1, <1>2, <1>3 DEF Opening, main
<1>7. Newer' /\ InOrderOnce'
  BY <1>2, <1>4 DEF Newer, InOrderOnce, main
<1> QED
  BY <1>4, <1>5, <1>6, <1>7

-----------------------------------------------------------------------------
(* main.                                                                   *)

\* What neither opens nor reads keeps what main relies on.
LEMMA LookStep ==
  ASSUME TailInv, fopen_fails \/ lstat \/ fgets_null \/ fgets_error \/ lstat_again \/ sleep
  PROVE  TailInv'
<1> USE DEF TailInv, FilesInv
<1>1. UNCHANGED <<server, file, pos, handled, first, fixed, late, counts>>
  BY DEF fopen_fails, lstat, fgets_null, fgets_error, lstat_again, sleep
<1>2. Stat \in File \cup {0}
  BY DEF Stat, TypeOK
<1>3. TypeOK'
  BY <1>1, <1>2 DEF TypeOK, server, fixed, fopen_fails, lstat, fgets_null, fgets_error, lstat_again,
     sleep, AfterSleep
<1>4. Names' /\ Contiguous' /\ Ordered' /\ Newer' /\ InOrderOnce'
  BY <1>1, <1>3 DEF Names, Contiguous, Ordered, Newer, InOrderOnce, server
<1>5. Opening'
  BY <1>1 DEF Opening, Stat, SameInode, server, fopen_fails, lstat, fgets_null, fgets_error,
     lstat_again, sleep, AfterSleep
<1> QED
  BY <1>3, <1>4, <1>5

\* A file that is opened is newer than the one before.
LEMMA OpenStep == ASSUME TailInv, fopen PROVE TailInv' /\ path \in File /\ path > file
<1> USE DEF TailInv, FilesInv
<1>1. /\ File \subseteq Nat \ {0} /\ nfile \in File /\ path \in Nat /\ file \in Nat
      /\ \A f \in File : content[f] \in Seq(Piece) /\ Len(content[f]) \in Nat
                        /\ DOMAIN content[f] = 1 .. Len(content[f])
      /\ Piece \subseteq Nat \ {0}
  BY Numbers
<1>2. /\ pc = "fopen" /\ path # 0 /\ file' = path /\ pos' = StartOf(path) /\ first' = TRUE
      /\ pc' = "inode" /\ eof' = FALSE /\ late' = late \cup PassedOver
      /\ UNCHANGED <<server, sbuf, last_inode, counts, handled, fixed>>
  BY DEF fopen
<1>3. path \in File /\ path > file
  BY <1>1, <1>2 DEF Names, Opening
<1>4. StartOf(path) \in 0 .. Len(content[path])
  BY <1>1, <1>3 DEF StartOf
<1>5. PassedOver \subseteq Piece
  <2>1. ASSUME NEW f \in File PROVE ToSet(content[f]) \subseteq Piece
    <3>1. content[f] \in Seq(Piece)
      BY <1>1
    <3> QED
      BY <3>1 DEF ToSet
  <2>2. (IF first THEN file + 1 .. path - 1 ELSE 1 .. path) \subseteq File
    BY <1>1, <1>3, BoundAssumption DEF File
  <2> QED
    BY <2>1, <2>2 DEF PassedOver
<1>6. TypeOK'
  BY <1>1, <1>2, <1>3, <1>4, <1>5 DEF TypeOK, server, fixed
<1>7. Names' /\ Contiguous' /\ Ordered' /\ Opening'
  BY <1>1, <1>2, <1>3 DEF Names, Contiguous, Ordered, Opening, server
<1>8. Newer'
  <2>1. \A f \in File : f > path \/ f = path => f > file
    BY <1>1, <1>3
  <2> QED
    BY <1>2, <2>1 DEF Newer, server
<1>9. InOrderOnce'
  BY <1>2, <1>6 DEF InOrderOnce
<1> QED
  BY <1>3, <1>6, <1>7, <1>8, <1>9

\* The rest of a sequence.
LEMMA RestOf ==
  ASSUME NEW S, NEW s \in Seq(S), NEW m \in Nat, m <= Len(s)
  PROVE  LET u == SubSeq(s, m + 1, Len(s)) IN
         /\ Len(s) \in Nat /\ u \in Seq(S) /\ Len(u) = Len(s) - m /\ DOMAIN u = 1 .. Len(s) - m
         /\ \A i \in 1 .. Len(s) - m : u[i] = s[m + i]
  OBVIOUS

\* fgets takes pieces of one line, the next ones of the file.
LEMMA Fgets ==
  ASSUME TailInv, fgets
  PROVE  /\ file \in File
         /\ \E n \in Nat \ {0} :
              /\ pos + n <= Len(content[file]) /\ pos' = pos + n
              /\ handled' = Append(handled, <<content[file][pos + 1], content[file][pos + n]>>)
              /\ LineOf(content[file][pos + 1]) = LineOf(content[file][pos + n])
              /\ LET outcome == Outcome(content[file][pos + 1], content[file][pos + n])
                 IN /\ pc' = IF outcome = "crash" THEN "crash" ELSE "fgets"
                    /\ counts' = IF outcome = "counted" THEN Counted(LineAt(content[file][pos + n]))
                                 ELSE counts
<1> USE DEF TailInv, FilesInv
<1> DEFINE s == content[file]
           ends == {i \in DOMAIN Unread : Part(Unread[i]) = 3}
           n == IF ends = {} THEN Len(Unread) ELSE CHOOSE i \in ends : \A j \in ends : i <= j
<1>1. /\ pc = "fgets" /\ Unread # <<>>
      /\ pos' = pos + n
      /\ handled' = Append(handled, <<Unread[1], Unread[n]>>)
      /\ pc' = IF Outcome(Unread[1], Unread[n]) = "crash" THEN "crash" ELSE "fgets"
      /\ counts' = IF Outcome(Unread[1], Unread[n]) = "counted" THEN Counted(LineAt(Unread[n]))
                   ELSE counts
  BY DEF fgets, CanRead
<1>2. file \in File /\ file # 0
  BY <1>1, Numbers DEF Opening, TypeOK
<1>3. /\ s \in Seq(Piece) /\ Len(s) \in Nat /\ DOMAIN s = 1 .. Len(s) /\ pos \in Nat /\ pos <= Len(s)
      /\ Piece \subseteq Nat \ {0} /\ \A i \in 1 .. Len(s) : s[i] \in Piece
  BY <1>2, Numbers DEF TypeOK
<1>4. Unread = SubSeq(s, pos + 1, Len(s))
  BY <1>2 DEF Unread
<1> DEFINE u == Unread
           k == Len(s) - pos
<1>5. Len(u) = k /\ DOMAIN u = 1 .. k /\ k \in Nat \ {0} /\ \A i \in 1 .. k : u[i] = s[pos + i]
  <2> HIDE DEF s
  <2>1. /\ u \in Seq(Piece) /\ Len(u) = k /\ DOMAIN u = 1 .. k /\ u # <<>>
        /\ \A i \in 1 .. k : u[i] = s[pos + i]
    BY <1>1, <1>3, <1>4, RestOf
  <2>2. k \in Nat
    BY <1>3
  <2>3. k # 0
    BY <2>1
  <2> QED
    BY <2>1, <2>2, <2>3
<1> HIDE DEF u, k
<1>6. n \in 1 .. k /\ \A i \in 1 .. n - 1 : Part(u[i]) # 3
  <2>0. ends = {i \in 1 .. k : Part(u[i]) = 3}
    BY <1>5 DEF u
  <2>1. CASE ends = {}
    <3>1. n = k
      BY <2>1, <1>5 DEF u
    <3> QED
      BY <2>0, <2>1, <3>1, <1>5
  <2>2. CASE ends # {}
    <3>1. ends \subseteq Nat
      BY <2>0
    <3>2. n \in ends /\ \A j \in ends : n <= j
      <4>1. n = CHOOSE i \in ends : \A j \in ends : i <= j
        BY <2>2
      <4> HIDE DEF ends, n
      <4>2. \E i \in ends : \A j \in ends : i <= j
        BY <2>2, <3>1, LeastIs
      <4> QED
        BY <4>1, <4>2
    <3> HIDE DEF n
    <3> QED
      BY <2>0, <3>2, <1>5
  <2> QED
    BY <2>1, <2>2
<1> HIDE DEF n, ends
<1>7. u[1] = s[pos + 1] /\ u[n] = s[pos + n] /\ n \in Nat \ {0} /\ pos + n <= Len(s)
  BY <1>3, <1>5, <1>6 DEF k
<1>8. LineOf(s[pos + 1]) = LineOf(s[pos + n])
  <2>1. s[pos + 1] \in Nat \ {0} /\ s[pos + n] \in Nat \ {0} /\ s[pos + n] = s[pos + 1] + (n - 1)
    <3>1. pos + 1 \in DOMAIN s /\ pos + n \in DOMAIN s
      BY <1>3, <1>7
    <3>2. s[pos + n] = s[pos + 1] + ((pos + n) - (pos + 1))
      BY <3>1, <1>2 DEF Contiguous
    <3>3. s[pos + 1] \in Nat \ {0} /\ s[pos + n] \in Nat \ {0}
      BY <3>1, <1>3
    <3> HIDE DEF s
    <3> QED
      BY <3>2, <3>3, <1>3, <1>7
  <2>2. ASSUME NEW p \in s[pos + 1] .. s[pos + n] - 1 PROVE Part(p) # 3
    <3> DEFINE i == p - s[pos + 1] + 1
    <3> DEFINE a == s[pos + 1]
               b == s[pos + n]
    <3> HIDE DEF a, b
    <3>0. a \in Nat /\ b = a + (n - 1) /\ p \in a .. b - 1 /\ n \in 1 .. k /\ k \in Nat /\ i = p - a + 1
      BY <2>1, <1>5, <1>6 DEF a, b
    <3> HIDE DEF i
    <3>1. i \in 1 .. n - 1 /\ i \in 1 .. k /\ p = a + (i - 1)
      BY <3>0
    <3>2. u[i] = p
      <4>1. u[i] = s[pos + i] /\ pos + i \in DOMAIN s /\ pos + 1 \in DOMAIN s
        <5>1. i \in 1 .. k /\ pos + i \in 1 .. Len(s) /\ pos + 1 \in 1 .. Len(s)
          BY <3>1, <1>3 DEF k
        <5> QED
          BY <5>1, <1>3, <1>5
      <4>2. s[pos + i] = s[pos + 1] + ((pos + i) - (pos + 1))
        BY <4>1, <1>2 DEF Contiguous
      <4> HIDE DEF s
      <4>3. i \in Nat /\ p \in Nat /\ p = s[pos + 1] + (i - 1)
        BY <3>0, <3>1 DEF a
      <4> QED
        BY <4>1, <4>2, <4>3, <2>1, <1>3
    <3> QED
      BY <3>1, <3>2, <1>6
  <2> DEFINE a == s[pos + 1]
             b == s[pos + n]
  <2>3. a \in Nat \ {0} /\ b \in Nat \ {0} /\ b = a + (n - 1) /\ \A p \in a .. b - 1 : Part(p) # 3
    BY <2>1, <2>2
  <2> HIDE DEF a, b
  <2>4. a <= b
    BY <2>3, <1>7
  <2>5. LineOf(a) = LineOf(b)
    BY <2>3, <2>4, OneLine
  <2> QED
    BY <2>5 DEF a, b
<1> QED
  BY <1>1, <1>2, <1>7, <1>8 DEF u

\* What Append adds.
LEMMA Appended ==
  ASSUME NEW S, NEW s \in Seq(S), NEW x
  PROVE  /\ Len(s) \in Nat /\ DOMAIN s = 1 .. Len(s) /\ DOMAIN Append(s, x) = 1 .. Len(s) + 1
         /\ \A i \in 1 .. Len(s) : Append(s, x)[i] = s[i]
         /\ Append(s, x)[Len(s) + 1] = x /\ Len(Append(s, x)) = Len(s) + 1
         /\ ToSet(Append(s, x)) = ToSet(s) \cup {x}
<1>1. Len(s) \in Nat /\ DOMAIN Append(s, x) = 1 .. Len(s) + 1 /\ DOMAIN s = 1 .. Len(s)
  OBVIOUS
<1>2. \A i \in 1 .. Len(s) : Append(s, x)[i] = s[i]
  OBVIOUS
<1>3. Append(s, x)[Len(s) + 1] = x /\ Len(Append(s, x)) = Len(s) + 1
  OBVIOUS
<1> QED
  BY <1>1, <1>2, <1>3 DEF ToSet

\* What is read is newer than all that was, and older than all that is left.
LEMMA ReadStep == ASSUME TailInv, fgets PROVE TailInv'
<1> USE DEF TailInv, FilesInv
<1> DEFINE s == content[file]
<1>1. PICK n \in Nat \ {0} :
        /\ pos + n <= Len(s) /\ pos' = pos + n
        /\ handled' = Append(handled, <<s[pos + 1], s[pos + n]>>)
        /\ LineOf(s[pos + 1]) = LineOf(s[pos + n])
        /\ pc' \in {"fgets", "crash"}
  BY Fgets
<1>2. /\ pc = "fgets" /\ UNCHANGED <<server, first, file, sbuf, last_inode, fixed, late>>
      /\ eof' \in BOOLEAN
  BY DEF fgets, TypeOK
<1>3. /\ file \in File /\ s \in Seq(Piece) /\ Len(s) \in Nat /\ DOMAIN s = 1 .. Len(s)
      /\ pos \in Nat /\ \A i \in 1 .. Len(s) : s[i] \in Piece
      /\ Piece \subseteq Nat \ {0} /\ File \subseteq Nat \ {0} /\ npiece \in Nat
  BY Fgets, Numbers
<1> DEFINE a == s[pos + 1]
           b == s[pos + n]
<1>4. pos + 1 \in 1 .. Len(s) /\ pos + n \in 1 .. Len(s)
  BY <1>1, <1>3
<1>5. a \in Piece /\ b \in Piece /\ a <= b /\ b <= npiece
  <2>1. b = a + ((pos + n) - (pos + 1)) /\ b <= npiece
    BY <1>3, <1>4 DEF Contiguous
  <2>2. a \in Piece /\ b \in Piece /\ a \in Nat
    BY <1>3, <1>4
  <2> HIDE DEF a, b
  <2> QED
    BY <2>1, <2>2, <1>1, <1>3
<1>6. handled \in Seq(Piece \X Piece)
  BY DEF TypeOK
<1> DEFINE h == <<a, b>>
<1>7. handled' = Append(handled, h)
  BY <1>1
<1>8. h \in Piece \X Piece /\ h[1] = a /\ h[2] = b
  BY <1>5
<1> HIDE DEF h, a, b, s
<1>9. /\ Len(handled) \in Nat /\ DOMAIN handled' = 1 .. Len(handled) + 1
      /\ DOMAIN handled = 1 .. Len(handled)
      /\ \A i \in 1 .. Len(handled) : handled'[i] = handled[i]
      /\ handled'[Len(handled) + 1] = h /\ ToSet(handled') = ToSet(handled) \cup {h}
      /\ handled' \in Seq(Piece \X Piece)
  BY <1>6, <1>7, <1>8, Appended
<1>10. TypeOK'
  <2>1. pos' \in 0 .. (IF file' = 0 THEN 0 ELSE Len(content'[file']))
    BY <1>1, <1>2, <1>3 DEF s, server
  <2> QED
    BY <1>1, <1>2, <1>9, <2>1 DEF TypeOK, server, fixed
<1>11. Names' /\ Contiguous' /\ Ordered'
  BY <1>2 DEF Names, Contiguous, Ordered, server
<1>12. Opening'
  BY <1>1, <1>2, <1>3 DEF Opening, server
<1>13. \A g \in ToSet(handled) : g[2] < a
  BY <1>3, <1>4 DEF Newer, a, s
<1>14. Newer'
  <2>1. ASSUME NEW f \in File, NEW j \in DOMAIN content[f], f > file \/ (f = file /\ j > pos + n)
        PROVE  /\ b < content[f][j]
               /\ \A g \in ToSet(handled) : g[2] < content[f][j]
    <3>1. CASE f > file
      BY <3>1, <1>3, <1>4 DEF Ordered, Newer, b, s
    <3>2. CASE f = file /\ j > pos + n
      <4>1. j \in DOMAIN s /\ s[j] = b + (j - (pos + n)) /\ j \in Nat
        BY <3>2, <1>3, <1>4 DEF Contiguous, b, s
      <4>2. b < s[j]
        <5>1. b \in Nat /\ j > pos + n /\ pos + n \in Nat
          BY <3>2, <1>3, <1>5
        <5> QED
          BY <4>1, <5>1
      <4>3. j > pos
        BY <4>1, <3>2, <1>1, <1>3
      <4> QED
        BY <4>2, <4>3, <3>2 DEF Newer, s
    <3> QED
      BY <2>1, <3>1, <3>2
  <2> SUFFICES ASSUME NEW g \in ToSet(handled')
               PROVE  /\ g[2] <= npiece
                      /\ \A f \in File : \A j \in DOMAIN content[f] :
                           f > file \/ (f = file /\ j > pos + n) => g[2] < content[f][j]
    BY <1>1, <1>2 DEF Newer, server
  <2>2. CASE g \in ToSet(handled)
    BY <2>1, <2>2 DEF Newer
  <2>3. CASE g = h
    BY <2>1, <2>3, <1>5, <1>8
  <2> QED
    BY <1>9, <2>2, <2>3
<1>15. InOrderOnce'
  <2>1. ASSUME NEW g \in ToSet(handled') PROVE g[1] <= g[2] /\ LineOf(g[1]) = LineOf(g[2])
    <3>1. LineOf(a) = LineOf(b)
      BY <1>1 DEF a, b, s
    <3> QED
      BY <3>1, <1>5, <1>8, <1>9 DEF InOrderOnce
  <2>2. ASSUME NEW i \in DOMAIN handled', NEW j \in DOMAIN handled', i < j
        PROVE  handled'[i][2] < handled'[j][1]
    <3>1. i \in DOMAIN handled /\ handled'[i] = handled[i]
      BY <2>2, <1>9
    <3>2. CASE j \in DOMAIN handled
      BY <3>1, <3>2, <2>2, <1>9 DEF InOrderOnce
    <3>3. CASE j = Len(handled) + 1
      <4>1. handled[i] \in ToSet(handled)
        BY <3>1 DEF ToSet
      <4> QED
        BY <4>1, <3>1, <3>3, <1>8, <1>9, <1>13
    <3> QED
      BY <3>2, <3>3, <1>9
  <2> QED
    BY <1>10, <2>1, <2>2 DEF InOrderOnce
<1> QED
  BY <1>10, <1>11, <1>12, <1>14, <1>15

\* Every step keeps it.
LEMMA TailStep == ASSUME TailInv, [Next]_vars PROVE TailInv'
<1>1. CASE UNCHANGED vars
  BY <1>1 DEF TailInv, FilesInv, TypeOK, Names, Contiguous, Ordered, Opening, Newer, InOrderOnce,
     vars, server, main, fixed
<1>2. CASE Next
  BY <1>2, WriteStep, RotationStep, LookStep, OpenStep, ReadStep DEF Next, step
<1> QED
  BY <1>1, <1>2

\* Every state of the daemon and its log has what main relies on.
LEMMA TailInvariant == Spec => []TailInv
  BY InitTail, TailStep, PTL DEF Spec

\* Whatever is rotated when, main handles what it reads in the order it was
\* written, no piece twice and no two lines at once.
THEOREM InOrderTheorem == Spec => []InOrderOnce
<1>1. TailInv => InOrderOnce
  BY DEF TailInv
<1> QED
  BY <1>1, TailInvariant, PTL

-----------------------------------------------------------------------------
(* What is lost.                                                           *)

\* What is not lost.
Safe(p) == \/ Handled(p)
           \/ p \in ToSet(Unread)
           \/ \E f \in File : f > file /\ p \in ToSet(content[f])

\* When main has come to the end of a file, what is left of it came late.
AtEnd == ~sticky /\ first /\ pc \in {"lstat", "fopen"} => ToSet(Unread) \subseteq late

LossInv == TailInv /\ LostOnlyIfLate /\ AtEnd

\* What is in the rest of a sequence.
LEMMA InRest ==
  ASSUME NEW S, NEW s \in Seq(S), NEW m \in Nat, m <= Len(s)
  PROVE  ToSet(SubSeq(s, m + 1, Len(s))) = {s[i] : i \in m + 1 .. Len(s)}
<1> DEFINE u == SubSeq(s, m + 1, Len(s))
<1>1. Len(s) \in Nat /\ DOMAIN u = 1 .. Len(s) - m /\ \A i \in 1 .. Len(s) - m : u[i] = s[m + i]
  BY RestOf
<1> HIDE DEF u
<1>2. ASSUME NEW i \in m + 1 .. Len(s) PROVE \E k \in DOMAIN u : u[k] = s[i]
  <2> DEFINE k == i - m
  <2>1. k \in 1 .. Len(s) - m /\ m + k = i
    BY <1>1
  <2> HIDE DEF k
  <2> QED
    BY <2>1, <1>1
<1>3. ASSUME NEW i \in 1 .. Len(s) - m PROVE m + i \in m + 1 .. Len(s)
  BY <1>1
<1>4. ASSUME NEW k \in DOMAIN u PROVE \E i \in m + 1 .. Len(s) : u[k] = s[i]
  BY <1>1, <1>3
<1>5. ToSet(u) = {u[k] : k \in DOMAIN u}
  BY DEF ToSet
<1>6. {u[k] : k \in DOMAIN u} = {s[i] : i \in m + 1 .. Len(s)}
  BY <1>2, <1>4
<1> QED
  BY <1>5, <1>6 DEF u

\* The pieces of a file that are still to be read.
LEMMA UnreadIs ==
  ASSUME TypeOK
  PROVE  /\ file = 0 => ToSet(Unread) = {}
         /\ file # 0 => ToSet(Unread) = {content[file][i] : i \in pos + 1 .. Len(content[file])}
<1>1. CASE file = 0
  BY <1>1 DEF Unread, ToSet
<1>2. CASE file # 0
  <2>1. content[file] \in Seq(Piece) /\ pos \in Nat /\ pos <= Len(content[file])
    BY <1>2, Numbers DEF TypeOK
  <2>2. Unread = SubSeq(content[file], pos + 1, Len(content[file]))
    BY <1>2 DEF Unread
  <2> QED
    BY <1>2, <2>1, <2>2, InRest
<1> QED
  BY <1>1, <1>2

\* The same after a step.
LEMMA UnreadIsThen ==
  ASSUME TypeOK'
  PROVE  /\ file' = 0 => ToSet(Unread') = {}
         /\ file' # 0 => ToSet(Unread') = {content'[file'][i] : i \in pos' + 1 .. Len(content'[file'])}
<1>1. CASE file' = 0
  BY <1>1 DEF Unread, ToSet
<1>2. CASE file' # 0
  <2>1. content'[file'] \in Seq(Piece) /\ pos' \in Nat /\ pos' <= Len(content'[file'])
    <3>1. content'[file'] \in Seq(Piece) /\ Len(content'[file']) \in Nat
      BY <1>2 DEF TypeOK
    <3> QED
      BY <3>1, <1>2 DEF TypeOK
  <2>2. Unread' = SubSeq(content'[file'], pos' + 1, Len(content'[file']))
    BY <1>2 DEF Unread
  <2> QED
    BY <1>2, <2>1, <2>2, InRest
<1> QED
  BY <1>1, <1>2

\* What is written is read later, or late.
LEMMA WriteLoses == ASSUME LossInv, NEW n \in 1 .. 3, write(n) PROVE LostOnlyIfLate' /\ AtEnd'
<1> USE DEF LossInv, TailInv, FilesInv
<1> DEFINE w == writing
           l == Len(content[writing])
           new == npiece + 1 .. npiece + n
<1>1. /\ UNCHANGED <<pc, first, file, pos, handled, sticky>>
      /\ late' = IF w < file \/ (w = file /\ pc \in {"lstat", "fopen"}) THEN late \cup new ELSE late
  BY Written DEF write, main, fixed
<1>2. /\ npiece' = npiece + n
      /\ \A f \in File : f # w => content'[f] = content[f]
      /\ Len(content'[w]) = l + n /\ DOMAIN content'[w] = 1 .. l + n
      /\ \A i \in 1 .. l + n : content'[w][i] = IF i <= l THEN content[w][i] ELSE npiece + (i - l)
      /\ TypeOK'
  BY Written, WriteStep
<1>3. /\ w \in File /\ l \in Nat /\ npiece \in Nat /\ DOMAIN content[w] = 1 .. l
      /\ w \in Nat /\ file \in Nat /\ pos \in Nat /\ (file = 0 \/ file \in File)
  BY Numbers DEF TypeOK
<1> HIDE DEF w, l, new
<1>4. ASSUME NEW p \in new PROVE \E i \in l + 1 .. l + n : content'[w][i] = p
  <2> DEFINE i == l + (p - npiece)
  <2>1. p \in Int /\ npiece + 1 <= p /\ p <= npiece + n
    BY <1>3 DEF new
  <2>2. i \in l + 1 .. l + n /\ npiece + (i - l) = p /\ ~ (i <= l) /\ i \in 1 .. l + n
    BY <2>1, <1>3
  <2> HIDE DEF i
  <2> QED
    BY <2>2, <1>2
<1>5. \A f \in File : ToSet(content[f]) \subseteq ToSet(content'[f])
  <2> SUFFICES ASSUME NEW f \in File, NEW i \in DOMAIN content[f]
               PROVE  i \in DOMAIN content'[f] /\ content'[f][i] = content[f][i]
    BY DEF ToSet
  <2> QED
    BY <1>2, <1>3
<1>6. ToSet(Unread) \subseteq ToSet(Unread')
  <2>1. CASE file = 0
    BY <2>1, UnreadIs
  <2>2. CASE file # 0
    <3>1. /\ ToSet(Unread) = {content[file][i] : i \in pos + 1 .. Len(content[file])}
          /\ ToSet(Unread') = {content'[file][i] : i \in pos + 1 .. Len(content'[file])}
      BY <1>1, <1>2, <2>2, UnreadIs, UnreadIsThen
    <3>2. ASSUME NEW i \in pos + 1 .. Len(content[file])
          PROVE  i \in pos + 1 .. Len(content'[file]) /\ content'[file][i] = content[file][i]
      <4>1. CASE file = w
        <5>1. Len(content[file]) = l /\ Len(content'[file]) = l + n
          BY <4>1, <1>2 DEF l, w
        <5>2. i \in 1 .. l /\ i \in pos + 1 .. l + n
          BY <5>1, <1>3
        <5> QED
          BY <4>1, <5>1, <5>2, <1>2
      <4>2. CASE file # w
        BY <4>2, <2>2, <1>2, <1>3
      <4> QED
        BY <4>1, <4>2
    <3> QED
      BY <3>1, <3>2
  <2> QED
    BY <2>1, <2>2
<1>7. LostOnlyIfLate'
  <2> SUFFICES ASSUME ~ sticky, NEW p \in (1 .. npiece') \ late' PROVE Safe(p)'
    BY <1>1 DEF LostOnlyIfLate, Safe
  <2>1. CASE p \in 1 .. npiece
    <3>1. p \notin late
      BY <1>1
    <3>2. Safe(p)
      BY <2>1, <3>1 DEF LostOnlyIfLate, Safe
    <3> QED
      BY <3>2, <1>1, <1>5, <1>6 DEF Safe, Handled
  <2>2. CASE p \in new
    <3>1. PICK i \in l + 1 .. l + n : content'[w][i] = p
      BY <2>2, <1>4
    <3>2. i \in DOMAIN content'[w] /\ i \in Nat /\ i >= l + 1 /\ i <= l + n
      BY <1>2, <1>3
    <3>3. p \in ToSet(content'[w])
      BY <3>1, <3>2 DEF ToSet
    <3>4. w >= file /\ ~ (w = file /\ pc \in {"lstat", "fopen"})
      BY <2>2, <1>1, <1>3
    <3>5. CASE w > file
      BY <3>3, <3>5, <1>1, <1>3 DEF Safe
    <3>6. CASE w = file
      <4>1. i \in pos + 1 .. Len(content'[file])
        <5>1. pos <= l
          BY <3>6, <1>3 DEF TypeOK, l, w
        <5> QED
          BY <5>1, <3>2, <3>6, <1>2, <1>3
      <4>2. file # 0
        BY <3>6, Numbers DEF w
      <4>3. ToSet(Unread') = {content'[file][k] : k \in pos + 1 .. Len(content'[file])}
        BY <4>2, <1>1, <1>2, UnreadIsThen
      <4> QED
        BY <3>1, <3>6, <4>1, <4>3 DEF Safe
    <3> QED
      BY <3>4, <3>5, <3>6, <1>3
  <2>3. p \in 1 .. npiece \/ p \in new
    BY <1>2, <1>3 DEF new
  <2> QED
    BY <2>1, <2>2, <2>3
<1>8. AtEnd'
  <2> SUFFICES ASSUME ~ sticky, first, pc \in {"lstat", "fopen"} PROVE ToSet(Unread') \subseteq late'
    BY <1>1 DEF AtEnd
  <2>1. ToSet(Unread) \subseteq late /\ late \subseteq late' /\ file # 0
    BY <1>1 DEF AtEnd, Opening
  <2>2. /\ ToSet(Unread) = {content[file][k] : k \in pos + 1 .. Len(content[file])}
        /\ ToSet(Unread') = {content'[file][k] : k \in pos + 1 .. Len(content'[file])}
    BY <2>1, <1>1, <1>2, UnreadIs, UnreadIsThen
  <2>3. CASE file # w
    BY <2>1, <2>2, <2>3, <1>2, <1>3
  <2>4. CASE file = w
    <3> SUFFICES ASSUME NEW k \in pos + 1 .. l + n PROVE content'[file][k] \in late'
      BY <2>2, <2>4, <1>2
    <3>1. CASE k <= l
      <4>1. k \in pos + 1 .. Len(content[file]) /\ content'[file][k] = content[file][k]
        <5>1. Len(content[file]) = l /\ k \in 1 .. l + n /\ k \in pos + 1 .. l
          BY <2>4, <3>1, <1>3 DEF l
        <5> QED
          BY <5>1, <2>4, <3>1, <1>2
      <4> QED
        BY <4>1, <2>1, <2>2
    <3>2. CASE ~ (k <= l)
      <4>1. k \in 1 .. l + n /\ npiece + (k - l) \in new
        BY <3>2, <1>3 DEF new
      <4> QED
        BY <4>1, <3>2, <2>4, <1>1, <1>2
    <3> QED
      BY <3>1, <3>2
  <2> QED
    BY <2>3, <2>4
<1> QED
  BY <1>7, <1>8

\* Rotations, and what main does between reading and opening, lose nothing.
LEMMA LookLoses ==
  ASSUME LossInv,
         \/ rename \/ create \/ reopen \/ UNCHANGED vars
         \/ fopen_fails \/ lstat \/ fgets_null \/ fgets_error \/ lstat_again \/ sleep
  PROVE  LostOnlyIfLate' /\ AtEnd'
<1> USE DEF LossInv
<1>1. UNCHANGED <<content, npiece, file, pos, handled, first, sticky, late>>
  BY DEF rename, create, reopen, fopen_fails, lstat, fgets_null, fgets_error, lstat_again, sleep,
     server, main, fixed, vars
<1>2. Unread' = Unread
  BY <1>1 DEF Unread
<1>3. LostOnlyIfLate'
  BY <1>1, <1>2 DEF LostOnlyIfLate, Handled
<1>4. AtEnd'
  <2>1. pc' \in {"lstat", "fopen"} => pc \in {"lstat", "fopen"} \/ fgets_null
    BY DEF rename, create, reopen, fopen_fails, lstat, fgets_null, fgets_error, lstat_again, sleep,
       AfterSleep, main, vars
  <2>2. ASSUME fgets_null, ~ sticky PROVE ToSet(Unread) = {}
    BY <2>2 DEF fgets_null, CanRead, ToSet
  <2> QED
    BY <1>1, <1>2, <2>1, <2>2 DEF AtEnd
<1> QED
  BY <1>3, <1>4

\* Opening loses what main passes over, and what came late to the last file.
LEMMA OpenLoses == ASSUME LossInv, fopen PROVE LostOnlyIfLate' /\ AtEnd'
<1> USE DEF LossInv
<1>1. /\ pc = "fopen" /\ file' = path /\ pos' = StartOf(path) /\ pc' = "inode"
      /\ late' = late \cup PassedOver
      /\ UNCHANGED <<content, npiece, handled, sticky>>
  BY DEF fopen, server, fixed
<1>2. TypeOK' /\ path \in File /\ path > file
  BY OpenStep DEF TailInv, FilesInv
<1>3. File \subseteq Nat \ {0} /\ file \in Nat /\ path \in Nat
      /\ \A f \in File : DOMAIN content[f] = 1 .. Len(content[f]) /\ Len(content[f]) \in Nat
  BY Numbers DEF TailInv, FilesInv
<1>4. AtEnd'
  BY <1>1 DEF AtEnd
<1>5. LostOnlyIfLate'
  <2> SUFFICES ASSUME ~ sticky, NEW p \in (1 .. npiece) \ late' PROVE Safe(p)'
    BY <1>1 DEF LostOnlyIfLate, Safe
  <2>1. Safe(p) /\ p \notin late /\ p \notin PassedOver
    BY <1>1 DEF LostOnlyIfLate, Safe
  <2>2. CASE Handled(p)
    BY <2>2, <1>1 DEF Safe, Handled
  <2>3. p \notin ToSet(Unread)
    <3>1. CASE first
      BY <3>1, <2>1, <1>1 DEF AtEnd
    <3>2. CASE ~ first
      BY <3>2, UnreadIs DEF Opening, TailInv, FilesInv
    <3> QED
      BY <3>1, <3>2
  <2>4. ASSUME NEW f \in File, f > file, p \in ToSet(content[f]) PROVE Safe(p)'
    <3>1. CASE f > path
      BY <3>1, <2>4, <1>1 DEF Safe
    <3>2. CASE f = path
      <4>1. first
        <5> SUFFICES ASSUME ~ first PROVE FALSE
          OBVIOUS
        <5>1. path \in 1 .. path
          BY <1>2, <1>3
        <5> QED
          BY <5>1, <3>2, <2>1, <2>4 DEF PassedOver
      <4>2. pos' = 0 /\ file' # 0
        BY <4>1, <1>1, <1>2, <1>3 DEF StartOf
      <4>3. ToSet(Unread') = {content[path][k] : k \in 1 .. Len(content[path])}
        BY <4>2, <1>1, <1>2, UnreadIsThen
      <4> QED
        BY <4>3, <3>2, <2>4, <1>3 DEF Safe, ToSet
    <3>3. CASE f < path
      <4>1. f \in IF first THEN file + 1 .. path - 1 ELSE 1 .. path
        BY <3>3, <2>4, <1>3
      <4> QED
        BY <4>1, <2>1, <2>4 DEF PassedOver
    <3> QED
      BY <3>1, <3>2, <3>3, <1>3
  <2> QED
    BY <2>1, <2>2, <2>3, <2>4 DEF Safe
<1> QED
  BY <1>4, <1>5

\* Reading moves pieces from what is left to what is handled.
LEMMA ReadLoses == ASSUME LossInv, fgets PROVE LostOnlyIfLate' /\ AtEnd'
<1> USE DEF LossInv
<1> DEFINE s == content[file]
<1>1. /\ TailInv /\ file \in File
      /\ \E n \in Nat \ {0} :
           /\ pos + n <= Len(s) /\ pos' = pos + n
           /\ handled' = Append(handled, <<s[pos + 1], s[pos + n]>>)
  BY Fgets
<1>2. PICK n \in Nat \ {0} :
           /\ pos + n <= Len(s) /\ pos' = pos + n
           /\ handled' = Append(handled, <<s[pos + 1], s[pos + n]>>)
  BY <1>1
<1>3. UNCHANGED <<content, npiece, file, sticky, first, late>> /\ pc' \in {"fgets", "crash"} /\ TypeOK'
  BY ReadStep DEF fgets, server, fixed, TailInv, FilesInv
<1>4. /\ Len(s) \in Nat /\ DOMAIN s = 1 .. Len(s) /\ pos \in Nat /\ file # 0
      /\ \A i \in 1 .. Len(s) : s[i] \in Nat
      /\ handled \in Seq(Piece \X Piece)
  BY <1>1, Numbers DEF TailInv, FilesInv, TypeOK
<1>5. /\ ToSet(Unread) = {s[i] : i \in pos + 1 .. Len(s)}
      /\ ToSet(Unread') = {s[i] : i \in pos + n + 1 .. Len(s)}
  BY <1>2, <1>3, <1>4, UnreadIs, UnreadIsThen DEF TailInv, FilesInv
<1> DEFINE h == <<s[pos + 1], s[pos + n]>>
<1>6. ToSet(handled') = ToSet(handled) \cup {h} /\ h[1] = s[pos + 1] /\ h[2] = s[pos + n]
  <2>1. handled' = Append(handled, h)
    BY <1>2
  <2> HIDE DEF h
  <2>2. ToSet(handled') = ToSet(handled) \cup {h}
    BY <2>1, <1>4, Appended
  <2> QED
    BY <2>2 DEF h
<1>7. \A i \in pos + 1 .. pos + n : s[i] \in s[pos + 1] .. s[pos + n]
  <2> SUFFICES ASSUME NEW i \in pos + 1 .. pos + n PROVE s[i] \in s[pos + 1] .. s[pos + n]
    OBVIOUS
  <2>1. i \in DOMAIN s /\ pos + 1 \in DOMAIN s /\ pos + n \in DOMAIN s
    BY <1>2, <1>4
  <2>2. /\ s[i] = s[pos + 1] + (i - (pos + 1)) /\ s[pos + n] = s[i] + ((pos + n) - i)
        /\ s[i] \in Nat /\ s[pos + 1] \in Nat /\ s[pos + n] \in Nat
    BY <2>1, <1>1, <1>4 DEF Contiguous, TailInv, FilesInv
  <2> HIDE DEF s
  <2> QED
    BY <2>2, <1>4
<1> HIDE DEF h, s
<1>8. LostOnlyIfLate'
  <2> SUFFICES ASSUME ~ sticky, NEW p \in (1 .. npiece) \ late PROVE Safe(p)'
    BY <1>3 DEF LostOnlyIfLate, Safe
  <2>1. Safe(p)
    BY DEF LostOnlyIfLate, Safe
  <2>2. CASE Handled(p)
    BY <2>2, <1>6 DEF Safe, Handled
  <2>3. CASE \E f \in File : f > file /\ p \in ToSet(content[f])
    BY <2>3, <1>3 DEF Safe
  <2>4. CASE p \in ToSet(Unread)
    <3>1. PICK i \in pos + 1 .. Len(s) : p = s[i]
      BY <2>4, <1>5
    <3>2. CASE i <= pos + n
      <4>1. p \in h[1] .. h[2]
        BY <3>1, <3>2, <1>4, <1>6, <1>7
      <4> QED
        BY <4>1, <1>6 DEF Safe, Handled
    <3>3. CASE ~ (i <= pos + n)
      <4>1. i \in pos + n + 1 .. Len(s)
        BY <3>3, <1>4
      <4> QED
        BY <4>1, <3>1, <1>5 DEF Safe
    <3> QED
      BY <3>2, <3>3
  <2> QED
    BY <2>1, <2>2, <2>3, <2>4 DEF Safe
<1> QED
  BY <1>3, <1>8 DEF AtEnd

\* What main has not handled it can still read, or it is to come, or late: for
\* any log, rotated at any time.
THEOREM LossTheorem == Spec => []LostOnlyIfLate
<1>1. Init => LossInv
  <2> SUFFICES ASSUME Init PROVE LossInv
    OBVIOUS
  <2>1. LostOnlyIfLate
    BY DEF Init, LostOnlyIfLate
  <2> QED
    BY <2>1, InitTail DEF Init, LossInv, AtEnd
<1>2. LossInv /\ [Next]_vars => LossInv'
  <2> SUFFICES ASSUME LossInv, [Next]_vars PROVE LossInv'
    OBVIOUS
  <2>1. LostOnlyIfLate' /\ AtEnd'
    BY WriteLoses, LookLoses, OpenLoses, ReadLoses DEF Next, step
  <2> QED
    BY <2>1, TailStep DEF LossInv
<1>3. LossInv => LostOnlyIfLate
  BY DEF LossInv
<1> QED
  BY <1>1, <1>2, <1>3, PTL DEF Spec

-----------------------------------------------------------------------------
(* What kills the daemon.                                                  *)

\* i is the place of name in a table, whose places begin at 0.
IsPlace(i, table, name) == i \in 0 .. Len(table) - 1 /\ table[i + 1] = name

\* What is in a table has its place for an index.
LEMMA IndexIs ==
  ASSUME NEW table, NEW max, NEW type, Len(table) \in Nat, Contains(table, type)
  PROVE  IsPlace(IndexIn(table, max, type), table, type)
<1> DEFINE places == {i \in 1 .. Len(table) : table[i] = type}
<1>1. places \subseteq Nat \ {0} /\ places # {}
  BY DEF Contains
<1>2. IndexIn(table, max, type) = Min(places) - 1
  BY <1>1 DEF IndexIn, SelectInSeq
<1>3. Min(places) \in places
  <2> HIDE DEF places
  <2>1. \E m \in places : \A n \in places : m <= n
    BY <1>1, LeastIs
  <2> QED
    BY <2>1 DEF Min
<1> DEFINE m == Min(places)
<1>4. m \in Nat \ {0} /\ m \in 1 .. Len(table) /\ table[m] = type
  BY <1>1, <1>3
<1>5. IndexIn(table, max, type) = m - 1
  BY <1>2
<1> HIDE DEF m
<1> QED
  BY <1>4, <1>5 DEF IsPlace

\* The tables.
LEMMA Tables ==
  /\ Len(RTYPE) = 11 /\ Len(RCODE) = 7
  /\ \A i, j \in 1 .. 11 : RTYPE[i] = RTYPE[j] => i = j
  /\ \A i, j \in 1 .. 7 : RCODE[i] = RCODE[j] => i = j
  /\ RCODE[7] = "OTHER"
<1>1. Len(RTYPE) = 11
  BY DEF RTYPE
<1>2. Len(RCODE) = 7 /\ RCODE[7] = "OTHER"
  BY DEF RCODE
<1>3. \A i, j \in 1 .. 11 : RTYPE[i] = RTYPE[j] => i = j
  BY DEF RTYPE
<1>4. \A i, j \in 1 .. 7 : RCODE[i] = RCODE[j] => i = j
  BY DEF RCODE
<1> QED
  BY <1>1, <1>2, <1>3, <1>4

\* A type that has no index is not in the table.
LEMMA Indexed ==
  ASSUME NEW type, rtype_index(type) = -1
  PROVE  ~ Contains(RTYPE, type)
<1> SUFFICES ASSUME Contains(RTYPE, type) PROVE FALSE
  OBVIOUS
<1>1. IsPlace(IndexIn(RTYPE, RTYPE_MAX_NUM, type), RTYPE, type)
  BY IndexIs, Tables
<1> QED
  BY <1>1, Tables DEF IsPlace, rtype_index

\* A piece that is not the last of its line ends where the log says.
LEMMA EndPlace ==
  ASSUME log \in Log, NEW p \in Piece, Part(p) # 3
  PROVE  EndOf(p) = LineAt(p).ends[Part(p)] /\ EndOf(p) \in Place
<1>1. p \in Nat \ {0} /\ p <= 3 * MaxLine
  BY BoundAssumption DEF Piece
<1>2. Part(p) \in 1 .. 2 /\ LineOf(p) \in 1 .. MaxLine
  BY <1>1, Parts, BoundAssumption
<1>3. log[LineOf(p)].ends \in [1 .. 2 -> Place]
  BY <1>2, LogAssumption
<1> QED
  BY <1>2, <1>3 DEF EndOf, LineAt

\* The piece before one that is not the first is of the same line.
LEMMA Before ==
  ASSUME NEW p \in Piece, Part(p) # 1
  PROVE  p - 1 \in Piece /\ LineOf(p - 1) = LineOf(p) /\ Part(p - 1) = Part(p) - 1
<1>1. p \in Nat \ {0} /\ p <= 3 * MaxLine
  BY BoundAssumption DEF Piece
<1> DEFINE l == LineOf(p)
           q == Part(p)
<1>2. q \in 1 .. 3 /\ l \in Nat \ {0} /\ p = 3 * (l - 1) + q
  BY <1>1, Parts
<1>3. p - 1 \in Nat \ {0}
  <2> HIDE DEF l, q
  <2>1. q # 1
    BY DEF q
  <2> QED
    BY <1>1, <1>2, <2>1
<1> DEFINE k == LineOf(p - 1)
           r == Part(p - 1)
<1>4. r \in 1 .. 3 /\ k \in Nat \ {0} /\ p - 1 = 3 * (k - 1) + r
  BY <1>3, Parts
<1>5. q # 1
  OBVIOUS
<1> HIDE DEF k, r, l, q
<1>6. k = l /\ r = q - 1
  BY <1>1, <1>2, <1>4, <1>5
<1> QED
  BY <1>1, <1>3, <1>6, BoundAssumption DEF Piece, k, r, l, q

\* A line kills the daemon only for what KilledByLine says.
LEMMA Crash ==
  ASSUME log \in Log, NEW from \in Piece, NEW to \in Piece,
         LineOf(from) = LineOf(to), Outcome(from, to) = "crash"
  PROVE  LET line == LineAt(to) IN
         /\ Part(from) # 1 => line.ends[Part(from) - 1] = "in first"
         /\ \/ Part(to) # 3 /\ line.ends[Part(to)] = "before zone"
            \/ ~line.zone /\ (Part(to) # 3 => line.ends[Part(to)] = "in zone")
            \/ ~Contains(RTYPE, line.rtype) /\ (Part(to) # 3 => line.ends[Part(to)] = "in zone")
<1>1. /\ FromFirst(from) /\ EndOf(to) \notin {"in first", "before rcode"}
      /\ \/ EndOf(to) = "before zone"
         \/ ~ LineAt(to).zone
         \/ rtype_index(LineAt(to).rtype) = -1
  BY DEF Outcome, HasTokens
<1>2. Part(to) # 3 =>
        /\ EndOf(to) = LineAt(to).ends[Part(to)]
        /\ EndOf(to) \in {"before zone", "in zone"}
  BY <1>1, EndPlace DEF Place
<1>3. Part(to) = 3 => EndOf(to) = "newline"
  BY DEF EndOf
<1>4. Part(from) # 1 => LineAt(to).ends[Part(from) - 1] = "in first"
  <2> SUFFICES ASSUME Part(from) # 1 PROVE LineAt(to).ends[Part(from) - 1] = "in first"
    OBVIOUS
  <2>1. /\ EndOf(from - 1) = "in first"
        /\ from - 1 \in Piece /\ LineOf(from - 1) = LineOf(from) /\ Part(from - 1) = Part(from) - 1
    BY <1>1, Before DEF FromFirst
  <2>2. Part(from - 1) # 3
    BY <2>1 DEF EndOf
  <2> QED
    BY <2>1, <2>2, EndPlace DEF LineAt
<1>5. rtype_index(LineAt(to).rtype) = -1 => ~ Contains(RTYPE, LineAt(to).rtype)
  BY Indexed
<1> QED
  BY <1>1, <1>2, <1>3, <1>4, <1>5

\* The line last handled is of pieces of the log, and it is what was said of it.
LEMMA LastHandled ==
  ASSUME TailInv, fgets, pc' = "crash"
  PROVE  \E from, to \in Piece :
           /\ Last(handled') = <<from, to>>
           /\ LineOf(from) = LineOf(to) /\ Outcome(from, to) = "crash"
<1>1. PICK n \in Nat \ {0} :
        /\ pos + n <= Len(content[file])
        /\ handled' = Append(handled, <<content[file][pos + 1], content[file][pos + n]>>)
        /\ LineOf(content[file][pos + 1]) = LineOf(content[file][pos + n])
        /\ LET outcome == Outcome(content[file][pos + 1], content[file][pos + n])
           IN pc' = IF outcome = "crash" THEN "crash" ELSE "fgets"
  BY Fgets
<1> DEFINE from == content[file][pos + 1]
           to == content[file][pos + n]
           h == <<from, to>>
<1>2. TypeOK /\ handled \in Seq(Piece \X Piece)
  BY DEF TailInv, FilesInv, TypeOK
<1>3. from \in Piece /\ to \in Piece
  <2>1. /\ file \in File /\ pos \in Nat /\ Len(content[file]) \in Nat
        /\ DOMAIN content[file] = 1 .. Len(content[file])
        /\ \A i \in DOMAIN content[file] : content[file][i] \in Piece
    BY <1>2, Fgets, Numbers
  <2>2. pos + 1 \in DOMAIN content[file] /\ pos + n \in DOMAIN content[file]
    BY <2>1, <1>1
  <2> QED
    BY <2>1, <2>2
<1>4. Last(handled') = h
  <2>1. handled' = Append(handled, h)
    BY <1>1
  <2> HIDE DEF h
  <2>2. handled'[Len(handled')] = h
    BY <1>2, <2>1, Appended
  <2> QED
    BY <2>2 DEF Last
<1>5. LineOf(from) = LineOf(to) /\ Outcome(from, to) = "crash"
  BY <1>1
<1> QED
  BY <1>3, <1>4, <1>5

KilledInv == log \in Log /\ KilledByLine

\* The daemon dies of a line read up to its zone, one without a zone or one of
\* a type the table does not have, and of the rest of such a line only if it
\* was cut inside its first token.
THEOREM KilledTheorem == Spec => []KilledByLine
<1>1. Init => KilledInv
  BY DEF Init, KilledByLine, KilledInv
<1>2. TailInv /\ KilledInv /\ [Next]_vars => KilledInv'
  <2> SUFFICES ASSUME TailInv, log \in Log, KilledByLine, [Next]_vars
               PROVE  KilledByLine' /\ log' \in Log
    BY DEF KilledInv
  <2>1. log' = log
    BY DEF Next, step, vars, fixed, write, rename, create, reopen, fopen_fails, fopen, lstat, fgets,
       fgets_null, fgets_error, lstat_again, sleep
  <2>2. CASE fgets /\ pc' = "crash"
    <3>1. PICK from, to \in Piece :
            /\ Last(handled') = <<from, to>>
            /\ LineOf(from) = LineOf(to) /\ Outcome(from, to) = "crash"
      BY <2>2, LastHandled
    <3>2. Last(handled')[1] = from /\ Last(handled')[2] = to /\ LineAt(to)' = LineAt(to)
      BY <2>1, <3>1 DEF LineAt
    <3>3. LET line == LineAt(to) IN
          /\ Part(from) # 1 => line.ends[Part(from) - 1] = "in first"
          /\ \/ Part(to) # 3 /\ line.ends[Part(to)] = "before zone"
             \/ ~line.zone /\ (Part(to) # 3 => line.ends[Part(to)] = "in zone")
             \/ ~Contains(RTYPE, line.rtype) /\ (Part(to) # 3 => line.ends[Part(to)] = "in zone")
      BY <3>1, Crash
    <3> QED
      BY <2>1, <3>2, <3>3 DEF KilledByLine, LineAt
  <2>3. CASE pc' # "crash"
    BY <2>1, <2>3 DEF KilledByLine
  <2>4. CASE ~ fgets /\ pc' = "crash"
    <3>1. pc = "crash" /\ UNCHANGED <<handled, log>>
      BY <2>4 DEF Next, step, vars, main, fixed, write, rename, create, reopen, fopen_fails, fopen,
         lstat, fgets_null, fgets_error, lstat_again, sleep, AfterSleep
    <3> QED
      BY <3>1 DEF KilledByLine, LineAt
  <2> QED
    BY <2>1, <2>2, <2>3, <2>4
<1>3. KilledInv => KilledByLine
  BY DEF KilledInv
<1> QED
  BY <1>1, <1>2, <1>3, TailInvariant, PTL DEF Spec

-----------------------------------------------------------------------------
(* Replies.                                                                *)

\* How many members of W have the index or key i.
Count(W, idx, i) == Cardinality({m \in W : idx[m] = i})

\* The array counts the members of W by their index.
Counting(array, D, W, idx) == array \in [D -> Nat] /\ \A i \in D : array[i] = Count(W, idx, i)

\* The reply made from the array says how many members of W have each key.
Telling(array, table, W, key) ==
  _view_stats_result1(array, table) = {<<key[n], Count(W, key, key[n])>> : n \in W}

\* The reply made from an array that counts the members of W by index is the one
\* that counts them by key.
LEMMA ReplyIs ==
  ASSUME NEW W, IsFiniteSet(W), NEW D, NEW E \in SUBSET D,
         NEW table, \A i, j \in E : table[i + 1] = table[j + 1] => i = j,
         NEW idx, NEW key, \A m \in W : idx[m] \in E /\ key[m] = table[idx[m] + 1],
         NEW array, Counting(array, D, W, idx)
  PROVE  Telling(array, table, W, key)
<1> USE DEF Counting, Telling
<1>1. ASSUME NEW n \in W
      PROVE  /\ idx[n] \in DOMAIN array /\ array[idx[n]] # 0 /\ table[idx[n] + 1] = key[n]
             /\ array[idx[n]] = Count(W, key, key[n])
  <2> DEFINE i == idx[n]
             M == {m \in W : idx[m] = i}
             K == {m \in W : key[m] = key[n]}
  <2>1. i \in E /\ i \in D /\ table[i + 1] = key[n]
    OBVIOUS
  <2>2. ASSUME NEW m \in W PROVE idx[m] = i <=> key[m] = key[n]
    BY <2>1
  <2>3. M = K
    BY <2>2
  <2>4. IsFiniteSet(M) /\ n \in M
    BY FS_Subset
  <2>5. Cardinality(M) # 0
    <3> HIDE DEF M
    <3> QED
      BY <2>4, FS_EmptySet
  <2>6. array[i] = Cardinality(M) /\ Count(W, key, key[n]) = Cardinality(K)
    BY <2>1 DEF Count
  <2> HIDE DEF M, K
  <2> QED
    BY <2>1, <2>3, <2>5, <2>6
<1>2. ASSUME NEW i \in DOMAIN array, array[i] # 0 PROVE \E n \in W : idx[n] = i
  <2> DEFINE M == {m \in W : idx[m] = i}
  <2>1. array[i] = Cardinality(M)
    BY DEF Count
  <2>2. M # {}
    <3> HIDE DEF M
    <3> QED
      BY <2>1, <1>2, FS_EmptySet
  <2> QED
    BY <2>2
<1> DEFINE T(n) == <<key[n], Count(W, key, key[n])>>
           R(i) == <<table[i + 1], array[i]>>
<1>3. \A n \in W : R(idx[n]) = T(n) /\ idx[n] \in {j \in DOMAIN array : array[j] # 0}
  BY <1>1
<1>4. \A i \in {j \in DOMAIN array : array[j] # 0} : \E n \in W : R(i) = T(n)
  <2> SUFFICES ASSUME NEW i \in DOMAIN array, array[i] # 0 PROVE \E n \in W : R(i) = T(n)
    OBVIOUS
  <2>1. PICK n \in W : idx[n] = i
    BY <1>2
  <2> QED
    BY <2>1, <1>3
<1>5. _view_stats_result1(array, table) = {R(i) : i \in {j \in DOMAIN array : array[j] # 0}}
  BY DEF _view_stats_result1
<1> HIDE DEF T, R
<1>6. {R(i) : i \in {j \in DOMAIN array : array[j] # 0}} = {T(n) : n \in W}
  BY <1>3, <1>4
<1> QED
  BY <1>5, <1>6 DEF T

\* Counting one more.
LEMMA CountOne ==
  ASSUME NEW W, IsFiniteSet(W), NEW l, l \notin W, NEW D, NEW idx, idx[l] \in D,
         NEW array, Counting(array, D, W, idx)
  PROVE  Counting(Incremented(array, idx[l]), D, W \cup {l}, idx)
<1> USE DEF Counting
<1> DEFINE new == Incremented(array, idx[l])
<1>1. new = [array EXCEPT ![idx[l]] = @ + 1]
  BY DEF Incremented
<1>2. new \in [D -> Nat]
  BY <1>1
<1>3. ASSUME NEW i \in D PROVE new[i] = Count(W \cup {l}, idx, i)
  <2> DEFINE M == {m \in W : idx[m] = i}
             K == {m \in W \cup {l} : idx[m] = i}
  <2>1. /\ array[i] = Cardinality(M) /\ array[i] \in Nat
        /\ Count(W \cup {l}, idx, i) = Cardinality(K)
    BY DEF Count
  <2>2. CASE idx[l] = i
    <3>1. K = M \cup {l} /\ l \notin M /\ IsFiniteSet(M)
      BY <2>2, FS_Subset
    <3>2. new[i] = array[i] + 1
      BY <1>1, <2>2
    <3> HIDE DEF M, K, new
    <3>3. Cardinality(K) = Cardinality(M) + 1
      BY <3>1, FS_AddElement
    <3> QED
      BY <3>2, <3>3, <2>1
  <2>3. CASE idx[l] # i
    <3>1. K = M
      BY <2>3
    <3>2. new[i] = array[i]
      BY <1>1, <2>3
    <3> HIDE DEF M, K, new
    <3> QED
      BY <3>1, <3>2, <2>1
  <2> QED
    BY <2>2, <2>3
<1> QED
  BY <1>2, <1>3

\* The indices of the lines.
TypeIndex == [n \in 1 .. MaxLine |-> rtype_index(log[n].rtype)]
CodeIndex == [n \in 1 .. MaxLine |-> rcode_index(log[n].rcode)]

\* The counters say how many lines with each index were read whole.
CountSound ==
  /\ log \in Log
  /\ pc # "crash" =>
       /\ \A m \in Whole : Contains(RTYPE, log[m].rtype)
       /\ Counting(counts.rtype, 0 .. RTYPE_MAX_NUM - 1, Whole, TypeIndex)
       /\ Counting(counts.rcode, 0 .. RCODE_MAX_NUM - 1, Whole, CodeIndex)

\* Every code has an index, and every type that is in the table.
LEMMA Indices ==
  ASSUME NEW n \in 1 .. MaxLine
  PROVE  /\ CodeIndex[n] \in 0 .. 6
         /\ RCODE[CodeIndex[n] + 1] = IF Contains(RCODE, log[n].rcode) THEN log[n].rcode ELSE "OTHER"
         /\ Contains(RTYPE, log[n].rtype) =>
              TypeIndex[n] \in 0 .. 10 /\ RTYPE[TypeIndex[n] + 1] = log[n].rtype
         /\ TypeIndex[n] # -1 => Contains(RTYPE, log[n].rtype)
<1>1. CodeIndex[n] = IndexIn(RCODE, 7, log[n].rcode) /\ TypeIndex[n] = IndexIn(RTYPE, 12, log[n].rtype)
  BY DEF CodeIndex, TypeIndex, rcode_index, rtype_index, RCODE_MAX_NUM, RTYPE_MAX_NUM
<1>2. Contains(RCODE, log[n].rcode) =>
        CodeIndex[n] \in 0 .. 6 /\ RCODE[CodeIndex[n] + 1] = log[n].rcode
  <2>1. Len(RCODE) = 7 /\ Len(RCODE) \in Nat
    BY Tables
  <2>2. Contains(RCODE, log[n].rcode) => IsPlace(IndexIn(RCODE, 7, log[n].rcode), RCODE, log[n].rcode)
    BY <2>1, IndexIs
  <2> QED
    BY <1>1, <2>1, <2>2 DEF IsPlace
<1>3. ~ Contains(RCODE, log[n].rcode) => CodeIndex[n] = 6
  <2>1. ~ (Len(RCODE) < 7)
    BY Tables
  <2> QED
    BY <1>1, <2>1 DEF IndexIn
<1>4. Contains(RTYPE, log[n].rtype) =>
        TypeIndex[n] \in 0 .. 10 /\ RTYPE[TypeIndex[n] + 1] = log[n].rtype
  <2>1. Len(RTYPE) = 11 /\ Len(RTYPE) \in Nat
    BY Tables
  <2>2. Contains(RTYPE, log[n].rtype) => IsPlace(IndexIn(RTYPE, 12, log[n].rtype), RTYPE, log[n].rtype)
    BY <2>1, IndexIs
  <2> QED
    BY <1>1, <2>1, <2>2 DEF IsPlace
<1>5. ~ Contains(RTYPE, log[n].rtype) => TypeIndex[n] = -1
  <2>1. Len(RTYPE) < 12
    BY Tables
  <2> QED
    BY <1>1, <2>1 DEF IndexIn
<1>6. RCODE[6 + 1] = "OTHER"
  BY Tables
<1> QED
  BY <1>2, <1>3, <1>4, <1>5, <1>6

\* The lines read whole are lines of the log.
LEMMA WholeIs ==
  ASSUME TypeOK
  PROVE  Whole \subseteq 1 .. MaxLine /\ IsFiniteSet(Whole)
<1>1. ASSUME NEW p \in Piece PROVE LineOf(p) \in 1 .. MaxLine
  <2>1. p \in Nat \ {0} /\ p <= 3 * MaxLine
    BY BoundAssumption DEF Piece
  <2> QED
    BY <2>1, Parts, BoundAssumption
<1>2. Whole \subseteq 1 .. MaxLine
  BY <1>1, Numbers DEF Whole
<1>3. IsFiniteSet(1 .. MaxLine)
  BY FS_Interval, BoundAssumption
<1> QED
  BY <1>2, <1>3, FS_Subset

\* Reading counts the line it reads whole, and no other.
LEMMA CountStep == ASSUME TailInv, CountSound, fgets, pc' # "crash" PROVE CountSound'
<1> USE DEF CountSound
<1>1. PICK n \in Nat \ {0} :
        /\ pos + n <= Len(content[file])
        /\ handled' = Append(handled, <<content[file][pos + 1], content[file][pos + n]>>)
        /\ LET outcome == Outcome(content[file][pos + 1], content[file][pos + n])
           IN /\ pc' = IF outcome = "crash" THEN "crash" ELSE "fgets"
              /\ counts' = IF outcome = "counted" THEN Counted(LineAt(content[file][pos + n]))
                           ELSE counts
  BY Fgets
<1> DEFINE from == content[file][pos + 1]
           to == content[file][pos + n]
           l == LineOf(to)
           h == <<from, to>>
<1>2. /\ handled' = Append(handled, h) /\ Outcome(from, to) # "crash"
      /\ counts' = IF Outcome(from, to) = "counted" THEN Counted(LineAt(to)) ELSE counts
      /\ log' = log /\ pc = "fgets"
  BY <1>1 DEF fgets, fixed
<1>3. TypeOK /\ InOrderOnce' /\ handled \in Seq(Piece \X Piece)
  BY ReadStep DEF TailInv, FilesInv, TypeOK
<1> HIDE DEF h
<1>4. /\ Len(handled) \in Nat /\ DOMAIN handled' = 1 .. Len(handled) + 1
      /\ DOMAIN handled = 1 .. Len(handled)
      /\ \A i \in 1 .. Len(handled) : handled'[i] = handled[i]
      /\ handled'[Len(handled) + 1] = h /\ ToSet(handled') = ToSet(handled) \cup {h}
  BY <1>2, <1>3, Appended
<1>5. /\ from \in Piece /\ to \in Piece /\ h[1] = from /\ h[2] = to /\ l \in 1 .. MaxLine
      /\ to \in Nat \ {0} /\ to <= 3 * MaxLine
  <2>1. /\ file \in File /\ pos \in Nat /\ Len(content[file]) \in Nat
        /\ DOMAIN content[file] = 1 .. Len(content[file])
        /\ \A i \in DOMAIN content[file] : content[file][i] \in Piece
    BY <1>3, Fgets, Numbers
  <2>2. pos + 1 \in DOMAIN content[file] /\ pos + n \in DOMAIN content[file]
    BY <2>1, <1>1
  <2>3. from \in Piece /\ to \in Piece
    BY <2>1, <2>2
  <2> HIDE DEF from, to
  <2>4. to \in Nat \ {0} /\ to <= 3 * MaxLine
    BY <2>3, BoundAssumption DEF Piece
  <2>5. l \in 1 .. MaxLine
    <3>1. /\ l \in Nat \ {0} /\ Part(to) \in 1 .. 3 /\ to = 3 * (l - 1) + Part(to)
      BY <2>4, Parts
    <3> HIDE DEF l
    <3> QED
      BY <2>4, <3>1, BoundAssumption
  <2> QED
    BY <2>3, <2>4, <2>5 DEF h
<1> HIDE DEF from, to
<1>6. \A g \in ToSet(handled) : g[2] < to /\ g[2] \in Nat \ {0}
  <2>1. h \in ToSet(handled') /\ from <= to
    BY <1>3, <1>4, <1>5 DEF InOrderOnce
  <2>2. ASSUME NEW i \in DOMAIN handled
        PROVE  handled[i][2] < from /\ handled[i][2] \in Piece
    <3>1. i \in DOMAIN handled' /\ Len(handled) + 1 \in DOMAIN handled' /\ i < Len(handled) + 1
      BY <1>4
    <3>2. handled'[i][2] < handled'[Len(handled) + 1][1]
      BY <1>3, <3>1 DEF InOrderOnce
    <3> QED
      BY <1>3, <1>4, <1>5, <3>2
  <2>3. ASSUME NEW i \in DOMAIN handled PROVE handled[i][2] < to /\ handled[i][2] \in Nat \ {0}
    <3>1. Piece \subseteq Nat \ {0}
      BY <1>3, Numbers
    <3>2. handled[i][2] \in Nat \ {0} /\ from \in Nat /\ to \in Nat
      BY <2>2, <1>5, <3>1
    <3>3. handled[i][2] < from /\ from <= to
      BY <2>1, <2>2
    <3> QED
      BY <3>2, <3>3
  <2> QED
    BY <2>3 DEF ToSet
<1>7. LineAt(to) = log[l] /\ (Part(to) # 3 => log[l].ends[Part(to)] \in Place)
  <2>1. log[l].ends \in [1 .. 2 -> Place]
    BY <1>5, LogAssumption
  <2>2. Part(to) \in 1 .. 3
    BY <1>5, Parts
  <2> QED
    BY <2>1, <2>2 DEF LineAt
<1>8. /\ Outcome(from, to) = "counted" <=> FromFirst(from) /\ Part(to) = 3
      /\ Outcome(from, to) = "counted" => rtype_index(log[l].rtype) # -1
  <2>1. CASE Part(to) = 3
    <3>1. EndOf(to) = "newline"
      BY <2>1 DEF EndOf
    <3> QED
      BY <1>2, <1>7, <2>1, <3>1 DEF Outcome, HasTokens
  <2>2. CASE Part(to) # 3
    <3>1. EndOf(to) \in Place
      BY <2>2, <1>7 DEF EndOf
    <3> QED
      BY <2>2, <3>1 DEF Outcome, HasTokens, Place
  <2> QED
    BY <2>1, <2>2
<1> HIDE DEF l
<1>9. TypeIndex' = TypeIndex /\ CodeIndex' = CodeIndex
  BY <1>2 DEF TypeIndex, CodeIndex
<1>10. \A p : FromFirst(p)' <=> FromFirst(p)
  BY <1>2 DEF FromFirst, EndOf, LineAt
<1>11. CASE Outcome(from, to) # "counted"
  <2>1. Whole' = Whole
    BY <1>4, <1>5, <1>8, <1>11, <1>10 DEF Whole
  <2> QED
    BY <1>2, <1>9, <1>11, <2>1
<1>12. CASE Outcome(from, to) = "counted"
  <2>1. Whole' = Whole \cup {l}
    BY <1>4, <1>5, <1>8, <1>12, <1>10 DEF Whole, l
  <2>2. l \notin Whole
    <3> SUFFICES ASSUME NEW g \in ToSet(handled), Part(g[2]) = 3, LineOf(g[2]) = l PROVE FALSE
      BY DEF Whole
    <3>1. /\ g[2] = 3 * (LineOf(g[2]) - 1) + Part(g[2])
          /\ to = 3 * (LineOf(to) - 1) + Part(to)
      BY <1>5, <1>6, Parts
    <3>2. Part(to) = 3
      BY <1>8, <1>12
    <3> QED
      BY <1>6, <3>1, <3>2 DEF l
  <2>3. /\ Contains(RTYPE, log[l].rtype) /\ TypeIndex[l] = rtype_index(log[l].rtype)
        /\ CodeIndex[l] = rcode_index(log[l].rcode)
        /\ TypeIndex[l] \in 0 .. RTYPE_MAX_NUM - 1 /\ CodeIndex[l] \in 0 .. RCODE_MAX_NUM - 1
    <3>1. TypeIndex[l] = rtype_index(log[l].rtype) /\ CodeIndex[l] = rcode_index(log[l].rcode)
      BY <1>5 DEF TypeIndex, CodeIndex
    <3> QED
      BY <3>1, <1>5, <1>8, <1>12, Indices DEF RTYPE_MAX_NUM, RCODE_MAX_NUM
  <2>4. IsFiniteSet(Whole)
    BY <1>3, WholeIs
  <2>5. /\ counts'.rtype = Incremented(counts.rtype, TypeIndex[l])
        /\ counts'.rcode = Incremented(counts.rcode, CodeIndex[l])
    BY <1>2, <1>7, <1>12, <2>3 DEF Counted
  <2>6. Counting(counts'.rtype, 0 .. RTYPE_MAX_NUM - 1, Whole \cup {l}, TypeIndex)
    <3> DEFINE old == counts.rtype
               x == TypeIndex
               D == 0 .. RTYPE_MAX_NUM - 1
    <3>1. Counting(old, D, Whole, x) /\ x[l] \in D
      BY <1>2, <2>3
    <3> HIDE DEF old, x, D
    <3>2. Counting(Incremented(old, x[l]), D, Whole \cup {l}, x)
      BY <3>1, <2>2, <2>4, CountOne
    <3> QED
      BY <3>2, <2>5 DEF old, x, D
  <2>7. Counting(counts'.rcode, 0 .. RCODE_MAX_NUM - 1, Whole \cup {l}, CodeIndex)
    <3> DEFINE old == counts.rcode
               x == CodeIndex
               D == 0 .. RCODE_MAX_NUM - 1
    <3>1. Counting(old, D, Whole, x) /\ x[l] \in D
      BY <1>2, <2>3
    <3> HIDE DEF old, x, D
    <3>2. Counting(Incremented(old, x[l]), D, Whole \cup {l}, x)
      BY <3>1, <2>2, <2>4, CountOne
    <3> QED
      BY <3>2, <2>5 DEF old, x, D
  <2>8. \A m \in Whole' : Contains(RTYPE, log[m].rtype)
    BY <1>2, <2>1, <2>3
  <2> QED
    BY <1>2, <1>9, <2>1, <2>6, <2>7, <2>8
<1> QED
  BY <1>11, <1>12

\* What handles no line keeps the counters.
LEMMA CountSoundStep == ASSUME TailInv, CountSound, [Next]_vars PROVE CountSound'
<1>1. CASE fgets /\ pc' # "crash"
  BY <1>1, CountStep
<1>2. CASE fgets /\ pc' = "crash"
  BY <1>2 DEF CountSound, fgets, fixed
<1>3. CASE ~ fgets
  <2>1. UNCHANGED <<counts, handled, log>> /\ (pc' # "crash" => pc # "crash")
    BY <1>3 DEF Next, step, Ended, vars, main, fixed, write, rename, create, reopen, fopen_fails, fopen,
       lstat, fgets_null, fgets_error, lstat_again, sleep
  <2>2. Whole' = Whole /\ TypeIndex' = TypeIndex /\ CodeIndex' = CodeIndex
    BY <2>1 DEF Whole, FromFirst, EndOf, LineAt, TypeIndex, CodeIndex
  <2> QED
    BY <2>1, <2>2 DEF CountSound
<1> QED
  BY <1>1, <1>2, <1>3

\* At first nothing is counted.
LEMMA InitCount == Init => CountSound
<1> SUFFICES ASSUME Init PROVE CountSound
  OBVIOUS
<1>1. Whole = {} /\ log \in Log /\ counts = NoCounts
  BY DEF Init, Whole, ToSet
<1>2. \A idx, i : Count({}, idx, i) = 0
  BY FS_EmptySet DEF Count
<1>3. /\ Counting(counts.rtype, 0 .. RTYPE_MAX_NUM - 1, {}, TypeIndex)
      /\ Counting(counts.rcode, 0 .. RCODE_MAX_NUM - 1, {}, CodeIndex)
  BY <1>1, <1>2 DEF Counting, NoCounts
<1> QED
  BY <1>1, <1>3 DEF CountSound

\* The replies say how many lines with each type and code were read whole.
LEMMA Replies == ASSUME TailInv, CountSound PROVE RepliesMatch
<1> DEFINE type == [n \in Whole |-> log[n].rtype]
           code == [n \in Whole |-> IF Contains(RCODE, log[n].rcode) THEN log[n].rcode ELSE "OTHER"]
<1> SUFFICES ASSUME pc # "crash"
             PROVE  Telling(counts.rtype, RTYPE, Whole, type) /\ Telling(counts.rcode, RCODE, Whole, code)
  BY DEF RepliesMatch, Telling, Count
<1>1. Whole \subseteq 1 .. MaxLine /\ IsFiniteSet(Whole)
  BY WholeIs DEF TailInv, FilesInv
<1>2. /\ \A m \in Whole : Contains(RTYPE, log[m].rtype)
      /\ Counting(counts.rtype, 0 .. RTYPE_MAX_NUM - 1, Whole, TypeIndex)
      /\ Counting(counts.rcode, 0 .. RCODE_MAX_NUM - 1, Whole, CodeIndex)
  BY DEF CountSound
<1>3. \A m \in Whole : TypeIndex[m] \in 0 .. 10 /\ type[m] = RTYPE[TypeIndex[m] + 1]
  BY <1>1, <1>2, Indices
<1>4. \A m \in Whole : CodeIndex[m] \in 0 .. 6 /\ code[m] = RCODE[CodeIndex[m] + 1]
  BY <1>1, Indices
<1> HIDE DEF type, code
<1>5. \A i, j \in 0 .. 10 : RTYPE[i + 1] = RTYPE[j + 1] => i = j
  BY Tables
<1>6. \A i, j \in 0 .. 6 : RCODE[i + 1] = RCODE[j + 1] => i = j
  BY Tables
<1>7. Telling(counts.rtype, RTYPE, Whole, type)
  <2> DEFINE D == 0 .. RTYPE_MAX_NUM - 1
             E == 0 .. 10
             array == counts.rtype
             idx == TypeIndex
  <2>1. E \in SUBSET D
    BY DEF RTYPE_MAX_NUM
  <2>2. /\ Counting(array, D, Whole, idx)
        /\ \A m \in Whole : idx[m] \in E /\ type[m] = RTYPE[idx[m] + 1]
        /\ \A i, j \in E : RTYPE[i + 1] = RTYPE[j + 1] => i = j
    BY <1>2, <1>3, <1>5
  <2> HIDE DEF D, E, array, idx
  <2>3. Telling(array, RTYPE, Whole, type)
    BY <1>1, <2>1, <2>2, ReplyIs
  <2> QED
    BY <2>3 DEF array
<1>8. Telling(counts.rcode, RCODE, Whole, code)
  <2> DEFINE D == 0 .. RCODE_MAX_NUM - 1
             E == 0 .. 6
             array == counts.rcode
             idx == CodeIndex
  <2>1. E \in SUBSET D
    BY DEF RCODE_MAX_NUM
  <2>2. /\ Counting(array, D, Whole, idx)
        /\ \A m \in Whole : idx[m] \in E /\ code[m] = RCODE[idx[m] + 1]
        /\ \A i, j \in E : RCODE[i + 1] = RCODE[j + 1] => i = j
    BY <1>2, <1>4, <1>6
  <2> HIDE DEF D, E, array, idx
  <2>3. Telling(array, RCODE, Whole, code)
    BY <1>1, <2>1, <2>2, ReplyIs
  <2> QED
    BY <2>3 DEF array
<1> QED
  BY <1>7, <1>8

\* However the log is cut into reads and rotated, the counters tell how many
\* lines of each type and code were read whole.
THEOREM RepliesTheorem == Spec => []RepliesMatch
<1>1. TailInv /\ CountSound => RepliesMatch
  BY Replies
<1>2. TailInv /\ CountSound /\ [Next]_vars => CountSound'
  BY CountSoundStep
<1> QED
  BY <1>1, <1>2, InitCount, TailInvariant, PTL DEF Spec
=============================================================================
