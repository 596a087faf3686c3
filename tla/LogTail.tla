------------------------------ MODULE LogTail ------------------------------
(***************************************************************************)
(* The main thread: main.c follows the query log of the name server, which *)
(* is rotated under it, handle_string_log of log_topn.c splits a line, and *)
(* the counters of ViewStats take it.                                      *)
(*                                                                         *)
(* The name server is external.  It numbers what it writes: line n is made *)
(* of the pieces 3n-2 .. 3n, and a write may end after any of them.  Log   *)
(* files are numbered as they are created, and a file's number is its      *)
(* inode: the inode of a file that is open is not reused.                  *)
(***************************************************************************)
EXTENDS ViewStats, FiniteSets

CONSTANTS
  Log,        \* what the name server may write: sequences of lines
  MaxLine,    \* bound: lines written
  MaxFile     \* bound: log files

ASSUME BoundAssumption == MaxLine \in Nat \ {0} /\ MaxFile \in Nat \ {0}
\* Where a piece of a line can end: inside its first token, behind that but
\* before the rcode, and so on.
Place == {"in first", "before rcode", "before zone", "in zone"}

\* A line: its type and code, whether it has the token handle_string_log takes
\* for the zone, and where its first two pieces end.
ASSUME LogAssumption ==
  Log \subseteq [1 .. MaxLine -> [rtype : STRING, rcode : STRING, zone : BOOLEAN,
                                ends : [1 .. 2 -> Place]]]

File == 1 .. MaxFile
Piece == 1 .. 3 * MaxLine
Part(p) == ((p - 1) % 3) + 1
LineOf(p) == ((p - 1) \div 3) + 1

VARIABLES
  content,    \* the pieces in each file
  path,       \* the file the log's name stands for; 0: none
  nfile,      \* files created
  writing,    \* the file the name server writes to
  npiece,     \* pieces written
  pc,         \* where main is
  sticky,     \* does stdio keep the end-of-file flag (glibc does since 2.28)
  first,      \* main's first: was the log opened before
  file, pos,  \* the file main reads, and how much of it is read
  eof,        \* its end-of-file flag
  sbuf,       \* the inode in main's sbuf; before the first lstat, anything
  last_inode,
  counts,     \* the counters of the view of all lines
  log,        \* what the name server writes
  handled,    \* ghost: the first and last piece of what was handled, in order
  late        \* ghost: pieces written where main would not look any more

server == <<content, path, nfile, writing, npiece>>
main == <<pc, first, file, pos, eof, sbuf, last_inode, counts, handled>>
fixed == <<sticky, log>>
vars == <<server, main, fixed, late>>

Init ==
  /\ content = [f \in File |-> <<>>] /\ path = 1 /\ nfile = 1
  /\ writing = 1 /\ npiece = 0
  /\ pc = "fopen" /\ first = FALSE /\ file = 0 /\ pos = 0 /\ eof = FALSE
  /\ sbuf \in File \cup {0} /\ last_inode = 0
  /\ counts = NoCounts /\ handled = <<>> /\ late = {}
  /\ sticky \in BOOLEAN /\ log \in Log

-----------------------------------------------------------------------------
(* The name server and whoever rotates its log.                            *)

write(n) ==
  LET new == [i \in 1 .. n |-> npiece + i] IN
  /\ npiece + n \in Piece
  /\ npiece' = npiece + n
  /\ content' = [content EXCEPT ![writing] = @ \o new]
  /\ late' = IF writing < file \/ (writing = file /\ pc \in {"lstat", "fopen"})
             THEN late \cup ToSet(new) ELSE late
  /\ UNCHANGED <<path, nfile, writing, main, fixed>>

rename ==
  /\ path # 0 /\ nfile < MaxFile
  /\ path' = 0
  /\ UNCHANGED <<content, nfile, writing, npiece, main, fixed, late>>

create ==
  /\ path = 0
  /\ nfile' = nfile + 1 /\ path' = nfile + 1
  /\ UNCHANGED <<content, writing, npiece, main, fixed, late>>

\* The name server goes on in the new file, between two lines.
reopen ==
  /\ path # 0 /\ path # writing /\ npiece % 3 = 0
  /\ writing' = path
  /\ UNCHANGED <<content, path, nfile, npiece, main, fixed, late>>

-----------------------------------------------------------------------------
(* main.                                                                   *)

fopen_fails ==
  /\ pc = "fopen" /\ path = 0
  /\ pc' = "exit"
  /\ UNCHANGED <<server, first, file, pos, eof, sbuf, last_inode, counts, handled, fixed, late>>

\* What main passes over: the start of the first log, and logs that came and
\* went while it read another.
PassedOver == UNION {ToSet(content[f]) : f \in IF first THEN file + 1 .. path - 1 ELSE 1 .. path}

\* Mutant: a file is always read from its end.
StartOf_AtEnd(f) == Len(content[f])

\* Only the first file is read from its end.
StartOf(f) == IF first THEN 0 ELSE Len(content[f])

fopen ==
  /\ pc = "fopen" /\ path # 0
  /\ file' = path
  /\ pos' = StartOf(path)
  /\ late' = late \cup PassedOver
  /\ first' = TRUE /\ eof' = FALSE
  /\ pc' = "inode"
  /\ UNCHANGED <<server, sbuf, last_inode, counts, handled, fixed>>

\* lstat goes by the name, not by the open file, and leaves sbuf alone when
\* there is none.
Stat == IF path # 0 THEN path ELSE sbuf

lstat ==
  /\ pc = "inode"
  /\ sbuf' = Stat /\ last_inode' = Stat
  /\ pc' = "fgets"
  /\ UNCHANGED <<server, first, file, pos, eof, counts, handled, fixed, late>>

LineAt(p) == log[LineOf(p)]
EndOf(p) == IF Part(p) = 3 THEN "newline" ELSE LineAt(p).ends[Part(p)]

\* Tokens are counted from the start of what was read: a line that was cut
\* inside its first token still has as many.
FromFirst(p) == Part(p) = 1 \/ EndOf(p - 1) = "in first"

\* Mutant: only the tokens up to the type are asked for.
HasTokens_NoRcode(from, to) == FromFirst(from) /\ EndOf(to) # "in first"

\* Are there the tokens up to the rcode, with that of the view where it should
\* be?
HasTokens(from, to) == FromFirst(from) /\ EndOf(to) \notin {"in first", "before rcode"}

\* What handle_string_log does with these pieces.  It writes to the zone without
\* asking for it; a zone that was cut makes a view of its own.
Outcome(from, to) ==
  IF ~HasTokens(from, to) THEN "ignored"
  ELSE IF \/ EndOf(to) \in {"before rcode", "before zone"}
          \/ ~LineAt(to).zone
          \/ rtype_index(LineAt(to).rtype) = -1
       THEN "crash"
  ELSE IF EndOf(to) = "in zone" THEN "stray" ELSE "counted"

Counted(line) ==
  [rtype |-> Incremented(counts.rtype, rtype_index(line.rtype)),
   rcode |-> Incremented(counts.rcode, rcode_index(line.rcode))]

Unread == IF file = 0 THEN <<>> ELSE SubSeq(content[file], pos + 1, Len(content[file]))
CanRead == Unread # <<>> /\ ~(sticky /\ eof)

\* fgets stops behind a newline or at the end of the file, and the line is
\* handled.
fgets ==
  /\ pc = "fgets" /\ CanRead
  /\ LET ends == {i \in DOMAIN Unread : Part(Unread[i]) = 3}
         n == IF ends = {} THEN Len(Unread) ELSE CHOOSE i \in ends : \A j \in ends : i <= j
     IN /\ pos' = pos + n
        /\ eof' = (eof \/ ends = {})
        /\ handled' = Append(handled, <<Unread[1], Unread[n]>>)
        /\ LET outcome == Outcome(Unread[1], Unread[n])
           IN /\ pc' = IF outcome = "crash" THEN "crash" ELSE "fgets"
              /\ counts' = IF outcome = "counted" THEN Counted(LineAt(Unread[n]))
                           ELSE counts
  /\ UNCHANGED <<server, first, file, sbuf, last_inode, fixed, late>>

fgets_null ==
  /\ pc = "fgets" /\ ~CanRead
  /\ eof' = TRUE
  /\ pc' = "lstat"
  /\ UNCHANGED <<server, first, file, pos, sbuf, last_inode, counts, handled, fixed, late>>

\* A read error, which an end-of-file flag set before would hide: main returns.
fgets_error ==
  /\ pc = "fgets" /\ ~eof
  /\ pc' = "exit"
  /\ UNCHANGED <<server, first, file, pos, eof, sbuf, last_inode, counts, handled, fixed, late>>

\* Mutant: the inodes are not compared.
SameInode_Never == FALSE

\* Mutant: the log is never opened again.
SameInode_Always == TRUE

SameInode == Stat = last_inode

lstat_again ==
  /\ pc = "lstat"
  /\ sbuf' = Stat
  /\ pc' = IF SameInode THEN "sleep" ELSE "fopen"
  /\ UNCHANGED <<server, first, file, pos, eof, last_inode, counts, handled, fixed, late>>

\* Mutant: it looks for a rotation before it reads again.
AfterSleep_Stat == "lstat"

AfterSleep == "fgets"

sleep ==
  /\ pc = "sleep"
  /\ pc' = AfterSleep
  /\ UNCHANGED <<server, first, file, pos, eof, sbuf, last_inode, counts, handled, fixed, late>>

-----------------------------------------------------------------------------

step == fopen_fails \/ fopen \/ lstat \/ fgets \/ fgets_null \/ lstat_again \/ sleep

Ended == pc \in {"exit", "crash"}

\* When the daemon has ended nobody follows the log, and neither does the model.
Next == \/ ~Ended /\ \/ \E n \in 1 .. 3 : write(n)
                     \/ rename \/ create \/ reopen
        \/ step \/ fgets_error

Spec == Init /\ [][Next]_vars

\* The main thread runs; nothing is promised of the name server.
FairSpec == Spec /\ WF_vars(step)

-----------------------------------------------------------------------------
(* Properties.                                                             *)

TypeOK ==
  /\ content \in [File -> Seq(Piece)] /\ path \in File \cup {0} /\ nfile \in File
  /\ writing \in File /\ npiece \in Piece \cup {0}
  /\ pc \in {"fopen", "inode", "fgets", "lstat", "sleep", "exit", "crash"}
  /\ sticky \in BOOLEAN /\ first \in BOOLEAN /\ eof \in BOOLEAN
  /\ file \in File \cup {0} /\ sbuf \in File \cup {0} /\ last_inode \in File \cup {0}
  /\ pos \in 0 .. (IF file = 0 THEN 0 ELSE Len(content[file]))
  /\ handled \in Seq(Piece \X Piece) /\ late \in SUBSET Piece

Handled(p) == \E h \in ToSet(handled) : p \in h[1] .. h[2]

\* What is handled is in the order it was written, no piece twice and never
\* two lines at once, whatever is rotated when: no line is counted twice.
InOrderOnce ==
  /\ TypeOK
  /\ \A h \in ToSet(handled) : h[1] <= h[2] /\ LineOf(h[1]) = LineOf(h[2])
  /\ \A i, j \in DOMAIN handled : i < j => handled[i][2] < handled[j][1]

\* What main has not handled it can still read, or it is in a log that is still
\* to come.  Lost are only pieces written between the end of file and the look
\* at the inode or later still, and what main passed over.  With a C library
\* that keeps the end-of-file flag, all that follows the first end is lost.
LostOnlyIfLate ==
  ~sticky => \A p \in (1 .. npiece) \ late :
    \/ Handled(p)
    \/ p \in ToSet(Unread)
    \/ \E f \in File : f > file /\ p \in ToSet(content[f])

\* Three things in a log kill the daemon: a line read when it was written up to
\* its zone and no further, a line without a zone, and one whose type is not in
\* the table.  The rest of a line that was read in two is one of them only if
\* the line was cut inside its first token.
KilledByLine ==
  pc = "crash" =>
    LET from == Last(handled)[1]
        to == Last(handled)[2]
        line == LineAt(to)
    IN /\ Part(from) # 1 => line.ends[Part(from) - 1] = "in first"
       /\ \/ Part(to) # 3 /\ line.ends[Part(to)] = "before zone"
          \/ ~line.zone /\ (Part(to) # 3 => line.ends[Part(to)] = "in zone")
          \/ ~Contains(RTYPE, line.rtype) /\ (Part(to) # 3 => line.ends[Part(to)] = "in zone")

\* The lines whose tokens were all read at once: whole, or all but the start of
\* their first token.
Whole == {LineOf(h[2]) : h \in {g \in ToSet(handled) : FromFirst(g[1]) /\ Part(g[2]) = 3}}

\* The replies for types and codes say how many lines with each had all their
\* tokens read at once, codes that are not in the table together, however the
\* log was cut into reads and rotated.
RepliesMatch ==
  LET type == [n \in Whole |-> log[n].rtype]
      code == [n \in Whole |-> IF Contains(RCODE, log[n].rcode) THEN log[n].rcode ELSE "OTHER"]
      Tally(key) == {<<key[n], Cardinality({m \in Whole : key[m] = key[n]})>> : n \in Whole}
  IN pc # "crash" =>
       /\ _view_stats_result1(counts.rtype, RTYPE) = Tally(type)
       /\ _view_stats_result1(counts.rcode, RCODE) = Tally(code)

\* A rotation is noticed, unless it fell between opening the old file and
\* asking for its inode, or the next one came first.
RotationNoticed ==
  path # file ~> path \in {0, file} \/ Ended \/ last_inode # file

\* Main catches up with what it can read, unless the C library keeps the
\* end-of-file flag.
ReadsOn == ~sticky /\ Unread # <<>> ~> Ended \/ Unread = <<>>

\* A complete line is counted, under OTHER if its type is none of the table's.
UnknownTypeIsOther == pc = "crash" => Part(Last(handled)[2]) # 3
=============================================================================
