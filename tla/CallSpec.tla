------------------------------ MODULE CallSpec ------------------------------
(***************************************************************************)
(* What the connection to the daemon promises the threads of the web       *)
(* server: one request at a time, answered with its own reply after it was *)
(* executed, or given up; executed once at most, if it was given up        *)
(* perhaps much later.                                                     *)
(***************************************************************************)
EXTENDS Naturals, Sequences, SequencesExt

VARIABLES
  issued,   \* requests so far: they are 1 .. issued
  open,     \* the request under way; 0: none
  answer,   \* what its caller got: <<>>, nothing yet, or the number of the
            \* reply, 0 for an empty one
  executed, \* the requests the daemon executed, in order
  givenUp   \* the requests whose caller got an empty reply, or died

callVars == <<issued, open, answer, executed, givenUp>>

Init == issued = 0 /\ open = 0 /\ answer = <<>> /\ executed = <<>> /\ givenUp = {}

Issue ==
  /\ open = 0
  /\ issued' = issued + 1 /\ open' = issued + 1
  /\ UNCHANGED <<answer, executed, givenUp>>

\* A request that was answered is never executed again.
Execute(n) ==
  /\ n \notin ToSet(executed)
  /\ n \in givenUp \/ (n = open /\ answer = <<>>)
  /\ executed' = Append(executed, n)
  /\ UNCHANGED <<issued, open, answer, givenUp>>

Answer ==
  /\ open # 0 /\ answer = <<>> /\ open \in ToSet(executed)
  /\ answer' = <<open>>
  /\ UNCHANGED <<issued, open, executed, givenUp>>

GiveUp ==
  /\ open # 0 /\ answer = <<>>
  /\ answer' = <<0>> /\ givenUp' = givenUp \cup {open}
  /\ UNCHANGED <<issued, open, executed>>

Return ==
  /\ answer # <<>>
  /\ open' = 0 /\ answer' = <<>>
  /\ UNCHANGED <<issued, executed, givenUp>>

\* The web server dies with the request under way.
Die ==
  /\ open # 0
  /\ open' = 0 /\ answer' = <<>>
  /\ givenUp' = IF answer = <<>> THEN givenUp \cup {open} ELSE givenUp
  /\ UNCHANGED <<issued, executed>>

Next == \/ Issue \/ Answer \/ GiveUp \/ Return \/ Die
        \/ \E n \in 1 .. issued : Execute(n)

CSpec == Init /\ [][Next]_callVars
=============================================================================
