----------------------------- MODULE NameSpec ------------------------------
(***************************************************************************)
(* What a name tree promises its users: it counts how often each name was  *)
(* seen, and forgets the names not seen for the longest time when it is    *)
(* told to shrink.                                                         *)
(***************************************************************************)
EXTENDS Naturals

CONSTANT Name

VARIABLES seen,  \* how often each name that is known was seen
          later  \* for each of them the names seen since it last was

vars == <<seen, later>>
Known == DOMAIN seen

Init == seen = [x \in {} |-> 0] /\ later = [x \in {} |-> {}]

\* A name is seen.
See(x) ==
  /\ seen' = [y \in Known \cup {x} |->
                IF y \notin Known THEN 1 ELSE seen[y] + IF y = x THEN 1 ELSE 0]
  /\ later' = [y \in Known \cup {x} |-> IF y = x THEN {} ELSE later[y] \cup {x}]

\* The name not seen for the longest time is forgotten.
Forget ==
  \E x \in Known :
    /\ later[x] = Known \ {x}
    /\ seen' = [y \in Known \ {x} |-> seen[y]]
    /\ later' = [y \in Known \ {x} |-> later[y]]

Next == (\E x \in Name : See(x)) \/ Forget

Spec == Init /\ [][Next]_vars
=============================================================================
