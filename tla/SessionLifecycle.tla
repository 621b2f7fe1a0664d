-------------------------- MODULE SessionLifecycle --------------------------
(***************************************************************************)
(* What a group session promises whoever watches its row: it is opened     *)
(* once, movies are put to its vote, it is closed with one of those or     *)
(* with none, and it never opens again.  A result that was published is    *)
(* never withdrawn; the code does not promise that it is never corrected,  *)
(* because the vote that completes a session and the timeout task may both *)
(* close it.                                                               *)
(***************************************************************************)
CONSTANTS Movies, NoMovie

VARIABLES phase,     \* "absent", "open" or "closed"
          result,    \* the movie the session ended with
          offered    \* the movies that have been put to the vote

vars == <<phase, result, offered>>

Init == phase = "absent" /\ result = NoMovie /\ offered = {}

(* A start or a reroll offers movies; a member brings in a movie by voting *)
(* on it.  The row may be visible before a start has picked any, and a     *)
(* reroll may go on while the session closes.                              *)
Offer ==
    /\ phase # "absent"
    /\ \E picks \in SUBSET Movies : offered' = offered \cup picks
    /\ UNCHANGED <<phase, result>>

Open ==
    /\ phase = "absent"
    /\ phase' = "open"
    /\ \E picks \in SUBSET Movies : offered' = offered \cup picks
    /\ UNCHANGED result

CloseWith(m) ==
    /\ phase \in {"open", "closed"}
    /\ phase' = "closed"
    /\ result' = m
    /\ UNCHANGED offered

CloseEmpty ==
    /\ phase = "open"
    /\ phase' = "closed"
    /\ UNCHANGED <<result, offered>>

Next == Offer \/ Open \/ CloseEmpty \/ \E m \in offered : CloseWith(m)

Spec == Init /\ [][Next]_vars

=============================================================================
