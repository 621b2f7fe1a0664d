----------------------------- MODULE Membership -----------------------------
(***************************************************************************)
(* What one group promises those who read its members: somebody founds it  *)
(* and is its owner, once; whoever is not in it may join, as a member and  *)
(* never as owner, and whoever is in it may leave.  Nobody's role changes  *)
(* in any other way.                                                       *)
(*                                                                         *)
(* The code means to keep an owner from leaving while others remain, but   *)
(* what it has counted may be out of date when the row is deleted; a group *)
(* therefore does not promise that it has an owner.                        *)
(***************************************************************************)
CONSTANT Users

VARIABLES founded,   \* whether the group exists
          role       \* the role of each user in it

vars == <<founded, role>>

Init == founded = FALSE /\ role = [u \in Users |-> "none"]

Found(u) ==
    /\ ~founded
    /\ founded' = TRUE
    /\ role' = [role EXCEPT ![u] = "owner"]

Join(u) ==
    /\ founded /\ role[u] = "none"
    /\ role' = [role EXCEPT ![u] = "member"]
    /\ founded' = founded

Leave(u) ==
    /\ founded /\ role[u] # "none"
    /\ role' = [role EXCEPT ![u] = "none"]
    /\ founded' = founded

Next == \E u \in Users : Found(u) \/ Join(u) \/ Leave(u)

Spec == Init /\ [][Next]_vars

=============================================================================
