-------------------------- MODULE GroupMembership --------------------------
(***************************************************************************)
(* Groups, invite codes and members: create_group, join_group_by_code and  *)
(* leave_group of backend/app/services/group_service.py.                   *)
(*                                                                         *)
(* As in GroupSession a request is a worker in a READ COMMITTED            *)
(* transaction of its own.  Each of the three operations reads first and   *)
(* writes later, so another request can commit in between; the unique      *)
(* index on invite_code and the one on (group_id, user_id) are the only    *)
(* things that serialize them.                                             *)
(*                                                                         *)
(*   code   the invite code of each group, NoCode before it exists; no     *)
(*          code path deletes a group or clears is_active                  *)
(*   role   the committed rows of group_members                            *)
(*   req    the requests in flight; found is what the request has read:    *)
(*          its own row, "gone" once another request has deleted that row  *)
(***************************************************************************)
EXTENDS Integers, FiniteSets

CONSTANTS
    Users,
    Groups,      \* the ids the database may give to groups
    Codes,       \* the invite codes the generator may draw
    Workers,     \* request slots
    NoUser, NoGroup, NoCode

ASSUME GroupsAssumption ==
    /\ IsFiniteSet(Users) /\ NoUser \notin Users
    /\ NoGroup \notin Groups /\ NoCode \notin Codes

VARIABLES code, role, req

vars == <<code, role, req>>

Role == {"owner", "member"}

Request ==
    {r \in [pc    : {"idle", "create_flush", "create_commit",
                     "join_read", "join_insert", "leave_count", "leave_delete"},
            user  : Users \cup {NoUser},
            group : Groups \cup {NoGroup},
            code  : Codes \cup {NoCode},
            found : Role \cup {"none", "gone"}] :
        /\ r.pc # "idle" => r.user \in Users
        /\ r.pc \in {"create_flush", "create_commit"} => r.code \in Codes
        /\ r.pc \notin {"idle", "create_flush"} => r.group \in Groups
        /\ r.pc \in {"leave_count", "leave_delete"} => r.found # "none"}

Idle == [pc |-> "idle", user |-> NoUser, group |-> NoGroup, code |-> NoCode, found |-> "none"]

Exists(g) == code[g] # NoCode
MembersOf(g) == {u \in Users : role[g][u] # "none"}
OwnersOf(g) == {u \in Users : role[g][u] = "owner"}
Taken == {code[g] : g \in Groups} \ {NoCode}

(* A group that is flushed and not committed keeps its id and its entry in *)
(* the unique index.                                                       *)
ReservedBy(w) == IF req[w].pc = "create_commit" THEN {req[w].group} ELSE {}
Reserved == UNION {ReservedBy(w) : w \in Workers}
CodeLocked(c) == \E w \in Workers : req[w].pc = "create_commit" /\ req[w].code = c

-----------------------------------------------------------------------------
Init ==
    /\ code = [g \in Groups |-> NoCode]
    /\ role = [g \in Groups |-> [u \in Users |-> "none"]]
    /\ req = [w \in Workers |-> Idle]

-----------------------------------------------------------------------------
(* create_group.                                                           *)

(* The first of five drawn codes that no committed group has.              *)
BeginCreate(w, u, c) ==
    /\ req[w].pc = "idle"
    /\ c \notin Taken
    /\ req' = [req EXCEPT ![w] = [Idle EXCEPT !.pc = "create_flush", !.user = u, !.code = c]]
    /\ UNCHANGED <<code, role>>

(* INSERT of the group: waits for a transaction that has inserted the same *)
(* code, and fails if that code has been committed by now.                 *)
CreateFlushUnchecked(w) ==                                     \* mutant of CreateFlush
    /\ req[w].pc = "create_flush"
    /\ \E g \in Groups : /\ ~Exists(g) /\ g \notin Reserved
                         /\ req' = [req EXCEPT ![w].pc = "create_commit", ![w].group = g]
    /\ UNCHANGED <<code, role>>
CreateFlush(w) ==
    /\ req[w].pc = "create_flush"
    /\ ~CodeLocked(req[w].code)
    /\ IF req[w].code \in Taken
       THEN req' = [req EXCEPT ![w] = Idle]
       ELSE \E g \in Groups : /\ ~Exists(g) /\ g \notin Reserved
                              /\ req' = [req EXCEPT ![w].pc = "create_commit", ![w].group = g]
    /\ UNCHANGED <<code, role>>

(* The owner's row, and the commit of both.                                *)
CreateCommit(w) ==
    /\ req[w].pc = "create_commit"
    /\ code' = [code EXCEPT ![req[w].group] = req[w].code]
    /\ role' = [role EXCEPT ![req[w].group][req[w].user] = "owner"]
    /\ req' = [req EXCEPT ![w] = Idle]

-----------------------------------------------------------------------------
(* join_group_by_code.                                                     *)

(* The code names an existing group, whether it has members or not.        *)
BeginJoin(w, u, g) ==
    /\ req[w].pc = "idle"
    /\ Exists(g)
    /\ req' = [req EXCEPT ![w] = [Idle EXCEPT !.pc = "join_read", !.user = u, !.group = g]]
    /\ UNCHANGED <<code, role>>

(* A member who joins again is answered with the group.                    *)
JoinReadUpserts(w) ==                                          \* mutant of JoinRead
    /\ req[w].pc = "join_read"
    /\ role' = [role EXCEPT ![req[w].group][req[w].user] = "member"]
    /\ req' = [req EXCEPT ![w] = Idle]
    /\ UNCHANGED code
JoinRead(w) ==
    /\ req[w].pc = "join_read"
    /\ req' = IF role[req[w].group][req[w].user] = "none"
              THEN [req EXCEPT ![w].pc = "join_insert"]
              ELSE [req EXCEPT ![w] = Idle]
    /\ UNCHANGED <<code, role>>

(* INSERT and commit; the unique index rejects a second row.               *)
JoinInsertAsOwner(w) ==                                        \* mutant of JoinInsert
    /\ req[w].pc = "join_insert"
    /\ role' = IF role[req[w].group][req[w].user] = "none"
               THEN [role EXCEPT ![req[w].group][req[w].user] = "owner"]
               ELSE role
    /\ req' = [req EXCEPT ![w] = Idle]
    /\ UNCHANGED code
JoinInsert(w) ==
    /\ req[w].pc = "join_insert"
    /\ role' = IF role[req[w].group][req[w].user] = "none"
               THEN [role EXCEPT ![req[w].group][req[w].user] = "member"]
               ELSE role
    /\ req' = [req EXCEPT ![w] = Idle]
    /\ UNCHANGED code

-----------------------------------------------------------------------------
(* leave_group.                                                            *)

(* The leaver's row; whoever has none is answered "not a member".          *)
BeginLeave(w, u, g) ==
    /\ req[w].pc = "idle"
    /\ u \in MembersOf(g)
    /\ req' = [req EXCEPT ![w] = [Idle EXCEPT !.pc = "leave_count", !.user = u, !.group = g,
                                              !.found = role[g][u]]]
    /\ UNCHANGED <<code, role>>

(* Owner cannot leave while other members remain.                          *)
OthersRemain(w) == MembersOf(req[w].group) \ {req[w].user} # {}

LeaveCount(w) ==
    /\ req[w].pc = "leave_count"
    /\ req' = IF req[w].found = "owner" /\ OthersRemain(w)
              THEN [req EXCEPT ![w] = Idle]
              ELSE [req EXCEPT ![w].pc = "leave_delete"]
    /\ UNCHANGED <<code, role>>

(* Two requests that have read the same row: the second finds it deleted.  *)
SameRow(v, w) ==
    /\ req[v].pc \in {"leave_count", "leave_delete"} /\ req[v].found # "gone"
    /\ req[v].user = req[w].user /\ req[v].group = req[w].group

(* DELETE by primary key and commit.  A row that is already gone is not    *)
(* matched, and one that a rejoin has inserted since has another key.      *)
LeaveDelete(w) ==
    /\ req[w].pc = "leave_delete"
    /\ IF req[w].found = "gone"
       THEN /\ UNCHANGED role
            /\ req' = [req EXCEPT ![w] = Idle]
       ELSE /\ role' = [role EXCEPT ![req[w].group][req[w].user] = "none"]
            /\ req' = [v \in Workers |->
                         IF v = w THEN Idle
                         ELSE IF SameRow(v, w) THEN [req[v] EXCEPT !.found = "gone"]
                         ELSE req[v]]
    /\ UNCHANGED code

-----------------------------------------------------------------------------
(* A database call raises: get_db rolls back.                              *)
RequestError(w) ==
    /\ req[w].pc # "idle"
    /\ req' = [req EXCEPT ![w] = Idle]
    /\ UNCHANGED <<code, role>>

Begin(w) ==
    \E u \in Users :
        \/ \E c \in Codes : BeginCreate(w, u, c)
        \/ \E g \in Groups : BeginJoin(w, u, g) \/ BeginLeave(w, u, g)

Step(w) == \/ CreateFlush(w) \/ CreateCommit(w)
           \/ JoinRead(w) \/ JoinInsert(w)
           \/ LeaveCount(w) \/ LeaveDelete(w)

Next == \E w \in Workers : Begin(w) \/ Step(w) \/ RequestError(w)

Spec == Init /\ [][Next]_vars

-----------------------------------------------------------------------------
(* Properties.                                                             *)

(* A request that leaves has read a row of its user; that row may have     *)
(* gone since, and it never mistakes the absence of a row for one.         *)
TypeOK ==
    /\ code \in [Groups -> Codes \cup {NoCode}]
    /\ role \in [Groups -> [Users -> Role \cup {"none"}]]
    /\ req \in [Workers -> Request]

(* An invite code leads to one group, though its freedom is checked long   *)
(* before the group is inserted.                                           *)
CodesUnique == \A g, h \in Groups : Exists(g) /\ code[g] = code[h] => g = h

(* A group never has two owners: no interleaving of creations, joins and   *)
(* leaves gives the role to a second user.                                 *)
OneOwner == \A g \in Groups : \A u, v \in OwnersOf(g) : u = v

(* Every group keeps the contract of Membership: however the statements of *)
(* overlapping requests interleave, a commit founds the group, lets in one *)
(* user who was not in it, or lets one out, and never touches the role of  *)
(* anybody else or turns an owner into a member.                           *)
Contract(g) == INSTANCE Membership WITH founded <- Exists(g), role <- role[g]

MembershipKept ==
    /\ \A g \in Groups : Contract(g)!Init
    /\ [][\A g \in Groups : [Contract(g)!Next]_(Contract(g)!vars)]_vars

(* Expected, and not so: an owner does not leave while other members       *)
(* remain.  One may join between the count and the commit.                 *)
OwnerLeavesLast ==
    [][\A g \in Groups : OwnersOf(g) # {} /\ OwnersOf(g)' = {} => MembersOf(g)' = {}]_vars

=============================================================================
