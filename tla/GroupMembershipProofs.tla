----------------------- MODULE GroupMembershipProofs -----------------------
(* Theorems of GroupMembership for every set of users, groups, invite      *)
(* codes and requests.                                                     *)
EXTENDS GroupMembership, TLAPS

InGroup == {"join_read", "join_insert", "leave_count", "leave_delete"}

(* A group that is flushed has a number and a code nobody else has: the    *)
(* unique index knows it before the commit shows it.                       *)
CodeInv ==
    /\ \A w \in Workers : req[w].pc = "create_commit" =>
        /\ ~Exists(req[w].group)
        /\ \A g \in Groups : code[g] # req[w].code
    /\ \A v, w \in Workers :
        v # w /\ req[v].pc = "create_commit" /\ req[w].pc = "create_commit" =>
            req[v].group # req[w].group /\ req[v].code # req[w].code
    /\ CodesUnique

(* A group gets its owner before anyone can join it.                       *)
RoleInv ==
    /\ \A g \in Groups : ~Exists(g) => MembersOf(g) = {}
    /\ \A w \in Workers : req[w].pc \in InGroup => Exists(req[w].group)
    /\ OneOwner

IInv == TypeOK /\ CodeInv /\ RoleInv

-----------------------------------------------------------------------------
LEMMA IdleType == Idle \in Request /\ Idle.pc = "idle"
BY DEF Idle, Request

LEMMA InitInv == Init => IInv
<1> SUFFICES ASSUME Init PROVE IInv
  OBVIOUS
<1>1. TypeOK
  BY IdleType DEF Init, TypeOK
<1>2. CodeInv
  BY IdleType DEF Init, CodeInv, CodesUnique, Exists
<1>3. RoleInv
  BY IdleType DEF Init, RoleInv, OneOwner, OwnersOf, MembersOf, InGroup
<1> QED BY <1>1, <1>2, <1>3 DEF IInv

(* Every request stays within its types.                                   *)
LEMMA TypeNext == ASSUME TypeOK, [Next]_vars PROVE TypeOK'
<1> USE DEF TypeOK
<1>1. ASSUME NEW w \in Workers, Begin(w) PROVE TypeOK'
  <2>1. ASSUME NEW u \in Users, NEW c \in Codes, BeginCreate(w, u, c) PROVE TypeOK'
    <3>1. [Idle EXCEPT !.pc = "create_flush", !.user = u, !.code = c] \in Request
      BY DEF Idle, Request
    <3> QED BY <2>1, <3>1 DEF BeginCreate
  <2>2. ASSUME NEW u \in Users, NEW g \in Groups, BeginJoin(w, u, g) PROVE TypeOK'
    <3>1. [Idle EXCEPT !.pc = "join_read", !.user = u, !.group = g] \in Request
      BY DEF Idle, Request
    <3> QED BY <2>2, <3>1 DEF BeginJoin
  <2>3. ASSUME NEW u \in Users, NEW g \in Groups, BeginLeave(w, u, g) PROVE TypeOK'
    <3>1. role[g][u] \in Role
      BY <2>3 DEF BeginLeave, MembersOf
    <3>2. [Idle EXCEPT !.pc = "leave_count", !.user = u, !.group = g, !.found = role[g][u]]
            \in Request
      BY <3>1 DEF Idle, Request, Role
    <3> QED BY <2>3, <3>2 DEF BeginLeave
  <2> QED BY <1>1, <2>1, <2>2, <2>3 DEF Begin
<1>2. ASSUME NEW w \in Workers, Step(w) PROVE TypeOK'
  <2>1. CASE CreateFlush(w)
    <3>1. CASE req' = [req EXCEPT ![w] = Idle]
      BY <2>1, <3>1, IdleType DEF CreateFlush
    <3>2. ASSUME NEW g \in Groups,
                 req' = [req EXCEPT ![w].pc = "create_commit", ![w].group = g]
          PROVE  TypeOK'
      <4>1. [req[w] EXCEPT !.pc = "create_commit", !.group = g] \in Request
        BY <2>1 DEF CreateFlush, Request
      <4>2. req' = [req EXCEPT ![w] = [req[w] EXCEPT !.pc = "create_commit", !.group = g]]
        BY <3>2
      <4> QED BY <2>1, <4>1, <4>2 DEF CreateFlush
    <3> QED BY <2>1, <3>1, <3>2 DEF CreateFlush
  <2>2. CASE CreateCommit(w)
    BY <2>2, IdleType DEF CreateCommit, Request, Role
  <2>3. CASE JoinRead(w)
    <3>1. [req[w] EXCEPT !.pc = "join_insert"] \in Request
      BY <2>3 DEF JoinRead, Request
    <3> QED BY <2>3, <3>1, IdleType DEF JoinRead
  <2>4. CASE JoinInsert(w)
    BY <2>4, IdleType DEF JoinInsert, Role
  <2>5. CASE LeaveCount(w)
    <3>1. [req[w] EXCEPT !.pc = "leave_delete"] \in Request
      BY <2>5 DEF LeaveCount, Request
    <3> QED BY <2>5, <3>1, IdleType DEF LeaveCount
  <2>6. CASE LeaveDelete(w)
    <3>1. CASE req[w].found = "gone"
      BY <2>6, <3>1, IdleType DEF LeaveDelete
    <3>2. CASE req[w].found # "gone"
      <4>1. \A v \in Workers : SameRow(v, w) => [req[v] EXCEPT !.found = "gone"] \in Request
        BY DEF SameRow, Request
      <4>2. req' \in [Workers -> Request]
        BY <2>6, <3>2, <4>1, IdleType DEF LeaveDelete
      <4> QED BY <2>6, <3>2, <4>2 DEF LeaveDelete
    <3> QED BY <3>1, <3>2
  <2> QED BY <1>2, <2>1, <2>2, <2>3, <2>4, <2>5, <2>6 DEF Step
<1>3. ASSUME NEW w \in Workers, RequestError(w) PROVE TypeOK'
  BY <1>3, IdleType DEF RequestError
<1>4. CASE UNCHANGED vars
  BY <1>4 DEF vars
<1> QED BY <1>1, <1>2, <1>3, <1>4 DEF Next

(* What a request carries at each of its steps.                            *)
LEMMA RequestType ==
    ASSUME TypeOK, NEW w \in Workers
    PROVE  /\ req[w].pc # "idle" => req[w].user \in Users
           /\ req[w].pc \in {"create_flush", "create_commit"} => req[w].code \in Codes
           /\ req[w].pc \notin {"idle", "create_flush"} => req[w].group \in Groups
BY DEF TypeOK, Request

(* What the other requests see of a step: nothing, or that a row is gone.  *)
LEMMA OtherRequests ==
    ASSUME TypeOK, NEW w \in Workers, Begin(w) \/ Step(w) \/ RequestError(w),
           NEW v \in Workers, v # w
    PROVE  /\ req'[v].pc = req[v].pc
           /\ req'[v].group = req[v].group /\ req'[v].code = req[v].code
<1>1. CASE LeaveDelete(w)
  <2>1. CASE req[w].found = "gone"
    BY <1>1, <2>1 DEF LeaveDelete, TypeOK
  <2>2. CASE req[w].found # "gone"
    <3>1. req'[v] = req[v] \/ req'[v] = [req[v] EXCEPT !.found = "gone"]
      BY <1>1, <2>2 DEF LeaveDelete
    <3> QED BY <3>1 DEF TypeOK, Request
  <2> QED BY <2>1, <2>2
<1>2. CASE CreateFlush(w)
  BY <1>2 DEF CreateFlush, TypeOK
<1>3. CASE Begin(w)
  BY <1>3 DEF Begin, BeginCreate, BeginJoin, BeginLeave, TypeOK
<1>4. CASE CreateCommit(w) \/ JoinRead(w) \/ JoinInsert(w) \/ LeaveCount(w) \/ RequestError(w)
  BY <1>4 DEF CreateCommit, JoinRead, JoinInsert, LeaveCount, RequestError, TypeOK
<1> QED BY <1>1, <1>2, <1>3, <1>4 DEF Step

(* The step itself ends at another point of the request, in the same group *)
(* unless it has just begun.                                               *)
LEMMA OwnRequest ==
    ASSUME TypeOK, NEW w \in Workers
    PROVE  /\ Begin(w) => req'[w].pc \notin {"create_commit"}
           /\ CreateCommit(w) \/ JoinInsert(w) \/ LeaveDelete(w) \/ RequestError(w) =>
                req'[w].pc = "idle"
           /\ JoinRead(w) \/ LeaveCount(w) =>
                /\ req[w].pc \in InGroup
                /\ req'[w].pc \in {"idle", "join_insert", "leave_delete"}
                /\ req'[w].pc # "idle" => req'[w].group = req[w].group
<1>1. ASSUME NEW u \in Users, NEW c \in Codes, BeginCreate(w, u, c)
      PROVE  req'[w].pc = "create_flush"
  BY <1>1 DEF BeginCreate, TypeOK, Idle
<1>2. ASSUME NEW u \in Users, NEW g \in Groups, BeginJoin(w, u, g)
      PROVE  req'[w].pc = "join_read"
  BY <1>2 DEF BeginJoin, TypeOK, Idle
<1>3. ASSUME NEW u \in Users, NEW g \in Groups, BeginLeave(w, u, g)
      PROVE  req'[w].pc = "leave_count"
  BY <1>3 DEF BeginLeave, TypeOK, Idle
<1>4. Begin(w) => req'[w].pc \notin {"create_commit"}
  BY <1>1, <1>2, <1>3 DEF Begin
<1>5. CreateCommit(w) \/ JoinInsert(w) \/ LeaveDelete(w) \/ RequestError(w) =>
        req'[w].pc = "idle"
  BY IdleType DEF CreateCommit, JoinInsert, LeaveDelete, RequestError, TypeOK
<1>6. req[w] \in Request
  BY DEF TypeOK
<1>7. JoinRead(w) =>
        /\ req[w].pc \in InGroup
        /\ req'[w].pc \in {"idle", "join_insert"}
        /\ req'[w].pc # "idle" => req'[w].group = req[w].group
  BY <1>6, IdleType DEF JoinRead, TypeOK, Request, InGroup
<1>8. LeaveCount(w) =>
        /\ req[w].pc \in InGroup
        /\ req'[w].pc \in {"idle", "leave_delete"}
        /\ req'[w].pc # "idle" => req'[w].group = req[w].group
  BY <1>6, IdleType DEF LeaveCount, TypeOK, Request, InGroup
<1> QED BY <1>4, <1>5, <1>7, <1>8

-----------------------------------------------------------------------------
(* Codes: only the flush puts a group under a code, after it has looked at *)
(* the committed and at the flushed ones.                                  *)
LEMMA CodeNext == ASSUME TypeOK, CodeInv, [Next]_vars PROVE CodeInv'
<1>1. ASSUME NEW w \in Workers, CreateFlush(w) PROVE CodeInv'
  <2>1. code' = code
    BY <1>1 DEF CreateFlush
  <2>2. \A v \in Workers : v # w => req'[v].pc = req[v].pc /\ req'[v].group = req[v].group
                                      /\ req'[v].code = req[v].code
    BY <1>1, OtherRequests DEF Step
  <2>3. CASE req[w].code \in Taken
    <3>1. req'[w].pc = "idle"
      BY <1>1, <2>3, IdleType DEF CreateFlush, TypeOK
    <3> QED BY <2>1, <2>2, <3>1 DEF CodeInv, CodesUnique, Exists
  <2>4. CASE req[w].code \notin Taken
    <3>1. PICK g \in Groups : /\ ~Exists(g) /\ g \notin Reserved
                              /\ req' = [req EXCEPT ![w].pc = "create_commit", ![w].group = g]
      BY <1>1, <2>4 DEF CreateFlush
    <3>2. req[w].code \in Codes
      BY <1>1, RequestType DEF CreateFlush
    <3>3. req'[w].group = g /\ req'[w].code = req[w].code
      BY <3>1 DEF TypeOK, Request
    <3>4. \A h \in Groups : code[h] # req[w].code
      BY <2>4, <3>2, GroupsAssumption DEF Taken
    <3>5. \A v \in Workers : req[v].pc = "create_commit" =>
            req[v].group # g /\ req[v].code # req[w].code
      BY <1>1, <3>1 DEF CreateFlush, Reserved, ReservedBy, CodeLocked
    <3>6. \A v \in Workers : req'[v].pc = "create_commit" =>
            /\ code'[req'[v].group] = NoCode
            /\ \A h \in Groups : code'[h] # req'[v].code
      <4>1. code[g] = NoCode
        BY <3>1 DEF Exists
      <4>2. \A v \in Workers : v # w /\ req'[v].pc = "create_commit" =>
              /\ code'[req'[v].group] = NoCode
              /\ \A h \in Groups : code'[h] # req'[v].code
        BY <2>1, <2>2 DEF CodeInv, Exists
      <4>3. code'[req'[w].group] = NoCode /\ \A h \in Groups : code'[h] # req'[w].code
        BY <2>1, <3>3, <3>4, <4>1
      <4> QED BY <4>2, <4>3
    <3>7. \A u, v \in Workers :
            u # v /\ req'[u].pc = "create_commit" /\ req'[v].pc = "create_commit" =>
                req'[u].group # req'[v].group /\ req'[u].code # req'[v].code
      BY <2>2, <3>3, <3>5 DEF CodeInv
    <3> QED BY <2>1, <3>6, <3>7 DEF CodeInv, CodesUnique, Exists
  <2> QED BY <2>3, <2>4
<1>2. ASSUME NEW w \in Workers, CreateCommit(w) PROVE CodeInv'
  <2>1. req[w].pc = "create_commit" /\ req[w].group \in Groups /\ req[w].code \in Codes
    BY <1>2, RequestType DEF CreateCommit
  <2>2. \A v \in Workers : req'[v].pc = "create_commit" => v # w /\ req'[v] = req[v]
    BY <1>2, IdleType DEF CreateCommit, TypeOK
  <2>3. \A g \in Groups : code'[g] = IF g = req[w].group THEN req[w].code ELSE code[g]
    BY <1>2, <2>1 DEF CreateCommit, TypeOK
  <2>4. ASSUME NEW v \in Workers, req'[v].pc = "create_commit"
        PROVE  /\ code'[req'[v].group] = NoCode
               /\ \A g \in Groups : code'[g] # req'[v].code
    <3>1. v # w /\ req'[v] = req[v] /\ req[v].pc = "create_commit"
      BY <2>2, <2>4
    <3>2. req[v].group # req[w].group /\ req[v].code # req[w].code
      BY <2>1, <3>1 DEF CodeInv
    <3>3. req[v].group \in Groups
      BY <3>1, RequestType
    <3>4. code[req[v].group] = NoCode /\ \A g \in Groups : code[g] # req[v].code
      BY <3>1 DEF CodeInv, Exists
    <3> QED BY <2>3, <3>1, <3>2, <3>3, <3>4 DEF Exists
  <2>5. \A u, v \in Workers :
          u # v /\ req'[u].pc = "create_commit" /\ req'[v].pc = "create_commit" =>
              req'[u].group # req'[v].group /\ req'[u].code # req'[v].code
    BY <2>2 DEF CodeInv
  <2>6. \A g \in Groups : code[g] # req[w].code
    BY <2>1 DEF CodeInv
  <2>7. CodesUnique'
    BY <2>3, <2>6 DEF CodeInv, CodesUnique, Exists
  <2> QED BY <2>4, <2>5, <2>7 DEF CodeInv, Exists
<1>3. ASSUME NEW w \in Workers,
             Begin(w) \/ JoinRead(w) \/ JoinInsert(w) \/ LeaveCount(w) \/ LeaveDelete(w)
                 \/ RequestError(w)
      PROVE  CodeInv'
  <2>1. code' = code
    BY <1>3 DEF Begin, BeginCreate, BeginJoin, BeginLeave, JoinRead, JoinInsert, LeaveCount,
                LeaveDelete, RequestError
  <2>2. \A v \in Workers : v # w => req'[v].pc = req[v].pc /\ req'[v].group = req[v].group
                                      /\ req'[v].code = req[v].code
    BY <1>3, OtherRequests DEF Step
  <2>3. req'[w].pc # "create_commit"
    BY <1>3, OwnRequest
  <2> QED BY <2>1, <2>2, <2>3 DEF CodeInv, CodesUnique, Exists
<1>4. CASE UNCHANGED vars
  BY <1>4 DEF vars, CodeInv, CodesUnique, Exists
<1> QED BY <1>1, <1>2, <1>3, <1>4 DEF Next, Step

-----------------------------------------------------------------------------
(* Roles: the only owner's row is inserted with the group.                 *)
LEMMA RoleNext == ASSUME TypeOK, CodeInv, RoleInv, [Next]_vars PROVE RoleInv'
<1>1. ASSUME NEW w \in Workers, CreateCommit(w) PROVE RoleInv'
  <2>1. req[w].pc = "create_commit" /\ req[w].group \in Groups
        /\ req[w].user \in Users /\ req[w].code \in Codes
    BY <1>1, RequestType DEF CreateCommit
  <2>2. \A g \in Groups : code'[g] = IF g = req[w].group THEN req[w].code ELSE code[g]
    BY <1>1, <2>1 DEF CreateCommit, TypeOK
  <2>3. \A g \in Groups : \A u \in Users :
          role'[g][u] = IF g = req[w].group /\ u = req[w].user THEN "owner" ELSE role[g][u]
    BY <1>1, <2>1 DEF CreateCommit, TypeOK
  <2>4. \A u \in Users : role[req[w].group][u] = "none"
    BY <2>1 DEF CodeInv, RoleInv, MembersOf, Exists
  <2>5. \A v \in Workers : req'[v].pc \in InGroup => code'[req'[v].group] # NoCode
    <3>1. req'[w].pc \notin InGroup
      BY <1>1, OwnRequest DEF InGroup
    <3>2. ASSUME NEW v \in Workers, req'[v].pc \in InGroup PROVE code'[req'[v].group] # NoCode
      <4>1. v # w /\ req'[v].group = req[v].group /\ req[v].pc \in InGroup
        BY <1>1, <3>1, <3>2, OtherRequests DEF Step
      <4>2. Exists(req[v].group) /\ req[v].group \in Groups
        BY <4>1, RequestType DEF RoleInv, InGroup
      <4> QED BY <2>1, <2>2, <4>1, <4>2, GroupsAssumption DEF Exists
    <3> QED BY <3>2
  <2>6. \A g \in Groups : ~Exists(g)' => MembersOf(g)' = {}
    BY <2>1, <2>2, <2>3, GroupsAssumption DEF RoleInv, MembersOf, Exists
  <2>7. OneOwner'
    BY <2>3, <2>4 DEF RoleInv, OneOwner, OwnersOf
  <2> QED BY <2>5, <2>6, <2>7 DEF RoleInv, Exists
<1>2. ASSUME NEW w \in Workers,
             Begin(w) \/ CreateFlush(w) \/ JoinRead(w) \/ JoinInsert(w) \/ LeaveCount(w)
                 \/ LeaveDelete(w) \/ RequestError(w)
      PROVE  RoleInv'
  <2>1. code' = code
    BY <1>2 DEF Begin, BeginCreate, BeginJoin, BeginLeave, CreateFlush, JoinRead, JoinInsert,
                LeaveCount, LeaveDelete, RequestError
  <2>2. \A g \in Groups : \A u \in Users :
          role'[g][u] \in {role[g][u], "none"} \/ (role'[g][u] = "member" /\ Exists(g))
    <3>1. CASE JoinInsert(w)
      <4>1. req[w].group \in Groups /\ req[w].user \in Users /\ Exists(req[w].group)
        BY <3>1, RequestType DEF JoinInsert, RoleInv, InGroup
      <4> QED BY <3>1, <4>1 DEF JoinInsert, TypeOK
    <3>2. CASE LeaveDelete(w)
      BY <3>2 DEF LeaveDelete, TypeOK
    <3>3. CASE role' = role
      BY <3>3
    <3> QED BY <1>2, <3>1, <3>2, <3>3 DEF Begin, BeginCreate, BeginJoin, BeginLeave,
                                          CreateFlush, JoinRead, LeaveCount, RequestError
  <2>3. ASSUME NEW v \in Workers, req'[v].pc \in InGroup PROVE Exists(req'[v].group)
    <3>1. CASE v # w
      <4>1. req'[v].pc = req[v].pc /\ req'[v].group = req[v].group
        BY <1>2, <3>1, OtherRequests DEF Step
      <4> QED BY <2>3, <4>1 DEF RoleInv
    <3>2. CASE v = w /\ Begin(w)
      <4>1. ASSUME NEW u \in Users, NEW c \in Codes, BeginCreate(w, u, c)
            PROVE  req'[w].pc \notin InGroup
        BY <4>1 DEF BeginCreate, TypeOK, Idle, InGroup
      <4>2. ASSUME NEW u \in Users, NEW g \in Groups, BeginJoin(w, u, g)
            PROVE  Exists(req'[w].group)
        BY <4>2 DEF BeginJoin, TypeOK, Idle
      <4>3. ASSUME NEW u \in Users, NEW g \in Groups, BeginLeave(w, u, g)
            PROVE  Exists(req'[w].group)
        <5>1. Exists(g)
          BY <4>3 DEF BeginLeave, RoleInv
        <5> QED BY <4>3, <5>1 DEF BeginLeave, TypeOK, Idle
      <4> QED BY <2>3, <3>2, <4>1, <4>2, <4>3 DEF Begin
    <3>3. CASE v = w /\ CreateFlush(w)
      BY <2>3, <3>3, IdleType DEF CreateFlush, TypeOK, Request, InGroup
    <3>4. CASE v = w /\ (JoinRead(w) \/ LeaveCount(w))
      BY <2>3, <3>4, OwnRequest DEF RoleInv, InGroup
    <3>5. CASE v = w /\ (JoinInsert(w) \/ LeaveDelete(w) \/ RequestError(w))
      BY <2>3, <3>5, OwnRequest DEF InGroup
    <3> QED BY <1>2, <3>1, <3>2, <3>3, <3>4, <3>5
  <2>4. \A g \in Groups : ~Exists(g)' => MembersOf(g)' = {}
    BY <2>1, <2>2 DEF RoleInv, MembersOf, Exists
  <2>5. \A v \in Workers : req'[v].pc \in InGroup => code'[req'[v].group] # NoCode
    BY <2>1, <2>3 DEF Exists
  <2>6. OneOwner'
    BY <2>2 DEF RoleInv, OneOwner, OwnersOf
  <2> QED BY <2>4, <2>5, <2>6 DEF RoleInv, Exists
<1>3. CASE UNCHANGED vars
  BY <1>3 DEF vars, RoleInv, OneOwner, OwnersOf, MembersOf, Exists
<1> QED BY <1>1, <1>2, <1>3 DEF Next, Step

-----------------------------------------------------------------------------
(* The inductive invariant holds in every reachable state.                 *)
THEOREM Invariant == Spec => []IInv
<1>1. Init => IInv
  BY InitInv
<1>2. IInv /\ [Next]_vars => IInv'
  BY TypeNext, CodeNext, RoleNext DEF IInv
<1> QED BY <1>1, <1>2, PTL DEF Spec

(* Type correctness of groups and requests.                                *)
THEOREM TypeCorrect == Spec => []TypeOK
<1>1. IInv => TypeOK
  BY DEF IInv
<1> QED BY Invariant, <1>1, PTL

(* An invite code leads to one group, whatever creations overlap           *)
(* (create_group's check-then-insert over the unique index).               *)
THEOREM CodesAreUnique == Spec => []CodesUnique
<1>1. IInv => CodesUnique
  BY DEF IInv, CodeInv
<1> QED BY Invariant, <1>1, PTL

(* A group has at most one owner, whatever joins and leaves overlap.       *)
THEOREM AtMostOneOwner == Spec => []OneOwner
<1>1. IInv => OneOwner
  BY DEF IInv, RoleInv
<1> QED BY Invariant, <1>1, PTL

-----------------------------------------------------------------------------
(* Every group implements Membership: only three statements change rows of *)
(* group_members, and each of them in one group.                           *)
LEMMA StepKeepsContract ==
    ASSUME IInv, [Next]_vars, NEW g \in Groups
    PROVE  [Contract(g)!Next]_(Contract(g)!vars)
<1> USE DEF IInv
<1> DEFINE Same == UNCHANGED <<code, role>>
           Goal == [Contract(g)!Next]_(Contract(g)!vars)
<1>0. Same => Goal
  BY DEF Contract!vars, Exists
<1>1. ASSUME NEW w \in Workers, CreateCommit(w) PROVE Goal
  <2>1. CASE req[w].group = g
    <3>1. req[w].user \in Users /\ req[w].code \in Codes
      BY <1>1 DEF CreateCommit, TypeOK, Request
    <3>2. ~Exists(g) /\ Exists(g)'
      BY <1>1, <2>1, <3>1, GroupsAssumption DEF CreateCommit, CodeInv, Exists, TypeOK
    <3>3. role'[g] = [role[g] EXCEPT ![req[w].user] = "owner"]
      BY <1>1, <2>1 DEF CreateCommit, TypeOK
    <3> QED BY <3>1, <3>2, <3>3 DEF Contract!Next, Contract!Found
  <2>2. CASE req[w].group # g
    BY <1>1, <2>2 DEF CreateCommit, TypeOK, Exists, Contract!vars
  <2> QED BY <2>1, <2>2
<1>2. ASSUME NEW w \in Workers, JoinInsert(w) PROVE Goal
  <2>1. UNCHANGED code /\ Exists(req[w].group)
    BY <1>2 DEF JoinInsert, RoleInv, InGroup
  <2>2. req[w].group \in Groups /\ req[w].user \in Users
    BY <1>2 DEF JoinInsert, TypeOK, Request
  <2>3. CASE role[req[w].group][req[w].user] # "none" \/ req[w].group # g
    BY <1>2, <2>1, <2>2, <2>3 DEF JoinInsert, TypeOK, Exists, Contract!vars
  <2>4. CASE role[req[w].group][req[w].user] = "none" /\ req[w].group = g
    <3>1. role'[g] = [role[g] EXCEPT ![req[w].user] = "member"]
      BY <1>2, <2>2, <2>4 DEF JoinInsert, TypeOK
    <3> QED BY <2>1, <2>2, <2>4, <3>1 DEF Contract!Next, Contract!Join, Exists
  <2> QED BY <2>3, <2>4
<1>3. ASSUME NEW w \in Workers, LeaveDelete(w) PROVE Goal
  <2>1. UNCHANGED code /\ Exists(req[w].group)
    BY <1>3 DEF LeaveDelete, RoleInv, InGroup
  <2>2. req[w].group \in Groups /\ req[w].user \in Users
    BY <1>3 DEF LeaveDelete, TypeOK, Request
  <2>3. CASE req[w].found = "gone" \/ req[w].group # g
    BY <1>3, <2>1, <2>2, <2>3 DEF LeaveDelete, TypeOK, Exists, Contract!vars
  <2>4. CASE req[w].found # "gone" /\ req[w].group = g
    <3>1. role'[g] = [role[g] EXCEPT ![req[w].user] = "none"]
      BY <1>3, <2>2, <2>4 DEF LeaveDelete, TypeOK
    <3>2. CASE role[g][req[w].user] # "none"
      BY <2>1, <2>2, <2>4, <3>1, <3>2 DEF Contract!Next, Contract!Leave, Exists
    <3>3. CASE role[g][req[w].user] = "none"
      <4>1. role'[g] = role[g]
        BY <3>1, <3>3 DEF TypeOK
      <4> QED BY <2>1, <4>1 DEF Exists, Contract!vars
    <3> QED BY <3>2, <3>3
  <2> QED BY <2>3, <2>4
<1>4. ASSUME NEW w \in Workers,
             Begin(w) \/ CreateFlush(w) \/ JoinRead(w) \/ LeaveCount(w) \/ RequestError(w)
      PROVE  Same
  BY <1>4 DEF Begin, BeginCreate, BeginJoin, BeginLeave, CreateFlush, JoinRead, LeaveCount,
              RequestError
<1>5. UNCHANGED vars => Same
  BY DEF vars
<1> QED BY <1>0, <1>1, <1>2, <1>3, <1>4, <1>5 DEF Next, Step

(* The role of a user in a group changes by founding, joining and leaving  *)
(* only, for every number of groups, users and overlapping requests: what  *)
(* GroupSession takes for granted of the group whose session it runs.      *)
THEOREM GroupsKeepContract == Spec => MembershipKept
<1>1. Init => \A g \in Groups : Contract(g)!Init
  BY DEF Init, Contract!Init, Exists
<1>2. IInv /\ [Next]_vars => [\A g \in Groups : [Contract(g)!Next]_(Contract(g)!vars)]_vars
  BY StepKeepsContract
<1> QED BY Invariant, <1>1, <1>2, PTL DEF Spec, MembershipKept

=============================================================================
