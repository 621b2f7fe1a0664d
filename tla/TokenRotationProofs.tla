------------------------- MODULE TokenRotationProofs -------------------------
(* Theorems of TokenRotation for every number of tabs, requests, tokens,   *)
(* failures and logouts.                                                   *)
EXTENDS TokenRotation, TLAPS

Holding == {"rotate", "commit", "revoke", "update"}

(* What a request carries: the cookie it was sent was issued, the token    *)
(* its transaction has inserted is not, the one it answers with is.        *)
Carries(q) ==
    /\ q.raw \in Issued \cup {NoToken}
    /\ q.pc \in Holding => q.raw \in Issued
    /\ q.pc = "commit" => q.new \in Tokens \ Issued
    /\ q.pc # "commit" => q.new \in Issued \cup {NoToken}
    /\ q.rows \subseteq Issued

(* Two transactions never insert one token.                                *)
NewInv ==
    \A r, q \in Requests :
        r # q /\ req[r].pc = "commit" /\ req[q].pc = "commit" => req[r].new # req[q].new

IInv == TypeOK /\ NewInv /\ \A r \in Requests : Carries(req[r])

-----------------------------------------------------------------------------
LEMMA IdleType == Idle \in Request /\ Idle.pc = "idle" /\ Idle.raw = NoToken /\ Idle.new = NoToken
                  /\ Idle.rows = {}
BY DEF Idle, Request

LEMMA InitInv == Init => IInv
<1> SUFFICES ASSUME Init PROVE IInv
  OBVIOUS
<1> USE TokensAssumption
<1>1. TypeOK
  <2>1. Issued = {}
    BY DEF Init, Issued
  <2>2. req \in [Requests -> Request]
    BY IdleType DEF Init
  <2>3. faults \in 0 .. MaxFaults /\ logouts \in 0 .. MaxLogouts
    BY DEF Init
  <2>4. cut \in BOOLEAN
    BY DEF Init
  <2> QED BY <2>1, <2>2, <2>3, <2>4 DEF Init, TypeOK
<1>2. \A r \in Requests : Carries(req[r])
  BY IdleType DEF Init, Carries, Holding
<1>3. NewInv
  BY IdleType DEF Init, NewInv
<1> QED BY <1>1, <1>2, <1>3 DEF IInv

(* One request becomes q, and the rows stay.                               *)
LEMMA OneRequest ==
    ASSUME IInv, NEW r \in Requests, NEW q \in Request, Carries(q),
           q.pc = "commit" => \A s \in Requests \ {r} : req[s].pc = "commit" => req[s].new # q.new,
           req' = [req EXCEPT ![r] = q], UNCHANGED rows, cookie' \in Issued \cup {NoToken},
           faults' \in 0 .. MaxFaults, logouts' \in 0 .. MaxLogouts, cut' \in BOOLEAN
    PROVE  IInv'
<1>0. Issued' = Issued /\ \A s \in Requests : req'[s] = IF s = r THEN q ELSE req[s]
  BY DEF IInv, TypeOK, Issued, rows
<1>1. TypeOK'
  BY <1>0 DEF IInv, TypeOK, rows
<1>2. \A s \in Requests : Carries(req[s])'
  BY <1>0 DEF IInv, Carries
<1>3. NewInv'
  BY <1>0 DEF IInv, NewInv
<1> QED BY <1>1, <1>2, <1>3 DEF IInv

(* What a changed request is, field by field.                              *)
LEMMA FieldTypes ==
    ASSUME NEW q \in Request
    PROVE  /\ \A pc \in {"rotate", "revoke", "commit", "update", "answer"} :
                [q EXCEPT !.pc = pc] \in Request
           /\ \A t \in Tokens \cup {NoToken} : [q EXCEPT !.new = t] \in Request
           /\ \A s \in SUBSET Tokens : [q EXCEPT !.rows = s] \in Request
BY DEF Request

LEMMA PcOf ==
    \A q \in Request : \A pc :
        /\ [q EXCEPT !.pc = pc].pc = pc /\ [q EXCEPT !.pc = pc].raw = q.raw
        /\ [q EXCEPT !.pc = pc].new = q.new /\ [q EXCEPT !.pc = pc].rows = q.rows
        /\ [q EXCEPT !.pc = pc].kind = q.kind /\ [q EXCEPT !.pc = pc].tab = q.tab
BY DEF Request

LEMMA NewOf ==
    \A q \in Request : \A pc, t :
        /\ [q EXCEPT !.pc = pc, !.new = t].pc = pc /\ [q EXCEPT !.pc = pc, !.new = t].raw = q.raw
        /\ [q EXCEPT !.pc = pc, !.new = t].new = t /\ [q EXCEPT !.pc = pc, !.new = t].rows = q.rows
        /\ [q EXCEPT !.pc = pc, !.new = t].kind = q.kind /\ [q EXCEPT !.pc = pc, !.new = t].tab = q.tab
BY DEF Request

LEMMA RowsOf ==
    \A q \in Request : \A pc, s :
        /\ [q EXCEPT !.pc = pc, !.rows = s].pc = pc /\ [q EXCEPT !.pc = pc, !.rows = s].raw = q.raw
        /\ [q EXCEPT !.pc = pc, !.rows = s].new = q.new /\ [q EXCEPT !.pc = pc, !.rows = s].rows = s
        /\ [q EXCEPT !.pc = pc, !.rows = s].kind = q.kind /\ [q EXCEPT !.pc = pc, !.rows = s].tab = q.tab
BY DEF Request

(* The pc of r becomes pc.                                                 *)
LEMMA GoesOn ==
    ASSUME IInv, NEW r \in Requests,
           NEW pc \in {"rotate", "revoke", "answer"},
           req' = [req EXCEPT ![r].pc = pc], UNCHANGED <<rows, cookie, bounds>>,
           req[r].pc # "commit", pc \in Holding => req[r].raw \in Issued
    PROVE  IInv'
<1> DEFINE n == [req[r] EXCEPT !.pc = pc]
<1>1. req[r] \in Request /\ Carries(req[r]) /\ req' = [req EXCEPT ![r] = n]
  BY DEF IInv, TypeOK
<1>2. n \in Request
  BY <1>1, FieldTypes
<1>3. n.pc = pc /\ n.raw = req[r].raw /\ n.new = req[r].new /\ n.rows = req[r].rows
  BY <1>1, PcOf
<1> HIDE DEF n
<1>4. Carries(n) /\ n.pc # "commit"
  BY <1>1, <1>3 DEF Carries
<1>5. cookie' \in Issued \cup {NoToken} /\ faults' \in 0 .. MaxFaults
        /\ logouts' \in 0 .. MaxLogouts /\ cut' \in BOOLEAN /\ UNCHANGED rows
  BY DEF IInv, TypeOK, bounds
<1> QED BY <1>1, <1>2, <1>4, <1>5, OneRequest

(* A request is sent with the cookie of this moment.                       *)
LEMMA SendNext ==
    ASSUME IInv, NEW r \in Requests, NEW tab \in Tabs,
           NEW kind \in {"login", "refresh", "logout"}, Send(r, tab, kind),
           UNCHANGED <<rows, cookie, faults, cut>>, logouts' \in 0 .. MaxLogouts
    PROVE  IInv'
<1> DEFINE n == [Idle EXCEPT !.kind = kind, !.pc = "sent", !.tab = tab, !.raw = cookie]
<1>1. cookie \in Tokens \cup {NoToken} /\ req' = [req EXCEPT ![r] = n]
  BY DEF IInv, TypeOK, Issued, Send
<1>2. n \in Request
  BY <1>1 DEF Idle, Request
<1>3. n.pc = "sent" /\ n.raw = cookie /\ n.new = NoToken /\ n.rows = {}
  BY DEF Idle
<1> HIDE DEF n
<1>4. Carries(n)
  BY <1>3 DEF IInv, TypeOK, Carries, Holding
<1>5. cookie' \in Issued \cup {NoToken} /\ faults' \in 0 .. MaxFaults /\ cut' \in BOOLEAN
  BY DEF IInv, TypeOK
<1> QED BY <1>1, <1>2, <1>3, <1>4, <1>5, OneRequest

(* The request is over.                                                    *)
LEMMA OverNext ==
    ASSUME IInv, NEW r \in Requests, req' = [req EXCEPT ![r] = Idle],
           UNCHANGED <<rows, logouts, cut>>,
           cookie' \in Issued \cup {NoToken}, faults' \in 0 .. MaxFaults
    PROVE  IInv'
<1>1. Carries(Idle)
  BY IdleType DEF Carries, Holding
<1>2. logouts' \in 0 .. MaxLogouts /\ cut' \in BOOLEAN
  BY DEF IInv, TypeOK
<1> QED BY <1>1, <1>2, IdleType, OneRequest

(* More tokens are issued, and what the requests carry stays carried.      *)
LEMMA MoreIssued ==
    ASSUME IInv, NEW r \in Requests, NEW q \in Request, req' = [req EXCEPT ![r] = q],
           Issued \subseteq Issued', Carries(q)', q.pc # "commit",
           \A s \in Requests \ {r} : req[s].pc = "commit" => req[s].new \notin Issued'
    PROVE  (\A s \in Requests : Carries(req[s])') /\ NewInv' /\ req' \in [Requests -> Request]
<1>1. \A s \in Requests : req'[s] = IF s = r THEN q ELSE req[s]
  BY DEF IInv, TypeOK
<1>2. ASSUME NEW s \in Requests \ {r} PROVE Carries(req[s])'
  BY <1>1, <1>2 DEF IInv, Carries
<1>3. \A s \in Requests : Carries(req[s])'
  BY <1>1, <1>2 DEF Carries
<1>4. NewInv'
  BY <1>1 DEF IInv, NewInv
<1> QED BY <1>3, <1>4 DEF IInv, TypeOK

LEMMA LoginNext == ASSUME IInv, NEW r \in Requests, LoginCommit(r) PROVE IInv'
<1>1. PICK t \in Tokens \ (Issued \cup Inserted) :
        /\ status' = [status EXCEPT ![t] = "live"]
        /\ family' = [family EXCEPT ![t] = t]
        /\ req' = [req EXCEPT ![r].pc = "answer", ![r].new = t]
  BY DEF LoginCommit
<1> DEFINE m == [req[r] EXCEPT !.pc = "answer"]
<1> DEFINE n == [req[r] EXCEPT !.pc = "answer", !.new = t]
<1>2. req[r] \in Request /\ Carries(req[r]) /\ req' = [req EXCEPT ![r] = n]
  BY <1>1 DEF IInv, TypeOK
<1>3. m \in Request
  BY <1>2, FieldTypes
<1>4. n \in Request
  BY <1>3, FieldTypes
<1>5. n.pc = "answer" /\ n.raw = req[r].raw /\ n.new = t /\ n.rows = req[r].rows
  BY <1>2, NewOf
<1> HIDE DEF m, n
<1>6. Issued' = Issued \cup {t} /\ family'[t] = t /\ \A s \in Issued : family'[s] = family[s]
  BY <1>1 DEF IInv, TypeOK, Issued
<1> PICK q \in Request : q = n
  BY <1>4
<1>7. Carries(q)'
  BY <1>2, <1>5, <1>6 DEF Carries, Holding
<1>8. \A s \in Requests \ {r} : req[s].pc = "commit" => req[s].new \notin Issued'
  BY <1>1, <1>6 DEF IInv, Carries, Inserted, Rotating
<1>9. (\A s \in Requests : Carries(req[s])') /\ NewInv' /\ req' \in [Requests -> Request]
  <2>1. q.pc # "commit" /\ Issued \subseteq Issued'
    BY <1>5, <1>6
  <2> QED BY <1>2, <1>7, <1>8, <2>1, MoreIssued
<1>10. TypeOK'
  BY <1>1, <1>6, <1>9 DEF IInv, TypeOK, LoginCommit, bounds
<1> QED BY <1>9, <1>10 DEF IInv

LEMMA FlushNext == ASSUME IInv, NEW r \in Requests, RefreshFlush(r) PROVE IInv'
<1>1. PICK t \in Tokens \ (Issued \cup Inserted) :
        req' = [req EXCEPT ![r].pc = "commit", ![r].new = t]
  BY DEF RefreshFlush
<1> DEFINE m == [req[r] EXCEPT !.pc = "commit"]
<1> DEFINE n == [req[r] EXCEPT !.pc = "commit", !.new = t]
<1>2. req[r] \in Request /\ Carries(req[r]) /\ req' = [req EXCEPT ![r] = n]
  BY <1>1 DEF IInv, TypeOK
<1>3. m \in Request
  BY <1>2, FieldTypes
<1>4. n \in Request
  BY <1>3, FieldTypes
<1>5. n.pc = "commit" /\ n.raw = req[r].raw /\ n.new = t /\ n.rows = req[r].rows
  BY <1>2, NewOf
<1> HIDE DEF m, n
<1>6. Carries(n)
  BY <1>1, <1>2, <1>5 DEF Carries, Holding, RefreshFlush
<1>7. \A s \in Requests \ {r} : req[s].pc = "commit" => req[s].new # n.new
  BY <1>1, <1>5 DEF Inserted, Rotating
<1>8. cookie' \in Issued \cup {NoToken} /\ faults' \in 0 .. MaxFaults
        /\ logouts' \in 0 .. MaxLogouts /\ cut' \in BOOLEAN /\ UNCHANGED rows
  BY DEF RefreshFlush, IInv, TypeOK, bounds
<1> QED BY <1>2, <1>4, <1>6, <1>7, <1>8, OneRequest

LEMMA RotateNext == ASSUME IInv, NEW r \in Requests, RefreshCommit(r) PROVE IInv'
<1> DEFINE t == req[r].new
<1> DEFINE n == [req[r] EXCEPT !.pc = "answer"]
<1>1. req[r] \in Request /\ Carries(req[r]) /\ req' = [req EXCEPT ![r] = n]
  BY DEF IInv, TypeOK, RefreshCommit
<1>2. n \in Request
  BY <1>1, FieldTypes
<1>3. n.pc = "answer" /\ n.raw = req[r].raw /\ n.new = t /\ n.rows = req[r].rows
  BY <1>1, PcOf
<1>4. t \in Tokens \ Issued /\ req[r].raw \in Issued
  BY <1>1 DEF Carries, Holding, RefreshCommit
<1> HIDE DEF n, t
<1>5. /\ status' = [status EXCEPT ![req[r].raw] = "revoked", ![t] = "live"]
      /\ family' = [family EXCEPT ![t] = family[req[r].raw]]
  BY DEF RefreshCommit, t
<1>6. /\ Issued' = Issued \cup {t} /\ family'[t] = family[req[r].raw]
      /\ \A s \in Issued : family'[s] = family[s]
  BY <1>4, <1>5 DEF IInv, TypeOK, Issued
<1> PICK q \in Request : q = n
  BY <1>2
<1>7. Carries(q)'
  BY <1>1, <1>3, <1>4, <1>6 DEF Carries, Holding
<1>8. \A s \in Requests \ {r} : req[s].pc = "commit" => req[s].new \notin Issued'
  BY <1>6 DEF IInv, Carries, NewInv, RefreshCommit, t
<1>9. (\A s \in Requests : Carries(req[s])') /\ NewInv' /\ req' \in [Requests -> Request]
  <2>1. q.pc # "commit" /\ Issued \subseteq Issued'
    BY <1>3, <1>6
  <2> QED BY <1>1, <1>7, <1>8, <2>1, MoreIssued
<1>10. TypeOK'
  <2>1. \A s \in Issued' : family'[s] \in Issued' /\ family'[family'[s]] = family'[s]
    BY <1>4, <1>6 DEF IInv, TypeOK
  <2>2. status' \in [Tokens -> {"unused", "live", "revoked", "expired"}]
          /\ family' \in [Tokens -> Tokens \cup {NoToken}]
    BY <1>4, <1>5 DEF IInv, TypeOK, Issued
  <2> QED BY <1>6, <1>9, <2>1, <2>2 DEF IInv, TypeOK, RefreshCommit, bounds
<1> QED BY <1>9, <1>10 DEF IInv

LEMMA RevokeNext == ASSUME IInv, NEW r \in Requests, Revoke(r) PROVE IInv'
<1>1. CASE RevokeStarts(r)
  <2> DEFINE s == {t \in FamilyOf(req[r].raw) : status[t] # "revoked"}
  <2> DEFINE m == [req[r] EXCEPT !.pc = "update"]
  <2> DEFINE n == [req[r] EXCEPT !.pc = "update", !.rows = s]
  <2>1. s \in SUBSET Tokens /\ s \subseteq Issued
    BY DEF FamilyOf, Issued
  <2>2. req[r] \in Request /\ Carries(req[r]) /\ req' = [req EXCEPT ![r] = n]
    BY <1>1 DEF IInv, TypeOK, RevokeStarts
  <2> HIDE DEF s
  <2>3. m \in Request
    BY <2>2, FieldTypes
  <2>4. n \in Request
    BY <2>1, <2>3, FieldTypes
  <2>5. n.pc = "update" /\ n.raw = req[r].raw /\ n.new = req[r].new /\ n.rows = s
    BY <2>2, RowsOf
  <2> HIDE DEF m, n
  <2>6. Carries(n) /\ n.pc # "commit"
    BY <1>1, <2>1, <2>2, <2>5 DEF Carries, Holding, RevokeStarts
  <2>7. cookie' \in Issued \cup {NoToken} /\ faults' \in 0 .. MaxFaults
          /\ logouts' \in 0 .. MaxLogouts /\ cut' \in BOOLEAN /\ UNCHANGED rows
    BY <1>1 DEF RevokeStarts, IInv, TypeOK, bounds
  <2> QED BY <2>2, <2>4, <2>6, <2>7, OneRequest
<1>2. CASE RevokeCommit(r)
  <2> DEFINE m == [req[r] EXCEPT !.pc = "answer"]
  <2> DEFINE n == [req[r] EXCEPT !.pc = "answer", !.rows = {}]
  <2>1. req[r] \in Request /\ Carries(req[r]) /\ req' = [req EXCEPT ![r] = n]
    BY <1>2 DEF IInv, TypeOK, RevokeCommit
  <2>2. m \in Request
    BY <2>1, FieldTypes
  <2>3. n \in Request
    BY <2>2, FieldTypes
  <2>4. n.pc = "answer" /\ n.raw = req[r].raw /\ n.new = req[r].new /\ n.rows = {}
    BY <2>1, RowsOf
  <2> HIDE DEF m, n
  <2>5. UNCHANGED family /\ status' = [t \in Tokens |-> IF t \in req[r].rows THEN "revoked"
                                                        ELSE status[t]]
    BY <1>2 DEF RevokeCommit
  <2>6. Issued' = Issued
    BY <2>1, <2>5 DEF Issued, Carries
  <2> PICK q \in Request : q = n
    BY <2>3
  <2>7. Carries(q)' /\ q.pc # "commit"
    BY <1>2, <2>1, <2>4, <2>6 DEF Carries, Holding, RevokeCommit
  <2>8. \A s \in Requests \ {r} : req[s].pc = "commit" => req[s].new \notin Issued'
    BY <2>6 DEF IInv, Carries
  <2>9. (\A s \in Requests : Carries(req[s])') /\ NewInv' /\ req' \in [Requests -> Request]
    BY <2>1, <2>6, <2>7, <2>8, MoreIssued
  <2>10. status' \in [Tokens -> {"unused", "live", "revoked", "expired"}]
    BY <2>5 DEF IInv, TypeOK
  <2>11. TypeOK'
    BY <1>2, <2>5, <2>6, <2>9, <2>10 DEF IInv, TypeOK, RevokeCommit, bounds
  <2> QED BY <2>9, <2>11 DEF IInv
<1> QED BY <1>1, <1>2 DEF Revoke

LEMMA ErrorNext == ASSUME IInv, NEW r \in Requests, RequestError(r) PROVE IInv'
<1> DEFINE l == [req[r] EXCEPT !.pc = "answer"]
<1> DEFINE m == [req[r] EXCEPT !.pc = "answer", !.new = NoToken]
<1> DEFINE n == [m EXCEPT !.rows = {}]
<1>1. req[r] \in Request /\ Carries(req[r]) /\ req' = [req EXCEPT ![r] = n]
  BY DEF IInv, TypeOK, RequestError
<1>2. l \in Request
  BY <1>1, FieldTypes
<1>3. m \in Request
  BY <1>2, FieldTypes
<1>4. m.pc = "answer" /\ m.raw = req[r].raw /\ m.new = NoToken
  BY <1>1, NewOf
<1> HIDE DEF l, m
<1>5. n \in Request
  BY <1>3, FieldTypes
<1>6. n.pc = m.pc /\ n.raw = m.raw /\ n.new = m.new /\ n.rows = {}
  BY <1>3 DEF Request
<1> HIDE DEF n
<1>7. Carries(n) /\ n.pc # "commit"
  BY <1>1, <1>4, <1>6 DEF Carries, Holding
<1>8. cookie' \in Issued \cup {NoToken} /\ faults' \in 0 .. MaxFaults
        /\ logouts' \in 0 .. MaxLogouts /\ cut' \in BOOLEAN /\ UNCHANGED rows
  BY TokensAssumption DEF RequestError, IInv, TypeOK
<1> QED BY <1>1, <1>5, <1>7, <1>8, OneRequest

LEMMA TabOf ==
    \A q \in Request : \A tab \in Tabs \cup {NoTab} :
        /\ [q EXCEPT !.tab = tab] \in Request
        /\ [q EXCEPT !.tab = tab].pc = q.pc /\ [q EXCEPT !.tab = tab].raw = q.raw
        /\ [q EXCEPT !.tab = tab].new = q.new /\ [q EXCEPT !.tab = tab].rows = q.rows
        /\ [q EXCEPT !.tab = tab].kind = q.kind /\ [q EXCEPT !.tab = tab].tab = tab
BY DEF Request

LEMMA AbandonNext == ASSUME IInv, NEW r \in Requests, Abandoned(r) PROVE IInv'
<1> DEFINE n == [req[r] EXCEPT !.tab = NoTab]
<1>1. req[r] \in Request /\ Carries(req[r]) /\ req' = [req EXCEPT ![r] = n]
  BY DEF IInv, TypeOK, Abandoned
<1>2. /\ n \in Request /\ n.pc = req[r].pc /\ n.raw = req[r].raw /\ n.new = req[r].new
      /\ n.rows = req[r].rows
  BY <1>1, TabOf
<1> HIDE DEF n
<1>3. Carries(n)
  BY <1>1, <1>2 DEF Carries
<1>4. n.pc = "commit" => \A s \in Requests \ {r} : req[s].pc = "commit" => req[s].new # n.new
  BY <1>2 DEF IInv, NewInv
<1>5. cookie' \in Issued \cup {NoToken} /\ faults' \in 0 .. MaxFaults
        /\ logouts' \in 0 .. MaxLogouts /\ cut' \in BOOLEAN /\ UNCHANGED rows
  BY TokensAssumption DEF Abandoned, IInv, TypeOK
<1> QED BY <1>1, <1>2, <1>3, <1>4, <1>5, OneRequest

LEMMA ExpireNext == ASSUME IInv, NEW t \in Tokens, Expire(t) PROVE IInv'
<1>1. status' = [status EXCEPT ![t] = "expired"] /\ status[t] = "live" /\ UNCHANGED <<family, req, bounds>>
  BY DEF Expire
<1>2. Issued' = Issued
  BY <1>1 DEF IInv, TypeOK, Issued
<1>3. TypeOK'
  BY <1>1, <1>2 DEF IInv, TypeOK, Expire, bounds
<1>4. NewInv' /\ \A r \in Requests : Carries(req[r])'
  BY <1>1, <1>2 DEF IInv, NewInv, Carries
<1> QED BY <1>3, <1>4 DEF IInv

LEMMA NextInv == ASSUME IInv, [Next]_vars PROVE IInv'
<1>1. ASSUME NEW r \in Requests, Login(r) PROVE IInv'
  <2>1. logouts \in 0 .. MaxLogouts
    BY DEF IInv, TypeOK
  <2> QED BY <1>1, <2>1, LoginNext, SendNext DEF Login, BeginLogin, bounds
<1>2. ASSUME NEW r \in Requests, Refresh(r) PROVE IInv'
  <2>1. ASSUME NEW tab \in Tabs, BeginRefresh(r, tab) PROVE IInv'
    <3>1. logouts \in 0 .. MaxLogouts
      BY DEF IInv, TypeOK
    <3> QED BY <2>1, <3>1, SendNext DEF BeginRefresh, bounds
  <2>2. CASE RefreshRead(r)
    <3>1. Carries(req[r]) /\ req[r].pc = "sent" /\ UNCHANGED <<rows, cookie, bounds>>
      BY <2>2 DEF IInv, RefreshRead
    <3>2. CASE req' = [req EXCEPT ![r].pc = "answer"]
      BY <3>1, <3>2, GoesOn DEF Holding
    <3>3. CASE req[r].raw # NoToken /\ \E pc \in {"revoke", "rotate"} :
                  req' = [req EXCEPT ![r].pc = pc]
      BY <3>1, <3>3, GoesOn DEF Carries
    <3> QED BY <2>2, <3>2, <3>3 DEF RefreshRead
  <2> QED BY <1>2, <2>1, <2>2, FlushNext, RotateNext DEF Refresh
<1>3. ASSUME NEW r \in Requests, Logout(r) PROVE IInv'
  <2>1. ASSUME NEW tab \in Tabs, BeginLogout(r, tab) PROVE IInv'
    <3>1. logouts' \in 0 .. MaxLogouts
      BY <2>1, TokensAssumption DEF IInv, TypeOK, BeginLogout
    <3> QED BY <2>1, <3>1, SendNext DEF BeginLogout
  <2>2. CASE LogoutRead(r)
    <3>1. Carries(req[r]) /\ req[r].pc = "sent" /\ UNCHANGED <<rows, cookie, bounds>>
      BY <2>2 DEF IInv, LogoutRead
    <3>2. CASE req' = [req EXCEPT ![r].pc = "answer"]
      BY <3>1, <3>2, GoesOn DEF Holding
    <3>3. CASE req[r].raw # NoToken /\ req' = [req EXCEPT ![r].pc = "revoke"]
      BY <3>1, <3>3, GoesOn DEF Carries
    <3> QED BY <2>2, <3>2, <3>3 DEF LogoutRead
  <2> QED BY <1>3, <2>1, <2>2 DEF Logout
<1>4. ASSUME NEW r \in Requests, Answer(r) PROVE IInv'
  <2>1. cookie' \in Issued \cup {NoToken} /\ faults' \in 0 .. MaxFaults
    BY <1>4 DEF Answer, IInv, TypeOK, Carries, bounds
  <2> QED BY <1>4, <2>1, OverNext DEF Answer, bounds
<1>5. ASSUME NEW r \in Requests, AnswerLost(r) PROVE IInv'
  <2>1. cookie' \in Issued \cup {NoToken} /\ faults' \in 0 .. MaxFaults
    BY <1>5, TokensAssumption DEF AnswerLost, IInv, TypeOK
  <2> QED BY <1>5, <2>1, OverNext DEF AnswerLost
<1>6. CASE UNCHANGED vars
  BY <1>6 DEF vars, IInv, TypeOK, NewInv, Carries, Issued
<1> QED
  BY <1>1, <1>2, <1>3, <1>4, <1>5, <1>6, RevokeNext, ErrorNext, AbandonNext, ExpireNext DEF Next

-----------------------------------------------------------------------------
THEOREM Invariant == Spec => []IInv
<1> QED BY InitInv, NextInv, PTL DEF Spec

(* Type correctness: every issued token is in the family of a login that   *)
(* was committed (issue_token_pair and verify_and_rotate_refresh_token).   *)
THEOREM TypeCorrect == Spec => []TypeOK
<1>1. IInv => TypeOK
  BY DEF IInv
<1> QED BY Invariant, <1>1, PTL

(* A token keeps the family it was issued in.                              *)
LEMMA FamilyStays == ASSUME IInv, [Next]_vars PROVE \A t \in Issued : family'[t] = family[t]
<1>1. CASE UNCHANGED family
  BY <1>1
<1>2. ASSUME NEW r \in Requests, LoginCommit(r) PROVE \A t \in Issued : family'[t] = family[t]
  BY <1>2 DEF IInv, TypeOK, LoginCommit
<1>3. ASSUME NEW r \in Requests, RefreshCommit(r) PROVE \A t \in Issued : family'[t] = family[t]
  <2>1. req[r].new \notin Issued
    BY <1>3 DEF IInv, Carries, RefreshCommit
  <2> QED BY <1>3, <2>1 DEF IInv, TypeOK, RefreshCommit
<1> QED
  BY <1>1, <1>2, <1>3
     DEF Next, vars, rows, Login, BeginLogin, Refresh, BeginRefresh, RefreshRead, RefreshFlush,
         Logout, BeginLogout, LogoutRead, Revoke, RevokeStarts, RevokeCommit, Answer, AnswerLost,
         Abandoned, RequestError, Expire

(* A family that has ended stays ended, whatever logins, refreshes,        *)
(* logouts and failures overlap (_revoke_family in jwt_utils.py).          *)
THEOREM EndsForGood == Spec => EndedStaysEnded
<1> DEFINE Step == \A f \in Issued : Ended(f) => Ended(f)'
<1>1. ASSUME IInv, IInv', [Next]_vars PROVE Step
  <2> SUFFICES ASSUME NEW f \in Issued, Ended(f) PROVE Ended(f)'
    OBVIOUS
  <2> USE <1>1
  <2>1. \A t \in Issued : family[t] = family[f] => status[t] # "live"
    BY DEF Ended, Live, FamilyOf
  <2>2. \A r \in Requests : req[r].pc \in {"rotate", "commit"} => family[req[r].raw] # family[f]
    BY DEF Ended, Exchanging, IInv, TypeOK
  <2>3. \A t \in Issued : family'[t] = family[t]
    BY FamilyStays
  <2>4. \A r \in Requests : req[r] \in Request /\ Carries(req[r])
    BY DEF IInv, TypeOK
  <2>5. ASSUME \A t \in Issued' : family'[t] = family[f] => status'[t] # "live",
               \A r \in Requests : req'[r].pc \in {"rotate", "commit"} =>
                    family'[req'[r].raw] # family[f]
        PROVE  Ended(f)'
    BY <2>3, <2>5 DEF Ended, Live, FamilyOf, Exchanging
  <2>6. ASSUME NEW r \in Requests, \A q \in Requests \ {r} : req'[q] = req[q],
               req'[r].pc \in {"rotate", "commit"} =>
                    req'[r].raw \in Issued /\ family[req'[r].raw] # family[f],
               \A t \in Issued' : family'[t] = family[f] => status'[t] # "live"
        PROVE  Ended(f)'
    <3>1. \A q \in Requests \ {r} : req[q].pc \in {"rotate", "commit"} =>
                req[q].raw \in Issued /\ family[req[q].raw] # family[f]
      BY <2>2, <2>4 DEF Carries, Holding
    <3> QED BY <2>3, <2>5, <2>6, <3>1
  <2>7. ASSUME NEW r \in Requests, NEW q, req' = [req EXCEPT ![r] = q],
               q.pc \in {"rotate", "commit"} => q.raw \in Issued /\ family[q.raw] # family[f],
               UNCHANGED rows
        PROVE  Ended(f)'
    <3>1. req'[r] = q /\ \A w \in Requests \ {r} : req'[w] = req[w]
      BY <2>7 DEF IInv, TypeOK
    <3>2. Issued' = Issued /\ status' = status /\ family' = family
      BY <2>7 DEF Issued, rows
    <3> QED BY <2>1, <2>6, <2>7, <3>1, <3>2
  <2>8. ASSUME NEW r \in Requests, LoginCommit(r) PROVE Ended(f)'
    <3>1. PICK t \in Tokens \ Issued :
            /\ status' = [status EXCEPT ![t] = "live"]
            /\ family' = [family EXCEPT ![t] = t]
            /\ req' = [req EXCEPT ![r].pc = "answer", ![r].new = t]
      BY <2>8 DEF LoginCommit
    <3>2. req'[r].pc = "answer" /\ \A q \in Requests \ {r} : req'[q] = req[q]
      BY <2>4, <3>1, NewOf DEF IInv, TypeOK
    <3>3. Issued' = Issued \cup {t} /\ family'[t] = t /\ family[f] # t
            /\ \A u \in Issued : status'[u] = status[u]
      BY <3>1 DEF IInv, TypeOK, Issued
    <3> QED BY <2>1, <2>3, <2>6, <3>2, <3>3
  <2>9. ASSUME NEW r \in Requests, RefreshCommit(r) PROVE Ended(f)'
    <3> DEFINE t == req[r].new
    <3> DEFINE old == req[r].raw
    <3>1. t \in Tokens \ Issued /\ old \in Issued /\ family[old] # family[f]
      BY <2>2, <2>4, <2>9 DEF Carries, Holding, RefreshCommit
    <3>2. req'[r].pc = "answer" /\ \A q \in Requests \ {r} : req'[q] = req[q]
      BY <2>4, <2>9, PcOf DEF RefreshCommit, IInv, TypeOK
    <3> HIDE DEF t, old
    <3>3. /\ status' = [status EXCEPT ![old] = "revoked", ![t] = "live"]
          /\ family' = [family EXCEPT ![t] = family[old]]
      BY <2>9 DEF RefreshCommit, t, old
    <3>4. /\ Issued' = Issued \cup {t} /\ family'[t] = family[old]
          /\ \A u \in Issued : status'[u] = "live" => status[u] = "live"
      BY <3>1, <3>3 DEF IInv, TypeOK, Issued
    <3> QED BY <2>1, <2>3, <2>6, <3>1, <3>2, <3>4
  <2>10. ASSUME NEW r \in Requests, Revoke(r) PROVE Ended(f)'
    <3>1. CASE RevokeStarts(r)
      <4>1. PICK q : q = [req[r] EXCEPT !.pc = "update",
                             !.rows = {t \in FamilyOf(req[r].raw) : status[t] # "revoked"}]
        OBVIOUS
      <4>2. q.pc = "update" /\ req' = [req EXCEPT ![r] = q] /\ UNCHANGED rows
        <5>1. q.pc = "update"
          BY <2>4, <4>1, RowsOf
        <5>2. req' = [req EXCEPT ![r] = q] /\ UNCHANGED rows
          BY <3>1, <4>1 DEF RevokeStarts
        <5> QED BY <5>1, <5>2
      <4> QED BY <2>7, <4>2
    <3>2. CASE RevokeCommit(r)
      <4>1. req'[r].pc = "answer" /\ \A q \in Requests \ {r} : req'[q] = req[q]
        BY <2>4, <3>2, RowsOf DEF RevokeCommit, IInv, TypeOK
      <4>2. /\ family' = family
            /\ status' = [t \in Tokens |-> IF t \in req[r].rows THEN "revoked" ELSE status[t]]
        BY <3>2 DEF RevokeCommit
      <4>3. Issued' = Issued /\ \A t \in Issued : status'[t] = "live" => status[t] = "live"
        BY <2>4, <4>2 DEF Issued, Carries
      <4> QED BY <2>1, <2>6, <4>1, <4>2, <4>3
    <3> QED BY <2>10, <3>1, <3>2 DEF Revoke
  <2>11. ASSUME NEW t \in Tokens, Expire(t) PROVE Ended(f)'
    <3>1. UNCHANGED <<family, req>> /\ Issued' = Issued
            /\ \A u \in Issued : status'[u] = "live" => status[u] = "live"
      BY <2>11 DEF Expire, Issued, IInv, TypeOK
    <3> QED BY <2>1, <2>2, <2>5, <3>1
  <2>12. ASSUME NEW r \in Requests,
                \/ \E tab \in Tabs : BeginLogin(r, tab) \/ BeginRefresh(r, tab) \/ BeginLogout(r, tab)
                \/ RequestError(r) \/ LogoutRead(r) \/ Answer(r) \/ AnswerLost(r)
         PROVE  Ended(f)'
    <3>1. ASSUME NEW tab \in Tabs, NEW kind, Send(r, tab, kind), UNCHANGED rows PROVE Ended(f)'
      <4>1. PICK q : q = [Idle EXCEPT !.kind = kind, !.pc = "sent", !.tab = tab, !.raw = cookie]
        OBVIOUS
      <4>2. q.pc = "sent"
        BY <4>1 DEF Idle
      <4> QED BY <2>7, <3>1, <4>1, <4>2 DEF Send
    <3>2. CASE RequestError(r)
      <4>1. PICK m : m = [req[r] EXCEPT !.pc = "answer", !.new = NoToken]
        OBVIOUS
      <4>2. PICK q : q = [m EXCEPT !.rows = {}]
        OBVIOUS
      <4>3. m \in Request
        <5>1. [req[r] EXCEPT !.pc = "answer"] \in Request
          BY <2>4, FieldTypes
        <5> QED BY <4>1, <5>1, FieldTypes
      <4>4. m.pc = "answer"
        BY <2>4, <4>1, NewOf
      <4>5. q.pc = "answer"
        BY <4>2, <4>3, <4>4 DEF Request
      <4>6. req' = [req EXCEPT ![r] = q] /\ UNCHANGED rows
        BY <3>2, <4>1, <4>2 DEF RequestError
      <4> QED BY <2>7, <4>5, <4>6
    <3>3. CASE LogoutRead(r)
      <4>1. PICK q : q = [req[r] EXCEPT !.pc = IF req[r].raw = NoToken THEN "answer" ELSE "revoke"]
        OBVIOUS
      <4>2. q.pc \in {"answer", "revoke"} /\ req' = [req EXCEPT ![r] = q] /\ UNCHANGED rows
        BY <2>4, <3>3, <4>1, PcOf DEF LogoutRead
      <4> QED BY <2>7, <4>2
    <3>4. CASE Answer(r) \/ AnswerLost(r)
      BY <2>7, <3>4, IdleType DEF Answer, AnswerLost
    <3> QED BY <2>12, <3>1, <3>2, <3>3, <3>4 DEF BeginLogin, BeginRefresh, BeginLogout
  <2>13. ASSUME NEW r \in Requests, RefreshRead(r) PROVE Ended(f)'
    <3>1. PICK pc \in {"answer", "revoke", "rotate"} :
            /\ req' = [req EXCEPT ![r].pc = pc]
            /\ pc = "rotate" => req[r].raw # NoToken
                                /\ status[req[r].raw] \notin {"expired", "revoked"}
      BY <2>13 DEF RefreshRead
    <3>2. PICK q : q = [req[r] EXCEPT !.pc = pc]
      OBVIOUS
    <3>3. q.pc = pc /\ q.raw = req[r].raw /\ req' = [req EXCEPT ![r] = q] /\ UNCHANGED rows
      <4>1. q.pc = pc /\ q.raw = req[r].raw
        BY <2>4, <3>2, PcOf
      <4>2. req' = [req EXCEPT ![r] = q] /\ UNCHANGED rows
        BY <2>13, <3>1, <3>2 DEF RefreshRead
      <4> QED BY <4>1, <4>2
    <3>4. ASSUME pc = "rotate" PROVE q.raw \in Issued /\ family[q.raw] # family[f]
      <4>1. q.raw \in Issued
        BY <2>4, <3>1, <3>3, <3>4 DEF Carries
      <4>2. status[q.raw] = "live"
        BY <3>1, <3>3, <3>4, <4>1 DEF IInv, TypeOK, Issued
      <4> QED BY <2>1, <4>1, <4>2
    <3> QED BY <2>7, <3>1, <3>3, <3>4
  <2>14. ASSUME NEW r \in Requests, RefreshFlush(r) PROVE Ended(f)'
    <3>1. PICK t \in Tokens : req' = [req EXCEPT ![r].pc = "commit", ![r].new = t]
      BY <2>14 DEF RefreshFlush
    <3>2. PICK q : q = [req[r] EXCEPT !.pc = "commit", !.new = t]
      OBVIOUS
    <3>3. q.raw = req[r].raw /\ req' = [req EXCEPT ![r] = q] /\ UNCHANGED rows
      <4>1. q.raw = req[r].raw
        BY <2>4, <3>2, NewOf
      <4>2. req' = [req EXCEPT ![r] = q] /\ UNCHANGED rows
        BY <2>14, <3>1, <3>2 DEF RefreshFlush
      <4> QED BY <4>1, <4>2
    <3>4. req[r].raw \in Issued /\ family[req[r].raw] # family[f]
      BY <2>2, <2>4, <2>14 DEF RefreshFlush, Carries, Holding
    <3> QED BY <2>7, <3>3, <3>4
  <2>15. ASSUME NEW r \in Requests, Abandoned(r) PROVE Ended(f)'
    <3>1. PICK q : q = [req[r] EXCEPT !.tab = NoTab]
      OBVIOUS
    <3>2. q.pc = req[r].pc /\ q.raw = req[r].raw
      BY <2>4, <3>1, TabOf
    <3>3. req' = [req EXCEPT ![r] = q] /\ UNCHANGED rows
      BY <2>15, <3>1 DEF Abandoned
    <3>4. q.pc \in {"rotate", "commit"} => q.raw \in Issued /\ family[q.raw] # family[f]
      BY <2>2, <2>4, <3>2 DEF Carries, Holding
    <3> QED BY <2>7, <3>3, <3>4
  <2>16. CASE UNCHANGED vars
    <3>1. UNCHANGED <<status, family, req>> /\ Issued' = Issued
      BY <2>16 DEF vars, Issued
    <3> QED BY <2>1, <2>2, <2>5, <3>1
  <2> QED
    BY <2>8, <2>9, <2>10, <2>11, <2>12, <2>13, <2>14, <2>15, <2>16
       DEF Next, Login, Refresh, Logout
<1>2. IInv /\ IInv' /\ [Next]_vars => [Step]_vars
  BY <1>1
<1> QED BY Invariant, <1>2, PTL DEF Spec, EndedStaysEnded

-----------------------------------------------------------------------------
(* One tab: refreshAccessToken lets one refresh run at a time.             *)

OneTab == \A b, c \in Tabs : b = c

Kinds(q) ==
    /\ q.kind = "refresh" => q.tab \in Tabs
    /\ q.pc \in {"rotate", "commit"} => q.kind = "refresh"

OneRefresh ==
    \A r, q \in Requests : req[r].kind = "refresh" /\ req[q].kind = "refresh" => r = q

(* A refresh that is past its check holds the only token of its family     *)
(* that can be used, or none can.                                          *)
HoldsLast(q) ==
    q.pc \in {"rotate", "commit"} =>
        \A t \in Tokens : status[t] = "live" /\ family[t] = family[q.raw] => t = q.raw

TabInv ==
    IInv /\ OneRefresh /\ NoDouble /\ \A r \in Requests : Kinds(req[r]) /\ HoldsLast(req[r])

(* An answer that brings a cookie.                                         *)
Bringing(q) == q.pc = "answer" /\ q.new # NoToken

(* What is on its way to the browser can be used, and the cookie can too,  *)
(* or a refresh that has used it is about to replace it.                   *)
CookieInv ==
    logouts = 0 /\ faults = 0 =>
        /\ \A r \in Requests :
            /\ req[r].kind # "logout" /\ req[r].pc \notin {"revoke", "update"}
            /\ req[r].pc \in {"sent", "rotate"} => req[r].new = NoToken
            /\ /\ req[r].kind = "refresh" /\ req[r].raw # NoToken
               /\ req[r].pc \in {"sent", "rotate", "commit"}
               => status[req[r].raw] = "live"
            /\ Bringing(req[r]) => status[req[r].new] = "live" /\ req[r].new # cookie
        /\ \A r, q \in Requests : Bringing(req[r]) => req[r].new # req[q].raw
        /\ \A r, q \in Requests :
                Bringing(req[r]) /\ Bringing(req[q]) /\ req[r].new = req[q].new => r = q
        /\ \/ cookie = NoToken \/ status[cookie] = "live"
           \/ \E r \in Requests :
                req[r].kind = "refresh" /\ Bringing(req[r]) /\ req[r].raw = cookie

(* What each step does to a request, field by field.                       *)
Others(r) == \A s \in Requests \ {r} : req'[s] = req[s]
Keeps(r) == req'[r].kind = req[r].kind /\ req'[r].tab = req[r].tab /\ req'[r].raw = req[r].raw

LEMMA Replaced ==
    ASSUME IInv, NEW r \in Requests, NEW q, req' = [req EXCEPT ![r] = q]
    PROVE  req'[r] = q /\ Others(r) /\ req[r] \in Request /\ Carries(req[r])
BY DEF IInv, TypeOK, Others

LEMMA SendEffect ==
    ASSUME IInv, NEW r \in Requests, NEW tab \in Tabs, NEW kind, Send(r, tab, kind)
    PROVE  /\ Others(r) /\ req[r].pc = "idle"
           /\ req'[r].kind = kind /\ req'[r].pc = "sent" /\ req'[r].tab = tab
           /\ req'[r].raw = cookie /\ req'[r].new = NoToken
<1>1. PICK q : q = [Idle EXCEPT !.kind = kind, !.pc = "sent", !.tab = tab, !.raw = cookie]
  OBVIOUS
<1>2. q.kind = kind /\ q.pc = "sent" /\ q.tab = tab /\ q.raw = cookie /\ q.new = NoToken
  BY <1>1 DEF Idle
<1>3. req' = [req EXCEPT ![r] = q] /\ req[r].pc = "idle"
  BY <1>1 DEF Send
<1> QED BY <1>2, <1>3, Replaced

LEMMA ReadEffect ==
    ASSUME IInv, NEW r \in Requests, RefreshRead(r) \/ LogoutRead(r)
    PROVE  /\ Others(r) /\ Keeps(r) /\ req'[r].new = req[r].new /\ req[r].pc = "sent"
           /\ UNCHANGED <<rows, cookie, bounds>>
           /\ \/ req'[r].pc = "answer"
              \/ /\ req'[r].pc = "rotate" /\ req[r].kind = "refresh"
                 /\ req[r].raw \in Issued /\ status[req[r].raw] = "live"
              \/ /\ req'[r].pc = "revoke" /\ req[r].raw # NoToken
                 /\ \/ req[r].kind = "logout"
                    \/ req[r].kind = "refresh" /\ status[req[r].raw] = "revoked"
<1>1. PICK pc \in {"answer", "rotate", "revoke"} :
        /\ req' = [req EXCEPT ![r] = [req[r] EXCEPT !.pc = pc]]
        /\ pc = "rotate" => /\ req[r].kind = "refresh" /\ req[r].raw # NoToken
                            /\ status[req[r].raw] \notin {"expired", "revoked"}
        /\ pc = "revoke" => /\ req[r].raw # NoToken
                            /\ \/ req[r].kind = "logout"
                               \/ req[r].kind = "refresh" /\ status[req[r].raw] = "revoked"
  <2>1. CASE RefreshRead(r)
    <3>1. CASE req[r].raw = NoToken \/ status[req[r].raw] = "expired"
      BY <2>1, <3>1 DEF RefreshRead
    <3>2. CASE req[r].raw # NoToken /\ status[req[r].raw] = "revoked"
      BY <2>1, <3>2 DEF RefreshRead
    <3>3. CASE req[r].raw # NoToken /\ status[req[r].raw] \notin {"expired", "revoked"}
      BY <2>1, <3>3 DEF RefreshRead
    <3> QED BY <3>1, <3>2, <3>3
  <2>2. CASE LogoutRead(r)
    <3>1. CASE req[r].raw = NoToken
      BY <2>2, <3>1 DEF LogoutRead
    <3>2. CASE req[r].raw # NoToken
      BY <2>2, <3>2 DEF LogoutRead
    <3> QED BY <3>1, <3>2
  <2> QED BY <2>1, <2>2
<1>2. PICK q : q = [req[r] EXCEPT !.pc = pc]
  OBVIOUS
<1>3. req'[r] = q /\ Others(r) /\ req[r] \in Request /\ Carries(req[r])
  BY <1>1, <1>2, Replaced
<1>4. q.pc = pc /\ q.raw = req[r].raw /\ q.new = req[r].new /\ q.kind = req[r].kind /\ q.tab = req[r].tab
  BY <1>2, <1>3, PcOf
<1>5. req[r].pc = "sent" /\ UNCHANGED <<rows, cookie, bounds>>
  BY DEF RefreshRead, LogoutRead
<1>6. pc = "rotate" => req[r].raw \in Issued /\ status[req[r].raw] = "live"
  BY <1>1, <1>3 DEF IInv, TypeOK, Carries, Issued
<1> QED BY <1>1, <1>3, <1>4, <1>5, <1>6 DEF Keeps

LEMMA FlushEffect ==
    ASSUME IInv, NEW r \in Requests, RefreshFlush(r)
    PROVE  /\ Others(r) /\ Keeps(r) /\ req[r].pc = "rotate" /\ req'[r].pc = "commit"
           /\ UNCHANGED <<rows, cookie, bounds>>
<1>1. PICK t \in Tokens : req' = [req EXCEPT ![r].pc = "commit", ![r].new = t]
  BY DEF RefreshFlush
<1>2. PICK q : q = [req[r] EXCEPT !.pc = "commit", !.new = t]
  OBVIOUS
<1>3. req' = [req EXCEPT ![r] = q]
  BY <1>1, <1>2
<1>4. req'[r] = q /\ Others(r) /\ req[r] \in Request
  BY <1>3, Replaced
<1>5. q.pc = "commit" /\ q.raw = req[r].raw /\ q.kind = req[r].kind /\ q.tab = req[r].tab
  BY <1>2, <1>4, NewOf
<1> QED BY <1>4, <1>5 DEF RefreshFlush, Keeps

LEMMA LoginEffect ==
    ASSUME IInv, NEW r \in Requests, LoginCommit(r)
    PROVE  /\ Others(r) /\ Keeps(r) /\ req[r].kind = "login" /\ req[r].pc = "sent"
           /\ req'[r].pc = "answer" /\ UNCHANGED <<cookie, bounds>>
           /\ req'[r].new \in Tokens \ Issued
           /\ \A u \in Tokens : u # req'[r].new => status'[u] = status[u] /\ family'[u] = family[u]
           /\ status'[req'[r].new] = "live" /\ family'[req'[r].new] = req'[r].new
<1>1. PICK t \in Tokens \ Issued :
        /\ status' = [status EXCEPT ![t] = "live"] /\ family' = [family EXCEPT ![t] = t]
        /\ req' = [req EXCEPT ![r].pc = "answer", ![r].new = t]
  BY DEF LoginCommit
<1>2. PICK q : q = [req[r] EXCEPT !.pc = "answer", !.new = t]
  OBVIOUS
<1>3. req' = [req EXCEPT ![r] = q]
  BY <1>1, <1>2
<1>4. req'[r] = q /\ Others(r) /\ req[r] \in Request
  BY <1>3, Replaced
<1>5. q.pc = "answer" /\ q.new = t /\ q.raw = req[r].raw /\ q.kind = req[r].kind /\ q.tab = req[r].tab
  BY <1>2, <1>4, NewOf
<1>6. /\ \A u \in Tokens : u # t => status'[u] = status[u] /\ family'[u] = family[u]
      /\ status'[t] = "live" /\ family'[t] = t
  BY <1>1 DEF IInv, TypeOK
<1> QED BY <1>4, <1>5, <1>6 DEF LoginCommit, Keeps

LEMMA CommitEffect ==
    ASSUME IInv, NEW r \in Requests, RefreshCommit(r)
    PROVE  /\ Others(r) /\ Keeps(r) /\ req'[r].new = req[r].new /\ req[r].pc = "commit"
           /\ req'[r].pc = "answer" /\ UNCHANGED <<cookie, bounds>>
           /\ req[r].new \in Tokens \ Issued /\ req[r].raw \in Issued
           /\ \A u \in Tokens : /\ u # req[r].new => family'[u] = family[u]
                                /\ u \notin {req[r].new, req[r].raw} => status'[u] = status[u]
           /\ status'[req[r].new] = "live" /\ status'[req[r].raw] = "revoked"
           /\ family'[req[r].new] = family[req[r].raw]
<1>1. PICK q : q = [req[r] EXCEPT !.pc = "answer"]
  OBVIOUS
<1>2. req' = [req EXCEPT ![r] = q] /\ req[r].pc = "commit" /\ UNCHANGED <<cookie, bounds>>
  BY <1>1 DEF RefreshCommit
<1>3. req'[r] = q /\ Others(r) /\ req[r] \in Request /\ Carries(req[r])
  BY <1>2, Replaced
<1>4. q.pc = "answer" /\ q.raw = req[r].raw /\ q.new = req[r].new /\ q.kind = req[r].kind
        /\ q.tab = req[r].tab
  BY <1>1, <1>3, PcOf
<1> PICK t, old : t = req[r].new /\ old = req[r].raw
  OBVIOUS
<1>5. t \in Tokens \ Issued /\ old \in Issued /\ old \in Tokens /\ t # old
  BY <1>2, <1>3 DEF Carries, Holding, Issued
<1>6. /\ status' = [status EXCEPT ![old] = "revoked", ![t] = "live"]
      /\ family' = [family EXCEPT ![t] = family[old]]
  BY DEF RefreshCommit
<1>7. /\ \A u \in Tokens : /\ u # t => family'[u] = family[u]
                           /\ u \notin {t, old} => status'[u] = status[u]
      /\ status'[t] = "live" /\ status'[old] = "revoked" /\ family'[t] = family[old]
  BY <1>5, <1>6 DEF IInv, TypeOK
<1> QED BY <1>2, <1>3, <1>4, <1>5, <1>7 DEF Keeps

LEMMA RevokeEffect ==
    ASSUME IInv, NEW r \in Requests, Revoke(r)
    PROVE  /\ Others(r) /\ Keeps(r) /\ req'[r].new = req[r].new
           /\ req[r].pc \in {"revoke", "update"} /\ req'[r].pc \in {"update", "answer"}
           /\ UNCHANGED <<family, cookie, bounds>>
           /\ \A t \in Tokens : status'[t] = "live" => status[t] = "live"
<1>0. PICK pc \in {"update", "answer"} :
          \E s : req' = [req EXCEPT ![r].pc = pc, ![r].rows = s]
  BY DEF Revoke, RevokeStarts, RevokeCommit
<1>1. PICK s : req' = [req EXCEPT ![r].pc = pc, ![r].rows = s]
  BY <1>0
<1>2. PICK q : q = [req[r] EXCEPT !.pc = pc, !.rows = s]
  OBVIOUS
<1>3. req' = [req EXCEPT ![r] = q]
  BY <1>1, <1>2
<1>4. req'[r] = q /\ Others(r) /\ req[r] \in Request
  BY <1>3, Replaced
<1>5. q.pc = pc /\ q.new = req[r].new /\ q.raw = req[r].raw /\ q.kind = req[r].kind /\ q.tab = req[r].tab
  BY <1>2, <1>4, RowsOf
<1>6. /\ req[r].pc \in {"revoke", "update"} /\ UNCHANGED <<family, cookie, bounds>>
      /\ \A t \in Tokens : status'[t] = "live" => status[t] = "live"
  BY DEF Revoke, RevokeStarts, RevokeCommit, rows
<1> QED BY <1>4, <1>5, <1>6 DEF Keeps

LEMMA OverEffect ==
    ASSUME IInv, NEW r \in Requests, Answer(r) \/ AnswerLost(r)
    PROVE  /\ Others(r) /\ req'[r] = Idle /\ req[r].pc = "answer" /\ UNCHANGED rows
           /\ \/ ~Bringing(req[r]) /\ UNCHANGED <<cookie, bounds>>
              \/ req[r].tab = NoTab /\ UNCHANGED <<cookie, bounds>>
              \/ faults' = faults + 1 /\ UNCHANGED cut
              \/ Bringing(req[r]) /\ cookie' = req[r].new /\ UNCHANGED bounds
<1>1. Others(r) /\ req'[r] = Idle /\ req[r].pc = "answer" /\ UNCHANGED rows
  BY Replaced DEF Answer, AnswerLost
<1>2. CASE Answer(r)
  <2>1. UNCHANGED bounds /\ req[r].pc = "answer"
          /\ cookie' = IF req[r].new = NoToken \/ req[r].tab = NoTab THEN cookie ELSE req[r].new
    BY <1>2 DEF Answer
  <2> QED BY <1>1, <2>1 DEF Bringing
<1>3. CASE AnswerLost(r)
  BY <1>1, <1>3 DEF AnswerLost
<1> QED BY <1>2, <1>3

LEMMA ErrorEffect ==
    ASSUME IInv, NEW r \in Requests, RequestError(r)
    PROVE  /\ Others(r) /\ Keeps(r) /\ req'[r].pc = "answer" /\ UNCHANGED rows
           /\ faults' = faults + 1 /\ UNCHANGED cut
<1>1. PICK m : m = [req[r] EXCEPT !.pc = "answer", !.new = NoToken]
  OBVIOUS
<1>2. PICK q : q = [m EXCEPT !.rows = {}]
  OBVIOUS
<1>3. req' = [req EXCEPT ![r] = q] /\ UNCHANGED <<rows, cut>> /\ faults' = faults + 1
  BY <1>1, <1>2 DEF RequestError
<1>4. req'[r] = q /\ Others(r) /\ req[r] \in Request
  BY <1>3, Replaced
<1>5. m.pc = "answer" /\ m.raw = req[r].raw /\ m.kind = req[r].kind /\ m.tab = req[r].tab
  BY <1>1, <1>4, NewOf
<1>6. m \in Request
  <2>1. [req[r] EXCEPT !.pc = "answer"] \in Request
    BY <1>4, FieldTypes
  <2> QED BY <1>1, <2>1, FieldTypes
<1>7. q.pc = m.pc /\ q.raw = m.raw /\ q.kind = m.kind /\ q.tab = m.tab
  BY <1>2, <1>6 DEF Request
<1> QED BY <1>3, <1>4, <1>5, <1>7 DEF Keeps

LEMMA AbandonEffect ==
    ASSUME IInv, NEW r \in Requests, Abandoned(r)
    PROVE  /\ Others(r) /\ req'[r].kind = req[r].kind /\ req'[r].pc = req[r].pc
           /\ req'[r].raw = req[r].raw /\ UNCHANGED <<rows, cookie>> /\ faults' = faults + 1
           /\ cut' = (cut \/ req[r].kind = "refresh")
<1>1. PICK q : q = [req[r] EXCEPT !.tab = NoTab]
  OBVIOUS
<1>2. req' = [req EXCEPT ![r] = q]
  BY <1>1 DEF Abandoned
<1>3. req'[r] = q /\ Others(r) /\ req[r] \in Request
  BY <1>2, Replaced
<1>4. q.kind = req[r].kind /\ q.pc = req[r].pc /\ q.raw = req[r].raw
  BY <1>1, <1>3, TabOf
<1> QED BY <1>3, <1>4 DEF Abandoned

(* A failure is counted before a request is let go of.                     *)
CutCounts ==
    /\ cut => faults > 0
    /\ \A r \in Requests : req[r].pc # "idle" /\ req[r].tab = NoTab => faults > 0

LEMMA CutNext == ASSUME IInv, CutCounts, [Next]_vars PROVE CutCounts'
<1>0. faults \in Nat
  BY DEF IInv, TypeOK
<1>1. ASSUME faults' = faults + 1 PROVE CutCounts'
  BY <1>0, <1>1 DEF CutCounts
<1>2. ASSUME UNCHANGED <<faults, cut>>, NEW r \in Requests, Others(r),
             \/ req'[r].pc = "idle" \/ req'[r].tab # NoTab
             \/ req[r].pc # "idle" /\ req'[r].tab = req[r].tab
      PROVE  CutCounts'
  BY <1>2 DEF CutCounts, Others
<1>3. ASSUME NEW r \in Requests, NEW tab \in Tabs, NEW kind, Send(r, tab, kind),
             UNCHANGED <<faults, cut>>
      PROVE  CutCounts'
  <2>1. Others(r) /\ req'[r].tab # NoTab
    BY <1>3, SendEffect, TokensAssumption
  <2> QED BY <1>2, <1>3, <2>1
<1>4. ASSUME NEW r \in Requests, RefreshRead(r) \/ LogoutRead(r) PROVE CutCounts'
  BY <1>2, <1>4, ReadEffect DEF Keeps, bounds
<1>5. ASSUME NEW r \in Requests, RefreshFlush(r) PROVE CutCounts'
  BY <1>2, <1>5, FlushEffect DEF Keeps, bounds
<1>6. ASSUME NEW r \in Requests, LoginCommit(r) PROVE CutCounts'
  BY <1>2, <1>6, LoginEffect DEF Keeps, bounds
<1>7. ASSUME NEW r \in Requests, RefreshCommit(r) PROVE CutCounts'
  BY <1>2, <1>7, CommitEffect DEF Keeps, bounds
<1>8. ASSUME NEW r \in Requests, Revoke(r) PROVE CutCounts'
  BY <1>2, <1>8, RevokeEffect DEF Keeps, bounds
<1>9. ASSUME NEW r \in Requests, Answer(r) \/ AnswerLost(r) PROVE CutCounts'
  <2>1. Others(r) /\ req'[r].pc = "idle"
    BY <1>9, OverEffect, IdleType
  <2>2. faults' = faults + 1 \/ UNCHANGED <<faults, cut>>
    BY <1>9, OverEffect DEF bounds
  <2> QED BY <1>1, <1>2, <2>1, <2>2
<1>10. ASSUME NEW r \in Requests, Abandoned(r) \/ RequestError(r) PROVE CutCounts'
  BY <1>1, <1>10 DEF Abandoned, RequestError
<1>11. ASSUME NEW t \in Tokens, Expire(t) PROVE CutCounts'
  BY <1>11 DEF Expire, bounds, CutCounts
<1>12. CASE UNCHANGED vars
  BY <1>12 DEF vars, CutCounts
<1> QED
  BY <1>3, <1>4, <1>5, <1>6, <1>7, <1>8, <1>9, <1>10, <1>11, <1>12
     DEF Next, Login, BeginLogin, Refresh, BeginRefresh, Logout, BeginLogout, bounds

LEMMA TabMoves ==
    ASSUME TabInv, IInv', NEW r \in Requests, Others(r), UNCHANGED rows,
           req'[r].kind = "refresh" =>
                req[r].kind = "refresh" \/ \A q \in Requests : req[q].kind # "refresh",
           Kinds(req[r])', HoldsLast(req[r])'
    PROVE  TabInv'
<1>1. OneRefresh'
  BY DEF TabInv, OneRefresh, Others
<1>2. NoDouble'
  BY DEF TabInv, NoDouble, Live, rows
<1>3. ASSUME NEW s \in Requests PROVE Kinds(req[s])' /\ HoldsLast(req[s])'
  <2>1. CASE s = r
    BY <2>1
  <2>2. CASE s # r
    BY <2>2 DEF TabInv, Kinds, HoldsLast, Others, rows
  <2> QED BY <2>1, <2>2
<1> QED BY <1>1, <1>2, <1>3 DEF TabInv

(* A refresh begins when there is none.                                    *)
LEMMA FirstRefresh ==
    ASSUME OneTab, TabInv, NEW r \in Requests, NEW tab \in Tabs, BeginRefresh(r, tab)
    PROVE  \A q \in Requests : req[q].kind # "refresh"
BY DEF OneTab, TabInv, Kinds, BeginRefresh

LEMMA TabNext == ASSUME OneTab, TabInv, [Next]_vars, ~cut' PROVE TabInv'
<1>0. IInv /\ IInv'
  BY NextInv DEF TabInv
<1>1. ASSUME NEW r \in Requests, NEW tab \in Tabs, NEW kind, Send(r, tab, kind), UNCHANGED rows,
             kind = "refresh" => BeginRefresh(r, tab)
      PROVE  TabInv'
  <2>1. Others(r) /\ req'[r].kind = kind /\ req'[r].pc = "sent" /\ req'[r].tab = tab
    BY <1>0, <1>1, SendEffect
  <2>2. Kinds(req[r])' /\ HoldsLast(req[r])'
    BY <2>1 DEF Kinds, HoldsLast
  <2> QED BY <1>0, <1>1, <2>1, <2>2, FirstRefresh, TabMoves
<1>2. ASSUME NEW r \in Requests, RefreshRead(r) \/ LogoutRead(r) PROVE TabInv'
  <2>1. /\ Others(r) /\ Keeps(r) /\ UNCHANGED <<rows, cookie, bounds>>
        /\ req'[r].pc \in {"answer", "rotate", "revoke"}
        /\ req'[r].pc = "rotate" => /\ req[r].kind = "refresh" /\ req[r].raw \in Issued
                                    /\ status[req[r].raw] = "live"
    BY <1>0, <1>2, ReadEffect
  <2>2. Kinds(req[r])'
    BY <2>1 DEF TabInv, Kinds, Keeps
  <2>3. HoldsLast(req[r])'
    BY <2>1 DEF TabInv, HoldsLast, NoDouble, Live, Issued, Keeps, rows
  <2> QED BY <1>0, <2>1, <2>2, <2>3, TabMoves DEF Keeps
<1>3. ASSUME NEW r \in Requests, RefreshFlush(r) PROVE TabInv'
  <2>1. /\ Others(r) /\ Keeps(r) /\ UNCHANGED <<rows, cookie, bounds>>
        /\ req[r].pc = "rotate" /\ req'[r].pc = "commit"
    BY <1>0, <1>3, FlushEffect
  <2>2. Kinds(req[r])' /\ HoldsLast(req[r])'
    BY <2>1 DEF TabInv, Kinds, HoldsLast, Keeps, rows
  <2> QED BY <1>0, <2>1, <2>2, TabMoves DEF Keeps
<1>4. ASSUME NEW r \in Requests, LoginCommit(r) PROVE TabInv'
  <2> PICK t : t = req'[r].new
    OBVIOUS
  <2>1. /\ Others(r) /\ Keeps(r) /\ req[r].kind = "login" /\ req'[r].pc = "answer"
        /\ t \in Tokens \ Issued /\ status'[t] = "live" /\ family'[t] = t
        /\ \A u \in Tokens : u # t => status'[u] = status[u] /\ family'[u] = family[u]
    BY <1>0, <1>4, LoginEffect
  <2>2. \A u \in Tokens : status[u] = "live" => u \in Issued /\ family[u] \in Issued
    BY <1>0 DEF IInv, TypeOK, Issued
  <2>3. NoDouble'
    BY <2>1, <2>2 DEF TabInv, NoDouble, Live
  <2>4. OneRefresh'
    BY <2>1 DEF TabInv, OneRefresh, Others, Keeps
  <2>5. ASSUME NEW s \in Requests PROVE Kinds(req[s])' /\ HoldsLast(req[s])'
    <3>1. CASE s = r
      BY <2>1, <3>1 DEF TabInv, Kinds, HoldsLast, Keeps
    <3>2. CASE s # r
      <4>1. req'[s] = req[s] /\ Kinds(req[s])' /\ Carries(req[s])
        BY <1>0, <2>1, <3>2 DEF TabInv, Kinds, Others, IInv
      <4>2. ASSUME req[s].pc \in {"rotate", "commit"}, NEW u \in Tokens,
                   status'[u] = "live", family'[u] = family'[req[s].raw]
            PROVE  u = req[s].raw
        <5>1. req[s].raw \in Issued /\ req[s].raw \in Tokens /\ family[req[s].raw] \in Issued
          BY <1>0, <4>1, <4>2 DEF Carries, Holding, IInv, TypeOK, Issued
        <5>2. u # t /\ req[s].raw # t
          BY <2>1, <4>2, <5>1
        <5> QED BY <2>1, <4>2, <5>1, <5>2 DEF TabInv, HoldsLast
      <4> QED BY <4>1, <4>2 DEF HoldsLast
    <3> QED BY <3>1, <3>2
  <2> QED BY <1>0, <2>3, <2>4, <2>5 DEF TabInv
<1>5. ASSUME NEW r \in Requests, RefreshCommit(r) PROVE TabInv'
  <2> PICK t, old : t = req[r].new /\ old = req[r].raw
    OBVIOUS
  <2>1. /\ Others(r) /\ Keeps(r) /\ req[r].pc = "commit" /\ req'[r].pc = "answer"
        /\ t \in Tokens \ Issued /\ old \in Issued
        /\ \A u \in Tokens : /\ u # t => family'[u] = family[u]
                             /\ u \notin {t, old} => status'[u] = status[u]
        /\ status'[t] = "live" /\ status'[old] = "revoked" /\ family'[t] = family[old]
    BY <1>0, <1>5, CommitEffect
  <2>2. \A u \in Tokens : status[u] = "live" /\ family[u] = family[old] => u = old
    BY <2>1 DEF TabInv, HoldsLast
  <2>3. NoDouble'
    BY <2>1, <2>2 DEF TabInv, NoDouble, Live
  <2>4. OneRefresh'
    BY <2>1 DEF TabInv, OneRefresh, Others, Keeps
  <2>5. req[r].kind = "refresh"
    BY <2>1 DEF TabInv, Kinds
  <2>6. ASSUME NEW s \in Requests PROVE Kinds(req[s])' /\ HoldsLast(req[s])'
    <3>1. CASE s = r
      BY <2>1, <3>1 DEF TabInv, Kinds, HoldsLast, Keeps
    <3>2. CASE s # r
      <4>1. req'[s] = req[s] /\ req[s].kind # "refresh"
        BY <2>1, <2>5, <3>2 DEF TabInv, OneRefresh, Others
      <4> QED BY <4>1 DEF TabInv, Kinds, HoldsLast
    <3> QED BY <3>1, <3>2
  <2> QED BY <1>0, <2>3, <2>4, <2>6 DEF TabInv
<1>6. ASSUME UNCHANGED family, \A t \in Tokens : status'[t] = "live" => status[t] = "live",
             \A s \in Requests : /\ req'[s].kind = req[s].kind /\ req'[s].tab = req[s].tab
                                 /\ req'[s].pc \in {"rotate", "commit"} => req'[s] = req[s]
      PROVE  TabInv'
  <2>1. NoDouble'
    BY <1>6 DEF TabInv, NoDouble, Live
  <2>2. OneRefresh'
    BY <1>6 DEF TabInv, OneRefresh
  <2>3. ASSUME NEW s \in Requests PROVE Kinds(req[s])' /\ HoldsLast(req[s])'
    BY <1>6 DEF TabInv, Kinds, HoldsLast
  <2> QED BY <1>0, <2>1, <2>2, <2>3 DEF TabInv
<1>7. ASSUME NEW r \in Requests, Revoke(r) PROVE TabInv'
  BY <1>0, <1>6, <1>7, RevokeEffect DEF Others, Keeps
<1>8. ASSUME NEW r \in Requests, Answer(r) \/ AnswerLost(r) PROVE TabInv'
  <2>1. Others(r) /\ req'[r] = Idle /\ UNCHANGED rows
    BY <1>0, <1>8, OverEffect
  <2>2. req'[r].kind = "none" /\ req'[r].pc = "idle"
    BY <2>1 DEF Idle
  <2>3. Kinds(req[r])' /\ HoldsLast(req[r])'
    BY <2>2 DEF Kinds, HoldsLast
  <2> QED BY <1>0, <2>1, <2>2, <2>3, TabMoves
<1>9. ASSUME NEW r \in Requests, RequestError(r) PROVE TabInv'
  BY <1>0, <1>6, <1>9, ErrorEffect DEF Others, Keeps, rows
<1>10. ASSUME NEW t \in Tokens, Expire(t) PROVE TabInv'
  <2>1. \A u \in Tokens : status'[u] = "live" => status[u] = "live"
    BY <1>0, <1>10 DEF Expire, IInv, TypeOK
  <2> QED BY <1>6, <1>10, <2>1 DEF Expire
<1>11. ASSUME NEW r \in Requests, Abandoned(r) PROVE TabInv'
  <2>1. /\ Others(r) /\ req'[r].kind = req[r].kind /\ req'[r].pc = req[r].pc
        /\ UNCHANGED rows /\ req[r].kind # "refresh"
    BY <1>0, <1>11, AbandonEffect
  <2>2. Kinds(req[r])' /\ HoldsLast(req[r])'
    BY <2>1 DEF TabInv, Kinds, HoldsLast
  <2> QED BY <1>0, <2>1, <2>2, TabMoves
<1>12. CASE UNCHANGED vars
  BY <1>6, <1>12 DEF vars
<1> QED
  BY <1>1, <1>2, <1>3, <1>4, <1>5, <1>7, <1>8, <1>9, <1>10, <1>11, <1>12
     DEF Next, Login, BeginLogin, Refresh, Logout, BeginLogout, BeginRefresh

(* Until a page lets go of a refresh.                                      *)
UncutInv == IInv /\ CutCounts /\ (~cut => TabInv)

LEMMA CutStays == ASSUME IInv, [Next]_vars PROVE cut => cut'
<1>1. ASSUME NEW r \in Requests, Login(r) \/ Refresh(r) \/ Logout(r) \/ Revoke(r)
      PROVE  UNCHANGED cut
  BY <1>1 DEF Login, BeginLogin, LoginCommit, Refresh, BeginRefresh, RefreshRead, RefreshFlush,
              RefreshCommit, Logout, BeginLogout, LogoutRead, Revoke, RevokeStarts, RevokeCommit,
              bounds
<1>2. ASSUME NEW r \in Requests,
             Answer(r) \/ AnswerLost(r) \/ Abandoned(r) \/ RequestError(r)
      PROVE  cut => cut'
  BY <1>2 DEF Answer, AnswerLost, Abandoned, RequestError, bounds
<1>3. ASSUME NEW t \in Tokens, Expire(t) PROVE UNCHANGED cut
  BY <1>3 DEF Expire, bounds
<1> QED BY <1>1, <1>2, <1>3 DEF Next, vars

LEMMA UncutNext == ASSUME OneTab, UncutInv, [Next]_vars PROVE UncutInv'
BY NextInv, CutNext, CutStays, TabNext DEF UncutInv

LEMMA TabInit == Init => UncutInv /\ CookieInv
<1> SUFFICES ASSUME Init PROVE UncutInv /\ CookieInv
  OBVIOUS
<1>1. \A r \in Requests : req[r].kind = "none" /\ req[r].pc = "idle" /\ req[r].new = NoToken
  BY DEF Init, Idle
<1>2. IInv /\ cookie = NoToken /\ \A t \in Tokens : status[t] = "unused"
  BY InitInv DEF Init
<1>3. TabInv
  BY <1>1, <1>2 DEF TabInv, OneRefresh, NoDouble, Live, Kinds, HoldsLast
<1>4. CookieInv
  BY <1>1, <1>2 DEF CookieInv, Bringing
<1>5. CutCounts
  BY <1>1 DEF CutCounts, Init
<1> QED BY <1>2, <1>3, <1>4, <1>5 DEF UncutInv

(* CookieInv, as long as there was no failure and no logout.               *)
Tidy(r) ==
    /\ req[r].kind # "logout" /\ req[r].pc \notin {"revoke", "update"}
    /\ req[r].pc \in {"sent", "rotate"} => req[r].new = NoToken
    /\ /\ req[r].kind = "refresh" /\ req[r].raw # NoToken
       /\ req[r].pc \in {"sent", "rotate", "commit"}
       => status[req[r].raw] = "live"
    /\ Bringing(req[r]) => status[req[r].new] = "live" /\ req[r].new # cookie

Apart(r, q) ==
    /\ Bringing(req[r]) => req[r].new # req[q].raw
    /\ Bringing(req[r]) /\ Bringing(req[q]) /\ req[r].new = req[q].new => r = q

Renewed ==
    \/ cookie = NoToken \/ status[cookie] = "live"
    \/ \E r \in Requests : req[r].kind = "refresh" /\ Bringing(req[r]) /\ req[r].raw = cookie

LEMMA CookieParts ==
    CookieInv <=> (logouts = 0 /\ faults = 0 =>
        (\A r \in Requests : Tidy(r)) /\ (\A r, q \in Requests : Apart(r, q)) /\ Renewed)
BY DEF CookieInv, Tidy, Apart, Renewed

LEMMA CookieNext == ASSUME OneTab, UncutInv, CookieInv, [Next]_vars PROVE CookieInv'
<1>1. logouts \in Nat /\ faults \in Nat /\ logouts + 1 # 0 /\ faults + 1 # 0
  BY TokensAssumption DEF UncutInv, IInv, TypeOK
<1>2. logouts' \in {logouts, logouts + 1} /\ faults' \in {faults, faults + 1}
  BY DEF Next, vars, Login, BeginLogin, LoginCommit, Refresh, BeginRefresh, RefreshRead,
         RefreshFlush, RefreshCommit, Logout, BeginLogout, LogoutRead, Revoke, RevokeStarts,
         RevokeCommit, Answer, AnswerLost, Abandoned, RequestError, Expire, bounds
<1> SUFFICES ASSUME logouts' = 0, faults' = 0
             PROVE  (\A r \in Requests : Tidy(r)') /\ (\A r, q \in Requests : Apart(r, q)')
                    /\ Renewed'
  BY DEF CookieInv, Tidy, Apart, Renewed
<1>3. logouts' = logouts /\ faults' = faults
  BY <1>1, <1>2
<1>0. IInv /\ IInv' /\ TabInv /\ TabInv' /\ \A r \in Requests : req[r].pc # "idle" => req[r].tab # NoTab
  <2>1. UncutInv' /\ ~cut /\ ~cut' /\ \A r \in Requests : req[r].pc # "idle" => req[r].tab # NoTab
    BY <1>3, UncutNext DEF UncutInv, CutCounts
  <2> QED BY <2>1 DEF UncutInv
<1>4. (\A r \in Requests : Tidy(r)) /\ (\A r, q \in Requests : Apart(r, q)) /\ Renewed
  BY <1>3, CookieParts
<1>5. \A r \in Requests : /\ req[r].raw \in Issued \cup {NoToken}
                          /\ req[r].pc # "commit" => req[r].new \in Issued \cup {NoToken}
  BY <1>0 DEF IInv, Carries
<1> DEFINE Goal == (\A r \in Requests : Tidy(r)') /\ (\A r, q \in Requests : Apart(r, q)')
                   /\ Renewed'
(* One request moves without bringing anything new, and the rows stay.     *)
<1>6. ASSUME NEW r \in Requests, Others(r), UNCHANGED <<rows, cookie>>, Tidy(r)',
             ~Bringing(req'[r]), ~Bringing(req[r]),
             req'[r].raw \in {req[r].raw, cookie, NoToken}
      PROVE  Goal
  <2>1. \A s \in Requests : Tidy(s)'
    BY <1>4, <1>6 DEF Tidy, Others, rows
  <2>2. \A s, q \in Requests : Apart(s, q)'
    <3> SUFFICES ASSUME NEW s \in Requests, NEW q \in Requests PROVE Apart(s, q)'
      OBVIOUS
    <3>1. CASE s = r
      BY <1>6, <3>1 DEF Apart
    <3>2. CASE s # r /\ q # r
      BY <1>4, <1>6, <3>2 DEF Apart, Others
    <3>3. CASE s # r /\ q = r
      <4>1. req'[s] = req[s] /\ Tidy(s) /\ Apart(s, r)
        BY <1>4, <1>6, <3>3 DEF Others
      <4> QED BY <1>6, <3>3, <4>1 DEF Apart, Tidy, Bringing
    <3> QED BY <3>1, <3>2, <3>3
  <2>3. Renewed'
    BY <1>4, <1>6 DEF Renewed, Others, rows
  <2> QED BY <2>1, <2>2, <2>3
<1>7. ASSUME NEW r \in Requests, NEW tab \in Tabs, NEW kind \in {"login", "refresh"},
             Send(r, tab, kind), UNCHANGED <<rows, cookie>>,
             kind = "refresh" => BeginRefresh(r, tab)
      PROVE  Goal
  <2>1. /\ Others(r) /\ req[r].pc = "idle" /\ req'[r].kind = kind /\ req'[r].pc = "sent"
        /\ req'[r].raw = cookie /\ req'[r].new = NoToken
    BY <1>0, <1>7, SendEffect
  <2>2. kind = "refresh" => cookie = NoToken \/ status[cookie] = "live"
    BY <1>0, <1>4, <1>7, FirstRefresh DEF Renewed
  <2>3. Tidy(r)'
    BY <1>7, <2>1, <2>2 DEF Tidy, Bringing, rows
  <2> QED BY <1>6, <1>7, <2>1, <2>3 DEF Bringing
<1>8. ASSUME NEW r \in Requests, RefreshRead(r) \/ LogoutRead(r) PROVE Goal
  <2>1. /\ Others(r) /\ Keeps(r) /\ req'[r].new = req[r].new /\ req[r].pc = "sent"
        /\ UNCHANGED <<rows, cookie, bounds>>
        /\ \/ req'[r].pc \in {"answer", "rotate"}
           \/ /\ req'[r].pc = "revoke" /\ req[r].raw # NoToken
              /\ \/ req[r].kind = "logout"
                 \/ req[r].kind = "refresh" /\ status[req[r].raw] = "revoked"
    BY <1>0, <1>8, ReadEffect
  <2>2. req'[r].pc \in {"answer", "rotate"} /\ req'[r].new = NoToken
    BY <1>4, <2>1 DEF Tidy
  <2>3. Tidy(r)'
    BY <1>4, <2>1, <2>2 DEF Tidy, Bringing, Keeps, rows
  <2> QED BY <1>6, <2>1, <2>2, <2>3 DEF Bringing, Keeps
<1>9. ASSUME NEW r \in Requests, RefreshFlush(r) PROVE Goal
  <2>1. /\ Others(r) /\ Keeps(r) /\ UNCHANGED <<rows, cookie, bounds>>
        /\ req[r].pc = "rotate" /\ req'[r].pc = "commit"
    BY <1>0, <1>9, FlushEffect
  <2>2. Tidy(r)'
    BY <1>4, <2>1 DEF Tidy, Bringing, Keeps, rows
  <2> QED BY <1>6, <2>1, <2>2 DEF Bringing, Keeps
(* A token is issued and brought by r, which replaces old or nothing.      *)
<1>10. ASSUME NEW r \in Requests, NEW t \in Tokens \ Issued, Others(r), Keeps(r),
              UNCHANGED cookie, req[r].pc \in {"sent", "commit"},
              req[r].kind # "logout", req'[r].pc = "answer", req'[r].new = t, status'[t] = "live",
              \A u \in Issued : status'[u] = status[u]
                    \/ (req[r].kind = "refresh" /\ u = req[r].raw)
       PROVE  Goal
  <2>1. t # NoToken /\ t # cookie /\ (\A s \in Requests : req[s].raw # t) /\ Bringing(req'[r])
    BY <1>0, <1>5, <1>10, TokensAssumption DEF IInv, TypeOK, Bringing
  <2>2. Tidy(r)'
    BY <1>10, <2>1 DEF Tidy, Keeps, Bringing
  <2>3. ASSUME NEW s \in Requests \ {r} PROVE Tidy(s)'
    <3>1. req'[s] = req[s] /\ Tidy(s) /\ Apart(s, r)
      BY <1>4, <1>10 DEF Others
    <3>2. Bringing(req[s]) => req[s].new \in Issued /\ status'[req[s].new] = status[req[s].new]
      BY <1>5, <1>10, <3>1 DEF Bringing, Apart
    <3>3. ASSUME req[s].kind = "refresh", req[s].raw # NoToken
          PROVE  status'[req[s].raw] = status[req[s].raw]
      <4>1. req[r].kind # "refresh"
        BY <1>0, <3>3 DEF TabInv, OneRefresh
      <4> QED BY <1>5, <1>10, <3>3, <4>1
    <3> QED BY <1>10, <3>1, <3>2, <3>3 DEF Tidy
  <2>4. ASSUME NEW s \in Requests, NEW q \in Requests PROVE Apart(s, q)'
    <3>1. req'[q].raw = req[q].raw
      BY <1>10 DEF Others, Keeps
    <3>2. CASE s = r
      <4>1. q # r /\ Bringing(req[q]) => req[q].new # t
        BY <1>5, <1>10, <2>1 DEF Bringing
      <4> QED BY <1>10, <2>1, <3>1, <3>2, <4>1 DEF Apart, Others
    <3>3. CASE s # r
      <4>1. Bringing(req[s]) => req[s].new # t
        BY <1>5, <1>10, <2>1 DEF Bringing
      <4>2. req'[s] = req[s] /\ Apart(s, q)
        BY <1>4, <1>10, <3>3 DEF Others
      <4>3. q # r => req'[q] = req[q]
        BY <1>10 DEF Others
      <4> QED BY <1>10, <3>1, <4>1, <4>2, <4>3 DEF Apart
    <3> QED BY <3>2, <3>3
  <2>5. Renewed'
    <3>1. CASE cookie = NoToken
      BY <1>10, <3>1 DEF Renewed
    <3>2. CASE cookie # NoToken /\ status[cookie] = "live"
      <4>1. cookie \in Issued
        BY <1>0, <3>2 DEF IInv, TypeOK
      <4> QED BY <1>10, <2>1, <3>2, <4>1 DEF Renewed, Keeps
    <3>3. ASSUME NEW q \in Requests,
                 req[q].kind = "refresh", Bringing(req[q]), req[q].raw = cookie
          PROVE  Renewed'
      <4>1. q # r
        BY <1>10, <3>3 DEF Bringing
      <4> QED BY <1>10, <3>3, <4>1 DEF Renewed, Others
    <3> QED BY <1>4, <3>1, <3>2, <3>3 DEF Renewed
  <2> QED BY <2>2, <2>3, <2>4, <2>5
<1>11. ASSUME NEW r \in Requests, LoginCommit(r) PROVE Goal
  BY <1>0, <1>10, <1>11, LoginEffect DEF Issued
<1>12. ASSUME NEW r \in Requests, RefreshCommit(r) PROVE Goal
  <2>1. req[r].pc = "commit" /\ req[r].kind = "refresh"
    BY <1>0, <1>12 DEF TabInv, Kinds, RefreshCommit
  <2> QED BY <1>0, <1>10, <1>12, <2>1, CommitEffect DEF Issued
<1>13. ASSUME NEW r \in Requests, Revoke(r) PROVE Goal
  BY <1>0, <1>4, <1>13, RevokeEffect DEF Tidy
<1>14. ASSUME NEW r \in Requests, Answer(r) \/ AnswerLost(r) PROVE Goal
  <2>1. /\ Others(r) /\ req'[r] = Idle /\ req[r].pc = "answer" /\ UNCHANGED rows
        /\ \/ ~Bringing(req[r]) /\ UNCHANGED <<cookie, bounds>>
           \/ faults' = faults + 1
           \/ Bringing(req[r]) /\ cookie' = req[r].new /\ UNCHANGED bounds
    BY <1>0, <1>14, OverEffect
  <2>2. req'[r].kind = "none" /\ req'[r].pc = "idle" /\ req'[r].raw = NoToken
    BY <2>1, IdleType DEF Idle
  <2>3. Tidy(r)' /\ ~Bringing(req'[r])
    BY <2>2 DEF Tidy, Bringing
  <2>4. CASE ~Bringing(req[r]) /\ UNCHANGED <<cookie, bounds>>
    BY <1>6, <2>1, <2>2, <2>3, <2>4
  <2>5. CASE Bringing(req[r]) /\ cookie' = req[r].new
    <3>1. status[req[r].new] = "live" /\ \A s \in Requests : Apart(s, r) /\ Tidy(s)
      BY <1>4, <2>5 DEF Tidy
    <3>2. Renewed'
      BY <2>1, <2>5, <3>1 DEF Renewed, rows
    <3>3. ASSUME NEW s \in Requests PROVE Tidy(s)'
      BY <2>1, <2>3, <2>5, <3>1 DEF Tidy, Apart, Others, rows
    <3>4. ASSUME NEW s \in Requests, NEW q \in Requests PROVE Apart(s, q)'
      <4>1. CASE s = r
        BY <2>3, <4>1 DEF Apart
      <4>2. CASE s # r /\ q = r
        BY <2>1, <2>2, <2>3, <4>2 DEF Apart, Others, Bringing
      <4>3. CASE s # r /\ q # r
        BY <1>4, <2>1, <4>3 DEF Apart, Others
      <4> QED BY <4>1, <4>2, <4>3
    <3> QED BY <3>2, <3>3, <3>4
  <2> QED BY <1>1, <1>3, <2>1, <2>4, <2>5
<1>15. ASSUME NEW r \in Requests, RequestError(r) \/ Abandoned(r) PROVE Goal
  BY <1>0, <1>1, <1>3, <1>15, ErrorEffect, AbandonEffect
<1>16. ASSUME NEW t \in Tokens, Expire(t) PROVE Goal
  <2>1. /\ UNCHANGED <<family, req, bounds>> /\ \A r \in Requests : req[r].pc = "idle"
        /\ cookie' = IF cookie = t THEN NoToken ELSE cookie
        /\ \A u \in Tokens : u # t => status'[u] = status[u]
    BY <1>0, <1>16 DEF Expire, IInv, TypeOK
  <2>2. Renewed'
    BY <1>0, <1>4, <2>1 DEF Renewed, Bringing, IInv, TypeOK, Issued
  <2> QED BY <1>4, <2>1, <2>2 DEF Tidy, Apart, Bringing
<1>17. CASE UNCHANGED vars
  BY <1>4, <1>17 DEF vars, Tidy, Apart, Renewed
<1>18. ASSUME NEW r \in Requests, NEW tab \in Tabs, BeginLogout(r, tab) PROVE Goal
  BY <1>1, <1>3, <1>18 DEF BeginLogout
<1>19. ASSUME NEW r \in Requests, NEW tab \in Tabs, BeginLogin(r, tab) \/ BeginRefresh(r, tab)
       PROVE  Goal
  BY <1>7, <1>19 DEF BeginLogin, BeginRefresh
<1> QED
  BY <1>8, <1>9, <1>11, <1>12, <1>13, <1>14, <1>15, <1>16, <1>17, <1>18, <1>19
     DEF Next, Login, Refresh, Logout

(* With one tab, a family never has two tokens that can be used: while a   *)
(* rotation is under way nobody else replaces the token it replaces        *)
(* (verify_and_rotate_refresh_token), whatever fails or is lost, as long   *)
(* as no page lets go of a refresh the server is at work on.               *)
THEOREM OneTokenLives == ASSUME OneTab PROVE Spec => []OneLive
<1>1. UncutInv => OneLive
  BY DEF UncutInv, TabInv, OneLive
<1>2. UncutInv /\ [Next]_vars => UncutInv'
  BY UncutNext
<1>3. Init => UncutInv
  BY TabInit
<1> QED BY <1>1, <1>2, <1>3, PTL DEF Spec

(* With one tab, and until something fails or the user logs out, the       *)
(* cookie at rest can be exchanged, however logins and refreshes overlap.  *)
THEOREM CookieStaysGood == ASSUME OneTab PROVE Spec => []CookieLives
<1>1. ASSUME UncutInv, CookieInv PROVE CookieLives
  BY <1>1 DEF CookieInv, CookieLives, Quiet, Bringing
<1>2. UncutInv /\ CookieInv /\ [Next]_vars => (UncutInv /\ CookieInv)'
  BY UncutNext, CookieNext
<1>3. Init => UncutInv /\ CookieInv
  BY TabInit
<1> QED BY <1>1, <1>2, <1>3, PTL DEF Spec

-----------------------------------------------------------------------------
(* What a refresh that is refused tells, with any number of logouts.  What *)
(* matters of a token is whether it is the one of its family that can be   *)
(* used, or the family has ended.                                          *)
Dead(f) == \A t \in Tokens : status[t] = "live" => family[t] # f
Head(t) ==
    \/ t = NoToken \/ status[t] = "live"
    \/ Dead(family[t]) /\ ~Exchanging(family[t])

(* A refresh that holds the cookie, or the one that replaces it.           *)
Leads(q) == q.kind = "refresh" /\ (q.pc \in {"rotate", "commit"} \/ Bringing(q))

Fit(r) ==
    /\ req[r].pc \in {"sent", "rotate", "revoke", "update"} => req[r].new = NoToken
    /\ req[r].kind = "refresh" /\ req[r].pc = "sent" => Head(req[r].raw)
    /\ Bringing(req[r]) => Head(req[r].new) /\ req[r].new # cookie

Led == Head(cookie) \/ \E r \in Requests : Leads(req[r]) /\ req[r].raw = cookie

AllFit ==
    (\A r \in Requests : Fit(r)) /\ (\A r, q \in Requests : Apart(r, q)) /\ Led

HeadInv == faults = 0 => AllFit

LEMMA DeadMeans ==
    ASSUME NEW t \in Tokens PROVE Dead(family[t]) <=> Live(FamilyOf(t)) = {}
BY DEF Dead, Live, FamilyOf, Issued

(* A step of one request that brings nothing.                              *)
LEMMA FitMoves ==
    ASSUME AllFit, NEW r \in Requests, Others(r), UNCHANGED cookie,
           ~Bringing(req[r]), ~Bringing(req'[r]), Fit(r)', Led',
           req'[r].raw \in {req[r].raw, cookie, NoToken},
           \A s \in Requests \ {r} :
                /\ req[s].kind = "refresh" /\ req[s].pc = "sent" => Head(req[s].raw)'
                /\ Bringing(req[s]) => Head(req[s].new)'
    PROVE  AllFit'
<1>1. ASSUME NEW s \in Requests PROVE Fit(s)'
  <2>1. CASE s = r
    BY <2>1
  <2>2. CASE s # r
    <3>1. req'[s] = req[s] /\ Fit(s)
      BY <2>2 DEF AllFit, Others
    <3> QED BY <2>2, <3>1 DEF Fit
  <2> QED BY <2>1, <2>2
<1>2. ASSUME NEW s \in Requests, NEW q \in Requests PROVE Apart(s, q)'
  <2>1. CASE s = r
    BY <2>1 DEF Apart
  <2>2. CASE s # r /\ q # r
    BY <2>2 DEF AllFit, Apart, Others
  <2>3. CASE s # r /\ q = r
    <3>1. req'[s] = req[s] /\ Fit(s) /\ Apart(s, r)
      BY <2>3 DEF AllFit, Others
    <3> QED BY <2>3, <3>1 DEF Apart, Fit, Bringing
  <2> QED BY <2>1, <2>2, <2>3
<1> QED BY <1>1, <1>2 DEF AllFit

(* The rows stay, and whoever begins an exchange has a live token for it.  *)
LEMMA HeadKept ==
    ASSUME NEW r \in Requests, Others(r), UNCHANGED rows,
           req'[r].pc \in {"rotate", "commit"} =>
              \/ req[r].pc \in {"rotate", "commit"} /\ req'[r].raw = req[r].raw
              \/ req'[r].raw \in Tokens /\ status[req'[r].raw] = "live"
    PROVE  \A t : Head(t) => Head(t)'
<1> SUFFICES ASSUME NEW t, Head(t) PROVE Head(t)'
  OBVIOUS
<1>1. CASE t = NoToken \/ status[t] = "live"
  BY <1>1 DEF Head, rows
<1>2. CASE Dead(family[t]) /\ ~Exchanging(family[t])
  <2>1. Dead(family[t])'
    BY <1>2 DEF Dead, rows
  <2>2. ~Exchanging(family[t])'
    BY <1>2 DEF Exchanging, Dead, Others, rows
  <2> QED BY <2>1, <2>2 DEF Head
<1> QED BY <1>1, <1>2 DEF Head

LEMMA QuietMoves ==
    ASSUME AllFit, NEW r \in Requests, Others(r), UNCHANGED <<rows, cookie>>,
           ~Bringing(req[r]), ~Bringing(req'[r]), Fit(r)',
           req'[r].raw \in {req[r].raw, cookie, NoToken},
           Leads(req[r]) => Leads(req'[r]) /\ req'[r].raw = req[r].raw,
           req'[r].pc \in {"rotate", "commit"} =>
              \/ req[r].pc \in {"rotate", "commit"} /\ req'[r].raw = req[r].raw
              \/ req'[r].raw \in Tokens /\ status[req'[r].raw] = "live"
    PROVE  AllFit'
<1>1. \A t : Head(t) => Head(t)'
  BY HeadKept
<1>2. Led'
  <2>1. CASE Head(cookie)
    BY <1>1, <2>1 DEF Led
  <2>2. ASSUME NEW q \in Requests, Leads(req[q]), req[q].raw = cookie PROVE Led'
    BY <2>2 DEF Led, Others
  <2> QED BY <2>1, <2>2 DEF AllFit, Led
<1>3. ASSUME NEW s \in Requests \ {r}
      PROVE  /\ req[s].kind = "refresh" /\ req[s].pc = "sent" => Head(req[s].raw)'
             /\ Bringing(req[s]) => Head(req[s].new)'
  BY <1>1 DEF AllFit, Fit, Others
<1> QED BY <1>2, <1>3, FitMoves

(* When tokens are revoked, a token stays what it is, unless it is being   *)
(* exchanged.                                                              *)
LEMMA RevokedHeads ==
    ASSUME TabInv, UNCHANGED family, NEW r \in Requests, Others(r),
           req'[r].pc \notin {"rotate", "commit"},
           \A t \in Tokens : status'[t] = "live" => status[t] = "live",
           NEW x \in Issued \cup {NoToken}, Head(x)
    PROVE  \/ Head(x)'
           \/ \E q \in Requests : /\ req[q].kind = "refresh" /\ req[q].raw = x
                                  /\ req[q].pc \in {"rotate", "commit"}
<1>1. \A f : Exchanging(f)' => Exchanging(f)
  BY DEF Exchanging, Others
<1>2. CASE x = NoToken \/ status'[x] = "live"
  BY <1>2 DEF Head
<1>3. CASE x # NoToken /\ Dead(family[x]) /\ ~Exchanging(family[x])
  <2>1. Dead(family[x])'
    BY <1>3 DEF Dead
  <2> QED BY <1>1, <1>3, <2>1 DEF Head
<1>4. CASE x # NoToken /\ status[x] = "live" /\ status'[x] # "live"
  <2>1. x \in Tokens /\ x \in Live(Tokens)
    BY <1>4 DEF Issued, Live
  <2>2. Dead(family[x])'
    BY <1>4, <2>1 DEF Dead, TabInv, NoDouble, Live
  <2>3. CASE Exchanging(family[x])
    <3>1. PICK q \in Requests : req[q].pc \in {"rotate", "commit"}
                                  /\ family[req[q].raw] = family[x]
      BY <2>3 DEF Exchanging
    <3> QED BY <1>4, <2>1, <3>1 DEF TabInv, HoldsLast, Kinds
  <2>4. CASE ~Exchanging(family[x])
    BY <1>1, <2>2, <2>4 DEF Head
  <2> QED BY <2>3, <2>4
<1> QED BY <1>2, <1>3, <1>4 DEF Head

LEMMA FitRevoke ==
    ASSUME TabInv, AllFit, NEW r \in Requests, Revoke(r) PROVE AllFit'
<1>0. IInv
  BY DEF TabInv
<1>1. /\ Others(r) /\ Keeps(r) /\ req'[r].new = req[r].new
      /\ req[r].pc \in {"revoke", "update"} /\ req'[r].pc \in {"update", "answer"}
      /\ UNCHANGED <<family, cookie, bounds>>
      /\ \A t \in Tokens : status'[t] = "live" => status[t] = "live"
  BY <1>0, RevokeEffect
<1>2. req'[r].new = NoToken /\ ~Bringing(req[r]) /\ ~Bringing(req'[r]) /\ ~Leads(req[r])
  BY <1>1 DEF AllFit, Fit, Bringing, Leads
<1>3. /\ cookie \in Issued \cup {NoToken}
      /\ \A s \in Requests : /\ req[s].raw \in Issued \cup {NoToken}
                             /\ Bringing(req[s]) => req[s].new \in Issued
  BY <1>0 DEF IInv, TypeOK, Carries, Bringing
<1>4. \A x \in Issued \cup {NoToken} : Head(x) =>
        \/ Head(x)'
        \/ \E q \in Requests : /\ req[q].kind = "refresh" /\ req[q].raw = x
                               /\ req[q].pc \in {"rotate", "commit"}
  BY <1>1, RevokedHeads
<1>5. Led'
  <2>1. \/ Head(cookie)'
        \/ \E q \in Requests : Leads(req[q]) /\ req[q].raw = cookie
    BY <1>1, <1>3, <1>4 DEF AllFit, Led, Leads
  <2>2. ASSUME NEW q \in Requests, Leads(req[q]), req[q].raw = cookie PROVE Led'
    <3>1. q # r
      BY <1>2, <2>2
    <3> QED BY <1>1, <2>2, <3>1 DEF Led, Others
  <2> QED BY <1>1, <2>1, <2>2 DEF Led
<1>6. Fit(r)'
  BY <1>1, <1>2 DEF Fit
<1>7. ASSUME NEW s \in Requests \ {r}
      PROVE  /\ req[s].kind = "refresh" /\ req[s].pc = "sent" => Head(req[s].raw)'
             /\ Bringing(req[s]) => Head(req[s].new)'
  <2>1. ASSUME req[s].kind = "refresh", req[s].pc = "sent" PROVE Head(req[s].raw)'
    <3>1. Head(req[s].raw)
      BY <2>1 DEF AllFit, Fit
    <3>2. \A q \in Requests : ~(req[q].kind = "refresh" /\ req[q].pc \in {"rotate", "commit"})
      BY <2>1 DEF TabInv, OneRefresh
    <3> QED BY <1>1, <1>3, <1>4, <3>1, <3>2 DEF Others
  <2>2. ASSUME Bringing(req[s]) PROVE Head(req[s].new)'
    <3>1. Head(req[s].new) /\ \A q \in Requests : req[q].raw # req[s].new
      BY <2>2 DEF AllFit, Fit, Apart
    <3> QED BY <1>1, <1>3, <1>4, <2>2, <3>1 DEF Others
  <2> QED BY <2>1, <2>2
<1> QED BY <1>1, <1>2, <1>5, <1>6, <1>7, FitMoves DEF Keeps

(* A token is issued and brought by r, which replaces its own or nothing.  *)
LEMMA FitIssues ==
    ASSUME TabInv, AllFit, NEW r \in Requests, NEW t \in Tokens \ Issued, Others(r), Keeps(r),
           UNCHANGED cookie, req[r].pc \in {"sent", "commit"},
           req[r].pc = "commit" => req[r].kind = "refresh",
           req'[r].pc = "answer", req'[r].new = t, status'[t] = "live",
           \A x \in Issued : Head(x) => Head(x)' \/ (req[r].kind = "refresh" /\ x = req[r].raw)
    PROVE  AllFit'
<1>1. /\ cookie \in Issued \cup {NoToken}
      /\ \A s \in Requests : /\ req[s].raw \in Issued \cup {NoToken}
                             /\ Bringing(req[s]) => req[s].new \in Issued
  BY DEF TabInv, IInv, TypeOK, Carries, Bringing
<1>2. t # NoToken /\ t # cookie /\ (\A s \in Requests : req[s].raw # t) /\ Bringing(req'[r])
  BY <1>1, TokensAssumption DEF Bringing
<1>3. Fit(r)'
  BY <1>2 DEF Fit, Head, Keeps
<1>4. ASSUME NEW s \in Requests \ {r} PROVE Fit(s)'
  <2>1. req'[s] = req[s] /\ Fit(s) /\ Apart(s, r)
    BY DEF AllFit, Others
  <2>2. ASSUME req[s].kind = "refresh", req[s].pc = "sent" PROVE Head(req[s].raw)'
    <3>1. req[r].kind # "refresh" /\ Head(req[s].raw)
      BY <2>1, <2>2 DEF TabInv, OneRefresh, Fit
    <3>2. CASE req[s].raw = NoToken
      BY <2>1, <3>2 DEF Head
    <3>3. CASE req[s].raw \in Issued
      BY <2>1, <3>1, <3>3
    <3> QED BY <1>1, <3>2, <3>3
  <2>3. ASSUME Bringing(req[s]) PROVE Head(req[s].new)' /\ req[s].new # cookie
    <3>1. Head(req[s].new) /\ req[s].new # req[r].raw /\ req[s].new # cookie
      BY <2>1, <2>3 DEF Fit, Apart
    <3> QED BY <1>1, <2>1, <2>3, <3>1
  <2> QED BY <2>1, <2>2, <2>3 DEF Fit
<1>5. ASSUME NEW s \in Requests, NEW q \in Requests PROVE Apart(s, q)'
  <2>1. req'[q].raw = req[q].raw
    BY DEF Others, Keeps
  <2>2. CASE s = r
    <3>1. q # r /\ Bringing(req[q]) => req[q].new # t
      BY <1>1
    <3> QED BY <1>2, <2>1, <2>2, <3>1 DEF Apart, Others
  <2>3. CASE s # r
    <3>1. Bringing(req[s]) => req[s].new # t
      BY <1>1
    <3>2. req'[s] = req[s] /\ Apart(s, q)
      BY <2>3 DEF AllFit, Others
    <3>3. q # r => req'[q] = req[q]
      BY DEF Others
    <3> QED BY <2>1, <3>1, <3>2, <3>3 DEF Apart
  <2> QED BY <2>2, <2>3
<1>6. Led'
  <2>1. CASE cookie = NoToken
    BY <2>1 DEF Led, Head
  <2>2. CASE cookie \in Issued /\ Head(cookie)
    BY <1>2, <2>2 DEF Led, Leads, Keeps
  <2>3. ASSUME NEW q \in Requests, Leads(req[q]), req[q].raw = cookie PROVE Led'
    <3>1. CASE q = r
      BY <1>2, <2>3, <3>1 DEF Led, Leads, Keeps
    <3>2. CASE q # r
      BY <2>3, <3>2 DEF Led, Others
    <3> QED BY <3>1, <3>2
  <2> QED BY <1>1, <2>1, <2>2, <2>3 DEF AllFit, Led
<1> QED BY <1>3, <1>4, <1>5, <1>6 DEF AllFit

LEMMA FitLogin ==
    ASSUME TabInv, AllFit, NEW r \in Requests, LoginCommit(r) PROVE AllFit'
<1>0. IInv
  BY DEF TabInv
<1> PICK t : t = req'[r].new
  OBVIOUS
<1>1. /\ Others(r) /\ Keeps(r) /\ req[r].kind = "login" /\ req[r].pc = "sent"
      /\ req'[r].pc = "answer" /\ UNCHANGED cookie /\ t \in Tokens \ Issued
      /\ \A u \in Tokens : u # t => status'[u] = status[u] /\ family'[u] = family[u]
      /\ status'[t] = "live" /\ family'[t] = t
  BY <1>0, LoginEffect
<1>2. ASSUME NEW x \in Issued, Head(x) PROVE Head(x)'
  <2>1. x \in Tokens /\ x # t /\ family[x] # t /\ x # NoToken
    BY <1>0, <1>1, TokensAssumption DEF IInv, TypeOK, Issued
  <2>2. CASE status[x] = "live"
    BY <1>1, <2>1, <2>2 DEF Head
  <2>3. CASE Dead(family[x]) /\ ~Exchanging(family[x])
    <3>1. Dead(family[x])'
      BY <1>1, <2>1, <2>3 DEF Dead
    <3>2. ASSUME NEW q \in Requests, req'[q].pc \in {"rotate", "commit"}
          PROVE  req'[q] = req[q] /\ family'[req[q].raw] = family[req[q].raw]
      <4>1. req'[q] = req[q]
        BY <1>1, <3>2 DEF Others
      <4>2. req[q].raw \in Issued
        BY <1>0, <3>2, <4>1 DEF IInv, Carries, Holding
      <4> QED BY <1>1, <4>1, <4>2 DEF Issued
    <3>3. ~Exchanging(family[x])'
      BY <1>1, <2>1, <2>3, <3>2 DEF Exchanging
    <3> QED BY <3>1, <3>3 DEF Head
  <2> QED BY <1>2, <2>1, <2>2, <2>3 DEF Head
<1> QED BY <1>1, <1>2, FitIssues

LEMMA FitCommit ==
    ASSUME TabInv, AllFit, NEW r \in Requests, RefreshCommit(r) PROVE AllFit'
<1>0. IInv
  BY DEF TabInv
<1> PICK t, old : t = req[r].new /\ old = req[r].raw
  OBVIOUS
<1>1. /\ Others(r) /\ Keeps(r) /\ req'[r].new = t /\ req[r].pc = "commit"
      /\ req'[r].pc = "answer" /\ UNCHANGED cookie /\ t \in Tokens \ Issued /\ old \in Issued
      /\ \A u \in Tokens : /\ u # t => family'[u] = family[u]
                           /\ u \notin {t, old} => status'[u] = status[u]
      /\ status'[t] = "live" /\ status'[old] = "revoked" /\ family'[t] = family[old]
  BY <1>0, CommitEffect
<1>2. req[r].kind = "refresh"
  BY <1>1 DEF TabInv, Kinds
<1>3. ASSUME NEW x \in Issued, Head(x), x # old PROVE Head(x)'
  <2>1. x \in Tokens /\ x # t /\ x # NoToken
    BY <1>1, TokensAssumption DEF Issued
  <2>2. CASE status[x] = "live"
    BY <1>1, <1>3, <2>1, <2>2 DEF Head
  <2>3. CASE Dead(family[x]) /\ ~Exchanging(family[x])
    <3>1. family[x] # family[old]
      BY <1>1, <2>3 DEF Exchanging
    <3>2. Dead(family[x])'
      BY <1>1, <2>1, <2>3, <3>1 DEF Dead
    <3>3. ASSUME NEW q \in Requests, req'[q].pc \in {"rotate", "commit"}
          PROVE  req'[q] = req[q] /\ family'[req[q].raw] = family[req[q].raw]
      <4>1. req'[q] = req[q]
        BY <1>1, <3>3 DEF Others
      <4>2. req[q].raw \in Issued
        BY <1>0, <3>3, <4>1 DEF IInv, Carries, Holding
      <4> QED BY <1>1, <4>1, <4>2 DEF Issued
    <3>4. ~Exchanging(family[x])'
      BY <1>1, <2>1, <2>3, <3>3 DEF Exchanging
    <3> QED BY <3>2, <3>4 DEF Head
  <2> QED BY <1>3, <2>1, <2>2, <2>3 DEF Head
<1> QED BY <1>1, <1>2, <1>3, FitIssues

LEMMA HeadNext == ASSUME OneTab, UncutInv, HeadInv, [Next]_vars PROVE HeadInv'
<1>0. IInv /\ IInv' /\ faults \in Nat
  BY NextInv DEF UncutInv, IInv, TypeOK
<1>1. faults' \in {faults, faults + 1}
  <2>1. ASSUME NEW r \in Requests, Login(r) \/ Refresh(r) \/ Logout(r) \/ Revoke(r)
        PROVE  UNCHANGED faults
    <3>1. CASE Login(r)
      BY <3>1 DEF Login, BeginLogin, LoginCommit, bounds
    <3>2. CASE Refresh(r)
      BY <3>2 DEF Refresh, BeginRefresh, RefreshRead, RefreshFlush, RefreshCommit, bounds
    <3>3. CASE Logout(r)
      BY <3>3 DEF Logout, BeginLogout, LogoutRead, bounds
    <3>4. CASE Revoke(r)
      BY <3>4 DEF Revoke, RevokeStarts, RevokeCommit, bounds
    <3> QED BY <2>1, <3>1, <3>2, <3>3, <3>4
  <2>2. ASSUME NEW r \in Requests,
               Answer(r) \/ AnswerLost(r) \/ Abandoned(r) \/ RequestError(r)
        PROVE  faults' \in {faults, faults + 1}
    BY <2>2 DEF Answer, AnswerLost, Abandoned, RequestError, bounds
  <2>3. ASSUME NEW t \in Tokens, Expire(t) PROVE UNCHANGED faults
    BY <2>3 DEF Expire, bounds
  <2> QED BY <2>1, <2>2, <2>3 DEF Next, vars
<1> SUFFICES ASSUME faults' = 0 PROVE AllFit'
  BY DEF HeadInv, AllFit, Fit, Apart, Led
<1>2. /\ faults' = faults /\ AllFit /\ TabInv
      /\ \A r \in Requests : req[r].pc # "idle" => req[r].tab # NoTab
  <2>1. faults' = faults /\ faults = 0
    BY <1>0, <1>1
  <2>2. ~cut /\ \A r \in Requests : req[r].pc # "idle" => req[r].tab # NoTab
    BY <2>1 DEF UncutInv, CutCounts
  <2> QED BY <2>1, <2>2 DEF HeadInv, UncutInv
<1>3. ASSUME NEW r \in Requests, NEW tab \in Tabs, NEW kind, Send(r, tab, kind),
             UNCHANGED <<rows, cookie>>, kind = "refresh" => BeginRefresh(r, tab)
      PROVE  AllFit'
  <2>1. /\ Others(r) /\ req[r].pc = "idle" /\ req'[r].kind = kind /\ req'[r].pc = "sent"
        /\ req'[r].raw = cookie /\ req'[r].new = NoToken
    BY <1>0, <1>3, SendEffect
  <2>2. kind = "refresh" => Head(cookie)
    BY <1>2, <1>3, FirstRefresh DEF AllFit, Led, Leads
  <2>3. Head(cookie) => Head(cookie)'
    <3>1. \A t : Head(t) => Head(t)'
      BY <1>3, <2>1, HeadKept
    <3> QED BY <1>3, <3>1
  <2>4. Fit(r)'
    BY <1>3, <2>1, <2>2, <2>3 DEF Fit, Bringing
  <2> QED BY <1>2, <1>3, <2>1, <2>4, QuietMoves DEF Bringing, Leads
<1>4. ASSUME NEW r \in Requests, RefreshRead(r) \/ LogoutRead(r) PROVE AllFit'
  <2>1. /\ Others(r) /\ Keeps(r) /\ req'[r].new = req[r].new /\ req[r].pc = "sent"
        /\ UNCHANGED <<rows, cookie>>
        /\ req'[r].pc \in {"answer", "rotate", "revoke"}
        /\ req'[r].pc = "rotate" => req[r].raw \in Tokens /\ status[req[r].raw] = "live"
    BY <1>0, <1>4, ReadEffect DEF Issued
  <2>2. req'[r].new = NoToken
    BY <1>2, <2>1 DEF AllFit, Fit
  <2>3. Fit(r)'
    BY <2>1, <2>2 DEF Fit, Bringing
  <2> QED BY <1>2, <2>1, <2>2, <2>3, QuietMoves DEF Bringing, Leads, Keeps
<1>5. ASSUME NEW r \in Requests, RefreshFlush(r) PROVE AllFit'
  <2>1. /\ Others(r) /\ Keeps(r) /\ UNCHANGED <<rows, cookie>>
        /\ req[r].pc = "rotate" /\ req'[r].pc = "commit"
    BY <1>0, <1>5, FlushEffect
  <2>2. Fit(r)'
    BY <2>1 DEF Fit, Bringing
  <2> QED BY <1>2, <2>1, <2>2, QuietMoves DEF Bringing, Leads, Keeps
<1>6. ASSUME NEW r \in Requests, Answer(r) \/ AnswerLost(r) PROVE AllFit'
  <2>1. /\ Others(r) /\ req'[r] = Idle /\ req[r].pc = "answer" /\ UNCHANGED rows
        /\ \/ ~Bringing(req[r]) /\ UNCHANGED <<cookie, bounds>>
           \/ faults' = faults + 1
           \/ Bringing(req[r]) /\ cookie' = req[r].new /\ UNCHANGED bounds
    BY <1>0, <1>2, <1>6, OverEffect
  <2>2. req'[r].kind = "none" /\ req'[r].pc = "idle" /\ req'[r].raw = NoToken
    BY <2>1, IdleType DEF Idle
  <2>3. Fit(r)' /\ ~Bringing(req'[r])
    BY <2>2 DEF Fit, Bringing
  <2>4. CASE ~Bringing(req[r]) /\ UNCHANGED cookie
    BY <1>2, <2>1, <2>2, <2>3, <2>4, QuietMoves DEF Leads
  <2>5. CASE Bringing(req[r]) /\ cookie' = req[r].new
    <3>1. \A t : Head(t) => Head(t)'
      BY <2>1, <2>2, HeadKept
    <3>2. Head(cookie)'
      BY <1>2, <2>5, <3>1 DEF AllFit, Fit
    <3>3. ASSUME NEW s \in Requests PROVE Fit(s)'
      <4>1. CASE s = r
        BY <2>3, <4>1
      <4>2. CASE s # r
        <5>1. req'[s] = req[s] /\ Fit(s) /\ Apart(s, r)
          BY <1>2, <2>1, <4>2 DEF AllFit, Others
        <5> QED BY <2>5, <3>1, <4>2, <5>1 DEF Fit, Apart
      <4> QED BY <4>1, <4>2
    <3>4. ASSUME NEW s \in Requests, NEW q \in Requests PROVE Apart(s, q)'
      <4>1. CASE s = r
        BY <2>3, <4>1 DEF Apart
      <4>2. CASE s # r /\ q = r
        BY <2>1, <2>2, <2>3, <4>2 DEF Apart, Others, Bringing
      <4>3. CASE s # r /\ q # r
        BY <1>2, <2>1, <4>3 DEF AllFit, Apart, Others
      <4> QED BY <4>1, <4>2, <4>3
    <3> QED BY <3>2, <3>3, <3>4 DEF AllFit, Led
  <2> QED BY <1>0, <1>2, <2>1, <2>4, <2>5
<1>7. ASSUME NEW t \in Tokens, Expire(t) PROVE AllFit'
  <2>1. /\ UNCHANGED <<family, req>> /\ \A r \in Requests : req[r].pc = "idle"
        /\ cookie' = IF cookie = t THEN NoToken ELSE cookie
        /\ \A u \in Tokens : u # t => status'[u] = status[u]
        /\ status'[t] # "live"
    BY <1>0, <1>7 DEF Expire, IInv, TypeOK
  <2>2. \A r \in Requests : ~Bringing(req[r]) /\ ~Leads(req[r])
    BY <2>1 DEF Bringing, Leads
  <2>3. Head(cookie) /\ \A f : ~Exchanging(f) /\ ~Exchanging(f)'
    BY <1>2, <2>1, <2>2 DEF AllFit, Led, Exchanging
  <2>4. Head(cookie)'
    <3>1. CASE cookie \in {t, NoToken}
      BY <2>1, <3>1 DEF Head
    <3>2. CASE cookie \in Tokens \ {t} /\ status[cookie] = "live"
      BY <2>1, <3>2 DEF Head
    <3>3. CASE cookie \in Tokens \ {t} /\ Dead(family[cookie])
      <4>1. cookie' = cookie /\ family' = family /\ Dead(family[cookie])'
        BY <2>1, <3>3 DEF Dead
      <4> QED BY <2>3, <4>1 DEF Head
    <3> QED BY <1>0, <2>3, <3>1, <3>2, <3>3 DEF Head, IInv, TypeOK, Issued
  <2> QED BY <2>1, <2>2, <2>4 DEF AllFit, Led, Fit, Apart, Bringing
<1>8. CASE UNCHANGED vars
  BY <1>2, <1>8 DEF vars, AllFit, Fit, Apart, Led, Head, Dead, Exchanging
<1>9. ASSUME NEW r \in Requests, RequestError(r) \/ Abandoned(r) PROVE AllFit'
  BY <1>0, <1>2, <1>9, ErrorEffect, AbandonEffect
<1>10. ASSUME NEW r \in Requests, NEW tab \in Tabs,
              BeginLogin(r, tab) \/ BeginRefresh(r, tab) \/ BeginLogout(r, tab)
       PROVE  AllFit'
  BY <1>3, <1>10 DEF BeginLogin, BeginRefresh, BeginLogout
<1>11. ASSUME NEW r \in Requests, LoginCommit(r) \/ RefreshCommit(r) \/ Revoke(r) PROVE AllFit'
  BY <1>2, <1>11, FitLogin, FitCommit, FitRevoke
<1> QED
  BY <1>4, <1>5, <1>6, <1>7, <1>8, <1>9, <1>10, <1>11 DEF Next, Login, Refresh, Logout

(* With one tab, and until an answer is lost or a call fails, a refresh is *)
(* refused only if its login has ended, with any number of logouts: what   *)
(* SignIn takes for granted of the server when it asks of a cookie no more *)
(* than whether its family is alive.                                       *)
THEOREM RefusalTellsEnd == ASSUME OneTab PROVE Spec => []RefusedOnlyWhenEnded
<1>1. ASSUME UncutInv, HeadInv PROVE RefusedOnlyWhenEnded
  <2> SUFFICES ASSUME faults = 0
               PROVE  /\ Quiet => CurrentOrEnded(cookie)
                      /\ \A r \in Requests : req[r].kind = "refresh" /\ req[r].pc = "sent"
                            => CurrentOrEnded(req[r].raw)
    BY DEF RefusedOnlyWhenEnded
  <2>1. AllFit
    BY <1>1 DEF HeadInv
  <2>2. \A t \in Issued \cup {NoToken} : Head(t) => CurrentOrEnded(t)
    BY DeadMeans DEF Head, CurrentOrEnded, Issued
  <2>3. /\ cookie \in Issued \cup {NoToken}
        /\ \A r \in Requests : req[r].raw \in Issued \cup {NoToken}
    BY <1>1 DEF UncutInv, IInv, TypeOK, Carries
  <2>4. Quiet => Head(cookie)
    BY <2>1 DEF AllFit, Led, Leads, Bringing, Quiet
  <2> QED BY <2>1, <2>2, <2>3, <2>4 DEF AllFit, Fit
<1>2. UncutInv /\ HeadInv /\ [Next]_vars => (UncutInv /\ HeadInv)'
  BY UncutNext, HeadNext
<1>3. Init => UncutInv /\ HeadInv
  <2> SUFFICES ASSUME Init PROVE HeadInv
    BY TabInit
  <2>1. cookie = NoToken
          /\ \A r \in Requests : req[r].pc = "idle" /\ req[r].kind = "none"
    BY DEF Init, Idle
  <2> QED BY <2>1 DEF HeadInv, AllFit, Fit, Apart, Led, Head, Bringing
<1> QED BY <1>1, <1>2, <1>3, PTL DEF Spec

=============================================================================
