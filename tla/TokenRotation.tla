--------------------------- MODULE TokenRotation ---------------------------
(***************************************************************************)
(* Refresh tokens and the cookie that carries them: issue_token_pair of    *)
(* backend/app/services/auth_service.py, rotation and family revocation in *)
(* backend/app/utils/jwt_utils.py, the handlers of                         *)
(* backend/app/routers/auth.py, and the axios interceptor of               *)
(* frontend/src/lib/api.ts, which keeps one refresh per tab in flight.     *)
(*                                                                         *)
(* The tabs of a browser share one cookie.  A request carries the cookie   *)
(* of the moment it is sent, its transaction reads first and writes later, *)
(* and its answer, with the new cookie, arrives later still.               *)
(*                                                                         *)
(*   status, family   the rows of refresh_tokens, by token; a family is    *)
(*                    named by the token of the login that opened it       *)
(*   cookie           flick_refresh in the browser                         *)
(*   req              the requests in flight; raw is the cookie sent, new  *)
(*                    the token to be answered, rows those an UPDATE of    *)
(*                    the family has found                                 *)
(*   faults, logouts  how many failures and logouts have happened          *)
(*   cut              history: a page has let go of a refresh that the     *)
(*                    server went on with                                  *)
(* The access token, which the server does not store, is not modelled:     *)
(* any tab may find it missing or expired at any time and refresh.         *)
(***************************************************************************)
EXTENDS Integers, FiniteSets

CONSTANTS
    Tabs, Requests,   \* browser tabs and request slots
    Tokens,           \* the tokens that may be issued
    MaxFaults,        \* bound on failed and abandoned requests and lost answers
    MaxLogouts,       \* bound on logouts
    NoToken, NoTab

ASSUME TokensAssumption ==
    /\ IsFiniteSet(Tokens) /\ NoToken \notin Tokens /\ NoTab \notin Tabs
    /\ MaxFaults \in Nat /\ MaxLogouts \in Nat

VARIABLES status, family, cookie, req, faults, logouts, cut

rows == <<status, family>>
bounds == <<faults, logouts, cut>>
vars == <<status, family, cookie, req, faults, logouts, cut>>

Request == [kind : {"none", "login", "refresh", "logout"},
            pc   : {"idle", "sent", "rotate", "commit", "revoke", "update", "answer"},
            tab  : Tabs \cup {NoTab},
            raw  : Tokens \cup {NoToken},
            new  : Tokens \cup {NoToken},
            rows : SUBSET Tokens]

Idle == [kind |-> "none", pc |-> "idle", tab |-> NoTab,
         raw |-> NoToken, new |-> NoToken, rows |-> {}]

Issued == {t \in Tokens : status[t] # "unused"}
FamilyOf(t) == {s \in Issued : family[s] = family[t]}
Live(s) == {t \in s : status[t] = "live"}

(* Tokens that an uncommitted rotation has inserted, and revoked.          *)
Rotating(r) == req[r].pc = "commit"
Inserted == {req[r].new : r \in {q \in Requests : Rotating(q)}}
Locked == {req[r].raw : r \in {q \in Requests : Rotating(q)}}

-----------------------------------------------------------------------------
Init ==
    /\ status = [t \in Tokens |-> "unused"]
    /\ family = [t \in Tokens |-> NoToken]
    /\ cookie = NoToken
    /\ req = [r \in Requests |-> Idle]
    /\ faults = 0 /\ logouts = 0 /\ cut = FALSE

Send(r, tab, kind) ==
    /\ req[r].pc = "idle"
    /\ req' = [req EXCEPT ![r] = [Idle EXCEPT !.kind = kind, !.pc = "sent", !.tab = tab,
                                              !.raw = cookie]]

-----------------------------------------------------------------------------
(* login and google_callback, once the user is authenticated.              *)

BeginLogin(r, tab) == Send(r, tab, "login") /\ UNCHANGED <<rows, cookie, bounds>>

(* issue_token_pair: a token in a family of its own.                       *)
LoginCommit(r) ==
    /\ req[r].kind = "login" /\ req[r].pc = "sent"
    /\ \E t \in Tokens \ (Issued \cup Inserted) :
        /\ status' = [status EXCEPT ![t] = "live"]
        /\ family' = [family EXCEPT ![t] = t]
        /\ req' = [req EXCEPT ![r].pc = "answer", ![r].new = t]
    /\ UNCHANGED <<cookie, bounds>>

-----------------------------------------------------------------------------
(* refresh: verify_and_rotate_refresh_token.                               *)

(* refreshAccessToken: the requests of a tab that fail with 401 share one  *)
(* refresh.                                                                *)
BeginRefreshAnyhow(r, tab) ==                                  \* mutant of BeginRefresh
    /\ Send(r, tab, "refresh")
    /\ UNCHANGED <<rows, cookie, bounds>>
BeginRefresh(r, tab) ==
    /\ \A q \in Requests : ~(req[q].kind = "refresh" /\ req[q].tab = tab)
    /\ Send(r, tab, "refresh")
    /\ UNCHANGED <<rows, cookie, bounds>>

(* The token's row: a revoked token ends its family, an expired one is     *)
(* only refused.                                                           *)
RefreshReadUnchecked(r) ==                                     \* mutant of RefreshRead
    /\ req[r].kind = "refresh" /\ req[r].pc = "sent"
    /\ req' = [req EXCEPT ![r].pc =
                  IF req[r].raw = NoToken \/ status[req[r].raw] = "expired" THEN "answer"
                  ELSE "rotate"]
    /\ UNCHANGED <<rows, cookie, bounds>>
RefreshRead(r) ==
    /\ req[r].kind = "refresh" /\ req[r].pc = "sent"
    /\ req' = [req EXCEPT ![r].pc =
                  IF req[r].raw = NoToken \/ status[req[r].raw] = "expired" THEN "answer"
                  ELSE IF status[req[r].raw] = "revoked" THEN "revoke"
                  ELSE "rotate"]
    /\ UNCHANGED <<rows, cookie, bounds>>

(* The flush of persist_refresh_token: UPDATE of the old row, which waits  *)
(* for a transaction that has updated it, and INSERT of the new one.       *)
RefreshFlush(r) ==
    /\ req[r].pc = "rotate"
    /\ req[r].raw \notin Locked
    /\ \E t \in Tokens \ (Issued \cup Inserted) :
        req' = [req EXCEPT ![r].pc = "commit", ![r].new = t]
    /\ UNCHANGED <<rows, cookie, bounds>>

RefreshCommitKeepsOld(r) ==                                    \* mutant of RefreshCommit
    /\ req[r].pc = "commit"
    /\ status' = [status EXCEPT ![req[r].new] = "live"]
    /\ family' = [family EXCEPT ![req[r].new] = family[req[r].raw]]
    /\ req' = [req EXCEPT ![r].pc = "answer"]
    /\ UNCHANGED <<cookie, bounds>>
RefreshCommit(r) ==
    /\ req[r].pc = "commit"
    /\ status' = [status EXCEPT ![req[r].raw] = "revoked", ![req[r].new] = "live"]
    /\ family' = [family EXCEPT ![req[r].new] = family[req[r].raw]]
    /\ req' = [req EXCEPT ![r].pc = "answer"]
    /\ UNCHANGED <<cookie, bounds>>

-----------------------------------------------------------------------------
(* logout: revoke_refresh_token_family_by_raw.                             *)

BeginLogout(r, tab) ==
    /\ logouts < MaxLogouts
    /\ logouts' = logouts + 1
    /\ Send(r, tab, "logout")
    /\ UNCHANGED <<rows, cookie, faults, cut>>

LogoutRead(r) ==
    /\ req[r].kind = "logout" /\ req[r].pc = "sent"
    /\ req' = [req EXCEPT ![r].pc = IF req[r].raw = NoToken THEN "answer" ELSE "revoke"]
    /\ UNCHANGED <<rows, cookie, bounds>>

(* _revoke_family: the UPDATE finds the rows that are committed when it    *)
(* starts, and waits for those a rotation has updated ...                  *)
RevokeStarts(r) ==
    /\ req[r].pc = "revoke"
    /\ req' = [req EXCEPT ![r].pc = "update",
                          ![r].rows = {t \in FamilyOf(req[r].raw) : status[t] # "revoked"}]
    /\ UNCHANGED <<rows, cookie, bounds>>

(* ... before it revokes them.                                             *)
RevokeCommit(r) ==
    /\ req[r].pc = "update"
    /\ req[r].rows \cap Locked = {}
    /\ status' = [t \in Tokens |-> IF t \in req[r].rows THEN "revoked" ELSE status[t]]
    /\ req' = [req EXCEPT ![r].pc = "answer", ![r].rows = {}]
    /\ UNCHANGED <<family, cookie, bounds>>

-----------------------------------------------------------------------------
(* The answer arrives.  Only a success carries a cookie: the exceptions of *)
(* refresh and the Response that logout returns replace the one on which   *)
(* the cookie was deleted.  Nobody receives what a page has let go of.     *)
Answer(r) ==
    /\ req[r].pc = "answer"
    /\ cookie' = IF req[r].new = NoToken \/ req[r].tab = NoTab THEN cookie ELSE req[r].new
    /\ req' = [req EXCEPT ![r] = Idle]
    /\ UNCHANGED <<rows, bounds>>

(* The answer is lost, or the page is reloaded before it arrives.          *)
AnswerLost(r) ==
    /\ req[r].pc = "answer" /\ faults < MaxFaults
    /\ req' = [req EXCEPT ![r] = Idle]
    /\ faults' = faults + 1
    /\ UNCHANGED <<rows, cookie, logouts, cut>>

(* The page is reloaded or its connection breaks while the server is still *)
(* at work.  A reload forgets refreshInFlight and an error resets it, so   *)
(* that the tab may refresh again with the cookie it has; the server goes  *)
(* on with the request.                                                    *)
Abandoned(r) ==
    /\ req[r].pc \notin {"idle", "answer"} /\ req[r].tab # NoTab /\ faults < MaxFaults
    /\ req' = [req EXCEPT ![r].tab = NoTab]
    /\ cut' = (cut \/ req[r].kind = "refresh")
    /\ faults' = faults + 1
    /\ UNCHANGED <<rows, cookie, logouts>>

(* The password is wrong, or a database call raises and get_db rolls back. *)
RequestError(r) ==
    /\ req[r].pc \notin {"idle", "answer"} /\ faults < MaxFaults
    /\ req' = [req EXCEPT ![r].pc = "answer", ![r].new = NoToken, ![r].rows = {}]
    /\ faults' = faults + 1
    /\ UNCHANGED <<rows, cookie, logouts, cut>>

(* After thirty days the token and the cookie that carries it expire; no   *)
(* request takes as long.                                                  *)
Expire(t) ==
    /\ status[t] = "live"
    /\ \A r \in Requests : req[r].pc = "idle"
    /\ status' = [status EXCEPT ![t] = "expired"]
    /\ cookie' = IF cookie = t THEN NoToken ELSE cookie
    /\ UNCHANGED <<family, req, bounds>>

-----------------------------------------------------------------------------
Login(r) == (\E tab \in Tabs : BeginLogin(r, tab)) \/ LoginCommit(r)
Refresh(r) == \/ \E tab \in Tabs : BeginRefresh(r, tab)
              \/ RefreshRead(r) \/ RefreshFlush(r) \/ RefreshCommit(r)
Logout(r) == (\E tab \in Tabs : BeginLogout(r, tab)) \/ LogoutRead(r)
Revoke(r) == RevokeStarts(r) \/ RevokeCommit(r)

Next ==
    \/ \E r \in Requests :
        \/ Login(r) \/ Refresh(r) \/ Logout(r) \/ Revoke(r)
        \/ Answer(r) \/ AnswerLost(r) \/ Abandoned(r) \/ RequestError(r)
    \/ \E t \in Tokens : Expire(t)

Spec == Init /\ [][Next]_vars

-----------------------------------------------------------------------------
(* Properties.                                                             *)

(* Every issued token is in the family of a login that was committed.      *)
TypeOK ==
    /\ status \in [Tokens -> {"unused", "live", "revoked", "expired"}]
    /\ family \in [Tokens -> Tokens \cup {NoToken}]
    /\ \A t \in Issued : family[t] \in Issued /\ family[family[t]] = family[t]
    /\ cookie \in Issued \cup {NoToken}
    /\ req \in [Requests -> Request]
    /\ faults \in 0 .. MaxFaults /\ logouts \in 0 .. MaxLogouts /\ cut \in BOOLEAN

Quiet == \A r \in Requests : req[r].pc = "idle"

(* The cookie of a user who has not logged out, and to whom every answer   *)
(* has come, can be exchanged for a new access token, however refreshes    *)
(* and logins have overlapped.                                             *)
CookieLives ==
    Quiet /\ logouts = 0 /\ faults = 0 /\ cookie # NoToken => status[cookie] = "live"

(* Until an answer is lost, a refresh is refused only when the login it    *)
(* belongs to has ended, however logouts, logins and refreshes overlap:    *)
(* the cookie at rest, and the one a refresh was sent with, is the token   *)
(* of its family that can be used, or none can.  (SignIn asks no more of a *)
(* cookie than whether its family is alive.)                               *)
CurrentOrEnded(t) == t = NoToken \/ status[t] = "live" \/ Live(FamilyOf(t)) = {}

RefusedOnlyWhenEnded ==
    faults = 0 =>
        /\ Quiet => CurrentOrEnded(cookie)
        /\ \A r \in Requests :
              req[r].kind = "refresh" /\ req[r].pc = "sent" => CurrentOrEnded(req[r].raw)

(* Expected, and not so: a family never has two tokens that can be used.   *)
(* The refresh begun after a reload reads the token before the one still   *)
(* under way has replaced it, and each replaces it by a token of its own   *)
(* (verify_and_rotate_refresh_token checks the row without a lock).        *)
NoDouble == \A s, t \in Live(Tokens) : family[s] = family[t] => s = t

(* A rotation replaces a token, and the tab rotates once at a time: a      *)
(* family never has two that can be used, whatever fails or is lost, until *)
(* a page lets go of a refresh on which the server is still at work.       *)
OneLive == ~cut => NoDouble

(* Expected, and not so: when the family has been revoked, by a logout or  *)
(* because a used token came again, nothing of it can be used any more.    *)
RevocationComplete ==
    [][\A r \in Requests :
          req[r].pc = "update" /\ req'[r].pc = "answer" /\ faults' = faults =>
              Live(FamilyOf(req[r].raw))' = {}]_vars

(* Requests that are past the check of their token and will use it.        *)
Exchanging(f) == \E r \in Requests :
    req[r].pc \in {"rotate", "commit"} /\ family[req[r].raw] = f

(* A family without a usable token, and without an exchange under way,     *)
(* stays so: nothing brings a login back that was ended, and nobody begins *)
(* to exchange one of its tokens.                                          *)
Ended(f) == Live(FamilyOf(f)) = {} /\ ~Exchanging(family[f])

EndedStaysEnded == [][\A f \in Issued : Ended(f) => Ended(f)']_vars

=============================================================================
