------------------------------- MODULE SignIn -------------------------------
(***************************************************************************)
(* Signing in and out in one browser tab: login, logout and                *)
(* fetchMeIfPossible of frontend/src/lib/auth.ts, the interceptors of      *)
(* lib/api.ts with their single refresh, the auth store, and the effect of *)
(* hooks/use-auth.ts, against get_current_user and the login, refresh,     *)
(* logout and me handlers of the backend.  What a refresh cookie is worth  *)
(* is TokenRotation's subject; here it names a user, and its family is     *)
(* alive or not.                                                           *)
(*                                                                         *)
(*   user, token   the auth store; a token names its user                  *)
(*   cookie        the token family the browser's refresh cookie is of     *)
(*   owner, alive  the users of the families, and the families not ended   *)
(*   call          the requests under way, retries included                *)
(*   refresh       refreshInFlight                                         *)
(*   effect        the mounted useAuths whose effect has to run            *)
(*   url           the user whose token is in the address of the callback  *)
(*                 page, until the effect of that page has run             *)
(*   left          (history) the last sign-in or sign-out was a sign-out   *)
(*   mixed         (history) a sign-in or sign-out overlapped another      *)
(*                 request, or failed halfway                              *)
(*   faults        errors and reloads so far                               *)
(***************************************************************************)
EXTENDS Integers, Sequences, FiniteSets

CONSTANTS
    Users,
    Calls,        \* the requests there can be at one time
    Hooks,        \* the mounted uses of useAuth: the navigation bar, a page
    MaxFamilies,  \* bound on sign-ins
    MaxFaults,    \* bound on errors and reloads
    Nobody

ASSUME SignInAssumption ==
    /\ Nobody \notin Users /\ Nobody \notin [of : Users, good : BOOLEAN]
    /\ IsFiniteSet(Calls) /\ Hooks # {}
    /\ MaxFamilies \in Nat \ {0} /\ MaxFaults \in Nat

VARIABLES user, token, cookie, owner, alive, call, refresh, effect, url,
          left, mixed, faults

store == <<user, token, effect>>
session == <<cookie, owner, alive>>
marks == <<left, mixed, faults>>
tabVars == <<user, token, cookie, owner, alive, call, refresh, effect, url,
             left, mixed, faults>>

(* A token that has expired is worth nothing, whoever it names.            *)
Token == [of : Users, good : BOOLEAN]
Fresh(u) == [of |-> u, good |-> TRUE]
Spoilt(t) == IF t = Nobody THEN Nobody ELSE [t EXCEPT !.good = FALSE]

Families == 1 .. MaxFamilies
NoFamily == 0

Call == [pc : {"free", "sent", "served", "waiting"},
         kind : {"none", "login", "login_me", "fetch_me", "data", "logout"},
         who : Users \cup {Nobody},          \* who signs in
         family : Families \cup {NoFamily},  \* the cookie sent or received
         token : Token \cup {Nobody}, held : Token \cup {Nobody},
         retried : BOOLEAN, result : {"none", "ok", "401", "error"}]
Blank == [pc |-> "free", kind |-> "none", who |-> Nobody, family |-> NoFamily,
          token |-> Nobody, held |-> Nobody, retried |-> FALSE, result |-> "none"]
Idle == [pc |-> "none", family |-> NoFamily, ok |-> FALSE]

Free == {c \in Calls : call[c].pc = "free"}
Pending(kind) == {c \in Calls \ Free : call[c].kind = kind}
Changes(kind) == kind \in {"login", "login_me", "logout"}
Quiet == Free = Calls /\ refresh = Idle /\ effect = {} /\ url = Nobody

(* A tab is opened; nobody is signed in, and the cookie may be of earlier. *)
TabInit ==
    /\ user = Nobody /\ token = Nobody
    /\ owner \in {<<>>} \cup {<<u>> : u \in Users}
    /\ cookie = Len(owner) /\ alive \in SUBSET (1 .. Len(owner))
    /\ call = [c \in Calls |-> Blank] /\ refresh = Idle
    /\ effect = Hooks /\ url = Nobody
    /\ left = FALSE /\ mixed = FALSE /\ faults = 0

-----------------------------------------------------------------------------
(* What the pages ask for.  The request interceptor adds the token of the  *)
(* store, the browser the cookie.                                          *)

Request(c, kind, who) ==
    /\ c \in Free
    /\ call' = [call EXCEPT ![c] =
                    [Blank EXCEPT !.pc = "sent", !.kind = kind, !.who = who,
                                  !.family = IF kind = "logout" THEN cookie ELSE NoFamily,
                                  !.token = token']]
    /\ mixed' = (mixed \/ \E d \in Calls \ Free : Changes(kind) \/ Changes(call[d].kind))

(* No button is pressed before the effect of the callback page has run.    *)
Login(c, u) ==
    /\ url = Nobody
    /\ Len(owner) + Cardinality(Pending("login")) < MaxFamilies
    /\ UNCHANGED store
    /\ Request(c, "login", u)
    /\ left' = FALSE
    /\ UNCHANGED <<session, refresh, url, faults>>
Logout(c) ==
    /\ user # Nobody /\ url = Nobody
    /\ UNCHANGED store
    /\ Request(c, "logout", Nobody)
    /\ UNCHANGED <<session, refresh, url, left, faults>>
Data(c) ==
    /\ UNCHANGED store
    /\ Request(c, "data", Nobody)
    /\ UNCHANGED <<session, refresh, url, left, faults>>

(* The effect of a useAuth, run when it is mounted and whenever the user   *)
(* has changed.                                                            *)
Effect(c, h) ==
    /\ h \in effect /\ effect' = effect \ {h}
    /\ UNCHANGED <<user, token>>
    /\ IF user = Nobody THEN Request(c, "fetch_me", Nobody) ELSE UNCHANGED <<call, mixed>>
    /\ UNCHANGED <<session, refresh, url, left, faults>>
Mount(h) ==
    /\ user = Nobody /\ h \notin effect /\ effect' = effect \cup {h}
    /\ UNCHANGED <<user, token, session, call, refresh, url, marks>>

(* The effect of the page that Google's answer is redirected to.           *)
CallbackEffect(c) ==
    /\ url # Nobody /\ url' = Nobody
    /\ token' = Fresh(url) /\ UNCHANGED <<user, effect>>
    /\ Request(c, "fetch_me", Nobody)
    /\ UNCHANGED <<session, refresh, left, faults>>

-----------------------------------------------------------------------------
(* The backend.                                                            *)

(* get_current_user for the others; a login and a logout need no token.    *)
Outcome(c) ==
    IF call[c].kind \in {"login", "logout"} THEN "ok"
    ELSE IF call[c].token # Nobody /\ call[c].token.good THEN "ok" ELSE "401"

(* A login begins a family, a logout ends the one of its cookie.           *)
EndedByLogoutNone(c) == {}                                     \* mutant of EndedByLogout
EndedByLogout(c) == IF call[c].kind = "logout" THEN {call[c].family} ELSE {}
Served(c) ==
    /\ call[c].pc = "sent"
    /\ LET family == IF call[c].kind = "login" THEN Len(owner) + 1 ELSE call[c].family
       IN /\ call' = [call EXCEPT ![c].pc = "served", ![c].result = Outcome(c),
                                  ![c].family = family]
          /\ IF call[c].kind = "login"
             THEN owner' = Append(owner, call[c].who) /\ alive' = alive \cup {family}
             ELSE alive' = alive \ EndedByLogout(c) /\ UNCHANGED owner
    /\ UNCHANGED <<store, cookie, refresh, url, marks>>

(* A request or its answer is lost, refused for another reason, or late.   *)
Error(c) ==
    /\ call[c].pc \in {"sent", "served"} /\ faults < MaxFaults
    /\ call' = [call EXCEPT ![c].pc = "served", ![c].result = "error"]
    /\ faults' = faults + 1
    /\ mixed' = (mixed \/ Changes(call[c].kind))
    /\ UNCHANGED <<store, session, refresh, url, left>>

RefreshServed ==
    /\ refresh.pc = "sent"
    /\ refresh' = [refresh EXCEPT !.pc = "served", !.ok = refresh.family \in alive]
    /\ UNCHANGED <<store, session, call, url, marks>>

-----------------------------------------------------------------------------
(* The answers.                                                            *)

SetAuth(u, t) ==
    /\ user' = u /\ token' = t
    /\ effect' = IF user # Nobody /\ u = Nobody THEN Hooks ELSE effect

(* The response interceptor: one refresh for everybody who is refused, and *)
(* one retry for each.                                                     *)
RetriableData(c) ==                                            \* mutant of Retriable
    call[c].result = "401" /\ ~call[c].retried /\ call[c].kind = "data"
Retriable(c) == call[c].result = "401" /\ ~call[c].retried

Refused(c) ==
    /\ call[c].pc = "served" /\ Retriable(c)
    /\ call' = [call EXCEPT ![c].pc = "waiting"]
    /\ refresh' = IF refresh = Idle THEN [pc |-> "sent", family |-> cookie, ok |-> FALSE]
                  ELSE refresh
    /\ UNCHANGED <<store, session, url, marks>>

(* The promise of the refresh is settled, and everybody who waits for it   *)
(* goes on: with the new token, or with clearAuth and an error.  The       *)
(* answer that refuses a refresh leaves the cookie alone, as in            *)
(* TokenRotation.                                                          *)
Waiting == {c \in Calls : call[c].pc = "waiting"}
Renewed ==
    [c \in Calls |->
        IF c \in Waiting
        THEN [call[c] EXCEPT !.pc = "sent", !.token = token', !.retried = TRUE, !.result = "none"]
        ELSE call[c]]
GivenUp == [c \in Calls |-> IF c \in Waiting THEN Blank ELSE call[c]]

RefreshAnswered ==
    /\ refresh.pc = "served" /\ refresh' = Idle
    /\ IF refresh.ok
       THEN /\ cookie' = refresh.family
            /\ token' = Fresh(owner[refresh.family])
            /\ call' = Renewed
            /\ UNCHANGED <<user, effect>>
       ELSE /\ SetAuth(Nobody, Nobody)
            /\ call' = GivenUp
            /\ UNCHANGED cookie
    /\ UNCHANGED <<owner, alive, url, marks>>

(* No answer to a refresh.  A rotated cookie that does not arrive leaves   *)
(* the old one, whose next use ends the family.                            *)
Lost == alive' = IF refresh.ok THEN alive \ {refresh.family} ELSE alive
RefreshLost ==
    /\ refresh # Idle /\ refresh' = Idle /\ faults < MaxFaults
    /\ faults' = faults + 1
    /\ Lost
    /\ SetAuth(Nobody, Nobody)
    /\ call' = GivenUp
    /\ UNCHANGED <<cookie, owner, url, left, mixed>>

(* The caller gets its answer.                                             *)
Ended(c) == call' = [call EXCEPT ![c] = Blank]

LoginAnsweredLate(c) ==                                        \* mutant of LoginAnswered
    /\ call[c].pc = "served" /\ call[c].kind = "login"
    /\ IF call[c].result = "ok"
       THEN /\ cookie' = call[c].family
            /\ call' = [call EXCEPT ![c] =
                 [Blank EXCEPT !.pc = "sent", !.kind = "login_me", !.token = token,
                               !.held = Fresh(call[c].who)]]
       ELSE Ended(c) /\ UNCHANGED cookie
    /\ UNCHANGED <<user, token, effect, owner, alive, refresh, url, marks>>
LoginAnswered(c) ==
    /\ call[c].pc = "served" /\ call[c].kind = "login"
    /\ IF call[c].result = "ok"
       THEN /\ token' = Fresh(call[c].who) /\ cookie' = call[c].family
            /\ call' = [call EXCEPT ![c] =
                 [Blank EXCEPT !.pc = "sent", !.kind = "login_me",
                               !.token = token', !.held = token']]
       ELSE Ended(c) /\ UNCHANGED <<token, cookie>>
    /\ UNCHANGED <<user, effect, owner, alive, refresh, url, marks>>

(* login puts the token it was given into the store, fetchMeIfPossible the *)
(* one that is there.                                                      *)
MeAnswered(c) ==
    /\ call[c].pc = "served" /\ call[c].kind \in {"login_me", "fetch_me"} /\ ~Retriable(c)
    /\ IF call[c].result = "ok"
       THEN SetAuth(call[c].token.of, IF call[c].kind = "login_me" THEN call[c].held ELSE token)
       ELSE UNCHANGED store
    /\ Ended(c)
    /\ UNCHANGED <<session, refresh, url, marks>>

DataAnswered(c) ==
    /\ call[c].pc = "served" /\ call[c].kind = "data" /\ ~Retriable(c)
    /\ Ended(c)
    /\ UNCHANGED <<store, session, refresh, url, marks>>

(* logout clears the store whatever the answer is; the cookie stays.       *)
LogoutAnswered(c) ==
    /\ call[c].pc = "served" /\ call[c].kind = "logout"
    /\ SetAuth(Nobody, Nobody) /\ left' = TRUE
    /\ Ended(c)
    /\ UNCHANGED <<session, refresh, url, mixed, faults>>

-----------------------------------------------------------------------------
(* Time and the tab.                                                       *)

(* A token is good for fifteen minutes and a request lasts one at most: it *)
(* does not expire between a refresh and the retry, or in a login.         *)
Expire ==
    /\ \A c \in Calls : ~call[c].retried /\ call[c].kind # "login_me"
    /\ token' = Spoilt(token)
    /\ call' = [c \in Calls |-> [call[c] EXCEPT !.token = Spoilt(call[c].token)]]
    /\ UNCHANGED <<user, session, refresh, effect, url, marks>>
(* The thirty days pass, or the family is ended elsewhere.                 *)
FamilyEnds(f) ==
    /\ f \in alive /\ alive' = alive \ {f}
    /\ UNCHANGED <<store, cookie, owner, call, refresh, url, marks>>

(* The store is in memory only.                                            *)
Opened ==
    /\ user' = Nobody /\ token' = Nobody /\ effect' = Hooks
    /\ call' = [c \in Calls |-> Blank] /\ refresh' = Idle
Reload ==
    /\ faults < MaxFaults /\ faults' = faults + 1
    /\ Opened /\ url' = Nobody
    /\ Lost
    /\ UNCHANGED <<cookie, owner, left, mixed>>
(* The browser comes back from Google, with a cookie and a token.          *)
GoogleReturns(u) ==
    /\ user = Nobody /\ Quiet /\ Len(owner) < MaxFamilies
    /\ Opened /\ url' = u
    /\ owner' = Append(owner, u) /\ cookie' = Len(owner')
    /\ alive' = alive \cup {cookie'}
    /\ left' = FALSE
    /\ UNCHANGED <<mixed, faults>>

Answers(c) ==
    Refused(c) \/ LoginAnswered(c) \/ MeAnswered(c) \/ DataAnswered(c) \/ LogoutAnswered(c)

TabNext ==
    \/ \E c \in Calls :
        \/ Logout(c) \/ Data(c) \/ CallbackEffect(c) \/ Served(c) \/ Error(c) \/ Answers(c)
        \/ \E u \in Users : Login(c, u)
        \/ \E h \in Hooks : Effect(c, h)
    \/ \E h \in Hooks : Mount(h)
    \/ RefreshServed \/ RefreshAnswered \/ RefreshLost \/ Expire \/ Reload
    \/ \E u \in Users : GoogleReturns(u)
    \/ \E f \in alive : FamilyEnds(f)

TabSpec == TabInit /\ [][TabNext]_tabVars

-----------------------------------------------------------------------------
(* Properties.                                                             *)

TabTypeOK ==
    /\ user \in Users \cup {Nobody} /\ token \in Token \cup {Nobody}
    /\ Len(owner) <= MaxFamilies /\ \A f \in DOMAIN owner : owner[f] \in Users
    /\ cookie \in 0 .. Len(owner) /\ alive \subseteq DOMAIN owner
    /\ call \in [Calls -> Call]
    /\ refresh \in [pc : {"none", "sent", "served"}, family : 0 .. Len(owner), ok : BOOLEAN]
    /\ effect \subseteq Hooks /\ url \in Users \cup {Nobody}
    /\ left \in BOOLEAN /\ mixed \in BOOLEAN /\ faults \in 0 .. MaxFaults

(* The user that is shown is the one the token is for, except for the      *)
(* moment in which a sign-in asks who it is, and unless a sign-in or       *)
(* sign-out overlapped another request or failed halfway (login of         *)
(* lib/auth.ts, fetchMeIfPossible), whatever other answers are lost.       *)
UserMatchesToken ==
    ~mixed /\ user # Nobody /\ token # Nobody /\ Pending("login_me") = {} => user = token.of

(* Whoever has signed out stays signed out, although the effects of        *)
(* useAuth ask at once who is there and refresh with the cookie that       *)
(* logout leaves in the browser, unless the sign-out overlapped another    *)
(* request or its answer was lost.                                         *)
StaysSignedOut == Quiet /\ left /\ ~mixed => user = Nobody /\ token = Nobody

(* A good cookie signs its user in, without a password: when nothing has   *)
(* failed and everything has settled, the tab does not show a visitor,     *)
(* unless a sign-in or sign-out overlapped another request.                *)
GoodCookieSignsIn ==
    Quiet /\ ~mixed /\ faults = 0 /\ cookie \in alive => user # Nobody

(* Expected, and not so: a good cookie signs its user in whatever          *)
(* overlaps.  A request of an old session asks for its refresh; the user   *)
(* signs out and in again before the refusal arrives, and clearAuth takes  *)
(* the new user out of the store.                                          *)
CookieAlwaysSignsIn == Quiet /\ faults = 0 /\ cookie \in alive => user # Nobody

(* Expected, and not so: a user is never shown without a token.  The       *)
(* answer to fetchMeIfPossible that arrives after a sign-out sets the user *)
(* again.                                                                  *)
UserHasToken == user # Nobody => token # Nobody

(* Expected, and not so: signing out works whatever the answer is.  When   *)
(* it fails, the cookie lives on and the effect of useAuth signs in again. *)
SignOutSticks == Quiet /\ left => user = Nobody

(* Expected, and not so: the user and the token are always of one person.  *)
(* A login whose second request fails leaves the token of the new user     *)
(* with the old one, and a refresh answered after a sign-in replaces the   *)
(* token and the cookie of the new user.                                   *)
AlwaysOnePerson ==
    user # Nobody /\ token # Nobody /\ Pending("login_me") = {} => user = token.of

=============================================================================
