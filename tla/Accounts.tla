------------------------------ MODULE Accounts ------------------------------
(***************************************************************************)
(* Accounts and the ways into them: register_user, authenticate_user and   *)
(* handle_google_callback of backend/app/services/auth_service.py, and the *)
(* register, login, google and google/callback handlers of                 *)
(* backend/app/routers/auth.py.  All Google sign-ins are of one browser,   *)
(* whose tabs share the cookies of the flow.                               *)
(*                                                                         *)
(*   email     the address of each account, None while there is no row     *)
(*   google    its Google identity, or None                                *)
(*   password  the accounts that have a password                           *)
(*   cookies   flick_oauth_state and flick_oauth_verifier, each named by   *)
(*             the flow that has set it                                    *)
(*   flow      the sign-ins with Google                                    *)
(*   reg       the registrations                                           *)
(*   mail      (Google) the address of each identity                       *)
(*   moves     how often an address has moved from one to another          *)
(*   given     (history) the account a Google identity last got            *)
(*   entered   (history) the account an address last entered by password   *)
(* Unique indexes on email and google_id; READ COMMITTED.                  *)
(***************************************************************************)
EXTENDS Integers

CONSTANTS
    Emails, GoogleIds, Accounts,
    Flows,            \* sign-ins with Google, a bound
    Registrations,    \* registrations, a bound
    MaxMoves,         \* bound on addresses that move
    None, Incomplete

ASSUME AccountsAssumption ==
    /\ None \notin Emails \cup GoogleIds \cup Accounts \cup Flows
    /\ Incomplete \notin Emails \cup {None}
    /\ MaxMoves \in Nat

VARIABLES email, google, password, cookies, flow, reg, mail, moves, given, entered

table == <<email, google, password>>
outside == <<mail, moves>>
history == <<given, entered>>
vars == <<email, google, password, cookies, flow, reg, mail, moves, given, entered>>

Flow == [pc : {"new", "away", "checked", "profile", "unknown", "decided", "known", "done",
               "failed"},
         verifier : Flows \cup {None}, who : GoogleIds \cup {None},
         mail : Emails \cup {None}, found : Accounts \cup {None}, read : GoogleIds \cup {None}]
NewFlow == [pc |-> "new", verifier |-> None, who |-> None, mail |-> None, found |-> None,
            read |-> None]

Rows == {a \in Accounts : email[a] # None}
WithEmail(e) == {a \in Rows : email[a] = e}
WithGoogle(g) == {a \in Rows : google[a] = g}

Init ==
    /\ email = [a \in Accounts |-> None]
    /\ google = [a \in Accounts |-> None]
    /\ password = {}
    /\ cookies = [state |-> None, verifier |-> None]
    /\ flow = [f \in Flows |-> NewFlow]
    /\ reg = [r \in Registrations |-> [pc |-> "new", email |-> None]]
    /\ mail \in [GoogleIds -> Emails] /\ \A g, h \in GoogleIds : mail[g] = mail[h] => g = h
    /\ moves = 0
    /\ given = [g \in GoogleIds |-> None]
    /\ entered = [e \in Emails |-> None]

-----------------------------------------------------------------------------
(* Registration and the password.                                          *)

RegisterRead(r, e) ==
    /\ reg[r].pc = "new"
    /\ reg' = [reg EXCEPT ![r] = [pc |-> IF WithEmail(e) = {} THEN "free" ELSE "over",
                                  email |-> e]]
    /\ UNCHANGED <<table, cookies, flow, outside, history>>

(* The flush, the taste profile and the commit; the unique index on email  *)
(* makes an error of a row that has come in between.                       *)
Taken(e) == WithEmail(e) # {}
TakenNever(e) == FALSE                                         \* mutant of TakenAtInsert
TakenAtInsert(e) == Taken(e)

RegisterCommit(r) ==
    /\ reg[r].pc = "free"
    /\ reg' = [reg EXCEPT ![r].pc = "over"]
    /\ IF TakenAtInsert(reg[r].email) THEN UNCHANGED table
       ELSE \E a \in Accounts \ Rows :
            /\ email' = [email EXCEPT ![a] = reg[r].email]
            /\ password' = password \cup {a}
            /\ UNCHANGED google
    /\ UNCHANGED <<cookies, flow, outside, history>>

PasswordLogin(e) ==
    /\ \E a \in WithEmail(e) \cap password : entered' = [entered EXCEPT ![e] = a]
    /\ UNCHANGED <<table, cookies, flow, reg, outside, given>>

-----------------------------------------------------------------------------
(* The flow through Google.                                                *)

(* google_login sets both cookies, whatever flow they belonged to.         *)
StartKeepsVerifier(f) ==                                       \* mutant of Start
    /\ flow[f].pc = "new"
    /\ flow' = [flow EXCEPT ![f].pc = "away"]
    /\ cookies' = [state |-> f,
                   verifier |-> IF cookies.verifier = None THEN f ELSE cookies.verifier]
    /\ UNCHANGED <<table, reg, outside, history>>
Start(f) ==
    /\ flow[f].pc = "new"
    /\ flow' = [flow EXCEPT ![f].pc = "away"]
    /\ cookies' = [state |-> f, verifier |-> f]
    /\ UNCHANGED <<table, reg, outside, history>>

(* The browser comes back with the state of the flow and the cookies of    *)
(* this moment.                                                            *)
Callback(f) ==
    /\ flow[f].pc = "away"
    /\ flow' = [flow EXCEPT ![f].pc = IF cookies.state = f THEN "checked" ELSE "failed",
                            ![f].verifier = cookies.verifier]
    /\ UNCHANGED <<table, cookies, reg, outside, history>>

(* The code is exchanged and the profile is read: an identity and the      *)
(* address it has now, or no address.                                      *)
Exchange(f) ==
    /\ flow[f].pc = "checked"
    /\ \E g \in GoogleIds : \E m \in {mail[g], Incomplete} :
        flow' = IF flow[f].verifier = f /\ m # Incomplete
                THEN [flow EXCEPT ![f].pc = "profile", ![f].who = g, ![f].mail = m]
                ELSE [flow EXCEPT ![f].pc = "failed"]
    /\ UNCHANGED <<table, cookies, reg, outside, history>>

LookupMailFirst(f) ==                                          \* mutant of LookupGoogle
    /\ flow[f].pc = "profile"
    /\ IF WithEmail(flow[f].mail) = {}
       THEN flow' = [flow EXCEPT ![f].pc = "unknown"]
       ELSE \E a \in WithEmail(flow[f].mail) :
            flow' = [flow EXCEPT ![f].pc = "known", ![f].found = a]
    /\ UNCHANGED <<table, cookies, reg, outside, history>>
LookupGoogle(f) ==
    /\ flow[f].pc = "profile"
    /\ IF WithGoogle(flow[f].who) = {}
       THEN flow' = [flow EXCEPT ![f].pc = "unknown"]
       ELSE \E a \in WithGoogle(flow[f].who) :
            flow' = [flow EXCEPT ![f].pc = "known", ![f].found = a]
    /\ UNCHANGED <<table, cookies, reg, outside, history>>

LookupMail(f) ==
    /\ flow[f].pc = "unknown"
    /\ IF WithEmail(flow[f].mail) = {}
       THEN flow' = [flow EXCEPT ![f].pc = "decided"]
       ELSE \E a \in WithEmail(flow[f].mail) :
            flow' = [flow EXCEPT ![f].pc = "decided", ![f].found = a, ![f].read = google[a]]
    /\ UNCHANGED <<table, cookies, reg, outside, history>>

(* A new account, with its taste profile, ...                              *)
CreateLinked(f) ==
    /\ flow[f].pc = "decided" /\ flow[f].found = None
    /\ ~Taken(flow[f].mail) /\ WithGoogle(flow[f].who) = {}
    /\ \E a \in Accounts \ Rows :
        /\ email' = [email EXCEPT ![a] = flow[f].mail]
        /\ google' = [google EXCEPT ![a] = flow[f].who]
        /\ flow' = [flow EXCEPT ![f].pc = "known", ![f].found = a]
    /\ UNCHANGED <<password, cookies, reg, outside, history>>

(* ... or the account of the address, whatever it was linked to; an        *)
(* unchanged column is not written.                                        *)
Link(f) ==
    /\ flow[f].pc = "decided" /\ flow[f].found # None
    /\ \/ flow[f].read = flow[f].who /\ UNCHANGED google
       \/ /\ flow[f].read # flow[f].who
          /\ WithGoogle(flow[f].who) \subseteq {flow[f].found}
          /\ google' = [google EXCEPT ![flow[f].found] = flow[f].who]
    /\ flow' = [flow EXCEPT ![f].pc = "known"]
    /\ UNCHANGED <<email, password, cookies, reg, outside, history>>

(* Google or the database refuses, a unique index is violated, or a        *)
(* connection is lost.                                                     *)
Fail(f) ==
    /\ flow[f].pc \in {"away", "checked", "profile", "unknown", "decided", "known"}
    /\ flow' = [flow EXCEPT ![f].pc = "failed"]
    /\ UNCHANGED <<table, cookies, reg, outside, history>>

(* issue_token_pair, and the answer that deletes both cookies.             *)
Answered(f) ==
    /\ flow[f].pc = "known"
    /\ flow' = [flow EXCEPT ![f].pc = "done"]
    /\ given' = [given EXCEPT ![flow[f].who] = flow[f].found]
    /\ cookies' = [state |-> None, verifier |-> None]
    /\ UNCHANGED <<table, reg, outside, entered>>

-----------------------------------------------------------------------------
(* Two Google identities exchange an address, or one gets an unused one.   *)
MailMoves(g, e) ==
    /\ moves < MaxMoves /\ mail[g] # e
    /\ mail' = [h \in GoogleIds |-> IF h = g THEN e ELSE IF mail[h] = e THEN mail[g] ELSE mail[h]]
    /\ moves' = moves + 1
    /\ UNCHANGED <<table, cookies, flow, reg, history>>

SignIn(f) ==
    \/ Start(f) \/ Callback(f) \/ Exchange(f) \/ LookupGoogle(f) \/ LookupMail(f)
    \/ CreateLinked(f) \/ Link(f) \/ Fail(f) \/ Answered(f)

Next ==
    \/ \E r \in Registrations : RegisterCommit(r) \/ \E e \in Emails : RegisterRead(r, e)
    \/ \E e \in Emails : PasswordLogin(e) \/ \E g \in GoogleIds : MailMoves(g, e)
    \/ \E f \in Flows : SignIn(f)

Spec == Init /\ [][Next]_vars

-----------------------------------------------------------------------------
(* Properties.                                                             *)

TypeOK ==
    /\ email \in [Accounts -> Emails \cup {None}]
    /\ google \in [Accounts -> GoogleIds \cup {None}]
    /\ password \subseteq Accounts
    /\ cookies \in [state : Flows \cup {None}, verifier : Flows \cup {None}]
    /\ flow \in [Flows -> Flow]
    /\ reg \in [Registrations -> [pc : {"new", "free", "over"}, email : Emails \cup {None}]]
    /\ mail \in [GoogleIds -> Emails] /\ moves \in 0 .. MaxMoves
    /\ given \in [GoogleIds -> Accounts \cup {None}]
    /\ entered \in [Emails -> Accounts \cup {None}]

(* A callback that passes the check of the state has the verifier of its   *)
(* own flow, however the tabs have overwritten and deleted the cookies.    *)
VerifierFits == \A f \in Flows : flow[f].pc = "checked" => flow[f].verifier = f

(* Who signs in by password and who signs in with a Google identity of the *)
(* same address get the same account, however registrations and callbacks  *)
(* interleave (while addresses stay with their identities).                *)
OneAccount ==
    \A g \in GoogleIds :
        moves = 0 /\ given[g] # None /\ entered[mail[g]] # None => given[g] = entered[mail[g]]

(* A Google identity that is linked to an account gets this one and never  *)
(* another, also when its address has moved, and whatever registrations    *)
(* and other callbacks have committed since it was looked up.  (Left out:  *)
(* a sign-in that has read the account of the address as its own already,  *)
(* which writes nothing and so is not refused when others move on.)        *)
SameAccount ==
    [][\A f \in Flows, a \in Accounts :
        /\ flow[f].pc # "known" /\ flow'[f].pc = "known"
        /\ google[a] = flow[f].who /\ flow[f].read # flow[f].who
        => flow'[f].found = a]_vars

(* The accounts implement Identity until an address moves: an address is   *)
(* given one account, and both ways in lead to it.                         *)
AccountOf(e) == IF WithEmail(e) = {} THEN None ELSE CHOOSE a \in WithEmail(e) : TRUE
I == INSTANCE Identity WITH account <- [e \in Emails |-> AccountOf(e)]
Identities == I!Init /\ [][moves' = 0 => [I!Next]_(I!vars)]_vars

(* Expected, and not so: a Google identity that comes back gets the        *)
(* account it had.  When its address has moved, a callback of the identity *)
(* that got it overwrites google_id, and the first one gets a new account. *)
AlwaysSameAccount ==
    [][\A g \in GoogleIds : given[g] # None => given'[g] = given[g]]_vars

(* Expected, and not so: the flow that was started last finds its cookies. *)
(* The answer of an earlier one deletes them.                              *)
CookiesKept ==
    [][\A f \in Flows : cookies.state = f /\ flow[f].pc = "away" /\ flow'[f].pc = "away"
        => cookies'.state # None]_vars

=============================================================================
