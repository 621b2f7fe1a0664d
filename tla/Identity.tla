------------------------------ MODULE Identity ------------------------------
(***************************************************************************)
(* What the accounts of backend/app/services/auth_service.py promise: an   *)
(* e-mail address gets at most one account and keeps it, and whoever signs *)
(* in, by password or through a Google identity with that address, gets    *)
(* that account.  Accounts implements this as long as addresses do not     *)
(* move between Google identities.                                         *)
(***************************************************************************)
CONSTANTS Emails, GoogleIds, Accounts, None

VARIABLES
    account,      \* the account of each address
    mail,         \* the address of each Google identity
    given,        \* the account each Google identity last signed in to
    entered       \* the account each address last entered by password

vars == <<account, mail, given, entered>>

Init ==
    /\ account = [e \in Emails |-> None]
    /\ mail \in [GoogleIds -> Emails]
    /\ given = [g \in GoogleIds |-> None]
    /\ entered = [e \in Emails |-> None]

Create(e, a) ==
    /\ account[e] = None /\ \A f \in Emails : account[f] # a
    /\ account' = [account EXCEPT ![e] = a]
    /\ UNCHANGED <<mail, given, entered>>

GoogleSignIn(g) ==
    /\ account[mail[g]] # None
    /\ given' = [given EXCEPT ![g] = account[mail[g]]]
    /\ UNCHANGED <<account, mail, entered>>

PasswordSignIn(e) ==
    /\ account[e] # None
    /\ entered' = [entered EXCEPT ![e] = account[e]]
    /\ UNCHANGED <<account, mail, given>>

Next ==
    \/ \E e \in Emails : PasswordSignIn(e) \/ \E a \in Accounts : Create(e, a)
    \/ \E g \in GoogleIds : GoogleSignIn(g)

Spec == Init /\ [][Next]_vars

=============================================================================
