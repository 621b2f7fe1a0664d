--------------------------- MODULE AccountsProofs ---------------------------
(* Theorems of Accounts for every set of addresses, Google identities,     *)
(* accounts, sign-ins and registrations; then of SignIn for every set of   *)
(* users, requests and hooks, and every bound on families and failures.    *)
EXTENDS Accounts, SignIn, TLAPS, FiniteSetTheorems, SequenceTheorems

Profiled == {"profile", "unknown", "decided", "known"}

(* The cookies of one answer: the state and the verifier never differ.     *)
CookieInv ==
    /\ cookies.state = cookies.verifier
    /\ VerifierFits

(* The two unique indexes; only a row has a Google identity.               *)
TableInv ==
    /\ \A a, b \in Rows : email[a] = email[b] => a = b
    /\ \A a, b \in Accounts : google[a] # None /\ google[a] = google[b] => a = b
    /\ \A a \in Accounts : google[a] # None => email[a] # None

(* What a sign-in or a registration has learned, and rows are not deleted. *)
FlowInv ==
    /\ \A f \in Flows :
        /\ flow[f].pc \in {"new", "away", "checked"} => flow[f].found = None
        /\ flow[f].pc \in Profiled => flow[f].who \in GoogleIds /\ flow[f].mail \in Emails
        /\ flow[f].pc = "known" => flow[f].found # None
        /\ flow[f].found # None => flow[f].found \in Rows
    /\ \A r \in Registrations : reg[r].pc = "free" => reg[r].email \in Emails

(* Until an address moves, an account has the address of its identity, and *)
(* a sign-in has found the account of the address it was told.             *)
MailInv ==
    moves = 0 =>
        /\ \A a \in Accounts : google[a] # None => email[a] = mail[google[a]]
        /\ \A f \in Flows :
            flow[f].pc \in Profiled =>
                /\ flow[f].mail = mail[flow[f].who]
                /\ flow[f].found # None => email[flow[f].found] = flow[f].mail

IInv == TypeOK /\ CookieInv /\ TableInv /\ FlowInv /\ MailInv

-----------------------------------------------------------------------------
LEMMA InitInv == Init => IInv
<1> SUFFICES ASSUME Init PROVE IInv
  OBVIOUS
<1> USE AccountsAssumption
<1>1. NewFlow \in Flow /\ NewFlow.pc = "new" /\ NewFlow.found = None
  BY DEF NewFlow, Flow
<1>2. TypeOK
  BY <1>1 DEF Init, TypeOK
<1>3. CookieInv
  BY <1>1 DEF Init, CookieInv, VerifierFits
<1>4. TableInv
  BY DEF Init, TableInv, Rows
<1>5. FlowInv
  BY <1>1 DEF Init, FlowInv, Profiled
<1>6. MailInv
  BY <1>1 DEF Init, MailInv, Profiled
<1> QED BY <1>2, <1>3, <1>4, <1>5, <1>6 DEF IInv

(* What one field of a sign-in may become.                                 *)
LEMMA FlowFields ==
    ASSUME NEW r \in Flow
    PROVE  /\ \A pc \in {"away", "checked", "profile", "unknown", "decided", "known", "done",
                          "failed"} : [r EXCEPT !.pc = pc] \in Flow
           /\ \A v \in Flows \cup {None} : [r EXCEPT !.verifier = v] \in Flow
           /\ \A g \in GoogleIds \cup {None} :
                [r EXCEPT !.who = g] \in Flow /\ [r EXCEPT !.read = g] \in Flow
           /\ \A m \in Emails : [r EXCEPT !.mail = m] \in Flow
           /\ \A a \in Accounts : [r EXCEPT !.found = a] \in Flow
BY DEF Flow

(* What the fields of a changed sign-in are.                               *)
LEMMA Pc ==
    \A r \in Flow : \A p :
        /\ [r EXCEPT !.pc = p].pc = p /\ [r EXCEPT !.pc = p].who = r.who
        /\ [r EXCEPT !.pc = p].mail = r.mail /\ [r EXCEPT !.pc = p].found = r.found
BY DEF Flow

LEMMA PcVerifier ==
    \A r \in Flow : \A p, v :
        /\ [r EXCEPT !.pc = p, !.verifier = v].pc = p
        /\ [r EXCEPT !.pc = p, !.verifier = v].verifier = v
        /\ [r EXCEPT !.pc = p, !.verifier = v].found = r.found
BY DEF Flow

LEMMA PcProfile ==
    \A r \in Flow : \A p, g, m :
        /\ [r EXCEPT !.pc = p, !.who = g, !.mail = m].pc = p
        /\ [r EXCEPT !.pc = p, !.who = g, !.mail = m].who = g
        /\ [r EXCEPT !.pc = p, !.who = g, !.mail = m].mail = m
        /\ [r EXCEPT !.pc = p, !.who = g, !.mail = m].found = r.found
BY DEF Flow

LEMMA PcFound ==
    \A r \in Flow : \A p, a :
        /\ [r EXCEPT !.pc = p, !.found = a].pc = p
        /\ [r EXCEPT !.pc = p, !.found = a].who = r.who
        /\ [r EXCEPT !.pc = p, !.found = a].mail = r.mail
        /\ [r EXCEPT !.pc = p, !.found = a].found = a
BY DEF Flow

LEMMA PcFoundRead ==
    \A r \in Flow : \A p, a, g :
        /\ [r EXCEPT !.pc = p, !.found = a, !.read = g].pc = p
        /\ [r EXCEPT !.pc = p, !.found = a, !.read = g].who = r.who
        /\ [r EXCEPT !.pc = p, !.found = a, !.read = g].mail = r.mail
        /\ [r EXCEPT !.pc = p, !.found = a, !.read = g].found = a
BY DEF Flow

(* A step of one sign-in.                                                  *)
Becomes(f, n) == n \in Flow /\ flow' = [flow EXCEPT ![f] = n]

LEMMA Became ==
    ASSUME TypeOK, NEW f \in Flows, NEW n, Becomes(f, n)
    PROVE  /\ flow' \in [Flows -> Flow] /\ flow'[f] = n
           /\ \A g \in Flows \ {f} : flow'[g] = flow[g]
BY DEF TypeOK, Becomes

OnlyThis(f) == flow' \in [Flows -> Flow] /\ \A g \in Flows \ {f} : flow'[g] = flow[g]

(* It is told that it has become pc, and keeps what it knows.              *)
Goes(f, pc) ==
    /\ OnlyThis(f)
    /\ flow'[f].pc = pc /\ flow'[f].who = flow[f].who
    /\ flow'[f].mail = flow[f].mail /\ flow'[f].found = flow[f].found

(* It has found an account.                                                *)
Finds(f, pc, a) ==
    /\ OnlyThis(f)
    /\ flow'[f].pc = pc /\ flow'[f].who = flow[f].who
    /\ flow'[f].mail = flow[f].mail /\ flow'[f].found = a

LEMMA GoesStep ==
    ASSUME TypeOK, NEW f \in Flows,
           NEW pc \in {"away", "unknown", "decided", "known", "done", "failed"},
           flow' = [flow EXCEPT ![f].pc = pc]
    PROVE  Goes(f, pc)
<1> DEFINE n == [flow[f] EXCEPT !.pc = pc]
<1>1. flow[f] \in Flow
  BY DEF TypeOK
<1>2. n \in Flow
  BY <1>1, FlowFields
<1>3. Becomes(f, n)
  BY <1>2 DEF Becomes
<1>4. n.pc = pc /\ n.who = flow[f].who /\ n.mail = flow[f].mail /\ n.found = flow[f].found
  BY <1>1, Pc
<1> HIDE DEF n
<1> QED BY <1>3, <1>4, Became DEF Goes, OnlyThis

LEMMA CallbackStep ==
    ASSUME TypeOK, NEW f \in Flows, Callback(f)
    PROVE  /\ OnlyThis(f)
           /\ flow'[f].pc = IF cookies.state = f THEN "checked" ELSE "failed"
           /\ flow'[f].verifier = cookies.verifier /\ flow'[f].found = flow[f].found
<1> DEFINE pc == IF cookies.state = f THEN "checked" ELSE "failed"
<1> DEFINE n == [flow[f] EXCEPT !.pc = pc, !.verifier = cookies.verifier]
<1>1. flow[f] \in Flow /\ cookies.verifier \in Flows \cup {None}
  BY DEF TypeOK
<1>2. [flow[f] EXCEPT !.pc = pc] \in Flow
  BY <1>1, FlowFields
<1>3. n \in Flow
  BY <1>1, <1>2, FlowFields
<1>4. Becomes(f, n)
  BY <1>3 DEF Callback, Becomes
<1>5. n.pc = pc /\ n.verifier = cookies.verifier /\ n.found = flow[f].found
  BY <1>1, PcVerifier
<1> HIDE DEF n
<1> QED BY <1>4, <1>5, Became DEF OnlyThis

LEMMA ExchangeStep ==
    ASSUME TypeOK, NEW f \in Flows, Exchange(f)
    PROVE  \/ Goes(f, "failed")
           \/ \E g \in GoogleIds :
                /\ OnlyThis(f)
                /\ flow'[f].pc = "profile" /\ flow'[f].who = g /\ flow'[f].mail = mail[g]
                /\ flow'[f].found = flow[f].found
<1>1. PICK g \in GoogleIds : \E m \in {mail[g], Incomplete} :
         flow' = IF flow[f].verifier = f /\ m # Incomplete
                 THEN [flow EXCEPT ![f].pc = "profile", ![f].who = g, ![f].mail = m]
                 ELSE [flow EXCEPT ![f].pc = "failed"]
  BY DEF Exchange
<1>2. CASE flow' = [flow EXCEPT ![f].pc = "profile", ![f].who = g, ![f].mail = mail[g]]
  <2> DEFINE n == [flow[f] EXCEPT !.pc = "profile", !.who = g, !.mail = mail[g]]
  <2>1. flow[f] \in Flow /\ mail[g] \in Emails
    BY DEF TypeOK
  <2>2. [flow[f] EXCEPT !.pc = "profile"] \in Flow
    BY <2>1, FlowFields
  <2>3. [flow[f] EXCEPT !.pc = "profile", !.who = g] \in Flow
    BY <2>2, FlowFields
  <2>4. n \in Flow
    BY <2>1, <2>3, FlowFields
  <2>5. Becomes(f, n)
    BY <1>2, <2>4 DEF Becomes
  <2>6. n.pc = "profile" /\ n.who = g /\ n.mail = mail[g] /\ n.found = flow[f].found
    BY <2>1, PcProfile
  <2> HIDE DEF n
  <2> QED BY <2>5, <2>6, Became DEF OnlyThis
<1> QED BY <1>1, <1>2, GoesStep

LEMMA KnownStep ==
    ASSUME TypeOK, NEW f \in Flows, NEW a \in Accounts,
           flow' = [flow EXCEPT ![f].pc = "known", ![f].found = a]
    PROVE  Finds(f, "known", a)
<1> DEFINE n == [flow[f] EXCEPT !.pc = "known", !.found = a]
<1>1. flow[f] \in Flow
  BY DEF TypeOK
<1>2. [flow[f] EXCEPT !.pc = "known"] \in Flow
  BY <1>1, FlowFields
<1>3. n \in Flow
  BY <1>2, FlowFields
<1>4. Becomes(f, n)
  BY <1>3 DEF Becomes
<1>5. n.pc = "known" /\ n.who = flow[f].who /\ n.mail = flow[f].mail /\ n.found = a
  BY <1>1, PcFound
<1> HIDE DEF n
<1> QED BY <1>4, <1>5, Became DEF Finds, OnlyThis

LEMMA LookupGoogleStep ==
    ASSUME TypeOK, NEW f \in Flows, LookupGoogle(f)
    PROVE  Goes(f, "unknown") \/ \E a \in WithGoogle(flow[f].who) : Finds(f, "known", a)
<1>1. CASE WithGoogle(flow[f].who) = {}
  BY <1>1, GoesStep DEF LookupGoogle
<1>2. CASE WithGoogle(flow[f].who) # {}
  <2>1. PICK a \in WithGoogle(flow[f].who) :
          flow' = [flow EXCEPT ![f].pc = "known", ![f].found = a]
    BY <1>2 DEF LookupGoogle
  <2>2. a \in Accounts
    BY DEF WithGoogle, Rows
  <2> QED BY <2>1, <2>2, KnownStep
<1> QED BY <1>1, <1>2

LEMMA LookupMailStep ==
    ASSUME TypeOK, NEW f \in Flows, LookupMail(f)
    PROVE  Goes(f, "decided") \/ \E a \in WithEmail(flow[f].mail) : Finds(f, "decided", a)
<1>1. CASE WithEmail(flow[f].mail) = {}
  BY <1>1, GoesStep DEF LookupMail
<1>2. CASE WithEmail(flow[f].mail) # {}
  <2>1. PICK a \in WithEmail(flow[f].mail) :
          flow' = [flow EXCEPT ![f].pc = "decided", ![f].found = a, ![f].read = google[a]]
    BY <1>2 DEF LookupMail
  <2> DEFINE n == [flow[f] EXCEPT !.pc = "decided", !.found = a, !.read = google[a]]
  <2>2. flow[f] \in Flow /\ a \in Accounts /\ google[a] \in GoogleIds \cup {None}
    BY DEF TypeOK, WithEmail, Rows
  <2>3. [flow[f] EXCEPT !.pc = "decided"] \in Flow
    BY <2>2, FlowFields
  <2>4. [flow[f] EXCEPT !.pc = "decided", !.found = a] \in Flow
    BY <2>2, <2>3, FlowFields
  <2>5. n \in Flow
    BY <2>2, <2>4, FlowFields
  <2>6. Becomes(f, n)
    BY <2>1, <2>5 DEF Becomes
  <2>7. n.pc = "decided" /\ n.who = flow[f].who /\ n.mail = flow[f].mail /\ n.found = a
    BY <2>2, PcFoundRead
  <2> HIDE DEF n
  <2> QED BY <2>6, <2>7, Became DEF Finds, OnlyThis
<1> QED BY <1>1, <1>2

LEMMA CreateStep ==
    ASSUME TypeOK, NEW f \in Flows, CreateLinked(f)
    PROVE  \E a \in Accounts \ Rows :
                /\ email' = [email EXCEPT ![a] = flow[f].mail]
                /\ google' = [google EXCEPT ![a] = flow[f].who]
                /\ Finds(f, "known", a)
BY KnownStep DEF CreateLinked

-----------------------------------------------------------------------------
LEMMA TypeNext == ASSUME TypeOK, [Next]_vars PROVE TypeOK'
<1> USE AccountsAssumption
<1>1. ASSUME NEW r \in Registrations, RegisterCommit(r) PROVE TypeOK'
  <2>1. reg' \in [Registrations -> [pc : {"new", "free", "over"}, email : Emails \cup {None}]]
    BY <1>1 DEF TypeOK, RegisterCommit
  <2>2. CASE UNCHANGED table
    BY <1>1, <2>1, <2>2 DEF TypeOK, RegisterCommit, table, outside, history
  <2>3. ASSUME NEW a \in Accounts \ Rows,
               email' = [email EXCEPT ![a] = reg[r].email],
               password' = password \cup {a}, UNCHANGED google
        PROVE  TypeOK'
    BY <1>1, <2>1, <2>3 DEF TypeOK, RegisterCommit, outside, history
  <2> QED BY <1>1, <2>2, <2>3 DEF RegisterCommit
<1>2. ASSUME NEW r \in Registrations, NEW e \in Emails, RegisterRead(r, e) PROVE TypeOK'
  <2>1. [pc |-> IF WithEmail(e) = {} THEN "free" ELSE "over", email |-> e]
          \in [pc : {"new", "free", "over"}, email : Emails \cup {None}]
    OBVIOUS
  <2> QED BY <1>2, <2>1 DEF TypeOK, RegisterRead, table, outside, history
<1>3. ASSUME NEW e \in Emails, PasswordLogin(e) PROVE TypeOK'
  BY <1>3 DEF TypeOK, PasswordLogin, WithEmail, Rows, table, outside
<1>4. ASSUME NEW e \in Emails, NEW g \in GoogleIds, MailMoves(g, e) PROVE TypeOK'
  BY <1>4 DEF TypeOK, MailMoves, table, history
<1>5. ASSUME NEW f \in Flows, SignIn(f) PROVE TypeOK'
  <2>1. flow' \in [Flows -> Flow]
    <3>1. CASE Start(f) \/ Link(f) \/ Fail(f) \/ Answered(f)
      BY <3>1, GoesStep DEF Start, Link, Fail, Answered, Goes, OnlyThis
    <3>2. CASE Callback(f) \/ Exchange(f)
      BY <3>2, CallbackStep, ExchangeStep DEF Goes, OnlyThis
    <3>3. CASE LookupGoogle(f) \/ LookupMail(f) \/ CreateLinked(f)
      BY <3>3, LookupGoogleStep, LookupMailStep, CreateStep DEF Goes, Finds, OnlyThis
    <3> QED BY <1>5, <3>1, <3>2, <3>3 DEF SignIn
  <2>3. CASE Start(f)
    BY <2>1, <2>3 DEF TypeOK, Start, table, outside, history
  <2>4. CASE Callback(f) \/ Exchange(f) \/ LookupGoogle(f) \/ LookupMail(f) \/ Fail(f)
    BY <2>1, <2>4 DEF TypeOK, Callback, Exchange, LookupGoogle, LookupMail, Fail, table,
                      outside, history
  <2>5. CASE CreateLinked(f)
    <3>1. flow[f].mail \in Emails \cup {None} /\ flow[f].who \in GoogleIds \cup {None}
      BY DEF TypeOK, Flow
    <3> QED BY <2>1, <2>5, <3>1 DEF TypeOK, CreateLinked, outside, history
  <2>6. CASE Link(f)
    <3>1. flow[f].who \in GoogleIds \cup {None}
      BY DEF TypeOK, Flow
    <3> QED BY <2>1, <2>6, <3>1 DEF TypeOK, Link, outside, history
  <2>7. CASE Answered(f)
    <3>1. flow[f].found \in Accounts \cup {None}
      BY DEF TypeOK, Flow
    <3> QED BY <2>1, <2>7, <3>1 DEF TypeOK, Answered, table, outside
  <2> QED BY <1>5, <2>3, <2>4, <2>5, <2>6, <2>7 DEF SignIn
<1>6. CASE UNCHANGED vars
  BY <1>6 DEF TypeOK, vars
<1> QED BY <1>1, <1>2, <1>3, <1>4, <1>5, <1>6 DEF Next

(* The two cookies are set together and deleted together.                  *)
LEMMA CookieNext == ASSUME TypeOK, CookieInv, [Next]_vars PROVE CookieInv'
<1>1. CASE UNCHANGED <<cookies, flow>>
  BY <1>1 DEF CookieInv, VerifierFits
<1>2. ASSUME NEW f \in Flows, SignIn(f) PROVE CookieInv'
  <2>0. flow[f] \in Flow
    BY DEF TypeOK
  <2>1. cookies'.state = cookies'.verifier
    <3>1. CASE Start(f)
      BY <3>1 DEF Start
    <3>2. CASE Answered(f)
      BY <3>2 DEF Answered
    <3>3. CASE UNCHANGED cookies
      BY <3>3 DEF CookieInv
    <3> QED BY <1>2, <3>1, <3>2, <3>3 DEF SignIn, Callback, Exchange, LookupGoogle, LookupMail,
                                          CreateLinked, Link, Fail
  <2>2. ASSUME OnlyThis(f), flow'[f].pc = "checked" => flow'[f].verifier = f
        PROVE  CookieInv'
    BY <2>1, <2>2 DEF CookieInv, VerifierFits, OnlyThis
  <2>3. CASE Start(f) \/ Link(f) \/ Fail(f) \/ Answered(f)
    BY <2>2, <2>3, GoesStep DEF Start, Link, Fail, Answered, Goes
  <2>4. CASE Callback(f)
    BY <2>2, <2>4, CallbackStep DEF CookieInv
  <2>5. CASE Exchange(f)
    BY <2>2, <2>5, ExchangeStep DEF Goes
  <2>6. CASE LookupGoogle(f) \/ LookupMail(f) \/ CreateLinked(f)
    BY <2>2, <2>6, LookupGoogleStep, LookupMailStep, CreateStep DEF Goes, Finds
  <2> QED BY <1>2, <2>3, <2>4, <2>5, <2>6 DEF SignIn
<1> QED BY <1>1, <1>2 DEF Next, vars, RegisterRead, RegisterCommit, PasswordLogin, MailMoves

(* The unique indexes refuse what would break them.                        *)
LEMMA TableNext == ASSUME TypeOK, TableInv, FlowInv, [Next]_vars PROVE TableInv'
<1> USE AccountsAssumption
<1>1. CASE UNCHANGED <<email, google>>
  BY <1>1 DEF TableInv, Rows
<1>2. ASSUME NEW a \in Accounts \ Rows, NEW e \in Emails, ~Taken(e),
             email' = [email EXCEPT ![a] = e]
      PROVE  /\ Rows' = Rows \cup {a}
             /\ \A b, c \in Rows' : email'[b] = email'[c] => b = c
  BY <1>2 DEF TypeOK, TableInv, Taken, WithEmail, Rows
<1>3. ASSUME NEW r \in Registrations, RegisterCommit(r) PROVE TableInv'
  <2>1. ASSUME NEW a \in Accounts \ Rows, ~Taken(reg[r].email),
               email' = [email EXCEPT ![a] = reg[r].email], UNCHANGED google
        PROVE  TableInv'
    <3>1. reg[r].email \in Emails
      BY <1>3 DEF FlowInv, RegisterCommit
    <3>2. \A b, c \in Rows' : email'[b] = email'[c] => b = c
      BY <1>2, <2>1, <3>1
    <3>3. email \in [Accounts -> Emails \cup {None}]
      BY DEF TypeOK
    <3>4. \A b \in Accounts : email[b] # None => email'[b] # None
      BY <2>1, <3>1, <3>3
    <3> QED BY <2>1, <3>2, <3>4 DEF TableInv
  <2> QED BY <1>1, <1>3, <2>1 DEF RegisterCommit, TakenAtInsert, table
<1>4. ASSUME NEW f \in Flows, CreateLinked(f) PROVE TableInv'
  <2>1. flow[f].mail \in Emails /\ flow[f].who \in GoogleIds
    BY <1>4 DEF FlowInv, CreateLinked, Profiled
  <2>2. PICK a \in Accounts \ Rows :
          /\ email' = [email EXCEPT ![a] = flow[f].mail]
          /\ google' = [google EXCEPT ![a] = flow[f].who]
    BY <1>4, CreateStep
  <2>3. ~Taken(flow[f].mail) /\ WithGoogle(flow[f].who) = {}
    BY <1>4 DEF CreateLinked
  <2>4. \A b \in Accounts : google[b] # flow[f].who
    BY <2>1, <2>3 DEF WithGoogle, Rows, TableInv
  <2>5. \A b, c \in Rows' : email'[b] = email'[c] => b = c
    BY <1>2, <2>1, <2>2, <2>3
  <2>6. google \in [Accounts -> GoogleIds \cup {None}]
    BY DEF TypeOK
  <2>7. \A b, c \in Accounts : google'[b] # None /\ google'[b] = google'[c] => b = c
    BY <2>2, <2>4, <2>6 DEF TableInv
  <2>8. \A b \in Accounts : google'[b] # None => email'[b] # None
    BY <2>1, <2>2, <2>6 DEF TableInv, TypeOK
  <2> QED BY <2>5, <2>7, <2>8 DEF TableInv
<1>5. ASSUME NEW f \in Flows, Link(f) PROVE TableInv'
  <2>1. /\ flow[f].who \in GoogleIds /\ flow[f].found \in Rows
        /\ UNCHANGED email
    BY <1>5 DEF FlowInv, Link, Profiled
  <2>2. CASE /\ WithGoogle(flow[f].who) \subseteq {flow[f].found}
             /\ google' = [google EXCEPT ![flow[f].found] = flow[f].who]
    <3>1. \A b \in Accounts : google[b] = flow[f].who => b = flow[f].found
      BY <2>1, <2>2 DEF WithGoogle, Rows, TableInv
    <3> QED BY <2>1, <2>2, <3>1 DEF TableInv, TypeOK, Rows
  <2> QED BY <1>1, <1>5, <2>1, <2>2 DEF Link
<1> QED
  BY <1>1, <1>3, <1>4, <1>5
     DEF Next, vars, RegisterRead, PasswordLogin, MailMoves, SignIn, Start, Callback, Exchange,
         LookupGoogle, LookupMail, Fail, Answered, table

(* Rows are not deleted, so what a sign-in has found stays.                *)
LEMMA RowsStay == ASSUME TypeOK, FlowInv, [Next]_vars PROVE Rows \subseteq Rows'
<1> USE AccountsAssumption
<1>1. CASE UNCHANGED email
  BY <1>1 DEF Rows
<1>2. ASSUME NEW a \in Accounts, NEW e \in Emails, email' = [email EXCEPT ![a] = e]
      PROVE  Rows \subseteq Rows'
  BY <1>2 DEF TypeOK, Rows
<1>3. ASSUME NEW r \in Registrations, RegisterCommit(r) PROVE Rows \subseteq Rows'
  BY <1>1, <1>2, <1>3 DEF RegisterCommit, FlowInv, table
<1>4. ASSUME NEW f \in Flows, CreateLinked(f) PROVE Rows \subseteq Rows'
  BY <1>2, <1>4 DEF CreateLinked, FlowInv, Profiled
<1> QED
  BY <1>1, <1>3, <1>4
     DEF Next, vars, RegisterRead, PasswordLogin, MailMoves, SignIn, Start, Callback, Exchange,
         LookupGoogle, LookupMail, Link, Fail, Answered, table

LEMMA FlowNext == ASSUME TypeOK, FlowInv, [Next]_vars PROVE FlowInv'
<1> USE AccountsAssumption
<1> DEFINE Knows(f) ==
        /\ flow[f].pc \in {"new", "away", "checked"} => flow[f].found = None
        /\ flow[f].pc \in Profiled => flow[f].who \in GoogleIds /\ flow[f].mail \in Emails
        /\ flow[f].pc = "known" => flow[f].found # None
        /\ flow[f].found # None => flow[f].found \in Rows
<1>1. \A f \in Flows : Knows(f)
  BY DEF FlowInv
<1>2. ASSUME NEW f \in Flows, OnlyThis(f), Knows(f)', UNCHANGED reg PROVE FlowInv'
  <2>1. ASSUME NEW g \in Flows \ {f} PROVE Knows(g)'
    BY <1>1, <1>2, RowsStay DEF OnlyThis
  <2> HIDE DEF Knows
  <2>2. \A g \in Flows : Knows(g)'
    BY <1>2, <2>1
  <2> QED BY <1>2, <2>2 DEF FlowInv, Knows
<1>3. CASE UNCHANGED <<flow, reg>>
  BY <1>3, RowsStay DEF FlowInv
<1>4. ASSUME NEW r \in Registrations, RegisterCommit(r) \/ \E e \in Emails : RegisterRead(r, e)
      PROVE  FlowInv'
  <2>1. /\ UNCHANGED flow /\ \A q \in Registrations \ {r} : reg'[q] = reg[q]
        /\ reg'[r].pc = "free" => reg'[r].email \in Emails
    BY <1>4 DEF RegisterCommit, RegisterRead, TypeOK
  <2> QED BY <2>1, RowsStay DEF FlowInv
<1>5. ASSUME NEW f \in Flows, SignIn(f) PROVE FlowInv'
  <2>1. flow[f] \in Flow /\ UNCHANGED reg
    BY <1>5 DEF TypeOK, SignIn, Start, Callback, Exchange, LookupGoogle, LookupMail,
                CreateLinked, Link, Fail, Answered
  <2>2. ASSUME NEW pc \in {"away", "unknown", "decided", "known", "done", "failed"},
               Goes(f, pc), pc = "away" => flow[f].pc = "new",
               pc \in Profiled => flow[f].pc \in Profiled,
               pc = "known" => flow[f].found # None
        PROVE  FlowInv'
    BY <1>1, <1>2, <2>1, <2>2, RowsStay DEF Goes, Profiled
  <2>3. ASSUME NEW pc \in {"decided", "known"}, NEW a \in Rows', Finds(f, pc, a),
               flow[f].pc \in Profiled
        PROVE  FlowInv'
    <3>1. a # None
      BY DEF Rows
    <3> QED BY <1>1, <1>2, <2>1, <2>3, <3>1 DEF Finds, Profiled
  <2>4. CASE Start(f)
    BY <2>2, <2>4, GoesStep DEF Start, Profiled
  <2>5. CASE Callback(f)
    <3>1. flow'[f].pc \in {"checked", "failed"} /\ flow'[f].found = None
      BY <1>1, <2>5, CallbackStep DEF Callback
    <3> QED BY <1>2, <2>1, <2>5, <3>1, CallbackStep DEF Profiled
  <2>6. CASE Exchange(f)
    <3>1. CASE Goes(f, "failed")
      BY <2>2, <3>1 DEF Profiled
    <3>2. ASSUME NEW g \in GoogleIds, OnlyThis(f), flow'[f].pc = "profile",
                 flow'[f].who = g, flow'[f].mail = mail[g], flow'[f].found = flow[f].found
          PROVE  FlowInv'
      <4>1. mail[g] \in Emails /\ flow[f].found = None
        BY <1>1, <2>6 DEF TypeOK, Exchange
      <4> QED BY <1>2, <2>1, <3>2, <4>1
    <3> QED BY <2>6, <3>1, <3>2, ExchangeStep
  <2>7. CASE LookupGoogle(f)
    <3>1. \A a \in WithGoogle(flow[f].who) : a \in Rows'
      BY RowsStay DEF WithGoogle
    <3> QED BY <2>2, <2>3, <2>7, <3>1, LookupGoogleStep DEF LookupGoogle, Profiled
  <2>8. CASE LookupMail(f)
    <3>1. \A a \in WithEmail(flow[f].mail) : a \in Rows'
      BY RowsStay DEF WithEmail
    <3> QED BY <2>2, <2>3, <2>8, <3>1, LookupMailStep DEF LookupMail, Profiled
  <2>9. CASE CreateLinked(f)
    <3>1. flow[f].pc \in Profiled /\ flow[f].mail \in Emails
      BY <1>1, <2>9 DEF CreateLinked, Profiled
    <3>2. PICK a \in Accounts \ Rows :
            email' = [email EXCEPT ![a] = flow[f].mail] /\ Finds(f, "known", a)
      BY <2>9, CreateStep
    <3>3. a \in Rows'
      BY <3>1, <3>2 DEF TypeOK, Rows
    <3> QED BY <2>3, <3>1, <3>2, <3>3
  <2>10. CASE Link(f)
    BY <2>2, <2>10, GoesStep DEF Link, Profiled
  <2>11. CASE Fail(f) \/ Answered(f)
    BY <2>2, <2>11, GoesStep DEF Fail, Answered, Profiled
  <2> QED BY <1>5, <2>4, <2>5, <2>6, <2>7, <2>8, <2>9, <2>10, <2>11 DEF SignIn
<1> QED BY <1>3, <1>4, <1>5 DEF Next, vars, PasswordLogin, MailMoves

(* The address of a row does not change.                                   *)
LEMMA EmailStays == ASSUME TypeOK, [Next]_vars PROVE \A a \in Rows : email'[a] = email[a]
<1>1. ASSUME NEW a \in Accounts \ Rows, NEW e, email' = [email EXCEPT ![a] = e]
      PROVE  \A b \in Rows : email'[b] = email[b]
  BY <1>1 DEF TypeOK, Rows
<1>2. CASE UNCHANGED email
  BY <1>2
<1> QED
  BY <1>1, <1>2
     DEF Next, vars, RegisterRead, RegisterCommit, PasswordLogin, MailMoves, SignIn, Start,
         Callback, Exchange, LookupGoogle, LookupMail, CreateLinked, Link, Fail, Answered, table

Linked == \A a \in Accounts : google[a] # None => email[a] = mail[google[a]]
Fits(f) ==
    flow[f].pc \in Profiled =>
        /\ flow[f].mail = mail[flow[f].who]
        /\ flow[f].found # None => email[flow[f].found] = flow[f].mail

LEMMA MailNext == ASSUME TypeOK, TableInv, FlowInv, MailInv, [Next]_vars PROVE MailInv'
<1> USE AccountsAssumption
<1>0. MailInv' <=> (moves' = 0 => Linked' /\ \A f \in Flows : Fits(f)')
  BY DEF MailInv, Linked, Fits
<1>1. ASSUME NEW e \in Emails, NEW g \in GoogleIds, MailMoves(g, e) PROVE MailInv'
  <2>1. moves' # 0
    BY <1>1 DEF MailMoves, TypeOK
  <2> QED BY <1>0, <2>1
<1>2. CASE UNCHANGED outside /\ moves = 0
  <2>1. Linked /\ (\A f \in Flows : Fits(f)) /\ UNCHANGED <<mail, moves>>
    BY <1>2 DEF MailInv, Linked, Fits, outside
  <2>2. ASSUME NEW f \in Flows, flow'[f] = flow[f] PROVE Fits(f)'
    BY <2>1, <2>2, EmailStays DEF FlowInv, Fits
  <2>3. ASSUME UNCHANGED google PROVE Linked'
    BY <2>1, <2>3, EmailStays DEF TableInv, Linked, Rows
  <2>4. ASSUME NEW f \in Flows, OnlyThis(f), Fits(f)', Linked' PROVE MailInv'
    <3>1. \A g \in Flows \ {f} : Fits(g)'
      BY <2>2, <2>4 DEF OnlyThis
    <3>2. \A g \in Flows : Fits(g)'
      BY <2>4, <3>1
    <3> QED BY <1>0, <2>4, <3>2
  <2>5. CASE UNCHANGED <<google, flow>>
    BY <1>0, <2>2, <2>3, <2>5
  <2>6. ASSUME NEW f \in Flows, SignIn(f) PROVE MailInv'
    <3>1. ASSUME NEW pc, Goes(f, pc), pc \in Profiled => flow[f].pc \in Profiled, Linked'
          PROVE  MailInv'
      <4>1. Fits(f)'
        BY <2>1, <3>1, EmailStays DEF Goes, Fits, FlowInv
      <4> QED BY <2>4, <3>1, <4>1 DEF Goes
    <3>2. ASSUME NEW pc, NEW a, Finds(f, pc, a), email'[a] = flow[f].mail,
                 flow[f].pc \in Profiled, Linked'
          PROVE  MailInv'
      <4>1. Fits(f)'
        BY <2>1, <3>2 DEF Finds, Fits
      <4> QED BY <2>4, <3>2, <4>1 DEF Finds
    <3>3. CASE Start(f)
      BY <2>3, <3>1, <3>3, GoesStep DEF Start, Profiled, table
    <3>4. CASE Callback(f)
      <4>1. flow'[f].pc \notin Profiled /\ OnlyThis(f)
        BY <3>4, CallbackStep DEF Profiled
      <4>2. Fits(f)'
        BY <4>1 DEF Fits
      <4> QED BY <2>3, <2>4, <3>4, <4>1, <4>2 DEF Callback, table
    <3>5. CASE Exchange(f)
      <4>1. Linked' /\ flow[f].found = None
        BY <2>3, <3>5 DEF Exchange, table, FlowInv
      <4>2. CASE Goes(f, "failed")
        BY <3>1, <4>1, <4>2 DEF Profiled
      <4>3. ASSUME NEW g \in GoogleIds, OnlyThis(f), flow'[f].who = g,
                   flow'[f].mail = mail[g], flow'[f].found = flow[f].found
            PROVE  MailInv'
        <5>1. Fits(f)'
          BY <2>1, <4>1, <4>3 DEF Fits
        <5> QED BY <2>4, <4>1, <4>3, <5>1
      <4> QED BY <3>5, <4>2, <4>3, ExchangeStep
    <3>6. CASE LookupGoogle(f)
      <4>1. Linked' /\ flow[f].pc \in Profiled
        BY <2>3, <3>6 DEF LookupGoogle, table, Profiled
      <4>2. \A a \in WithGoogle(flow[f].who) : email'[a] = flow[f].mail
        BY <2>1, <4>1, EmailStays DEF WithGoogle, FlowInv, Linked, Fits, Rows
      <4> QED BY <3>1, <3>2, <3>6, <4>1, <4>2, LookupGoogleStep
    <3>7. CASE LookupMail(f)
      <4>1. Linked' /\ flow[f].pc \in Profiled
        BY <2>3, <3>7 DEF LookupMail, table, Profiled
      <4>2. \A a \in WithEmail(flow[f].mail) : email'[a] = flow[f].mail
        BY EmailStays DEF WithEmail
      <4> QED BY <3>1, <3>2, <3>7, <4>1, <4>2, LookupMailStep
    <3>8. CASE CreateLinked(f)
      <4>1. /\ flow[f].pc \in Profiled /\ flow[f].mail = mail[flow[f].who]
            /\ flow[f].mail \in Emails /\ flow[f].who \in GoogleIds
        BY <2>1, <3>8 DEF CreateLinked, Profiled, FlowInv, Fits
      <4>2. PICK a \in Accounts \ Rows :
                /\ email' = [email EXCEPT ![a] = flow[f].mail]
                /\ google' = [google EXCEPT ![a] = flow[f].who]
                /\ Finds(f, "known", a)
        BY <3>8, CreateStep
      <4>3. email'[a] = flow[f].mail /\ google'[a] = flow[f].who
        BY <4>2 DEF TypeOK
      <4>4. ASSUME NEW b \in Accounts, b # a PROVE email'[b] = email[b] /\ google'[b] = google[b]
        BY <4>2, <4>4 DEF TypeOK
      <4>5. Linked'
        BY <2>1, <4>1, <4>3, <4>4 DEF Linked
      <4> QED BY <3>2, <4>1, <4>2, <4>3, <4>5
    <3>9. CASE Link(f)
      <4>1. /\ flow[f].pc \in Profiled /\ flow[f].mail = mail[flow[f].who]
            /\ flow[f].who \in GoogleIds /\ email[flow[f].found] = flow[f].mail
            /\ UNCHANGED email
        BY <2>1, <3>9 DEF Link, Profiled, FlowInv, Fits
      <4>2. ASSUME google' = [google EXCEPT ![flow[f].found] = flow[f].who] PROVE Linked'
        <5>1. ASSUME NEW b \in Accounts
              PROVE  google'[b] = IF b = flow[f].found THEN flow[f].who ELSE google[b]
          BY <4>2 DEF TypeOK
        <5>2. ASSUME NEW b \in Accounts, google'[b] # None
              PROVE  email'[b] = mail'[google'[b]]
          <6>1. CASE b = flow[f].found
            BY <2>1, <4>1, <5>1, <6>1
          <6>2. CASE b # flow[f].found
            BY <2>1, <4>1, <5>1, <5>2, <6>2 DEF Linked
          <6> QED BY <6>1, <6>2
        <5> QED BY <5>2 DEF Linked
      <4>3. Linked'
        BY <2>3, <3>9, <4>2 DEF Link
      <4> QED BY <3>1, <3>9, <4>1, <4>3, GoesStep DEF Link
    <3>10. CASE Fail(f) \/ Answered(f)
      BY <2>3, <3>1, <3>10, GoesStep DEF Fail, Answered, Profiled, table
    <3> QED BY <2>6, <3>3, <3>4, <3>5, <3>6, <3>7, <3>8, <3>9, <3>10 DEF SignIn
  <2> QED
    BY <1>1, <2>5, <2>6 DEF Next, vars, RegisterRead, RegisterCommit, PasswordLogin, table
<1>3. CASE ~(UNCHANGED outside /\ moves = 0)
  <2>1. CASE UNCHANGED outside
    BY <1>0, <1>3, <2>1 DEF outside
  <2> QED
    BY <1>1, <2>1
       DEF Next, vars, RegisterRead, RegisterCommit, PasswordLogin, SignIn, Start, Callback,
           Exchange, LookupGoogle, LookupMail, CreateLinked, Link, Fail, Answered, outside
<1> QED BY <1>2, <1>3

-----------------------------------------------------------------------------
THEOREM Invariant == Spec => []IInv
<1>1. IInv /\ [Next]_vars => IInv'
  BY TypeNext, CookieNext, TableNext, FlowNext, MailNext DEF IInv
<1> QED BY InitInv, <1>1, PTL DEF Spec

(* Type correctness of the accounts and of the sign-ins.                   *)
THEOREM TypeCorrect == Spec => []TypeOK
<1>1. IInv => TypeOK
  BY DEF IInv
<1> QED BY Invariant, <1>1, PTL

(* A callback that passes the check of the state has its own verifier      *)
(* (google_login and google_callback of auth.py).                          *)
THEOREM VerifierIsOwn == Spec => []VerifierFits
<1>1. IInv => VerifierFits
  BY DEF IInv, CookieInv
<1> QED BY Invariant, <1>1, PTL

(* A linked Google identity gets its account and no other                  *)
(* (handle_google_callback of auth_service.py).                            *)
THEOREM LinkedGetsItsAccount == Spec => SameAccount
<1> DEFINE Step == \A f \in Flows, a \in Accounts :
        /\ flow[f].pc # "known" /\ flow'[f].pc = "known"
        /\ google[a] = flow[f].who /\ flow[f].read # flow[f].who
        => flow'[f].found = a
<1>1. ASSUME IInv, Next PROVE Step
  <2> SUFFICES ASSUME NEW f \in Flows, NEW a \in Accounts,
                      flow[f].pc # "known", flow'[f].pc = "known",
                      google[a] = flow[f].who, flow[f].read # flow[f].who
               PROVE  flow'[f].found = a
    OBVIOUS
  <2> USE <1>1, AccountsAssumption DEF IInv
  <2>1. SignIn(f)
    <3>1. ASSUME NEW g \in Flows, SignIn(g), g # f PROVE flow'[f] = flow[f]
      <4>1. OnlyThis(g)
        <5>1. CASE Start(g) \/ Link(g) \/ Fail(g) \/ Answered(g)
          BY <5>1, GoesStep DEF Start, Link, Fail, Answered, Goes
        <5>2. CASE Callback(g) \/ Exchange(g)
          BY <5>2, CallbackStep, ExchangeStep DEF Goes
        <5>3. CASE LookupGoogle(g) \/ LookupMail(g) \/ CreateLinked(g)
          BY <5>3, LookupGoogleStep, LookupMailStep, CreateStep DEF Goes, Finds
        <5> QED BY <3>1, <5>1, <5>2, <5>3 DEF SignIn
      <4> QED BY <3>1, <4>1 DEF OnlyThis
    <3> QED BY <3>1 DEF Next, RegisterRead, RegisterCommit, PasswordLogin, MailMoves
  <2>2. CASE LookupGoogle(f)
    <3>1. PICK b \in WithGoogle(flow[f].who) : flow'[f].found = b
      BY <2>2, LookupGoogleStep DEF Goes, Finds
    <3>2. flow[f].who \in GoogleIds
      BY <2>2 DEF LookupGoogle, FlowInv, Profiled
    <3> QED BY <3>1, <3>2 DEF TableInv, WithGoogle, Rows
  <2>3. CASE CreateLinked(f)
    <3>1. WithGoogle(flow[f].who) = {} /\ flow[f].who \in GoogleIds
      BY <2>3 DEF CreateLinked, FlowInv, Profiled
    <3> QED BY <3>1 DEF TableInv, WithGoogle, Rows
  <2>4. CASE Link(f)
    <3>1. WithGoogle(flow[f].who) \subseteq {flow[f].found} /\ flow[f].who \in GoogleIds
      BY <2>4 DEF Link, FlowInv, Profiled
    <3>2. flow'[f].found = flow[f].found
      BY <2>4, GoesStep DEF Link, Goes
    <3> QED BY <3>1, <3>2 DEF TableInv, WithGoogle, Rows
  <2>5. CASE Start(f) \/ Fail(f) \/ Answered(f)
    BY <2>5, GoesStep DEF Start, Fail, Answered, Goes
  <2>6. CASE Callback(f) \/ Exchange(f) \/ LookupMail(f)
    BY <2>6, CallbackStep, ExchangeStep, LookupMailStep DEF Goes, Finds
  <2> QED BY <2>1, <2>2, <2>3, <2>4, <2>5, <2>6 DEF SignIn
<1>2. IInv /\ [Next]_vars => [Step]_vars
  BY <1>1
<1> QED BY Invariant, <1>2, PTL DEF Spec, SameAccount

-----------------------------------------------------------------------------
(* The accounts implement Identity.                                        *)

LEMMA OneOfEmail ==
    ASSUME TableInv, NEW e \in Emails, NEW a \in WithEmail(e)
    PROVE  WithEmail(e) = {a} /\ AccountOf(e) = a
<1>1. WithEmail(e) = {a}
  BY DEF TableInv, WithEmail
<1> QED BY <1>1 DEF AccountOf

LEMMA AccountStays ==
    ASSUME UNCHANGED email PROVE [e \in Emails |-> AccountOf(e)]' = [e \in Emails |-> AccountOf(e)]
BY DEF AccountOf, WithEmail, Rows

LEMMA CreateMaps ==
    ASSUME TypeOK, TableInv, TableInv', NEW a \in Accounts \ Rows, NEW e \in Emails, ~Taken(e),
           email' = [email EXCEPT ![a] = e], UNCHANGED <<mail, given, entered>>
    PROVE  I!Create(e, a)
<1> USE AccountsAssumption
<1>1. AccountOf(e) = None
  BY DEF AccountOf, Taken
<1>2. \A f \in Emails : AccountOf(f) # a
  BY DEF AccountOf, WithEmail
<1>3. /\ email'[a] = e /\ a \in Rows'
      /\ \A b \in Accounts \ {a} : email'[b] = email[b]
  BY DEF TypeOK, Rows
<1>4. AccountOf(e)' = a
  <2>1. WithEmail(e)' = {a}
    BY <1>3 DEF TableInv, WithEmail
  <2> QED BY <2>1 DEF AccountOf
<1>5. ASSUME NEW f \in Emails \ {e} PROVE AccountOf(f)' = AccountOf(f)
  <2>1. WithEmail(f)' = WithEmail(f)
    BY <1>3 DEF WithEmail, Rows
  <2> QED BY <2>1 DEF AccountOf
<1>6. [f \in Emails |-> AccountOf(f)]' = [[f \in Emails |-> AccountOf(f)] EXCEPT ![e] = a]
  BY <1>4, <1>5
<1> QED BY <1>1, <1>2, <1>6 DEF I!Create

(* Every step, until an address moves, is one of Identity or a stutter.    *)
LEMMA IdentityNext ==
    ASSUME IInv, IInv', [Next]_vars, moves' = 0 PROVE [I!Next]_(I!vars)
<1> USE AccountsAssumption DEF IInv
<1>1. CASE UNCHANGED <<email, mail, given, entered>>
  BY <1>1, AccountStays DEF I!vars
<1>2. ASSUME NEW r \in Registrations, RegisterCommit(r) PROVE [I!Next]_(I!vars)
  <2>1. UNCHANGED <<mail, given, entered>>
    BY <1>2 DEF RegisterCommit, outside, history
  <2>2. ASSUME NEW a \in Accounts \ Rows, ~Taken(reg[r].email),
               email' = [email EXCEPT ![a] = reg[r].email]
        PROVE  I!Next
    <3>1. reg[r].email \in Emails
      BY <1>2 DEF RegisterCommit, FlowInv
    <3>2. I!Create(reg[r].email, a)
      BY <2>1, <2>2, <3>1, CreateMaps
    <3> QED BY <3>1, <3>2 DEF I!Next
  <2> QED BY <1>1, <1>2, <2>1, <2>2 DEF RegisterCommit, TakenAtInsert, table
<1>3. ASSUME NEW f \in Flows, CreateLinked(f) PROVE [I!Next]_(I!vars)
  <2>1. UNCHANGED <<mail, given, entered>> /\ ~Taken(flow[f].mail)
    BY <1>3 DEF CreateLinked, outside, history
  <2>2. flow[f].mail \in Emails
    BY <1>3 DEF CreateLinked, FlowInv, Profiled
  <2>3. PICK a \in Accounts \ Rows : email' = [email EXCEPT ![a] = flow[f].mail]
    BY <1>3, CreateStep
  <2>4. I!Create(flow[f].mail, a)
    BY <2>1, <2>2, <2>3, CreateMaps
  <2> QED BY <2>2, <2>4 DEF I!Next
<1>4. ASSUME NEW e \in Emails, PasswordLogin(e) PROVE [I!Next]_(I!vars)
  <2>1. PICK a \in WithEmail(e) : entered' = [entered EXCEPT ![e] = a]
    BY <1>4 DEF PasswordLogin
  <2>2. AccountOf(e) = a /\ a # None /\ UNCHANGED <<email, mail, given>>
    BY <1>4, OneOfEmail DEF PasswordLogin, table, outside, WithEmail, Rows
  <2>3. I!PasswordSignIn(e)
    BY <2>1, <2>2, AccountStays DEF I!PasswordSignIn
  <2> QED BY <2>3 DEF I!Next
<1>5. ASSUME NEW f \in Flows, Answered(f) PROVE [I!Next]_(I!vars)
  <2> DEFINE g == flow[f].who
  <2>1. UNCHANGED <<email, mail, moves, entered>> /\ given' = [given EXCEPT ![g] = flow[f].found]
    BY <1>5 DEF Answered, table, outside
  <2>2. g \in GoogleIds /\ mail[g] \in Emails
    BY <1>5 DEF Answered, FlowInv, Profiled, TypeOK
  <2>3. flow[f].found \in WithEmail(mail[g])
    BY <1>5, <2>1 DEF Answered, FlowInv, MailInv, Profiled, WithEmail
  <2>4. AccountOf(mail[g]) = flow[f].found /\ flow[f].found # None
    BY <2>2, <2>3, OneOfEmail DEF WithEmail, Rows
  <2>5. I!GoogleSignIn(g)
    BY <2>1, <2>2, <2>4, AccountStays DEF I!GoogleSignIn
  <2> QED BY <2>2, <2>5 DEF I!Next
<1>6. ASSUME NEW e \in Emails, NEW g \in GoogleIds, MailMoves(g, e) PROVE FALSE
  BY <1>6 DEF MailMoves, TypeOK
<1> QED
  BY <1>1, <1>2, <1>3, <1>4, <1>5, <1>6
     DEF Next, vars, RegisterRead, SignIn, Start, Callback, Exchange, LookupGoogle, LookupMail,
         Link, Fail, table, outside, history

(* The accounts implement Identity until an address moves: an address has  *)
(* one account, and both ways in lead to it (auth_service.py).             *)
THEOREM Refinement == Spec => Identities
<1>1. Init => I!Init
  <2> SUFFICES ASSUME Init PROVE I!Init
    OBVIOUS
  <2>1. \A e \in Emails : AccountOf(e) = None
    BY DEF Init, AccountOf, WithEmail, Rows
  <2> QED BY <2>1 DEF Init, I!Init
<1>2. IInv /\ IInv' /\ [Next]_vars => [moves' = 0 => [I!Next]_(I!vars)]_vars
  BY IdentityNext
<1> QED BY Invariant, <1>1, <1>2, PTL DEF Spec, Identities


-----------------------------------------------------------------------------
(* SignIn: what the store, the requests and the refresh of a tab agree on. *)

LoginsSent == {c \in Calls : call[c].pc = "sent" /\ call[c].kind = "login"}

(* The families the logins under way will begin fit under the bound.       *)
TabTypes ==
    /\ TabTypeOK
    /\ owner \in Seq(Users) /\ \A c \in Calls : call[c].family <= Len(owner)
    /\ Len(owner) + Cardinality(LoginsSent) <= MaxFamilies

(* What a request holds at each stage, whatever overlaps it: the second    *)
(* request of a login and a retry have a good token, a login its user, and *)
(* an answer that is not an error the token that earned it.                *)
CallShape(k) ==
    /\ (k.pc = "free") = (k.kind = "none") /\ (k.pc = "free" => k = Blank)
    /\ k.pc = "sent" => k.result = "none"
    /\ k.pc = "waiting" => k.result = "401" /\ ~k.retried
    /\ k.pc = "served" => k.result # "none"
    /\ k.kind = "login" => k.who \in Users
    /\ k.kind = "login_me" => k.token # Nobody /\ k.token.good /\ k.held = k.token
    /\ k.retried => k.token # Nobody /\ k.token.good /\ k.kind \in {"fetch_me", "data"}
    /\ k.result = "401" => ~k.retried /\ k.kind \in {"fetch_me", "data"}
    /\ k.result = "ok" /\ k.kind \in {"fetch_me", "login_me"} => k.token # Nobody
CallServed(k) ==
    /\ k.kind = "login" /\ k.result = "ok"
         => k.family \in DOMAIN owner /\ owner[k.family] = k.who
    /\ k.kind = "logout" /\ k.result = "ok" => k.family \notin alive
    /\ k.result = "error" => faults > 0
CallsInv == \A c \in Calls : CallShape(call[c]) /\ CallServed(call[c])

(* The one refresh has somebody waiting for it; a refusal is final.        *)
RefreshInv ==
    /\ refresh.pc = "none" => refresh = Idle
    /\ refresh.pc # "none" => Waiting # {}
    /\ refresh.ok => refresh.pc = "served" /\ refresh.family \in DOMAIN owner
    /\ refresh.pc = "served" /\ ~refresh.ok => refresh.family \notin alive

(* While no sign-in or sign-out has overlapped anything: it is alone, it   *)
(* has not failed, and the cookie says who everybody is.                   *)
Alone ==
    /\ \A c, d \in Calls \ Free : Changes(call[c].kind) => c = d
    /\ \A c \in Calls : Changes(call[c].kind) => call[c].result # "error"
    /\ \A c \in Calls : call[c].kind = "logout" => call[c].family = cookie
    /\ refresh.pc # "none" => refresh.family = cookie
OfCookie(u) == cookie \in DOMAIN owner /\ u = owner[cookie]
OnePerson ==
    /\ token # Nobody => OfCookie(token.of)
    /\ url # Nobody => OfCookie(url) /\ \A c \in Calls : ~Changes(call[c].kind)
    /\ \A c \in Calls : call[c].token # Nobody => OfCookie(call[c].token.of)
    /\ user # Nobody /\ Pending("login_me") = {} => OfCookie(user)

(* After a sign-out: the family of the cookie is over, and nothing that is *)
(* under way has or will get a token.                                      *)
SignedOut ==
    /\ cookie \notin alive /\ user = Nobody /\ token = Nobody /\ url = Nobody /\ ~refresh.ok
    /\ \A c \in Calls : call[c].token = Nobody /\ ~Changes(call[c].kind)

(* A tab that shows a visitor although its cookie is good has something    *)
(* under way that asks who is there.                                       *)
Asks == effect # {} \/ url # Nobody \/ \E c \in Calls : call[c].kind \in {"login", "login_me", "fetch_me"}

TabInv ==
    /\ TabTypes /\ CallsInv /\ RefreshInv
    /\ ~mixed => Alone /\ OnePerson
    /\ ~mixed /\ left => SignedOut
    /\ ~mixed /\ faults = 0 /\ cookie \in alive /\ user = Nobody => Asks

-----------------------------------------------------------------------------
(* Families only come, each after those before it, and end.                *)
Grows ==
    \/ owner' = owner /\ alive' \subseteq alive
    \/ \E u \in Users : owner' = Append(owner, u) /\ alive' \subseteq alive \cup {Len(owner) + 1}

LEMMA TabFacts ==
    ASSUME TabTypes
    PROVE  /\ owner \in Seq(Users) /\ Len(owner) \in Nat /\ DOMAIN owner = 1 .. Len(owner)
           /\ cookie \in 0 .. Len(owner) /\ alive \subseteq 1 .. Len(owner)
           /\ call \in [Calls -> Call]
           /\ \A c \in Calls : call[c] \in Call /\ call[c].family \in 0 .. Len(owner)
           /\ refresh \in [pc : {"none", "sent", "served"}, family : 0 .. Len(owner), ok : BOOLEAN]
           /\ refresh.family \in 0 .. Len(owner)
           /\ faults \in Nat /\ Len(owner) <= MaxFamilies
           /\ token \in Token \cup {Nobody} /\ user \in Users \cup {Nobody}
           /\ url \in Users \cup {Nobody}
<1>1. owner \in Seq(Users) /\ Len(owner) \in Nat /\ DOMAIN owner = 1 .. Len(owner)
  BY LenProperties DEF TabTypes
<1>2. /\ refresh \in [pc : {"none", "sent", "served"}, family : 0 .. Len(owner), ok : BOOLEAN]
      /\ refresh.family \in 0 .. Len(owner)
  BY DEF TabTypes, TabTypeOK
<1>3. /\ call \in [Calls -> Call]
      /\ \A c \in Calls : call[c] \in Call /\ call[c].family \in 0 .. Len(owner)
  <2>1. call \in [Calls -> Call] /\ \A c \in Calls : call[c] \in Call
    BY DEF TabTypes, TabTypeOK
  <2>2. \A k \in Call : k.family \in Nat
    BY SignInAssumption DEF Call, Families, NoFamily
  <2> QED BY <2>1, <2>2, <1>1 DEF TabTypes
<1> QED BY <1>1, <1>2, <1>3, SignInAssumption DEF TabTypes, TabTypeOK

LEMMA Growing ==
    ASSUME TabTypes, Grows
    PROVE  /\ owner' \in Seq(Users) /\ Len(owner') \in Nat /\ DOMAIN owner' = 1 .. Len(owner')
           /\ Len(owner) <= Len(owner') /\ alive' \subseteq 1 .. Len(owner')
           /\ \A f \in 1 .. Len(owner) : owner'[f] = owner[f] /\ (f \in alive' => f \in alive)
           /\ \A f \in 0 .. Len(owner) : f \in alive' => f \in alive
<1> USE TabFacts
<1>1. CASE owner' = owner /\ alive' \subseteq alive
  BY <1>1
<1>2. ASSUME NEW u \in Users, owner' = Append(owner, u), alive' \subseteq alive \cup {Len(owner) + 1}
      PROVE  /\ owner' \in Seq(Users) /\ Len(owner') = Len(owner) + 1
             /\ DOMAIN owner' = 1 .. Len(owner')
             /\ \A f \in 1 .. Len(owner) : owner'[f] = owner[f]
  BY <1>2, AppendProperties, LenProperties
<1>3. CASE \E u \in Users : owner' = Append(owner, u) /\ alive' \subseteq alive \cup {Len(owner) + 1}
  BY <1>2, <1>3
<1> QED BY <1>1, <1>3 DEF Grows

(* What a call has been told stays true.                                   *)
LEMMA ServedKept ==
    ASSUME TabTypes, Grows, NEW k \in Call, k.family \in 0 .. Len(owner), CallServed(k),
           faults' \in Nat, faults' >= faults
    PROVE  CallServed(k)'
<1> USE TabFacts, Growing
<1>1. k.kind = "login" /\ k.result = "ok" => k.family \in DOMAIN owner' /\ owner'[k.family] = k.who
  BY DEF CallServed
<1>2. k.kind = "logout" /\ k.result = "ok" => k.family \notin alive'
  BY DEF CallServed
<1>3. k.result = "error" => faults' > 0
  BY DEF CallServed
<1> QED BY <1>1, <1>2, <1>3 DEF CallServed

LEMMA OneCall ==
    ASSUME TabTypes, CallsInv, Grows, NEW c \in Calls, NEW k \in Call,
           call' = [call EXCEPT ![c] = k], CallShape(k), CallServed(k)',
           k.family <= Len(owner'), faults' \in Nat, faults' >= faults
    PROVE  /\ CallsInv' /\ call' \in [Calls -> Call]
           /\ \A d \in Calls : call'[d] = IF d = c THEN k ELSE call[d]
           /\ \A d \in Calls : call'[d].family <= Len(owner')
<1> USE TabFacts, Growing
<1>1. \A d \in Calls : call'[d] = IF d = c THEN k ELSE call[d]
  OBVIOUS
<1>2. ASSUME NEW d \in Calls PROVE (CallShape(call[d]) /\ CallServed(call[d]))'
  <2>1. CASE d = c
    BY <2>1, <1>1 DEF CallServed
  <2>2. CASE d # c
    <3> DEFINE h == call[d]
    <3>1. h' = h
      BY <1>1, <2>2
    <3>2. CallShape(h) /\ CallServed(h)
      BY DEF CallsInv
    <3>3. h \in Call /\ h.family \in 0 .. Len(owner)
      OBVIOUS
    <3>4. ASSUME NEW g \in Call, g.family \in 0 .. Len(owner), CallServed(g) PROVE CallServed(g)'
      BY <3>4, ServedKept
    <3>5. PICK g \in Call : g = h
      BY <3>3
    <3>6. CallServed(g)'
      BY <3>2, <3>3, <3>4, <3>5
    <3> QED BY <3>1, <3>2, <3>5, <3>6 DEF CallServed
  <2> QED BY <2>1, <2>2
<1> QED BY <1>1, <1>2 DEF CallsInv

(* The same for a refresh that goes on being waited for.                   *)
LEMMA RefreshKept ==
    ASSUME TabTypes, RefreshInv, Grows, UNCHANGED refresh, Waiting \subseteq Waiting'
    PROVE  /\ RefreshInv'
           /\ refresh' \in [pc : {"none", "sent", "served"}, family : 0 .. Len(owner'), ok : BOOLEAN]
<1> USE TabFacts, Growing
<1>1. refresh' \in [pc : {"none", "sent", "served"}, family : 0 .. Len(owner'), ok : BOOLEAN]
  <2> DEFINE r == refresh
  <2>1. /\ r = [pc |-> r.pc, family |-> r.family, ok |-> r.ok] /\ r.ok \in BOOLEAN
        /\ r.pc \in {"none", "sent", "served"} /\ r.family \in 0 .. Len(owner')
    OBVIOUS
  <2>2. [pc |-> r.pc, family |-> r.family, ok |-> r.ok]
          \in [pc : {"none", "sent", "served"}, family : 0 .. Len(owner'), ok : BOOLEAN]
    BY <2>1
  <2> QED BY <2>1, <2>2
<1>2. (refresh.pc = "none" => refresh = Idle)' /\ (refresh.pc # "none" => Waiting # {})'
  BY DEF RefreshInv, Idle
<1>3. (refresh.ok => refresh.pc = "served" /\ refresh.family \in DOMAIN owner)'
  BY DEF RefreshInv
<1>4. (refresh.pc = "served" /\ ~refresh.ok => refresh.family \notin alive)'
  BY DEF RefreshInv
<1> QED BY <1>1, <1>2, <1>3, <1>4 DEF RefreshInv

(* The bound on families.                                                  *)
LEMMA SentFinite == IsFiniteSet(LoginsSent) /\ Cardinality(LoginsSent) \in Nat
BY SignInAssumption, FS_Subset, FS_CardinalityType DEF LoginsSent

LEMMA RoomKept ==
    ASSUME TabTypes, UNCHANGED owner, LoginsSent' \subseteq LoginsSent
    PROVE  Len(owner') + Cardinality(LoginsSent') <= MaxFamilies
<1>1. Cardinality(LoginsSent') <= Cardinality(LoginsSent) /\ Cardinality(LoginsSent') \in Nat
  BY SentFinite, FS_Subset, FS_CardinalityType
<1> QED BY <1>1, SentFinite, TabFacts, SignInAssumption DEF TabTypes

-----------------------------------------------------------------------------
LEMMA BlankType ==
    /\ Blank \in Call /\ CallShape(Blank) /\ Blank.family = 0 /\ Blank.pc = "free"
    /\ Blank.kind = "none" /\ Blank.token = Nobody /\ Blank.held = Nobody /\ Blank.result = "none"
    /\ Blank.retried = FALSE /\ Blank.who = Nobody
BY DEF Blank, Call, CallShape, NoFamily

LEMMA BlankServed == CallServed(Blank)
BY BlankType DEF CallServed

SentCall(kind, who, f, t) ==
    [Blank EXCEPT !.pc = "sent", !.kind = kind, !.who = who, !.family = f, !.token = t]

LEMMA SentRecord ==
    ASSUME NEW kind \in {"login", "fetch_me", "data", "logout"}, NEW who \in Users \cup {Nobody},
           NEW f \in Families \cup {NoFamily}, NEW t \in Token \cup {Nobody}
    PROVE  SentCall(kind, who, f, t) \in Call
BY BlankType DEF Call, SentCall

(* A page, an effect or a button sends a request.                          *)
LEMMA RequestCalls ==
    ASSUME TabTypes, CallsInv, RefreshInv, NEW c \in Calls, NEW who \in Users \cup {Nobody},
           NEW kind \in {"login", "fetch_me", "data", "logout"}, Request(c, kind, who),
           kind = "login" => who \in Users, token' \in Token \cup {Nobody},
           UNCHANGED <<session, refresh, faults>>
    PROVE  /\ CallsInv' /\ RefreshInv' /\ call' \in [Calls -> Call]
           /\ c \in Free /\ call'[c].kind = kind /\ call'[c].token = token'
           /\ call'[c].pc = "sent" /\ call'[c].result = "none"
           /\ kind = "logout" => call'[c].family = cookie
           /\ \A d \in Calls \ {c} : call'[d] = call[d]
           /\ \A d \in Calls : call'[d].family <= Len(owner)
<1> USE TabFacts
<1>1. PICK t \in Token \cup {Nobody}, f \in 0 .. Len(owner) :
        t = token' /\ f = IF kind = "logout" THEN cookie ELSE NoFamily
  BY DEF NoFamily
<1>2. f \in Families \cup {NoFamily}
  BY SignInAssumption DEF Families, NoFamily
<1>3. PICK k : k = SentCall(kind, who, f, t)
  OBVIOUS
<1>4. k \in Call
  BY <1>2, <1>3, SentRecord
<1>5. /\ k.pc = "sent" /\ k.kind = kind /\ k.who = who /\ k.family = f
      /\ k.token = t /\ k.held = Nobody /\ k.retried = FALSE /\ k.result = "none"
  BY <1>3 DEF SentCall, Blank
<1>6. CallShape(k) /\ CallServed(k)' /\ k.family \in 0 .. Len(owner)
  BY <1>4, <1>5 DEF CallShape, CallServed
<1>7. Grows /\ faults' \in Nat /\ faults' >= faults /\ UNCHANGED <<refresh, owner>>
  BY DEF Grows, session
<1>8. call' = [call EXCEPT ![c] = k]
  <2>1. CASE kind = "logout"
    BY <1>1, <1>3, <2>1 DEF Request, SentCall
  <2>2. CASE kind # "logout"
    BY <1>1, <1>3, <2>2 DEF Request, SentCall
  <2> QED BY <2>1, <2>2
<1>9. k.family <= Len(owner')
  BY <1>6, <1>7, Growing
<1>10. c \in Free /\ k.pc = "sent" /\ k.kind = kind /\ k.token = token' /\ k.result = "none"
  BY <1>1, <1>4, <1>5 DEF Request
<1>11. kind = "logout" => k.family = cookie
  BY <1>1, <1>5
<1>12. /\ CallsInv' /\ call' \in [Calls -> Call]
       /\ \A d \in Calls : call'[d] = IF d = c THEN k ELSE call[d]
       /\ \A d \in Calls : call'[d].family <= Len(owner')
  BY <1>4, <1>6, <1>7, <1>8, <1>9, OneCall
<1>13. RefreshInv'
  <2>1. Waiting \subseteq Waiting'
    BY <1>10, <1>12 DEF Waiting, Free
  <2> QED BY <1>7, <2>1, RefreshKept
<1>14. Len(owner') = Len(owner) /\ call'[c] = k /\ \A d \in Calls \ {c} : call'[d] = call[d]
  BY <1>7, <1>12
<1> QED BY <1>10, <1>11, <1>12, <1>13, <1>14

(* Only a login makes the families more.                                   *)
LEMMA RequestRoom ==
    ASSUME TabTypes, NEW c \in Calls, call'[c].kind # "login", UNCHANGED owner,
           \A d \in Calls \ {c} : call'[d] = call[d]
    PROVE  Len(owner') + Cardinality(LoginsSent') <= MaxFamilies
<1>1. LoginsSent' \subseteq LoginsSent
  BY DEF LoginsSent
<1> QED BY <1>1, RoomKept

LEMMA RequestMixed ==
    ASSUME TabTypes, NEW c \in Calls, NEW who, NEW kind, Request(c, kind, who)
    PROVE  /\ mixed' \in BOOLEAN
           /\ ~mixed' => ~mixed /\ \A d \in Calls \ Free : ~Changes(kind) /\ ~Changes(call[d].kind)
BY DEF Request, TabTypes, TabTypeOK

-----------------------------------------------------------------------------
(* Nothing is under way but the calls that are not free.                   *)
LEMMA FreeCalls ==
    ASSUME TabTypes, CallsInv, NEW c \in Calls
    PROVE  /\ c \in Free => call[c] = Blank /\ call[c].kind = "none" /\ call[c].token = Nobody
           /\ c \notin Free => call[c].kind # "none"
           /\ Changes(call[c].kind) => c \notin Free
BY BlankType DEF CallsInv, CallShape, Free, Changes

(* An unmixed request, whose token, if it has one, is of the cookie.       *)
LEMMA RequestAgrees ==
    ASSUME TabInv, NEW c \in Calls, NEW who \in Users \cup {Nobody},
           NEW kind \in {"login", "fetch_me", "data", "logout"}, Request(c, kind, who),
           kind = "login" => who \in Users, token' \in Token \cup {Nobody},
           UNCHANGED <<session, refresh, faults>>, UNCHANGED user, url' \in {url, Nobody},
           url' # Nobody => ~Changes(kind), ~mixed', ~mixed /\ token' # Nobody => OfCookie(token'.of)
    PROVE  ~mixed /\ (Alone /\ OnePerson)'
<1> USE TabFacts
<1> USE DEF TabInv
<1>1. /\ c \in Free /\ call'[c].kind = kind /\ call'[c].token = token'
      /\ call'[c].pc = "sent" /\ call'[c].result = "none"
      /\ kind = "logout" => call'[c].family = cookie
      /\ \A d \in Calls \ {c} : call'[d] = call[d]
  BY RequestCalls
<1>2. ~mixed /\ \A d \in Calls \ Free : ~Changes(kind) /\ ~Changes(call[d].kind)
  BY RequestMixed
<1>3. Alone /\ OnePerson
  BY <1>2
<1>4. UNCHANGED <<cookie, owner, alive, refresh>> /\ \A u : OfCookie(u)' = OfCookie(u)
  BY DEF session, OfCookie
<1>5. \A d \in Calls : call'[d].pc # "free" /\ d # c => ~Changes(call'[d].kind) /\ ~Changes(kind)
  BY <1>1, <1>2 DEF Free
<1>6. \A d \in Calls : Changes(call'[d].kind) => d = c
  BY <1>1, <1>2, FreeCalls
<1>7. Alone'
  <2>1. (\A a, b \in Calls \ Free : Changes(call[a].kind) => a = b)'
    BY <1>5, <1>6, <1>1 DEF Free
  <2>2. (\A d \in Calls : Changes(call[d].kind) => call[d].result # "error")'
    BY <1>1, <1>6
  <2>3. (\A d \in Calls : call[d].kind = "logout" => call[d].family = cookie)'
    BY <1>1, <1>3, <1>4 DEF Alone
  <2>4. (refresh.pc # "none" => refresh.family = cookie)'
    BY <1>3, <1>4 DEF Alone
  <2> QED BY <2>1, <2>2, <2>3, <2>4 DEF Alone
<1>8. OnePerson'
  <2>1. (token # Nobody => OfCookie(token.of))'
    BY <1>2, <1>4
  <2>2. (url # Nobody => OfCookie(url) /\ \A d \in Calls : ~Changes(call[d].kind))'
    BY <1>1, <1>3, <1>4, <1>6 DEF OnePerson
  <2>3. (\A d \in Calls : call[d].token # Nobody => OfCookie(call[d].token.of))'
    BY <1>1, <1>2, <1>3, <1>4 DEF OnePerson
  <2>4. (user # Nobody /\ Pending("login_me") = {} => OfCookie(user))'
    <3>1. Pending("login_me") \subseteq Pending("login_me")'
      BY <1>1 DEF Pending, Free
    <3> QED BY <1>3, <1>4, <3>1 DEF OnePerson
  <2> QED BY <2>1, <2>2, <2>3, <2>4 DEF OnePerson
<1> QED BY <1>2, <1>7, <1>8

(* A request of somebody who has signed out has no token.                  *)
LEMMA RequestLeft ==
    ASSUME TabInv, NEW c \in Calls, NEW kind \in {"fetch_me", "data"}, Request(c, kind, Nobody),
           UNCHANGED <<session, refresh, faults>>, UNCHANGED user, UNCHANGED left, left,
           ~mixed', SignedOut => token' = Nobody /\ url' = Nobody
    PROVE  SignedOut'
<1> USE DEF TabInv
<1>1. ~mixed /\ SignedOut /\ token' = Nobody /\ url' = Nobody
  BY RequestMixed
<1>2. /\ call'[c].kind = kind /\ call'[c].token = token'
      /\ \A d \in Calls \ {c} : call'[d] = call[d]
  BY <1>1, RequestCalls
<1>3. UNCHANGED <<cookie, owner, alive, refresh>>
  BY DEF session
<1>4. (cookie \notin alive /\ user = Nobody /\ token = Nobody /\ url = Nobody /\ ~refresh.ok)'
  BY <1>1, <1>3 DEF SignedOut
<1>5. (\A d \in Calls : call[d].token = Nobody /\ ~Changes(call[d].kind))'
  BY <1>1, <1>2 DEF SignedOut, Changes
<1> QED BY <1>4, <1>5 DEF SignedOut

(* Whoever asks goes on asking while no call ends.                         *)
LEMMA AsksKept ==
    ASSUME Asks, effect \subseteq effect', url = Nobody \/ url' # Nobody,
           \A c \in Calls : call[c].kind \in {"login", "login_me", "fetch_me"}
                              => call'[c].kind \in {"login", "login_me", "fetch_me"}
    PROVE  Asks'
BY DEF Asks

LEMMA LoginInv == ASSUME TabInv, NEW c \in Calls, NEW u \in Users, Login(c, u) PROVE TabInv'
<1> USE TabFacts
<1> USE DEF TabInv
<1>1. UNCHANGED <<user, token, effect, cookie, owner, alive, refresh, url, faults>> /\ url = Nobody
  BY DEF Login, store, session
<1>2. Request(c, "login", u) /\ left' = FALSE /\ UNCHANGED <<session, refresh, faults>>
  BY DEF Login
<1>3. /\ CallsInv' /\ RefreshInv' /\ call' \in [Calls -> Call] /\ c \in Free
      /\ call'[c].kind = "login" /\ call'[c].pc = "sent"
      /\ \A d \in Calls \ {c} : call'[d] = call[d]
      /\ \A d \in Calls : call'[d].family <= Len(owner)
  BY <1>1, <1>2, RequestCalls
<1>4. Len(owner') + Cardinality(LoginsSent') <= MaxFamilies
  <2>1. LoginsSent \subseteq Pending("login") /\ IsFiniteSet(Pending("login"))
    BY SignInAssumption, FS_Subset DEF LoginsSent, Pending, Free
  <2>2. LoginsSent' \subseteq LoginsSent \cup {c}
    BY <1>3 DEF LoginsSent
  <2>3. /\ IsFiniteSet(LoginsSent \cup {c})
        /\ Cardinality(LoginsSent \cup {c}) <= Cardinality(LoginsSent) + 1
    <3>1. IsFiniteSet(LoginsSent) /\ Cardinality(LoginsSent) \in Nat
      BY SentFinite
    <3>2. /\ IsFiniteSet(LoginsSent \cup {c})
          /\ Cardinality(LoginsSent \cup {c})
               = IF c \in LoginsSent THEN Cardinality(LoginsSent) ELSE Cardinality(LoginsSent) + 1
      BY <3>1, FS_AddElement
    <3> QED BY <3>1, <3>2
  <2>4. Cardinality(LoginsSent') <= Cardinality(LoginsSent \cup {c}) /\ Cardinality(LoginsSent') \in Nat
    BY <2>2, <2>3, FS_Subset, FS_CardinalityType
  <2>5. Cardinality(LoginsSent) <= Cardinality(Pending("login")) /\ Cardinality(Pending("login")) \in Nat
    BY <2>1, FS_Subset, FS_CardinalityType
  <2>6. Len(owner) + Cardinality(Pending("login")) < MaxFamilies
    BY DEF Login
  <2>7. Cardinality(LoginsSent \cup {c}) \in Nat /\ Cardinality(LoginsSent) \in Nat
    BY <2>3, SentFinite, FS_CardinalityType
  <2> QED BY <1>1, <2>3, <2>4, <2>5, <2>6, <2>7, SignInAssumption
<1>5. mixed' \in BOOLEAN
  BY <1>2, RequestMixed
<1>6. TabTypes'
  BY <1>1, <1>2, <1>3, <1>4, <1>5 DEF TabTypes, TabTypeOK
<1>7. ~mixed' => (Alone /\ OnePerson)'
  <2>1. ASSUME ~mixed' PROVE (Alone /\ OnePerson)'
    <3>1. ~mixed /\ Alone /\ OnePerson
      BY <1>2, <2>1, RequestMixed
    <3>2. token' # Nobody => OfCookie(token'.of)
      BY <1>1, <3>1 DEF OnePerson, OfCookie
    <3> QED BY <1>1, <1>2, <2>1, <3>2, RequestAgrees
  <2> QED BY <2>1
<1>8. ~(~mixed /\ left)'
  BY <1>2
<1>9. Asks'
  BY <1>3 DEF Asks
<1> QED BY <1>3, <1>6, <1>7, <1>8, <1>9

(* The other requests: the types and the requests, whatever they are for.  *)
LEMMA RequestTypes ==
    ASSUME TabInv, NEW c \in Calls, NEW kind \in {"fetch_me", "data", "logout"},
           Request(c, kind, Nobody), UNCHANGED <<session, refresh, faults>>, UNCHANGED <<user, left>>,
           token' \in Token \cup {Nobody}, effect' \subseteq effect, url' \in {url, Nobody}
    PROVE  (TabTypes /\ CallsInv /\ RefreshInv)'
<1> USE TabFacts
<1> USE DEF TabInv
<1>1. /\ CallsInv' /\ RefreshInv' /\ call' \in [Calls -> Call]
      /\ call'[c].kind = kind /\ \A d \in Calls \ {c} : call'[d] = call[d]
      /\ \A d \in Calls : call'[d].family <= Len(owner)
  BY RequestCalls
<1>2. UNCHANGED <<cookie, owner, alive>>
  BY DEF session
<1>3. Len(owner') + Cardinality(LoginsSent') <= MaxFamilies
  BY <1>1, <1>2, RequestRoom
<1>4. mixed' \in BOOLEAN
  BY RequestMixed
<1> QED BY <1>1, <1>2, <1>3, <1>4 DEF TabTypes, TabTypeOK

LEMMA LogoutInv == ASSUME TabInv, NEW c \in Calls, Logout(c) PROVE TabInv'
<1> USE TabFacts
<1> USE DEF TabInv
<1>1. /\ UNCHANGED <<user, token, effect, cookie, owner, alive, refresh, url, faults, left>>
      /\ url = Nobody /\ user # Nobody
  BY DEF Logout, store, session
<1>2. Request(c, "logout", Nobody) /\ UNCHANGED <<session, refresh, faults>>
  BY DEF Logout
<1>3. (TabTypes /\ CallsInv /\ RefreshInv)'
  BY <1>1, <1>2, RequestTypes
<1>4. ~mixed' => (Alone /\ OnePerson)'
  <2>1. ASSUME ~mixed' PROVE (Alone /\ OnePerson)'
    <3>1. ~mixed /\ Alone /\ OnePerson
      BY <1>2, <2>1, RequestMixed
    <3>2. token' # Nobody => OfCookie(token'.of)
      BY <1>1, <3>1 DEF OnePerson, OfCookie
    <3> QED BY <1>1, <1>2, <2>1, <3>2, RequestAgrees
  <2> QED BY <2>1
<1>5. ~(~mixed /\ left)'
  BY <1>1, <1>2, RequestMixed DEF SignedOut
<1> QED BY <1>1, <1>3, <1>4, <1>5

LEMMA DataInv == ASSUME TabInv, NEW c \in Calls, Data(c) PROVE TabInv'
<1> USE TabFacts
<1> USE DEF TabInv
<1>1. UNCHANGED <<user, token, effect, cookie, owner, alive, refresh, url, faults, left>>
  BY DEF Data, store, session
<1>2. Request(c, "data", Nobody) /\ UNCHANGED <<session, refresh, faults>>
  BY DEF Data
<1>3. (TabTypes /\ CallsInv /\ RefreshInv)'
  BY <1>1, <1>2, RequestTypes
<1>4. ~mixed' => ~mixed /\ (Alone /\ OnePerson)'
  <2>1. ASSUME ~mixed' PROVE ~mixed /\ (Alone /\ OnePerson)'
    <3>1. ~mixed /\ Alone /\ OnePerson
      BY <1>2, <2>1, RequestMixed
    <3>2. token' # Nobody => OfCookie(token'.of)
      BY <1>1, <3>1 DEF OnePerson, OfCookie
    <3> QED BY <1>1, <1>2, <2>1, <3>1, <3>2, RequestAgrees DEF Changes
  <2> QED BY <2>1
<1>5. ~mixed' /\ left' => SignedOut'
  BY <1>1, <1>2, RequestLeft DEF SignedOut
<1>6. ~mixed' /\ faults' = 0 /\ cookie' \in alive' /\ user' = Nobody => Asks'
  <2>1. /\ c \in Free /\ call'[c].kind = "data" /\ \A d \in Calls \ {c} : call'[d] = call[d]
    BY <1>1, <1>2, RequestCalls
  <2>2. \A d \in Calls : call[d].kind \in {"login", "login_me", "fetch_me"}
                              => call'[d].kind \in {"login", "login_me", "fetch_me"}
    BY <2>1, FreeCalls
  <2> QED BY <1>1, <1>4, <2>2, AsksKept
<1> QED BY <1>3, <1>4, <1>5, <1>6

LEMMA EffectInv ==
    ASSUME TabInv, NEW c \in Calls, NEW h \in Hooks, Effect(c, h) PROVE TabInv'
<1> USE TabFacts
<1> USE DEF TabInv
<1>1. /\ UNCHANGED <<user, token, cookie, owner, alive, refresh, url, faults, left>>
      /\ effect' = effect \ {h} /\ UNCHANGED <<session, refresh, faults>>
  BY DEF Effect, session
<1>2. CASE user # Nobody
  <2>1. UNCHANGED <<call, mixed>>
    BY <1>2 DEF Effect
  <2>2. TabTypes'
    <3>1. LoginsSent' = LoginsSent
      BY <2>1 DEF LoginsSent
    <3>2. Len(owner') + Cardinality(LoginsSent') <= MaxFamilies
      BY <1>1, <3>1, RoomKept
    <3> QED BY <1>1, <2>1, <3>2 DEF TabTypes, TabTypeOK
  <2>3. (CallsInv /\ RefreshInv)'
    BY <1>1, <2>1 DEF CallsInv, CallServed, RefreshInv, Waiting
  <2>4. (Alone /\ OnePerson)' = (Alone /\ OnePerson) /\ SignedOut' = SignedOut
    BY <1>1, <2>1 DEF Alone, OnePerson, OfCookie, Pending, Free, SignedOut
  <2> QED BY <1>1, <1>2, <2>1, <2>2, <2>3, <2>4
<1>3. CASE user = Nobody
  <2>1. Request(c, "fetch_me", Nobody)
    BY <1>3 DEF Effect
  <2>2. (TabTypes /\ CallsInv /\ RefreshInv)'
    BY <1>1, <2>1, RequestTypes
  <2>3. ~mixed' => (Alone /\ OnePerson)'
    <3>1. ASSUME ~mixed' PROVE (Alone /\ OnePerson)'
      <4>1. ~mixed /\ Alone /\ OnePerson
        BY <2>1, <3>1, RequestMixed
      <4>2. token' # Nobody => OfCookie(token'.of)
        BY <1>1, <4>1 DEF OnePerson, OfCookie
      <4> QED BY <1>1, <2>1, <3>1, <4>1, <4>2, RequestAgrees DEF Changes
    <3> QED BY <3>1
  <2>4. ~mixed' /\ left' => SignedOut'
    BY <1>1, <2>1, RequestLeft DEF SignedOut
  <2>5. Asks'
    <3>1. call'[c].kind = "fetch_me"
      BY <1>1, <2>1, RequestCalls
    <3> QED BY <3>1 DEF Asks
  <2> QED BY <2>2, <2>3, <2>4, <2>5
<1> QED BY <1>2, <1>3

LEMMA CallbackInv == ASSUME TabInv, NEW c \in Calls, CallbackEffect(c) PROVE TabInv'
<1> USE TabFacts
<1> USE DEF TabInv
<1>1. /\ UNCHANGED <<user, effect, cookie, owner, alive, refresh, faults, left>>
      /\ url # Nobody /\ url' = Nobody /\ token' = Fresh(url)
      /\ Request(c, "fetch_me", Nobody) /\ UNCHANGED <<session, refresh, faults>>
  BY DEF CallbackEffect, session
<1>2. token' \in Token /\ token'.of = url
  BY <1>1 DEF Fresh, Token
<1>3. (TabTypes /\ CallsInv /\ RefreshInv)'
  BY <1>1, <1>2, RequestTypes
<1>4. ~mixed' => (Alone /\ OnePerson)'
  <2>1. ASSUME ~mixed' PROVE (Alone /\ OnePerson)'
    <3>1. ~mixed /\ Alone /\ OnePerson
      BY <1>1, <2>1, RequestMixed
    <3>2. OfCookie(token'.of)
      BY <1>1, <1>2, <3>1 DEF OnePerson
    <3> QED BY <1>1, <1>2, <2>1, <3>1, <3>2, RequestAgrees DEF Changes
  <2> QED BY <2>1
<1>5. ~(~mixed /\ left)'
  BY <1>1, RequestMixed DEF SignedOut
<1>6. Asks'
  <2>1. call'[c].kind = "fetch_me"
    BY <1>1, <1>2, RequestCalls
  <2> QED BY <2>1 DEF Asks
<1> QED BY <1>3, <1>4, <1>5, <1>6

LEMMA MountInv == ASSUME TabInv, NEW h \in Hooks, Mount(h) PROVE TabInv'
<1> USE TabFacts
<1> USE DEF TabInv
<1>1. /\ UNCHANGED <<user, token, cookie, owner, alive, call, refresh, url, left, mixed, faults>>
      /\ effect' = effect \cup {h}
  BY DEF Mount, session, marks
<1>2. TabTypes'
  <2>1. LoginsSent' = LoginsSent
    BY <1>1 DEF LoginsSent
  <2>2. Len(owner') + Cardinality(LoginsSent') <= MaxFamilies
    BY <1>1, <2>1, RoomKept
  <2> QED BY <1>1, <2>2 DEF TabTypes, TabTypeOK
<1>3. (CallsInv /\ RefreshInv)'
  BY <1>1 DEF CallsInv, CallServed, RefreshInv, Waiting
<1>4. (Alone /\ OnePerson)' = (Alone /\ OnePerson) /\ SignedOut' = SignedOut
  BY <1>1 DEF Alone, OnePerson, OfCookie, Pending, Free, SignedOut
<1>5. Asks'
  BY <1>1 DEF Asks
<1> QED BY <1>1, <1>2, <1>3, <1>4, <1>5

-----------------------------------------------------------------------------
(* While a call only moves on, everybody is still of the cookie.           *)
LEMMA OnePersonKept ==
    ASSUME TabTypes, OnePerson, Grows, UNCHANGED <<user, token, url, cookie>>,
           \A d \in Calls : /\ call'[d].kind = call[d].kind /\ call'[d].token = call[d].token
                            /\ call[d].pc # "free" => call'[d].pc # "free"
    PROVE  OnePerson'
<1> USE TabFacts, Growing
<1>1. ASSUME NEW u, OfCookie(u) PROVE OfCookie(u)'
  BY <1>1 DEF OfCookie
<1>2. (token # Nobody => OfCookie(token.of))'
  BY <1>1 DEF OnePerson, OfCookie
<1>3. (url # Nobody => OfCookie(url) /\ \A d \in Calls : ~Changes(call[d].kind))'
  BY DEF OnePerson, OfCookie
<1>4. (\A d \in Calls : call[d].token # Nobody => OfCookie(call[d].token.of))'
  BY DEF OnePerson, OfCookie
<1>5. (user # Nobody /\ Pending("login_me") = {} => OfCookie(user))'
  <2>1. Pending("login_me") \subseteq Pending("login_me")'
    BY DEF Pending, Free
  <2> QED BY <2>1 DEF OnePerson, OfCookie
<1> QED BY <1>2, <1>3, <1>4, <1>5 DEF OnePerson

(* The types, when no family comes.                                        *)
LEMMA TypesKept ==
    ASSUME TabTypes, owner' = owner, alive' \subseteq alive, cookie' \in 0 .. Len(owner),
           user' \in Users \cup {Nobody}, token' \in Token \cup {Nobody},
           call' \in [Calls -> Call], \A d \in Calls : call'[d].family <= Len(owner),
           LoginsSent' \subseteq LoginsSent,
           refresh' \in [pc : {"none", "sent", "served"}, family : 0 .. Len(owner), ok : BOOLEAN],
           effect' \subseteq Hooks, url' \in Users \cup {Nobody},
           left' \in BOOLEAN, mixed' \in BOOLEAN, faults' \in 0 .. MaxFaults
    PROVE  TabTypes'
<1>1. Len(owner') + Cardinality(LoginsSent') <= MaxFamilies
  BY RoomKept
<1>2. Len(owner') = Len(owner) /\ DOMAIN owner' = DOMAIN owner
  OBVIOUS
<1> QED BY <1>1, <1>2 DEF TabTypes, TabTypeOK

(* What the backend answers a request.                                     *)
LEMMA ServedCall ==
    ASSUME TabTypes, CallsInv, NEW c \in Calls, Served(c)
    PROVE  /\ Grows /\ call[c].pc = "sent" /\ CallsInv' /\ call' \in [Calls -> Call]
           /\ \A d \in Calls \ {c} : call'[d] = call[d]
           /\ \A d \in Calls : call'[d].family <= Len(owner')
           /\ call'[c].pc = "served" /\ call'[c].result \in {"ok", "401"}
           /\ call'[c].kind = call[c].kind /\ call'[c].token = call[c].token
           /\ call[c].kind # "login" => owner' = owner /\ alive' \subseteq alive
                                         /\ call'[c].family = call[c].family
           /\ call[c].kind = "login" => Len(owner') = Len(owner) + 1 /\ Len(owner') <= MaxFamilies
<1> USE TabFacts
<1>0. /\ UNCHANGED <<user, token, effect, cookie, refresh, url, left, mixed, faults>>
      /\ call[c].pc = "sent"
  BY DEF Served, store, marks
<1>1. PICK f : f = IF call[c].kind = "login" THEN Len(owner) + 1 ELSE call[c].family
  OBVIOUS
<1>2. PICK o : o = Outcome(c)
  OBVIOUS
<1>3. /\ o \in {"ok", "401"}
      /\ o = "401" => call[c].kind \notin {"login", "logout"}
                      /\ ~(call[c].token # Nobody /\ call[c].token.good)
      /\ o = "ok" /\ call[c].kind \notin {"login", "logout"} => call[c].token # Nobody
  BY <1>2 DEF Outcome
<1>4. /\ call' = [call EXCEPT ![c].pc = "served", ![c].result = o, ![c].family = f]
      /\ call[c].kind = "login" => owner' = Append(owner, call[c].who) /\ alive' = alive \cup {f}
      /\ call[c].kind # "login" => owner' = owner /\ alive' = alive \ EndedByLogout(c)
  BY <1>1, <1>2 DEF Served
<1>5. CallShape(call[c]) /\ CallServed(call[c])
  BY DEF CallsInv
<1>6. Grows
  <2>1. CASE call[c].kind = "login"
    BY <1>1, <1>4, <1>5, <2>1 DEF Grows, CallShape
  <2>2. CASE call[c].kind # "login"
    BY <1>4, <2>2 DEF Grows
  <2> QED BY <2>1, <2>2
<1>7. call[c].kind = "login" => Len(owner') = Len(owner) + 1 /\ Len(owner') <= MaxFamilies
  <2>1. ASSUME call[c].kind = "login" PROVE Len(owner') = Len(owner) + 1 /\ Len(owner') <= MaxFamilies
    <3>1. Len(owner') = Len(owner) + 1
      BY <1>4, <1>5, <2>1, AppendProperties DEF CallShape
    <3>2. c \in LoginsSent
      BY <1>0, <2>1 DEF LoginsSent
    <3>3. Cardinality(LoginsSent) # 0
      BY <3>2, SentFinite, FS_EmptySet
    <3> QED BY <3>1, <3>3, SentFinite, SignInAssumption DEF TabTypes
  <2> QED BY <2>1
<1>8. f \in 0 .. Len(owner') /\ f \in Families \cup {NoFamily}
  <2>1. Len(owner') \in Nat /\ Len(owner) <= Len(owner')
    BY <1>6, Growing
  <2>2. CASE call[c].kind = "login"
    BY <1>1, <1>7, <2>1, <2>2, SignInAssumption DEF Families, NoFamily
  <2>3. CASE call[c].kind # "login"
    <3>1. f = call[c].family /\ f \in 0 .. Len(owner)
      BY <1>1, <2>3
    <3> QED BY <2>1, <3>1, SignInAssumption DEF Families, NoFamily
  <2> QED BY <2>2, <2>3
<1>9. PICK k : k = [call[c] EXCEPT !.pc = "served", !.result = o, !.family = f]
  OBVIOUS
<1>10. k \in Call
  BY <1>3, <1>8, <1>9 DEF Call
<1>11. /\ k.pc = "served" /\ k.result = o /\ k.family = f /\ k.kind = call[c].kind
       /\ k.who = call[c].who /\ k.token = call[c].token /\ k.held = call[c].held
       /\ k.retried = call[c].retried
  BY <1>9 DEF Call
<1>12. CallShape(k)
  <2>1. call[c].kind \in {"none", "login", "login_me", "fetch_me", "data", "logout"}
    BY DEF Call
  <2>2. call[c].kind # "none" /\ k.result \in {"ok", "401"}
    BY <1>0, <1>3, <1>5, <1>11 DEF CallShape
  <2>3. k.result = "401" => ~k.retried /\ k.kind \in {"fetch_me", "data"}
    <3>1. k.result = "401" => call[c].kind \notin {"login", "logout", "login_me"} /\ ~call[c].retried
      BY <1>3, <1>5, <1>11 DEF CallShape
    <3> QED BY <1>11, <2>1, <2>2, <3>1
  <2>4. k.result = "ok" /\ k.kind \in {"fetch_me", "login_me"} => k.token # Nobody
    BY <1>3, <1>11
  <2> QED BY <1>5, <1>11, <2>2, <2>3, <2>4 DEF CallShape
<1>13. CallServed(k)'
  <2>1. k.kind = "login" /\ k.result = "ok" => k.family \in DOMAIN owner' /\ owner'[k.family] = k.who
    BY <1>1, <1>4, <1>5, <1>7, <1>11, <1>6, Growing, AppendProperties DEF CallShape
  <2>2. k.kind = "logout" /\ k.result = "ok" => k.family \notin alive'
    BY <1>1, <1>4, <1>11 DEF EndedByLogout
  <2>3. k.result # "error"
    BY <1>3, <1>11
  <2> QED BY <2>1, <2>2, <2>3 DEF CallServed
<1>14. call' = [call EXCEPT ![c] = k]
  BY <1>4, <1>9
<1>15. faults' \in Nat /\ faults' >= faults /\ k.family <= Len(owner')
  BY <1>0, <1>8, <1>11, <1>6, Growing
<1>16. /\ CallsInv' /\ call' \in [Calls -> Call]
       /\ \A d \in Calls : call'[d] = IF d = c THEN k ELSE call[d]
       /\ \A d \in Calls : call'[d].family <= Len(owner')
  BY <1>6, <1>10, <1>12, <1>13, <1>14, <1>15, OneCall
<1>17. call'[c] = k /\ \A d \in Calls \ {c} : call'[d] = call[d]
  BY <1>16
<1>18. call[c].kind # "login" => owner' = owner /\ alive' \subseteq alive /\ k.family = call[c].family
  BY <1>1, <1>4, <1>11
<1> QED BY <1>0, <1>3, <1>6, <1>7, <1>11, <1>16, <1>17, <1>18

LEMMA ServedInv == ASSUME TabInv, NEW c \in Calls, Served(c) PROVE TabInv'
<1> USE TabFacts
<1> USE DEF TabInv
<1>1. UNCHANGED <<user, token, effect, cookie, refresh, url, left, mixed, faults>>
  BY DEF Served, store, marks
<1>2. /\ Grows /\ call[c].pc = "sent" /\ CallsInv' /\ call' \in [Calls -> Call]
      /\ \A d \in Calls \ {c} : call'[d] = call[d]
      /\ \A d \in Calls : call'[d].family <= Len(owner')
      /\ call'[c].pc = "served" /\ call'[c].result \in {"ok", "401"}
      /\ call'[c].kind = call[c].kind /\ call'[c].token = call[c].token
      /\ call[c].kind # "login" => owner' = owner /\ alive' \subseteq alive
                                    /\ call'[c].family = call[c].family
      /\ call[c].kind = "login" => Len(owner') = Len(owner) + 1 /\ Len(owner') <= MaxFamilies
  BY ServedCall
<1>3. RefreshInv'
      /\ refresh' \in [pc : {"none", "sent", "served"}, family : 0 .. Len(owner'), ok : BOOLEAN]
  <2>1. Waiting \subseteq Waiting'
    BY <1>2 DEF Waiting
  <2> QED BY <1>1, <1>2, <2>1, RefreshKept
<1>4. Len(owner') + Cardinality(LoginsSent') <= MaxFamilies
  <2>1. CASE call[c].kind = "login"
    <3>1. c \in LoginsSent /\ LoginsSent' \subseteq LoginsSent \ {c}
      BY <1>2, <2>1 DEF LoginsSent
    <3>2. /\ IsFiniteSet(LoginsSent \ {c})
          /\ Cardinality(LoginsSent \ {c}) = Cardinality(LoginsSent) - 1
      BY <3>1, SentFinite, FS_RemoveElement
    <3>3. Cardinality(LoginsSent') <= Cardinality(LoginsSent \ {c}) /\ Cardinality(LoginsSent') \in Nat
      BY <3>1, <3>2, FS_Subset, FS_CardinalityType
    <3> QED BY <1>2, <2>1, <3>2, <3>3, SentFinite, SignInAssumption DEF TabTypes
  <2>2. CASE call[c].kind # "login"
    <3>1. LoginsSent' \subseteq LoginsSent
      BY <1>2 DEF LoginsSent
    <3> QED BY <1>2, <2>2, <3>1, RoomKept
  <2> QED BY <2>1, <2>2
<1>5. TabTypes'
  <2>1. /\ owner' \in Seq(Users) /\ Len(owner') \in Nat /\ DOMAIN owner' = 1 .. Len(owner')
        /\ Len(owner) <= Len(owner') /\ alive' \subseteq 1 .. Len(owner')
    BY <1>2, Growing
  <2>2. Len(owner') <= MaxFamilies
    BY <1>2
  <2>3. \A f \in DOMAIN owner' : owner'[f] \in Users
    BY <2>1
  <2>4. cookie' \in 0 .. Len(owner')
    BY <1>1, <2>1
  <2> QED BY <1>1, <1>2, <1>3, <1>4, <2>1, <2>2, <2>3, <2>4 DEF TabTypes, TabTypeOK
<1>6. ~mixed => (Alone /\ OnePerson)'
  <2>1. ASSUME ~mixed PROVE (Alone /\ OnePerson)'
    <3>1. Alone /\ OnePerson
      BY <2>1
    <3>2. OnePerson'
      BY <1>1, <1>2, <3>1, OnePersonKept
    <3>3. \A d \in Calls : call'[d].kind = call[d].kind /\ (d \in Free' => d \in Free)
      BY <1>2 DEF Free
    <3>4. (\A a, b \in Calls \ Free : Changes(call[a].kind) => a = b)'
      <4>1. \A d \in Calls \ Free' : d \in Calls \ Free
        BY <1>2 DEF Free
      <4> QED BY <3>1, <3>3, <4>1 DEF Alone
    <3>5. (\A d \in Calls : Changes(call[d].kind) => call[d].result # "error")'
      BY <1>2, <3>1, <3>3 DEF Alone
    <3>6. (\A d \in Calls : call[d].kind = "logout" => call[d].family = cookie)'
      BY <1>1, <1>2, <3>1 DEF Alone
    <3>7. (refresh.pc # "none" => refresh.family = cookie)'
      BY <1>1, <3>1 DEF Alone
    <3> QED BY <3>2, <3>4, <3>5, <3>6, <3>7 DEF Alone
  <2> QED BY <2>1
<1>7. ~mixed /\ left => SignedOut'
  <2>1. ASSUME ~mixed, left PROVE SignedOut'
    <3>1. SignedOut
      BY <2>1
    <3>2. cookie' \notin alive'
      BY <1>1, <1>2, <3>1, Growing DEF SignedOut
    <3> QED BY <1>1, <1>2, <3>1, <3>2 DEF SignedOut
  <2> QED BY <2>1
<1>8. ~mixed' /\ faults' = 0 /\ cookie' \in alive' /\ user' = Nobody => Asks'
  <2>1. cookie' \in alive' => cookie \in alive
    BY <1>1, <1>2, Growing
  <2>2. \A d \in Calls : call[d].kind \in {"login", "login_me", "fetch_me"}
                           => call'[d].kind \in {"login", "login_me", "fetch_me"}
    BY <1>2
  <2> QED BY <1>1, <2>1, <2>2, AsksKept
<1> QED BY <1>1, <1>2, <1>3, <1>5, <1>6, <1>7, <1>8

LEMMA ErrorInv == ASSUME TabInv, NEW c \in Calls, Error(c) PROVE TabInv'
<1> USE TabFacts
<1> USE DEF TabInv
<1>1. /\ UNCHANGED <<user, token, effect, cookie, owner, alive, refresh, url, left>>
      /\ faults' = faults + 1 /\ faults < MaxFaults
      /\ call[c].pc \in {"sent", "served"} /\ (mixed' = (mixed \/ Changes(call[c].kind)))
      /\ call' = [call EXCEPT ![c].pc = "served", ![c].result = "error"]
  BY DEF Error, store, session
<1>2. PICK k : k = [call[c] EXCEPT !.pc = "served", !.result = "error"]
  OBVIOUS
<1>3. k \in Call
  BY <1>2 DEF Call
<1>4. /\ k.pc = "served" /\ k.result = "error" /\ k.kind = call[c].kind /\ k.family = call[c].family
      /\ k.who = call[c].who /\ k.token = call[c].token /\ k.held = call[c].held
      /\ k.retried = call[c].retried
  BY <1>2 DEF Call
<1>5. CallShape(k) /\ CallServed(k)'
  <2>1. CallShape(call[c])
    BY DEF CallsInv
  <2>2. CallShape(k)
    BY <1>1, <1>4, <2>1 DEF CallShape
  <2> QED BY <1>1, <1>4, <2>2 DEF CallServed
<1>6. Grows /\ faults' \in Nat /\ faults' >= faults /\ k.family <= Len(owner') /\ call' = [call EXCEPT ![c] = k]
  <2>1. Grows
    BY <1>1 DEF Grows
  <2>2. call' = [call EXCEPT ![c] = k]
    BY <1>1, <1>2
  <2>3. faults' \in Nat /\ faults' >= faults
    BY <1>1
  <2>4. k.family <= Len(owner')
    BY <1>1, <1>4
  <2> QED BY <2>1, <2>2, <2>3, <2>4
<1>7. /\ CallsInv' /\ call' \in [Calls -> Call]
      /\ \A d \in Calls : call'[d] = IF d = c THEN k ELSE call[d]
      /\ \A d \in Calls : call'[d].family <= Len(owner')
  BY <1>3, <1>5, <1>6, OneCall
<1>8. RefreshInv'
  <2>1. Waiting \subseteq Waiting'
    BY <1>1, <1>7 DEF Waiting
  <2> QED BY <1>1, <1>6, <2>1, RefreshKept
<1>9. TabTypes'
  <2>1. LoginsSent' \subseteq LoginsSent
    BY <1>4, <1>7 DEF LoginsSent
  <2>2. mixed' \in BOOLEAN
    BY <1>1 DEF TabTypes, TabTypeOK
  <2>3. /\ left' \in BOOLEAN /\ effect' \subseteq Hooks /\ faults' \in 0 .. MaxFaults
    BY <1>1, SignInAssumption DEF TabTypes, TabTypeOK
  <2> QED BY <1>1, <1>7, <2>1, <2>2, <2>3, TypesKept
<1>10. ~mixed' => (Alone /\ OnePerson)'
  <2>1. ASSUME ~mixed' PROVE (Alone /\ OnePerson)'
    <3>1. Alone /\ OnePerson /\ ~Changes(call[c].kind)
      BY <1>1, <2>1
    <3>2. \A d \in Calls : /\ call'[d].kind = call[d].kind /\ call'[d].token = call[d].token
                           /\ call'[d].family = call[d].family
                           /\ (call[d].pc # "free") = (call'[d].pc # "free")
      BY <1>1, <1>4, <1>7
    <3>3. OnePerson'
      BY <1>1, <1>6, <3>1, <3>2, OnePersonKept
    <3>4. (\A a, b \in Calls \ Free : Changes(call[a].kind) => a = b)'
      BY <3>1, <3>2 DEF Alone, Free
    <3>5. (\A d \in Calls : Changes(call[d].kind) => call[d].result # "error")'
      BY <1>7, <3>1, <3>2 DEF Alone
    <3>6. (\A d \in Calls : call[d].kind = "logout" => call[d].family = cookie)'
      BY <1>1, <3>1, <3>2 DEF Alone
    <3>7. (refresh.pc # "none" => refresh.family = cookie)'
      BY <1>1, <3>1 DEF Alone
    <3> QED BY <3>3, <3>4, <3>5, <3>6, <3>7 DEF Alone
  <2> QED BY <2>1
<1>11. ~mixed' /\ left' => SignedOut'
  BY <1>1, <1>4, <1>7 DEF SignedOut
<1>12. faults' # 0
  BY <1>1
<1> QED BY <1>7, <1>8, <1>9, <1>10, <1>11, <1>12

LEMMA RefreshServedInv == ASSUME TabInv, RefreshServed PROVE TabInv'
<1> USE TabFacts
<1> USE DEF TabInv
<1>1. /\ UNCHANGED <<user, token, effect, cookie, owner, alive, call, url, left, mixed, faults>>
      /\ refresh.pc = "sent"
      /\ refresh' = [refresh EXCEPT !.pc = "served", !.ok = refresh.family \in alive]
  BY DEF RefreshServed, store, session, marks
<1>2. /\ refresh' \in [pc : {"none", "sent", "served"}, family : 0 .. Len(owner), ok : BOOLEAN]
      /\ refresh'.pc = "served" /\ refresh'.family = refresh.family
      /\ refresh'.ok = (refresh.family \in alive)
  <2> DEFINE o == refresh.family \in alive
  <2>1. o \in BOOLEAN
    OBVIOUS
  <2> HIDE DEF o
  <2>2. refresh' = [refresh EXCEPT !.pc = "served", !.ok = o]
    BY <1>1 DEF o
  <2>3. refresh' \in [pc : {"none", "sent", "served"}, family : 0 .. Len(owner), ok : BOOLEAN]
    BY <2>1, <2>2
  <2>4. refresh'.pc = "served" /\ refresh'.family = refresh.family /\ refresh'.ok = o
    BY <2>2
  <2> QED BY <2>3, <2>4 DEF o
<1>3. TabTypes'
  <2>1. LoginsSent' = LoginsSent
    BY <1>1 DEF LoginsSent
  <2>2. left' \in BOOLEAN /\ mixed' \in BOOLEAN /\ effect' \subseteq Hooks /\ faults' \in 0 .. MaxFaults
    BY <1>1 DEF TabTypes, TabTypeOK
  <2> QED BY <1>1, <1>2, <2>1, <2>2, TypesKept
<1>4. CallsInv'
  BY <1>1 DEF CallsInv, CallServed
<1>5. RefreshInv'
  BY <1>1, <1>2 DEF RefreshInv, Waiting
<1>6. ~mixed => (Alone /\ OnePerson)'
  <2>1. OnePerson' = OnePerson
    BY <1>1 DEF OnePerson, OfCookie, Pending, Free
  <2>2. Alone => Alone'
    BY <1>1, <1>2 DEF Alone, Free
  <2> QED BY <1>1, <2>1, <2>2
<1>7. ~mixed /\ left => SignedOut'
  <2>1. ASSUME ~mixed, left PROVE SignedOut'
    <3>1. refresh.family = cookie /\ SignedOut
      BY <1>1, <2>1 DEF Alone
    <3> QED BY <1>1, <1>2, <3>1 DEF SignedOut
  <2> QED BY <2>1
<1>8. Asks => Asks'
  BY <1>1 DEF Asks
<1> QED BY <1>1, <1>3, <1>4, <1>5, <1>6, <1>7, <1>8

-----------------------------------------------------------------------------
(* A request that is over leaves its slot empty.                           *)
LEMMA EndedCall ==
    ASSUME TabTypes, CallsInv, RefreshInv, NEW c \in Calls, call' = [call EXCEPT ![c] = Blank],
           call[c].pc # "waiting", UNCHANGED <<owner, alive, refresh, faults>>
    PROVE  /\ (CallsInv /\ RefreshInv)' /\ call' \in [Calls -> Call]
           /\ call'[c] = Blank /\ \A d \in Calls \ {c} : call'[d] = call[d]
           /\ \A d \in Calls : call'[d].family <= Len(owner)
           /\ LoginsSent' \subseteq LoginsSent
<1> USE TabFacts, BlankType
<1>1. Grows /\ faults' \in Nat /\ faults' >= faults /\ Blank.family <= Len(owner')
  BY DEF Grows
<1>2. CallServed(Blank)'
  BY DEF CallServed
<1>3. /\ CallsInv' /\ call' \in [Calls -> Call]
      /\ \A d \in Calls : call'[d] = IF d = c THEN Blank ELSE call[d]
      /\ \A d \in Calls : call'[d].family <= Len(owner')
  BY <1>1, <1>2, OneCall
<1>4. Waiting \subseteq Waiting'
  BY <1>3 DEF Waiting
<1>5. RefreshInv'
  BY <1>1, <1>4, RefreshKept
<1>6. LoginsSent' \subseteq LoginsSent
  BY <1>3 DEF LoginsSent
<1>7. call'[c] = Blank /\ \A d \in Calls \ {c} : call'[d] = call[d]
  BY <1>3
<1> QED BY <1>3, <1>5, <1>6, <1>7

LEMMA EndedAlone ==
    ASSUME TabTypes, CallsInv, Alone, NEW c \in Calls, call'[c] = Blank,
           \A d \in Calls \ {c} : call'[d] = call[d], UNCHANGED <<cookie, refresh>>
    PROVE  Alone'
<1> USE BlankType
<1>1. (\A a, b \in Calls \ Free : Changes(call[a].kind) => a = b)'
  BY DEF Alone, Free
<1>2. (\A d \in Calls : Changes(call[d].kind) => call[d].result # "error")'
  BY DEF Alone, Changes
<1>3. (\A d \in Calls : call[d].kind = "logout" => call[d].family = cookie)'
  BY DEF Alone
<1>4. (refresh.pc # "none" => refresh.family = cookie)'
  BY DEF Alone
<1> QED BY <1>1, <1>2, <1>3, <1>4 DEF Alone

LEMMA DataAnsweredInv == ASSUME TabInv, NEW c \in Calls, DataAnswered(c) PROVE TabInv'
<1> USE TabFacts, BlankType
<1> USE DEF TabInv
<1>1. /\ UNCHANGED <<user, token, effect, cookie, owner, alive, refresh, url, left, mixed, faults>>
      /\ call[c].pc = "served" /\ call[c].kind = "data" /\ call' = [call EXCEPT ![c] = Blank]
  BY DEF DataAnswered, Ended, store, session, marks
<1>2. /\ (CallsInv /\ RefreshInv)' /\ call' \in [Calls -> Call]
      /\ call'[c] = Blank /\ \A d \in Calls \ {c} : call'[d] = call[d]
      /\ \A d \in Calls : call'[d].family <= Len(owner)
      /\ LoginsSent' \subseteq LoginsSent
  BY <1>1, EndedCall
<1>3. TabTypes'
  <2>1. left' \in BOOLEAN /\ mixed' \in BOOLEAN /\ effect' \subseteq Hooks /\ faults' \in 0 .. MaxFaults
    BY <1>1 DEF TabTypes, TabTypeOK
  <2> QED BY <1>1, <1>2, <2>1, TypesKept
<1>4. ~mixed => (Alone /\ OnePerson)'
  <2>1. ASSUME ~mixed PROVE (Alone /\ OnePerson)'
    <3>1. Alone /\ OnePerson
      BY <2>1
    <3>2. Alone'
      BY <1>1, <1>2, <3>1, EndedAlone
    <3>3. Pending("login_me") = Pending("login_me")'
      BY <1>1, <1>2 DEF Pending, Free
    <3>4. OnePerson'
      BY <1>1, <1>2, <3>1, <3>3 DEF OnePerson, OfCookie, Changes
    <3> QED BY <3>2, <3>4
  <2> QED BY <2>1
<1>5. SignedOut => SignedOut'
  BY <1>1, <1>2 DEF SignedOut, Changes
<1>6. Asks => Asks'
  BY <1>1, <1>2 DEF Asks
<1> QED BY <1>1, <1>2, <1>3, <1>4, <1>5, <1>6

(* A sign-out that is answered: the family of the cookie is over.          *)
LEMMA LogoutAnsweredInv == ASSUME TabInv, NEW c \in Calls, LogoutAnswered(c) PROVE TabInv'
<1> USE TabFacts, BlankType
<1> USE DEF TabInv
<1>1. /\ UNCHANGED <<cookie, owner, alive, refresh, url, mixed, faults>>
      /\ call[c].pc = "served" /\ call[c].kind = "logout" /\ call' = [call EXCEPT ![c] = Blank]
      /\ user' = Nobody /\ token' = Nobody /\ left' = TRUE /\ effect' \in {Hooks, effect}
  BY DEF LogoutAnswered, SetAuth, Ended, session
<1>2. /\ (CallsInv /\ RefreshInv)' /\ call' \in [Calls -> Call]
      /\ call'[c] = Blank /\ \A d \in Calls \ {c} : call'[d] = call[d]
      /\ \A d \in Calls : call'[d].family <= Len(owner)
      /\ LoginsSent' \subseteq LoginsSent
  BY <1>1, EndedCall
<1>3. TabTypes'
  <2>1. left' \in BOOLEAN /\ mixed' \in BOOLEAN /\ effect' \subseteq Hooks /\ faults' \in 0 .. MaxFaults
    BY <1>1 DEF TabTypes, TabTypeOK
  <2> QED BY <1>1, <1>2, <2>1, TypesKept
<1>4. ASSUME ~mixed
      PROVE  /\ \A d \in Calls : call'[d] = Blank
             /\ Waiting = {} /\ refresh = Idle /\ cookie \notin alive /\ url = Nobody
  <2>1. Alone /\ OnePerson
    BY <1>4
  <2>2. \A d \in Calls \ {c} : d \in Free
    BY <1>1, <2>1 DEF Alone, Free, Changes
  <2>3. \A d \in Calls : call'[d] = Blank
    BY <1>2, <2>2, FreeCalls
  <2>4. Waiting = {}
    BY <1>1, <2>2 DEF Waiting, Free
  <2>5. refresh = Idle
    BY <2>4 DEF RefreshInv
  <2>6. call[c].result = "ok"
    <3>1. call[c].result \notin {"none", "401", "error"}
      BY <1>1, <2>1 DEF Alone, CallsInv, CallShape, Changes
    <3> QED BY <3>1 DEF Call
  <2>7. cookie \notin alive
    BY <1>1, <2>1, <2>6 DEF Alone, CallsInv, CallServed
  <2>8. url = Nobody
    BY <1>1, <2>1 DEF OnePerson, Changes
  <2> QED BY <2>3, <2>4, <2>5, <2>7, <2>8
<1>5. ~mixed => (Alone /\ OnePerson)'
  <2>1. ASSUME ~mixed PROVE (Alone /\ OnePerson)'
    <3>1. Alone'
      BY <1>1, <1>2, <2>1, EndedAlone
    <3>2. OnePerson'
      BY <1>1, <1>4, <2>1 DEF OnePerson
    <3> QED BY <3>1, <3>2
  <2> QED BY <2>1
<1>6. ~mixed => SignedOut'
  BY <1>1, <1>4 DEF SignedOut, Idle, Changes
<1>7. ~mixed => cookie' \notin alive'
  BY <1>1, <1>4
<1> QED BY <1>1, <1>2, <1>3, <1>5, <1>6, <1>7

LEMMA RefusedInv == ASSUME TabInv, NEW c \in Calls, Refused(c) PROVE TabInv'
<1> USE TabFacts
<1> USE DEF TabInv
<1>1. /\ UNCHANGED <<user, token, effect, cookie, owner, alive, url, left, mixed, faults>>
      /\ call[c].pc = "served" /\ call[c].result = "401" /\ ~call[c].retried
      /\ call' = [call EXCEPT ![c].pc = "waiting"]
      /\ refresh' = IF refresh = Idle THEN [pc |-> "sent", family |-> cookie, ok |-> FALSE]
                    ELSE refresh
  BY DEF Refused, Retriable, store, session, marks
<1>2. PICK k : k = [call[c] EXCEPT !.pc = "waiting"]
  OBVIOUS
<1>3. k \in Call
  BY <1>2 DEF Call
<1>4. /\ k.pc = "waiting" /\ k.result = "401" /\ k.kind = call[c].kind /\ k.family = call[c].family
      /\ k.who = call[c].who /\ k.token = call[c].token /\ k.held = call[c].held
      /\ k.retried = call[c].retried
  BY <1>1, <1>2 DEF Call
<1>5. CallShape(k) /\ CallServed(k)' /\ k.kind \in {"fetch_me", "data"}
  <2>1. CallShape(call[c])
    BY DEF CallsInv
  <2> QED BY <1>1, <1>4, <2>1 DEF CallShape, CallServed
<1>6. Grows
  BY <1>1 DEF Grows
<1>7. call' = [call EXCEPT ![c] = k]
  BY <1>1, <1>2
<1>8. faults' \in Nat /\ faults' >= faults /\ k.family <= Len(owner')
  BY <1>1, <1>4
<1>9. /\ CallsInv' /\ call' \in [Calls -> Call]
      /\ \A d \in Calls : call'[d] = IF d = c THEN k ELSE call[d]
      /\ \A d \in Calls : call'[d].family <= Len(owner')
  BY <1>3, <1>5, <1>6, <1>7, <1>8, OneCall
<1>10. c \in Waiting' /\ Waiting \subseteq Waiting'
  BY <1>4, <1>9 DEF Waiting
<1>11. RefreshInv' /\ refresh' \in [pc : {"none", "sent", "served"}, family : 0 .. Len(owner), ok : BOOLEAN]
       /\ (refresh' = refresh \/ (refresh = Idle /\ refresh'.pc = "sent" /\ refresh'.family = cookie /\ ~refresh'.ok))
  <2>1. CASE refresh = Idle
    <3> DEFINE r == [pc |-> "sent", family |-> cookie, ok |-> FALSE]
    <3>1. refresh' = r /\ r.pc = "sent" /\ r.family = cookie /\ r.ok = FALSE
      BY <1>1, <2>1
    <3>2. r \in [pc : {"none", "sent", "served"}, family : 0 .. Len(owner), ok : BOOLEAN]
      OBVIOUS
    <3> QED BY <1>10, <2>1, <3>1, <3>2 DEF RefreshInv
  <2>2. CASE refresh # Idle
    <3>1. refresh' = refresh
      BY <1>1, <2>2
    <3>2. RefreshInv'
      BY <1>6, <1>10, <3>1, RefreshKept
    <3> QED BY <3>1, <3>2
  <2> QED BY <2>1, <2>2
<1>12. TabTypes'
  <2>1. LoginsSent' \subseteq LoginsSent
    BY <1>4, <1>9 DEF LoginsSent
  <2>2. left' \in BOOLEAN /\ mixed' \in BOOLEAN /\ effect' \subseteq Hooks /\ faults' \in 0 .. MaxFaults
    BY <1>1 DEF TabTypes, TabTypeOK
  <2> QED BY <1>1, <1>9, <1>11, <2>1, <2>2, TypesKept
<1>13. \A d \in Calls : /\ call'[d].kind = call[d].kind /\ call'[d].token = call[d].token
                        /\ call'[d].family = call[d].family
                        /\ (call[d].pc # "free") = (call'[d].pc # "free")
                        /\ call'[d].result = call[d].result
  BY <1>1, <1>4, <1>9
<1>14. ~mixed => (Alone /\ OnePerson)'
  <2>1. ASSUME ~mixed PROVE (Alone /\ OnePerson)'
    <3>1. Alone /\ OnePerson
      BY <2>1
    <3>2. OnePerson'
      BY <1>1, <1>6, <1>13, <3>1, OnePersonKept
    <3>3. (\A a, b \in Calls \ Free : Changes(call[a].kind) => a = b)'
      BY <1>13, <3>1 DEF Alone, Free
    <3>4. (\A d \in Calls : Changes(call[d].kind) => call[d].result # "error")'
      BY <1>13, <3>1 DEF Alone
    <3>5. (\A d \in Calls : call[d].kind = "logout" => call[d].family = cookie)'
      BY <1>1, <1>13, <3>1 DEF Alone
    <3>6. (refresh.pc # "none" => refresh.family = cookie)'
      BY <1>1, <1>11, <3>1 DEF Alone
    <3> QED BY <3>2, <3>3, <3>4, <3>5, <3>6 DEF Alone
  <2> QED BY <2>1
<1>15. SignedOut => SignedOut'
  BY <1>1, <1>11, <1>13 DEF SignedOut
<1>16. Asks => Asks'
  BY <1>1, <1>13 DEF Asks
<1> QED BY <1>1, <1>9, <1>11, <1>12, <1>14, <1>15, <1>16

LEMMA FreshType ==
    \A u \in Users : Fresh(u) \in Token /\ Fresh(u).of = u /\ Fresh(u).good = TRUE /\ Fresh(u) # Nobody
<1> TAKE u \in Users
<1>1. Fresh(u) \in Token /\ Fresh(u).of = u /\ Fresh(u).good = TRUE
  BY DEF Fresh, Token
<1>2. Nobody \notin Token
  BY SignInAssumption DEF Token
<1> QED BY <1>1, <1>2

(* A login that is answered: from now on the cookie and the token are of   *)
(* the one who has signed in.                                              *)
LEMMA LoginAnsweredInv == ASSUME TabInv, NEW c \in Calls, LoginAnswered(c) PROVE TabInv'
<1> USE TabFacts, BlankType
<1> USE DEF TabInv
<1>1. /\ UNCHANGED <<user, effect, owner, alive, refresh, url, left, mixed, faults>>
      /\ call[c].pc = "served" /\ call[c].kind = "login"
  BY DEF LoginAnswered, marks
<1>2. CallShape(call[c]) /\ CallServed(call[c])
  BY DEF CallsInv
<1>3. left' \in BOOLEAN /\ mixed' \in BOOLEAN /\ effect' \subseteq Hooks /\ faults' \in 0 .. MaxFaults
  BY <1>1 DEF TabTypes, TabTypeOK
<1>4. ~mixed => ~left
  BY <1>1 DEF SignedOut, Changes
<1>5. CASE call[c].result # "ok"
  <2>1. UNCHANGED <<token, cookie>> /\ call' = [call EXCEPT ![c] = Blank]
    BY <1>5 DEF LoginAnswered, Ended
  <2>2. /\ (CallsInv /\ RefreshInv)' /\ call' \in [Calls -> Call]
        /\ call'[c] = Blank /\ \A d \in Calls \ {c} : call'[d] = call[d]
        /\ \A d \in Calls : call'[d].family <= Len(owner)
        /\ LoginsSent' \subseteq LoginsSent
    BY <1>1, <2>1, EndedCall
  <2>3. TabTypes'
    BY <1>1, <1>3, <2>1, <2>2, TypesKept
  <2>4. call[c].result = "error"
    <3>1. call[c].result \notin {"none", "401", "ok"}
      BY <1>1, <1>2, <1>5 DEF CallShape
    <3> QED BY <3>1 DEF Call
  <2>5. mixed /\ faults > 0
    BY <1>1, <1>2, <2>4 DEF Alone, Changes, CallServed
  <2> QED BY <1>1, <2>2, <2>3, <2>5
<1>6. CASE call[c].result = "ok"
  <2>1. PICK t \in Token : t = Fresh(call[c].who) /\ t.of = call[c].who /\ t.good = TRUE
    <3>1. call[c].who \in Users
      BY <1>1, <1>2 DEF CallShape
    <3> QED BY <3>1, FreshType
  <2>2. /\ token' = t /\ cookie' = call[c].family /\ OfCookie(t.of)'
        /\ cookie' \in 0 .. Len(owner)
    BY <1>1, <1>2, <1>6, <2>1 DEF LoginAnswered, CallServed, OfCookie
  <2>3. PICK k : k = [Blank EXCEPT !.pc = "sent", !.kind = "login_me", !.token = t, !.held = t]
    OBVIOUS
  <2>4. k \in Call
    BY <2>3 DEF Call
  <2>5. /\ k.pc = "sent" /\ k.kind = "login_me" /\ k.token = t /\ k.held = t /\ k.family = 0
        /\ k.result = "none" /\ k.retried = FALSE
    BY <2>3 DEF Blank, NoFamily
  <2>6. CallShape(k) /\ CallServed(k)'
    BY <2>1, <2>5, SignInAssumption DEF CallShape, CallServed, Token
  <2>7. call' = [call EXCEPT ![c] = k]
    BY <1>6, <2>1, <2>2, <2>3 DEF LoginAnswered
  <2>8. Grows /\ faults' \in Nat /\ faults' >= faults /\ k.family <= Len(owner')
    BY <1>1, <2>5 DEF Grows
  <2>9. /\ CallsInv' /\ call' \in [Calls -> Call]
        /\ \A d \in Calls : call'[d] = IF d = c THEN k ELSE call[d]
        /\ \A d \in Calls : call'[d].family <= Len(owner')
    BY <2>4, <2>6, <2>7, <2>8, OneCall
  <2>10. RefreshInv'
    <3>1. Waiting \subseteq Waiting'
      BY <1>1, <2>9 DEF Waiting
    <3> QED BY <1>1, <2>8, <3>1, RefreshKept
  <2>11. TabTypes'
    <3>1. LoginsSent' \subseteq LoginsSent
      BY <2>5, <2>9 DEF LoginsSent
    <3> QED BY <1>1, <1>3, <2>2, <2>9, <3>1, TypesKept
  <2>12. ~mixed => (Alone /\ OnePerson)'
    <3>1. ASSUME ~mixed PROVE (Alone /\ OnePerson)'
      <4>1. Alone /\ OnePerson
        BY <3>1
      <4>2. \A d \in Calls \ {c} : d \in Free /\ call'[d] = Blank
        <5>1. \A d \in Calls \ {c} : d \in Free
          BY <1>1, <4>1 DEF Alone, Free, Changes
        <5> QED BY <2>9, <5>1, FreeCalls
      <4>3. refresh.pc = "none" /\ url = Nobody
        <5>1. Waiting = {}
          BY <1>1, <4>2 DEF Waiting, Free
        <5> QED BY <1>1, <4>1, <5>1 DEF RefreshInv, OnePerson, Changes
      <4>4. call'[c] = k
        BY <2>9
      <4>5. Alone'
        <5>1. (\A a, b \in Calls \ Free : Changes(call[a].kind) => a = b)'
          BY <4>2 DEF Free
        <5>2. (\A d \in Calls : Changes(call[d].kind) => call[d].result # "error")'
          BY <2>5, <4>2, <4>4
        <5>3. (\A d \in Calls : call[d].kind = "logout" => call[d].family = cookie)'
          BY <2>5, <4>2, <4>4
        <5>4. (refresh.pc # "none" => refresh.family = cookie)'
          BY <1>1, <4>3
        <5> QED BY <5>1, <5>2, <5>3, <5>4 DEF Alone
      <4>6. OnePerson'
        <5>1. c \in Pending("login_me")'
          BY <2>5, <4>4 DEF Pending, Free
        <5>2. (\A d \in Calls : call[d].token # Nobody => OfCookie(call[d].token.of))'
          BY <2>2, <2>5, <4>2, <4>4
        <5>3. (token # Nobody => OfCookie(token.of))' /\ url' = Nobody
          BY <1>1, <2>2, <4>3
        <5> QED BY <5>1, <5>2, <5>3 DEF OnePerson
      <4> QED BY <4>5, <4>6
    <3> QED BY <3>1
  <2>13. Asks'
    BY <2>5, <2>9 DEF Asks
  <2> QED BY <1>1, <1>4, <2>9, <2>10, <2>11, <2>12, <2>13
<1> QED BY <1>5, <1>6

(* Who is there has been answered.                                         *)
LEMMA MeAnsweredInv == ASSUME TabInv, NEW c \in Calls, MeAnswered(c) PROVE TabInv'
<1> USE TabFacts, BlankType
<1> USE DEF TabInv
<1>1. /\ UNCHANGED <<cookie, owner, alive, refresh, url, left, mixed, faults>>
      /\ call[c].pc = "served" /\ call[c].kind \in {"login_me", "fetch_me"} /\ ~Retriable(c)
      /\ call' = [call EXCEPT ![c] = Blank]
  BY DEF MeAnswered, Ended, session, marks
<1>2. CallShape(call[c]) /\ CallServed(call[c])
  BY DEF CallsInv
<1>3. call[c].result = "ok" \/ call[c].result = "error"
  <2>1. call[c].result \notin {"none", "401"}
    BY <1>1, <1>2 DEF CallShape, Retriable
  <2> QED BY <2>1 DEF Call
<1>4. /\ (CallsInv /\ RefreshInv)' /\ call' \in [Calls -> Call]
      /\ call'[c] = Blank /\ \A d \in Calls \ {c} : call'[d] = call[d]
      /\ \A d \in Calls : call'[d].family <= Len(owner)
      /\ LoginsSent' \subseteq LoginsSent
  BY <1>1, EndedCall
<1>5. left' \in BOOLEAN /\ mixed' \in BOOLEAN /\ effect \subseteq Hooks /\ faults' \in 0 .. MaxFaults
  BY <1>1 DEF TabTypes, TabTypeOK
<1>6. CASE call[c].result = "ok"
  <2>1. /\ user' = call[c].token.of
        /\ token' = IF call[c].kind = "login_me" THEN call[c].held ELSE token
        /\ effect' \in {Hooks, effect} /\ call[c].token \in Token
    <3>1. call[c].token \in Token
      BY <1>1, <1>2, <1>6 DEF CallShape, Call
    <3> QED BY <1>6, <3>1 DEF MeAnswered, SetAuth
  <2>2. /\ user' \in Users /\ user' # Nobody
        /\ token' \in Token \cup {Nobody} /\ token' \in {token, call[c].token}
    BY <1>1, <1>2, <2>1, SignInAssumption DEF Token, CallShape
  <2>3. TabTypes'
    BY <1>1, <1>4, <1>5, <2>1, <2>2, TypesKept
  <2>4. ~mixed => (Alone /\ OnePerson)'
    <3>1. ASSUME ~mixed PROVE (Alone /\ OnePerson)'
      <4>1. Alone /\ OnePerson
        BY <3>1
      <4>2. Alone'
        BY <1>1, <1>4, <4>1, EndedAlone
      <4>3. OfCookie(call[c].token.of)
        BY <1>2, <2>1, <4>1, SignInAssumption DEF OnePerson, Token
      <4>4. (token # Nobody => OfCookie(token.of))'
        BY <1>1, <2>2, <4>1, <4>3 DEF OnePerson, OfCookie
      <4>5. (url # Nobody => OfCookie(url) /\ \A d \in Calls : ~Changes(call[d].kind))'
        BY <1>1, <1>4, <4>1 DEF OnePerson, OfCookie, Changes
      <4>6. (\A d \in Calls : call[d].token # Nobody => OfCookie(call[d].token.of))'
        BY <1>1, <1>4, <4>1 DEF OnePerson, OfCookie
      <4>7. OfCookie(user)'
        BY <1>1, <2>1, <4>3 DEF OfCookie
      <4> QED BY <4>2, <4>4, <4>5, <4>6, <4>7 DEF OnePerson
    <3> QED BY <3>1
  <2>5. ~(~mixed /\ left)
    <3>1. call[c].token # Nobody
      BY <2>1, SignInAssumption DEF Token
    <3> QED BY <3>1 DEF SignedOut
  <2> QED BY <1>1, <1>4, <2>2, <2>3, <2>4, <2>5
<1>7. CASE call[c].result = "error"
  <2>1. UNCHANGED <<user, token, effect>>
    BY <1>7 DEF MeAnswered, store
  <2>2. TabTypes'
    BY <1>1, <1>4, <1>5, <2>1, TypesKept
  <2>3. ~mixed => (Alone /\ OnePerson)'
    <3>1. ASSUME ~mixed PROVE (Alone /\ OnePerson)'
      <4>1. Alone /\ OnePerson
        BY <3>1
      <4>2. Alone'
        BY <1>1, <1>4, <4>1, EndedAlone
      <4>3. call[c].kind = "fetch_me"
        BY <1>1, <1>7, <4>1 DEF Alone, Changes
      <4>4. Pending("login_me") \subseteq Pending("login_me")'
        BY <1>4, <4>3 DEF Pending, Free
      <4>5. OnePerson'
        BY <1>1, <1>4, <2>1, <4>1, <4>4 DEF OnePerson, OfCookie, Changes
      <4> QED BY <4>2, <4>5
    <3> QED BY <3>1
  <2>4. SignedOut => SignedOut'
    BY <1>1, <1>4, <2>1 DEF SignedOut, Changes
  <2>5. faults' # 0
    BY <1>1, <1>2, <1>7 DEF CallServed
  <2> QED BY <1>1, <1>4, <2>2, <2>3, <2>4, <2>5
<1> QED BY <1>3, <1>6, <1>7

(* The refresh is refused, or its answer is lost: everybody who has waited *)
(* for it gives up, and the store is cleared.                              *)
LEMMA GivenUpCalls ==
    ASSUME TabTypes, CallsInv, RefreshInv, call' = GivenUp, refresh' = Idle, owner' = owner,
           alive' \subseteq alive, faults' \in Nat, faults' >= faults
    PROVE  /\ (CallsInv /\ RefreshInv)' /\ call' \in [Calls -> Call]
           /\ \A d \in Calls : call'[d] = IF d \in Waiting THEN Blank ELSE call[d]
           /\ \A d \in Calls : call'[d].family <= Len(owner)
           /\ LoginsSent' \subseteq LoginsSent
           /\ refresh' \in [pc : {"none", "sent", "served"}, family : 0 .. Len(owner), ok : BOOLEAN]
<1> USE TabFacts, BlankType
<1>1. Grows
  BY DEF Grows
<1>2. \A d \in Calls : call'[d] = IF d \in Waiting THEN Blank ELSE call[d]
  BY DEF GivenUp
<1>3. call' \in [Calls -> Call] /\ \A d \in Calls : call'[d].family <= Len(owner)
  BY DEF GivenUp
<1>4. CallsInv'
  <2>1. ASSUME NEW d \in Calls PROVE (CallShape(call[d]) /\ CallServed(call[d]))'
    <3>1. CASE d \in Waiting
      BY <1>2, <3>1 DEF CallServed
    <3>2. CASE d \notin Waiting
      <4>1. call'[d] = call[d] /\ CallShape(call[d]) /\ CallServed(call[d])
        BY <1>2, <3>2 DEF CallsInv
      <4>2. call[d] \in Call /\ call[d].family \in 0 .. Len(owner)
        OBVIOUS
      <4>3. (call[d].kind = "login" /\ call[d].result = "ok"
               => call[d].family \in DOMAIN owner /\ owner[call[d].family] = call[d].who)'
        BY <4>1 DEF CallServed
      <4>4. (call[d].kind = "logout" /\ call[d].result = "ok" => call[d].family \notin alive)'
        BY <4>1 DEF CallServed
      <4>5. (call[d].result = "error" => faults > 0)'
        BY <4>1 DEF CallServed
      <4> QED BY <4>1, <4>3, <4>4, <4>5 DEF CallServed
    <3> QED BY <3>1, <3>2
  <2> QED BY <2>1 DEF CallsInv
<1>5. RefreshInv'
  BY DEF RefreshInv, Idle
<1>6. LoginsSent' \subseteq LoginsSent
  BY <1>2 DEF LoginsSent
<1>7. refresh' \in [pc : {"none", "sent", "served"}, family : 0 .. Len(owner), ok : BOOLEAN]
  BY DEF Idle, NoFamily
<1> QED BY <1>2, <1>3, <1>4, <1>5, <1>6, <1>7

LEMMA GivenUpAgrees ==
    ASSUME TabTypes, CallsInv, Alone, OnePerson, refresh' = Idle,
           \A d \in Calls : call'[d] = IF d \in Waiting THEN Blank ELSE call[d],
           user' = Nobody, token' = Nobody, UNCHANGED <<cookie, owner, url>>
    PROVE  (Alone /\ OnePerson)'
<1> USE BlankType
<1>1. \A d \in Calls : call'[d] = Blank \/ call'[d] = call[d]
  OBVIOUS
<1>2. (\A a, b \in Calls \ Free : Changes(call[a].kind) => a = b)'
  BY <1>1 DEF Alone, Free
<1>3. (\A d \in Calls : Changes(call[d].kind) => call[d].result # "error")'
  BY <1>1 DEF Alone, Changes
<1>4. (\A d \in Calls : call[d].kind = "logout" => call[d].family = cookie)'
  BY <1>1 DEF Alone
<1>5. (refresh.pc # "none" => refresh.family = cookie)'
  BY DEF Idle
<1>6. (url # Nobody => OfCookie(url) /\ \A d \in Calls : ~Changes(call[d].kind))'
  BY <1>1 DEF OnePerson, OfCookie, Changes
<1>7. (\A d \in Calls : call[d].token # Nobody => OfCookie(call[d].token.of))'
  BY <1>1 DEF OnePerson, OfCookie
<1> QED BY <1>2, <1>3, <1>4, <1>5, <1>6, <1>7 DEF Alone, OnePerson

LEMMA RefreshLostInv == ASSUME TabInv, RefreshLost PROVE TabInv'
<1> USE TabFacts, BlankType
<1> USE DEF TabInv
<1>1. /\ UNCHANGED <<cookie, owner, url, left, mixed>> /\ refresh' = Idle /\ call' = GivenUp
      /\ faults' = faults + 1 /\ faults < MaxFaults
      /\ user' = Nobody /\ token' = Nobody /\ effect' \in {Hooks, effect} /\ alive' \subseteq alive
  BY DEF RefreshLost, SetAuth, Lost
<1>2. faults' \in 0 .. MaxFaults /\ faults' >= faults /\ faults' # 0 /\ faults' \in Nat
  BY <1>1, SignInAssumption
<1>3. /\ (CallsInv /\ RefreshInv)' /\ call' \in [Calls -> Call]
      /\ \A d \in Calls : call'[d] = IF d \in Waiting THEN Blank ELSE call[d]
      /\ \A d \in Calls : call'[d].family <= Len(owner)
      /\ LoginsSent' \subseteq LoginsSent
      /\ refresh' \in [pc : {"none", "sent", "served"}, family : 0 .. Len(owner), ok : BOOLEAN]
  BY <1>1, <1>2, GivenUpCalls
<1>4. TabTypes'
  <2>1. left' \in BOOLEAN /\ mixed' \in BOOLEAN /\ effect' \subseteq Hooks
    BY <1>1 DEF TabTypes, TabTypeOK
  <2> QED BY <1>1, <1>2, <1>3, <2>1, TypesKept
<1>5. ~mixed => (Alone /\ OnePerson)'
  BY <1>1, <1>3, GivenUpAgrees
<1>6. SignedOut => SignedOut'
  BY <1>1, <1>3 DEF SignedOut, Idle, Changes
<1> QED BY <1>1, <1>2, <1>3, <1>4, <1>5, <1>6

(* The refresh succeeds: everybody who has waited goes on with a token of  *)
(* the cookie's user.                                                      *)
LEMMA RefreshAnsweredOk == ASSUME TabInv, RefreshAnswered, refresh.ok PROVE TabInv'
<1> USE TabFacts
<1> USE DEF TabInv
<1>1. /\ UNCHANGED <<user, effect, owner, alive, url, left, mixed, faults>>
      /\ refresh.pc = "served" /\ refresh' = Idle /\ cookie' = refresh.family
      /\ token' = Fresh(owner[refresh.family]) /\ call' = Renewed
  BY DEF RefreshAnswered, marks
<1>2. refresh.family \in DOMAIN owner /\ owner[refresh.family] \in Users
  BY DEF RefreshInv
<1>3. PICK t \in Token : t = token' /\ t.of = owner[refresh.family] /\ t.good = TRUE /\ t # Nobody
  BY <1>1, <1>2, FreshType
<1>4. \A d \in Calls : call'[d] = IF d \in Waiting
        THEN [call[d] EXCEPT !.pc = "sent", !.token = t, !.retried = TRUE, !.result = "none"]
        ELSE call[d]
  BY <1>1, <1>3 DEF Renewed
<1>5. ASSUME NEW d \in Waiting
      PROVE  /\ call'[d] \in Call /\ call'[d].pc = "sent" /\ call'[d].token = t
             /\ call'[d].retried = TRUE /\ call'[d].result = "none" /\ call'[d].kind = call[d].kind
             /\ call'[d].family = call[d].family /\ call[d].kind \in {"fetch_me", "data"}
  <2>1. d \in Calls /\ call[d].pc = "waiting" /\ call[d] \in Call
    BY DEF Waiting
  <2>2. call'[d] = [call[d] EXCEPT !.pc = "sent", !.token = t, !.retried = TRUE, !.result = "none"]
    BY <1>4, <2>1
  <2>3. call'[d] \in Call
    BY <1>3, <2>1, <2>2 DEF Call
  <2>4. /\ call'[d].pc = "sent" /\ call'[d].token = t /\ call'[d].retried = TRUE
        /\ call'[d].result = "none" /\ call'[d].kind = call[d].kind /\ call'[d].family = call[d].family
    BY <2>1, <2>2 DEF Call
  <2>5. call[d].kind \in {"fetch_me", "data"}
    BY <2>1 DEF CallsInv, CallShape
  <2> QED BY <2>3, <2>4, <2>5
<1>6. \A d \in Calls : d \notin Waiting => call'[d] = call[d]
  BY <1>4
<1>7. call' \in [Calls -> Call]
  <2>1. DOMAIN call' = Calls /\ call' = [d \in Calls |-> call'[d]]
    BY <1>1 DEF Renewed
  <2>2. \A d \in Calls : call'[d] \in Call
    BY <1>5, <1>6
  <2> QED BY <2>1, <2>2
<1>8. CallsInv'
  <2>1. ASSUME NEW d \in Calls PROVE (CallShape(call[d]) /\ CallServed(call[d]))'
    <3>1. CASE d \in Waiting
      BY <1>3, <1>5, <3>1 DEF CallShape, CallServed
    <3>2. CASE d \notin Waiting
      BY <1>1, <1>6, <3>2 DEF CallsInv, CallServed
    <3> QED BY <3>1, <3>2
  <2> QED BY <2>1 DEF CallsInv
<1>9. /\ RefreshInv'
      /\ refresh' \in [pc : {"none", "sent", "served"}, family : 0 .. Len(owner), ok : BOOLEAN]
  BY <1>1 DEF RefreshInv, Idle, NoFamily
<1>10. \A d \in Calls : /\ call'[d].kind = call[d].kind /\ call'[d].family = call[d].family
                        /\ (call'[d].pc # "free") = (call[d].pc # "free")
                        /\ call'[d].token \in {call[d].token, t}
                        /\ call'[d].result = call[d].result \/ call'[d].result = "none"
  <2>1. \A d \in Waiting : call[d].pc = "waiting"
    BY DEF Waiting
  <2> QED BY <1>5, <1>6, <2>1
<1>11. TabTypes'
  <2>1. LoginsSent' \subseteq LoginsSent
    BY <1>5, <1>6 DEF LoginsSent
  <2>2. left' \in BOOLEAN /\ mixed' \in BOOLEAN /\ effect' \subseteq Hooks /\ faults' \in 0 .. MaxFaults
    BY <1>1 DEF TabTypes, TabTypeOK
  <2>3. \A d \in Calls : call'[d].family <= Len(owner)
    BY <1>10
  <2> QED BY <1>1, <1>3, <1>7, <1>9, <2>1, <2>2, <2>3, TypesKept
<1>12. ~mixed => UNCHANGED cookie /\ (Alone /\ OnePerson)'
  <2>1. ASSUME ~mixed PROVE UNCHANGED cookie /\ (Alone /\ OnePerson)'
    <3>1. Alone /\ OnePerson
      BY <2>1
    <3>2. UNCHANGED cookie /\ OfCookie(t.of) /\ \A u : OfCookie(u)' = OfCookie(u)
      BY <1>1, <1>2, <1>3, <3>1 DEF Alone, OfCookie
    <3>3. (\A a, b \in Calls \ Free : Changes(call[a].kind) => a = b)'
      BY <1>10, <3>1 DEF Alone, Free
    <3>4. (\A d \in Calls : Changes(call[d].kind) => call[d].result # "error")'
      BY <1>10, <3>1 DEF Alone
    <3>5. (\A d \in Calls : call[d].kind = "logout" => call[d].family = cookie)'
      BY <1>10, <3>1, <3>2 DEF Alone
    <3>6. (refresh.pc # "none" => refresh.family = cookie)'
      BY <1>1 DEF Idle
    <3>7. (token # Nobody => OfCookie(token.of))'
      BY <1>3, <3>2
    <3>8. (url # Nobody => OfCookie(url) /\ \A d \in Calls : ~Changes(call[d].kind))'
      BY <1>1, <1>10, <3>1, <3>2 DEF OnePerson
    <3>9. (\A d \in Calls : call[d].token # Nobody => OfCookie(call[d].token.of))'
      BY <1>10, <3>1, <3>2 DEF OnePerson
    <3>10. (user # Nobody /\ Pending("login_me") = {} => OfCookie(user))'
      <4>1. Pending("login_me") = Pending("login_me")'
        BY <1>10 DEF Pending, Free
      <4> QED BY <1>1, <3>1, <3>2, <4>1 DEF OnePerson
    <3> QED BY <3>2, <3>3, <3>4, <3>5, <3>6, <3>7, <3>8, <3>9, <3>10 DEF Alone, OnePerson
  <2> QED BY <2>1
<1>13. ~(~mixed /\ left)
  BY DEF SignedOut
<1>14. Asks => Asks'
  BY <1>1, <1>10 DEF Asks
<1> QED BY <1>1, <1>8, <1>9, <1>11, <1>12, <1>13, <1>14

LEMMA RefreshAnsweredInv == ASSUME TabInv, RefreshAnswered PROVE TabInv'
<1> USE TabFacts, BlankType
<1> USE DEF TabInv
<1>1. CASE refresh.ok
  BY <1>1, RefreshAnsweredOk
<1>2. CASE ~refresh.ok
  <2>1. /\ UNCHANGED <<cookie, owner, alive, url, left, mixed, faults>>
        /\ refresh.pc = "served" /\ refresh' = Idle /\ call' = GivenUp
        /\ user' = Nobody /\ token' = Nobody /\ effect' \in {Hooks, effect}
    BY <1>2 DEF RefreshAnswered, SetAuth, marks
  <2>2. /\ (CallsInv /\ RefreshInv)' /\ call' \in [Calls -> Call]
        /\ \A d \in Calls : call'[d] = IF d \in Waiting THEN Blank ELSE call[d]
        /\ \A d \in Calls : call'[d].family <= Len(owner)
        /\ LoginsSent' \subseteq LoginsSent
        /\ refresh' \in [pc : {"none", "sent", "served"}, family : 0 .. Len(owner), ok : BOOLEAN]
    BY <2>1, GivenUpCalls
  <2>3. TabTypes'
    <3>1. left' \in BOOLEAN /\ mixed' \in BOOLEAN /\ effect' \subseteq Hooks /\ faults' \in 0 .. MaxFaults
      BY <2>1 DEF TabTypes, TabTypeOK
    <3> QED BY <2>1, <2>2, <3>1, TypesKept
  <2>4. ~mixed => (Alone /\ OnePerson)'
    BY <2>1, <2>2, GivenUpAgrees
  <2>5. SignedOut => SignedOut'
    BY <2>1, <2>2 DEF SignedOut, Idle, Changes
  <2>6. ~mixed => cookie' \notin alive'
    BY <1>2, <2>1 DEF Alone, RefreshInv
  <2> QED BY <2>1, <2>2, <2>3, <2>4, <2>5, <2>6
<1> QED BY <1>1, <1>2

-----------------------------------------------------------------------------
(* Time and the tab.                                                       *)

LEMMA SpoiltType ==
    ASSUME NEW t \in Token \cup {Nobody}
    PROVE  /\ Spoilt(t) \in Token \cup {Nobody} /\ (Spoilt(t) = Nobody) = (t = Nobody)
           /\ t # Nobody => Spoilt(t).of = t.of
<1>1. CASE t = Nobody
  BY <1>1 DEF Spoilt
<1>2. CASE t # Nobody
  <2>1. Spoilt(t) = [t EXCEPT !.good = FALSE] /\ t \in Token
    BY <1>2 DEF Spoilt
  <2>2. Spoilt(t) \in Token /\ Spoilt(t).of = t.of
    BY <2>1 DEF Token
  <2>3. Nobody \notin Token
    BY SignInAssumption DEF Token
  <2> QED BY <1>2, <2>2, <2>3
<1> QED BY <1>1, <1>2

LEMMA ExpireInv == ASSUME TabInv, Expire PROVE TabInv'
<1> USE TabFacts
<1> USE DEF TabInv
<1>1. /\ UNCHANGED <<user, effect, cookie, owner, alive, refresh, url, left, mixed, faults>>
      /\ token' = Spoilt(token) /\ \A d \in Calls : ~call[d].retried /\ call[d].kind # "login_me"
      /\ call' = [d \in Calls |-> [call[d] EXCEPT !.token = Spoilt(call[d].token)]]
  BY DEF Expire, session, marks
<1>2. /\ token' \in Token \cup {Nobody} /\ (token' = Nobody) = (token = Nobody)
      /\ token # Nobody => token'.of = token.of
  BY <1>1, SpoiltType
<1>3. ASSUME NEW d \in Calls
      PROVE  /\ call'[d] \in Call /\ call'[d].pc = call[d].pc /\ call'[d].kind = call[d].kind
             /\ call'[d].who = call[d].who /\ call'[d].family = call[d].family
             /\ call'[d].held = call[d].held /\ call'[d].retried = call[d].retried
             /\ call'[d].result = call[d].result
             /\ (call'[d].token = Nobody) = (call[d].token = Nobody)
             /\ call[d].token # Nobody => call'[d].token.of = call[d].token.of
             /\ call[d].token = Nobody => call'[d] = call[d]
  <2>1. PICK t \in Token \cup {Nobody} : t = Spoilt(call[d].token)
    BY SpoiltType DEF Call
  <2>2. call'[d] = [call[d] EXCEPT !.token = t]
    BY <1>1, <2>1
  <2>3. call'[d] \in Call
    BY <2>2 DEF Call
  <2>4. /\ call'[d].pc = call[d].pc /\ call'[d].kind = call[d].kind
        /\ call'[d].who = call[d].who /\ call'[d].family = call[d].family
        /\ call'[d].held = call[d].held /\ call'[d].retried = call[d].retried
        /\ call'[d].result = call[d].result /\ call'[d].token = t
    BY <2>2 DEF Call
  <2>5. /\ (t = Nobody) = (call[d].token = Nobody)
        /\ call[d].token # Nobody => t.of = call[d].token.of
    <3>1. call[d].token \in Token \cup {Nobody}
      BY DEF Call
    <3> QED BY <2>1, <3>1, SpoiltType
  <2>6. ASSUME call[d].token = Nobody PROVE call'[d] = call[d]
    <3>1. t = call[d].token
      BY <2>5, <2>6
    <3> QED BY <2>2, <3>1 DEF Call
  <2> QED BY <2>3, <2>4, <2>5, <2>6
<1>4. call' \in [Calls -> Call]
  <2>1. call' = [d \in Calls |-> call'[d]]
    BY <1>1
  <2> QED BY <1>3, <2>1
<1>5. CallsInv'
  <2>1. ASSUME NEW d \in Calls PROVE (CallShape(call[d]) /\ CallServed(call[d]))'
    <3>1. CallShape(call[d]) /\ CallServed(call[d]) /\ ~call[d].retried /\ call[d].kind # "login_me"
      BY <1>1 DEF CallsInv
    <3>2. (call[d].pc = "free" => call[d] = Blank)'
      BY <1>3, <3>1, BlankType DEF CallShape
    <3>3. CallShape(call[d])'
      BY <1>3, <3>1, <3>2 DEF CallShape
    <3>4. CallServed(call[d])'
      <4>1. (call[d].kind = "login" /\ call[d].result = "ok"
               => call[d].family \in DOMAIN owner /\ owner[call[d].family] = call[d].who)'
        BY <1>1, <1>3, <3>1 DEF CallServed
      <4>2. (call[d].kind = "logout" /\ call[d].result = "ok" => call[d].family \notin alive)'
        <5>1. call[d].kind = "logout" /\ call[d].result = "ok" => call[d].family \notin alive
          BY <3>1 DEF CallServed
        <5>2. alive' = alive
          BY <1>1
        <5> QED BY <1>3, <5>1, <5>2
      <4>3. (call[d].result = "error" => faults > 0)'
        BY <1>1, <1>3, <3>1 DEF CallServed
      <4> QED BY <4>1, <4>2, <4>3 DEF CallServed
    <3> QED BY <3>3, <3>4
  <2> QED BY <2>1 DEF CallsInv
<1>6. RefreshInv'
  <2>1. Grows
    BY <1>1 DEF Grows
  <2>2. Waiting \subseteq Waiting'
    BY <1>3 DEF Waiting
  <2> QED BY <1>1, <2>1, <2>2, RefreshKept
<1>7. TabTypes'
  <2>1. LoginsSent' \subseteq LoginsSent
    BY <1>3 DEF LoginsSent
  <2>2. left' \in BOOLEAN /\ mixed' \in BOOLEAN /\ effect' \subseteq Hooks /\ faults' \in 0 .. MaxFaults
    BY <1>1 DEF TabTypes, TabTypeOK
  <2>3. \A d \in Calls : call'[d].family <= Len(owner)
    BY <1>3
  <2> QED BY <1>1, <1>2, <1>4, <2>1, <2>2, <2>3, TypesKept
<1>8. Alone => Alone'
  <2>1. ASSUME Alone PROVE Alone'
    <3>1. (\A a, b \in Calls \ Free : Changes(call[a].kind) => a = b)'
      BY <1>3, <2>1 DEF Alone, Free
    <3>2. (\A d \in Calls : Changes(call[d].kind) => call[d].result # "error")'
      BY <1>3, <2>1 DEF Alone
    <3>3. (\A d \in Calls : call[d].kind = "logout" => call[d].family = cookie)'
      BY <1>1, <1>3, <2>1 DEF Alone
    <3>4. (refresh.pc # "none" => refresh.family = cookie)'
      BY <1>1, <2>1 DEF Alone
    <3> QED BY <3>1, <3>2, <3>3, <3>4 DEF Alone
  <2> QED BY <2>1
<1>9. OnePerson => OnePerson'
  <2>1. ASSUME OnePerson PROVE OnePerson'
    <3>1. (token # Nobody => OfCookie(token.of))'
      BY <1>1, <1>2, <2>1 DEF OnePerson, OfCookie
    <3>2. (url # Nobody => OfCookie(url) /\ \A d \in Calls : ~Changes(call[d].kind))'
      BY <1>1, <1>3, <2>1 DEF OnePerson, OfCookie
    <3>3. (\A d \in Calls : call[d].token # Nobody => OfCookie(call[d].token.of))'
      BY <1>1, <1>3, <2>1 DEF OnePerson, OfCookie
    <3>4. (user # Nobody /\ Pending("login_me") = {} => OfCookie(user))'
      <4>1. Pending("login_me") = Pending("login_me")'
        BY <1>3 DEF Pending, Free
      <4> QED BY <1>1, <2>1, <4>1 DEF OnePerson, OfCookie
    <3> QED BY <3>1, <3>2, <3>3, <3>4 DEF OnePerson
  <2> QED BY <2>1
<1>10. SignedOut => SignedOut'
  BY <1>1, <1>2, <1>3 DEF SignedOut
<1>11. Asks => Asks'
  BY <1>1, <1>3 DEF Asks
<1> QED BY <1>1, <1>5, <1>6, <1>7, <1>8, <1>9, <1>10, <1>11

LEMMA FamilyEndsInv == ASSUME TabInv, NEW f \in alive, FamilyEnds(f) PROVE TabInv'
<1> USE TabFacts
<1> USE DEF TabInv
<1>1. /\ UNCHANGED <<user, token, effect, cookie, owner, call, refresh, url, left, mixed, faults>>
      /\ alive' \subseteq alive
  BY DEF FamilyEnds, store, marks
<1>2. TabTypes'
  <2>1. LoginsSent' = LoginsSent
    BY <1>1 DEF LoginsSent
  <2>2. left' \in BOOLEAN /\ mixed' \in BOOLEAN /\ effect' \subseteq Hooks /\ faults' \in 0 .. MaxFaults
    BY <1>1 DEF TabTypes, TabTypeOK
  <2> QED BY <1>1, <2>1, <2>2, TypesKept
<1>3. CallsInv'
  BY <1>1 DEF CallsInv, CallServed
<1>4. RefreshInv'
  BY <1>1 DEF RefreshInv, Waiting
<1>5. (Alone /\ OnePerson)' = (Alone /\ OnePerson)
  BY <1>1 DEF Alone, OnePerson, OfCookie, Pending, Free
<1>6. SignedOut => SignedOut'
  BY <1>1 DEF SignedOut
<1>7. Asks => Asks'
  BY <1>1 DEF Asks
<1> QED BY <1>1, <1>2, <1>3, <1>4, <1>5, <1>6, <1>7

(* The tab is loaded anew: no request is under way.                        *)
LEMMA OpenedCalls ==
    ASSUME Opened
    PROVE  /\ user' = Nobody /\ token' = Nobody /\ effect' = Hooks /\ refresh' = Idle
           /\ call' \in [Calls -> Call] /\ \A d \in Calls : call'[d] = Blank
           /\ (CallsInv /\ RefreshInv)' /\ LoginsSent' = {} /\ Asks' /\ Alone'
<1> USE BlankType
<1>1. /\ user' = Nobody /\ token' = Nobody /\ effect' = Hooks /\ refresh' = Idle
      /\ call' = [d \in Calls |-> Blank]
  BY DEF Opened
<1>2. call' \in [Calls -> Call] /\ \A d \in Calls : call'[d] = Blank
  BY <1>1
<1>3. CallsInv'
  BY <1>2 DEF CallsInv, CallServed
<1>4. RefreshInv'
  BY <1>1 DEF RefreshInv, Idle
<1>5. LoginsSent' = {}
  BY <1>2 DEF LoginsSent
<1>6. Asks'
  BY <1>1, SignInAssumption DEF Asks
<1>7. Alone'
  BY <1>1, <1>2 DEF Alone, Changes, Idle
<1> QED BY <1>1, <1>2, <1>3, <1>4, <1>5, <1>6, <1>7

LEMMA ReloadInv == ASSUME TabInv, Reload PROVE TabInv'
<1> USE TabFacts, BlankType
<1> USE DEF TabInv
<1>1. /\ UNCHANGED <<cookie, owner, left, mixed>> /\ url' = Nobody /\ alive' \subseteq alive
      /\ faults' = faults + 1 /\ faults < MaxFaults /\ Opened
  BY DEF Reload, Lost
<1>2. /\ user' = Nobody /\ token' = Nobody /\ effect' = Hooks /\ refresh' = Idle
      /\ call' \in [Calls -> Call] /\ \A d \in Calls : call'[d] = Blank
      /\ (CallsInv /\ RefreshInv)' /\ LoginsSent' = {} /\ Asks' /\ Alone'
  BY <1>1, OpenedCalls
<1>3. TabTypes'
  <2>1. left' \in BOOLEAN /\ mixed' \in BOOLEAN
    BY <1>1 DEF TabTypes, TabTypeOK
  <2>2. refresh' \in [pc : {"none", "sent", "served"}, family : 0 .. Len(owner), ok : BOOLEAN]
    BY <1>2 DEF Idle, NoFamily
  <2>3. faults' \in 0 .. MaxFaults
    BY <1>1, SignInAssumption
  <2> QED BY <1>1, <1>2, <2>1, <2>2, <2>3, TypesKept
<1>4. OnePerson'
  BY <1>1, <1>2 DEF OnePerson
<1>5. SignedOut => SignedOut'
  BY <1>1, <1>2 DEF SignedOut, Idle, Changes
<1> QED BY <1>1, <1>2, <1>3, <1>4, <1>5

LEMMA GoogleReturnsInv == ASSUME TabInv, NEW u \in Users, GoogleReturns(u) PROVE TabInv'
<1> USE TabFacts, BlankType
<1> USE DEF TabInv
<1>1. /\ UNCHANGED <<mixed, faults>> /\ url' = u /\ left' = FALSE /\ Opened
      /\ Len(owner) < MaxFamilies /\ owner' = Append(owner, u) /\ cookie' = Len(owner')
      /\ alive' = alive \cup {cookie'}
  BY DEF GoogleReturns
<1>2. /\ user' = Nobody /\ token' = Nobody /\ effect' = Hooks /\ refresh' = Idle
      /\ call' \in [Calls -> Call] /\ \A d \in Calls : call'[d] = Blank
      /\ (CallsInv /\ RefreshInv)' /\ LoginsSent' = {} /\ Asks' /\ Alone'
  BY <1>1, OpenedCalls
<1>3. /\ owner' \in Seq(Users) /\ Len(owner') = Len(owner) + 1 /\ DOMAIN owner' = 1 .. Len(owner')
      /\ owner'[Len(owner')] = u
  BY <1>1, AppendProperties, LenProperties
<1>4. OfCookie(u)'
  BY <1>1, <1>3 DEF OfCookie
<1>5. TabTypes'
  <2>1. mixed' \in BOOLEAN /\ faults' \in 0 .. MaxFaults
    BY <1>1 DEF TabTypes, TabTypeOK
  <2>2. refresh' \in [pc : {"none", "sent", "served"}, family : 0 .. Len(owner'), ok : BOOLEAN]
    BY <1>2, <1>3 DEF Idle, NoFamily
  <2>3. Cardinality(LoginsSent') = 0
    BY <1>2, FS_EmptySet
  <2>4. Len(owner') <= MaxFamilies /\ Len(owner') + Cardinality(LoginsSent') <= MaxFamilies
    BY <1>1, <1>3, <2>3, SignInAssumption
  <2>5. \A f \in DOMAIN owner' : owner'[f] \in Users
    BY <1>3
  <2>6. cookie' \in 0 .. Len(owner') /\ alive' \subseteq DOMAIN owner'
    BY <1>1, <1>3
  <2>7. \A d \in Calls : call'[d].family <= Len(owner')
    BY <1>2, <1>3
  <2> QED BY <1>1, <1>2, <1>3, <2>1, <2>2, <2>4, <2>5, <2>6, <2>7 DEF TabTypes, TabTypeOK
<1>6. OnePerson'
  BY <1>1, <1>2, <1>4 DEF OnePerson, Changes
<1> QED BY <1>1, <1>2, <1>5, <1>6

LEMMA TabInitInv == ASSUME TabInit PROVE TabInv
<1> USE BlankType
<1>1. /\ user = Nobody /\ token = Nobody /\ cookie = Len(owner) /\ alive \subseteq 1 .. Len(owner)
      /\ refresh = Idle /\ effect = Hooks /\ url = Nobody
      /\ left = FALSE /\ mixed = FALSE /\ faults = 0
      /\ call = [d \in Calls |-> Blank] /\ \A d \in Calls : call[d] = Blank
  BY DEF TabInit
<1>2. owner \in Seq(Users) /\ Len(owner) \in Nat /\ Len(owner) <= MaxFamilies /\ DOMAIN owner = 1 .. Len(owner)
      /\ \A f \in DOMAIN owner : owner[f] \in Users
  <2>1. CASE owner = <<>>
    BY <2>1, SignInAssumption, EmptySeq
  <2>2. CASE \E u \in Users : owner = <<u>>
    <3>1. PICK u \in Users : owner = <<u>>
      BY <2>2
    <3>2. Len(owner) = 1 /\ DOMAIN owner = 1 .. 1 /\ owner[1] = u /\ owner \in Seq(Users)
      BY <3>1
    <3> QED BY <3>2, SignInAssumption
  <2> QED BY <2>1, <2>2 DEF TabInit
<1>3. LoginsSent = {} /\ Cardinality(LoginsSent) = 0
  BY <1>1, FS_EmptySet DEF LoginsSent
<1>4. TabTypes
  <2>1. call \in [Calls -> Call] /\ \A d \in Calls : call[d].family <= Len(owner)
    BY <1>1, <1>2
  <2>2. refresh \in [pc : {"none", "sent", "served"}, family : 0 .. Len(owner), ok : BOOLEAN]
    BY <1>1, <1>2 DEF Idle, NoFamily
  <2>3. cookie \in 0 .. Len(owner) /\ alive \subseteq DOMAIN owner
    BY <1>1, <1>2
  <2>4. Len(owner) + Cardinality(LoginsSent) <= MaxFamilies
    BY <1>2, <1>3
  <2>5. /\ user \in Users \cup {Nobody} /\ token \in Token \cup {Nobody} /\ effect \subseteq Hooks
        /\ url \in Users \cup {Nobody}
    BY <1>1
  <2>6. left \in BOOLEAN /\ mixed \in BOOLEAN
    BY <1>1
  <2>7. faults \in 0 .. MaxFaults
    BY <1>1, SignInAssumption
  <2> QED BY <1>2, <2>1, <2>2, <2>3, <2>4, <2>5, <2>6, <2>7 DEF TabTypes, TabTypeOK
<1>5. CallsInv
  BY <1>1, BlankServed DEF CallsInv
<1>6. RefreshInv /\ Alone /\ OnePerson
  BY <1>1 DEF RefreshInv, Alone, OnePerson, Idle, Changes
<1>7. Asks
  BY <1>1, SignInAssumption DEF Asks
<1> QED BY <1>1, <1>4, <1>5, <1>6, <1>7 DEF TabInv

LEMMA TabStep == ASSUME TabInv, [TabNext]_tabVars PROVE TabInv'
<1>1. CASE UNCHANGED tabVars
  <2>1. /\ UNCHANGED <<user, token, effect, cookie, owner, alive, call, refresh, url, left, mixed, faults>>
    BY <1>1 DEF tabVars
  <2>2. (TabTypes /\ CallsInv /\ RefreshInv)'
    BY <2>1 DEF TabInv, TabTypes, TabTypeOK, LoginsSent, CallsInv, CallServed, RefreshInv, Waiting
  <2>3. (Alone /\ OnePerson)' = (Alone /\ OnePerson) /\ SignedOut' = SignedOut /\ Asks' = Asks
    BY <2>1 DEF Alone, OnePerson, OfCookie, Pending, Free, SignedOut, Asks
  <2> QED BY <2>1, <2>2, <2>3 DEF TabInv
<1>2. ASSUME NEW c \in Calls,
             \/ Logout(c) \/ Data(c) \/ CallbackEffect(c) \/ Served(c) \/ Error(c) \/ Answers(c)
             \/ \E u \in Users : Login(c, u)
             \/ \E h \in Hooks : Effect(c, h)
      PROVE  TabInv'
  <2>1. CASE Logout(c) \/ Data(c) \/ CallbackEffect(c) \/ Served(c) \/ Error(c)
    BY <2>1, LogoutInv, DataInv, CallbackInv, ServedInv, ErrorInv
  <2>2. CASE Answers(c)
    BY <2>2, RefusedInv, LoginAnsweredInv, MeAnsweredInv, DataAnsweredInv, LogoutAnsweredInv DEF Answers
  <2>3. CASE \E u \in Users : Login(c, u)
    BY <2>3, LoginInv
  <2>4. CASE \E h \in Hooks : Effect(c, h)
    BY <2>4, EffectInv
  <2> QED BY <1>2, <2>1, <2>2, <2>3, <2>4
<1>3. CASE \E h \in Hooks : Mount(h)
  BY <1>3, MountInv
<1>4. CASE RefreshServed \/ RefreshAnswered \/ RefreshLost \/ Expire \/ Reload
  BY <1>4, RefreshServedInv, RefreshAnsweredInv, RefreshLostInv, ExpireInv, ReloadInv
<1>5. CASE \E u \in Users : GoogleReturns(u)
  BY <1>5, GoogleReturnsInv
<1>6. CASE \E f \in alive : FamilyEnds(f)
  BY <1>6, FamilyEndsInv
<1> QED BY <1>1, <1>2, <1>3, <1>4, <1>5, <1>6 DEF TabNext

THEOREM TabInvariant == TabSpec => []TabInv
<1>1. TabInit => TabInv
  BY TabInitInv
<1>2. TabInv /\ [TabNext]_tabVars => TabInv'
  BY TabStep
<1> QED BY <1>1, <1>2, PTL DEF TabSpec

(* Every value of the store, of the cookie, of the requests and of the     *)
(* refresh is one the code can have, and no sign-in is lost to the bound.  *)
THEOREM TabTypeCorrect == TabSpec => []TabTypeOK
<1>1. TabInv => TabTypeOK
  BY DEF TabInv, TabTypes
<1> QED BY <1>1, TabInvariant, PTL

(* The user that is shown is the one the token is for, however many        *)
(* requests, refreshes, errors and reloads there are, while no sign-in or  *)
(* sign-out overlaps another request: both are the one of the cookie.      *)
THEOREM OnePersonShown == TabSpec => []UserMatchesToken
<1>1. TabInv => UserMatchesToken
  BY DEF TabInv, OnePerson, OfCookie, UserMatchesToken
<1> QED BY <1>1, TabInvariant, PTL

(* Whoever has signed out stays signed out, whatever the effects of        *)
(* useAuth ask and whatever they are answered: the family of the cookie    *)
(* has ended before the answer to the sign-out, so no refresh succeeds.    *)
THEOREM SignOutLasts == TabSpec => []StaysSignedOut
<1>1. TabInv => StaysSignedOut
  BY DEF TabInv, SignedOut, StaysSignedOut
<1> QED BY <1>1, TabInvariant, PTL

(* A tab whose cookie is good does not settle on a visitor: as long as it  *)
(* shows one, something under way will ask, and is not refused.            *)
THEOREM GoodCookieIsEnough == TabSpec => []GoodCookieSignsIn
<1>1. TabInv => GoodCookieSignsIn
  <2>1. ASSUME TabInv, Quiet PROVE ~Asks
    <3>1. \A c \in Calls : call[c].kind = "none"
      BY <2>1, FreeCalls DEF TabInv, Quiet
    <3> QED BY <2>1, <3>1 DEF Quiet, Asks
  <2> QED BY <2>1 DEF TabInv, GoodCookieSignsIn
<1> QED BY <1>1, TabInvariant, PTL
=============================================================================
