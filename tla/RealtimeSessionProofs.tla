----------------------- MODULE RealtimeSessionProofs -----------------------
(* Theorems of RealtimeSession for every set of members, movies and        *)
(* overlapping requests, every number of rerolls and lost connections,     *)
(* with and without the timeout.                                           *)
EXTENDS RealtimeSession, FiniteSetTheorems, SequenceTheorems, TLAPS

Among(x, s) == \E i \in 1 .. Len(s) : s[i] = x
Linked == {"accepted", "read", "open"}

(* A message under way tells what is committed.  Before the first reroll   *)
(* it is of the first candidates and counts votes that were cast.          *)
Honest(m) ==
    /\ m.winner \in decided \cup {NoMovie}
    /\ gen = 0 => m.gen = 0 /\ m.tally \subseteq votes /\ m.type # "started"

MessageInv ==
    /\ \A t \in Tasks : Honest(task[t].current)
    /\ \A t \in Tasks : \A i \in 1 .. Len(task[t].queue) : Honest(task[t].queue[i])
    /\ \A c \in Clients : Honest(snap[c]) /\ snap[c].type = "snapshot"

(* A vote is cast by a page.  Before the first reroll every vote is for    *)
(* the first candidates, and a tally counts no more than the committed     *)
(* votes and the one that is being inserted.                               *)
CountInv ==
    /\ \A t \in Requests : task[t].pc = "vote" => task[t].by \in Clients
    /\ gen = 0 =>
        /\ votes \subseteq Clients \X {0}
        /\ \A t \in Requests :
            /\ task[t].gen = 0
            /\ task[t].insert \subseteq Clients \X {0}
            /\ task[t].pc = "commit" => task[t].tally \subseteq votes \cup task[t].insert

ScreenInv == gen = 0 => \A c \in Clients : screen[c].gen = 0

(* A session that is completed has a winner, and winners are remembered.   *)
StatusInv ==
    /\ status = "completed" => winner # NoMovie
    /\ winner \in decided \cup {NoMovie}

(* A page that was connected before the end is connected and registered.   *)
PresentInv ==
    \A c \in Clients : present[c] => link[c] \in Linked /\ Among(Socket(c), conns)

(* A query is not answered with an end that has not come.                  *)
QueryInv ==
    /\ gen = 0 => \A c \in Clients : data[c].gen = 0 /\ reply[c].gen = 0
    /\ gen = 0 => \A c \in Clients : present[c] => data[c].status = "active"
    /\ status = "active" => \A c \in Clients :
        /\ link[c] # "off" => data[c].status = "active"
        /\ reply[c].status \notin {"completed", "expired"}

(* A message of these types has not reached the page, and q will send it.  *)
Owes(q, c, types) ==
    /\ q.pc = "cast"
    /\ \/ \E i \in 1 .. Len(q.queue) : q.queue[i].type \in types
       \/ q.current.type \in types /\ Among(Socket(c), q.targets)

Due(c, types) == \E t \in Tasks : Owes(task[t], c, types)

ClosedInv ==
    gen = 0 /\ status # "active" =>
        \A c \in Clients : present[c] =>
            screen[c].status # "active" \/ Due(c, {"completed", "expired"})

(* Who is present at the end will hear of a winner.                        *)
DecidedInv ==
    gen = 0 /\ status = "completed" =>
        \A c \in Clients : present[c] =>
            screen[c].winner # NoMovie \/ Due(c, {"completed"})

(* A socket is registered once, after it was accepted.                     *)
RegisteredInv ==
    /\ \A i, j \in 1 .. Len(conns) : conns[i] = conns[j] => i = j
    /\ \A i \in 1 .. Len(conns) : conns[i][2] <= era[conns[i][1]]
    /\ \A c \in Clients : link[c] \in {"off", "connecting"} => ~Among(Socket(c), conns)

IInv ==
    /\ TypeOK /\ NoPhantoms /\ MessageInv /\ CountInv /\ ScreenInv /\ StatusInv
    /\ PresentInv /\ QueryInv /\ ClosedInv /\ DecidedInv /\ RegisteredInv

-----------------------------------------------------------------------------
(* Sequences.                                                              *)

LEMMA AmongHead ==
    ASSUME NEW S, NEW s \in Seq(S), s # <<>>, NEW x
    PROVE  /\ Head(s) \in S /\ Head(s) = s[1] /\ Len(s) >= 1
           /\ Among(x, s) => x = Head(s) \/ Among(x, Tail(s))
<1>1. Head(s) \in S /\ Head(s) = s[1] /\ Len(s) \in Nat \ {0}
  BY HeadTailProperties, EmptySeq
<1>2. Len(Tail(s)) = Len(s) - 1 /\ \A i \in 1 .. Len(Tail(s)) : Tail(s)[i] = s[i + 1]
  BY HeadTailProperties
<1>3. ASSUME NEW i \in 1 .. Len(s), s[i] = x, i # 1 PROVE Among(x, Tail(s))
  <2>1. i - 1 \in 1 .. Len(Tail(s)) /\ Tail(s)[i - 1] = x
    BY <1>1, <1>2, <1>3
  <2> QED BY <2>1 DEF Among
<1> QED BY <1>1, <1>3 DEF Among

LEMMA AmongAppend ==
    ASSUME NEW S, NEW s \in Seq(S), NEW y \in S, NEW x
    PROVE  Among(x, Append(s, y)) <=> Among(x, s) \/ x = y
<1>1. Len(s) \in Nat /\ Len(Append(s, y)) = Len(s) + 1 /\ Append(s, y)[Len(s) + 1] = y
        /\ \A i \in 1 .. Len(s) : Append(s, y)[i] = s[i]
  BY AppendProperties, LenProperties
<1> QED BY <1>1 DEF Among

(* One index is taken out.                                                 *)
LEMMA Without ==
    ASSUME NEW S, NEW s \in Seq(S), NEW i \in 1 .. Len(s)
    PROVE  LET w == SubSeq(s, 1, i - 1) \o SubSeq(s, i + 1, Len(s)) IN
             /\ w \in Seq(S) /\ Len(w) = Len(s) - 1
             /\ \A j \in 1 .. Len(w) : w[j] = IF j < i THEN s[j] ELSE s[j + 1]
<1> DEFINE a == SubSeq(s, 1, i - 1)
<1> DEFINE b == SubSeq(s, i + 1, Len(s))
<1>0. Len(s) \in Nat /\ \A j \in 1 .. Len(s) : s[j] \in S
  BY LenProperties, ElementOfSeq
<1>1. a \in Seq(S) /\ Len(a) = i - 1 /\ \A j \in 1 .. i - 1 : a[j] = s[j]
  <2>1. \A j \in 1 .. i - 1 : s[j] \in S
    BY <1>0
  <2>2. /\ a \in Seq(S) /\ Len(a) = IF 1 <= i - 1 THEN (i - 1) - 1 + 1 ELSE 0
        /\ \A j \in 1 .. (i - 1) - 1 + 1 : a[j] = s[1 + j - 1]
    BY <1>0, <2>1, SubSeqProperties
  <2> QED BY <1>0, <2>2
<1>2. b \in Seq(S) /\ Len(b) = Len(s) - i /\ \A j \in 1 .. Len(s) - i : b[j] = s[i + j]
  <2>1. \A j \in i + 1 .. Len(s) : s[j] \in S
    BY <1>0
  <2>2. /\ b \in Seq(S) /\ Len(b) = IF i + 1 <= Len(s) THEN Len(s) - (i + 1) + 1 ELSE 0
        /\ \A j \in 1 .. Len(s) - (i + 1) + 1 : b[j] = s[i + 1 + j - 1]
    BY <1>0, <2>1, SubSeqProperties
  <2> QED BY <1>0, <2>2
<1> HIDE DEF a, b
<1>3. /\ a \o b \in Seq(S) /\ Len(a \o b) = Len(a) + Len(b)
      /\ \A j \in 1 .. Len(a) + Len(b) :
            (a \o b)[j] = IF j <= Len(a) THEN a[j] ELSE b[j - Len(a)]
  BY <1>1, <1>2, ConcatProperties
<1> DEFINE w == a \o b
<1>4. /\ w \in Seq(S) /\ Len(w) = Len(s) - 1 /\ \A j \in 1 .. Len(w) :
            w[j] = IF j <= i - 1 THEN a[j] ELSE b[j - (i - 1)]
  BY <1>0, <1>1, <1>2, <1>3
<1> HIDE DEF w
<1>5. \A j \in 1 .. Len(w) : w[j] = IF j < i THEN s[j] ELSE s[j + 1]
  BY <1>0, <1>1, <1>2, <1>4
<1> QED BY <1>4, <1>5 DEF w, a, b

-----------------------------------------------------------------------------
(* Records.                                                                *)

LEMMA MsgType ==
    ASSUME NEW g \in Gens, NEW b \in SUBSET Ballots
    PROVE  /\ \A type \in {"snapshot", "started", "vote", "expired"} :
                /\ Msg(type, g, b, NoMovie) \in Message
           /\ \A m \in Movies : Msg("completed", g, b, m) \in Message
           /\ \A type, m : /\ Msg(type, g, b, m).type = type /\ Msg(type, g, b, m).gen = g
                           /\ Msg(type, g, b, m).tally = b /\ Msg(type, g, b, m).winner = m
BY DEF Msg, Message

LEMMA MessageFields ==
    ASSUME NEW m \in Message
    PROVE  /\ m.gen \in Gens /\ m.tally \subseteq Ballots /\ m.winner \in Movies \cup {NoMovie}
           /\ m.type \in {"snapshot", "started", "vote", "expired", "completed"}
           /\ m.winner # NoMovie => m.type = "completed"
           /\ m.type = "completed" => m.winner \in Movies
BY DEF Message

LEMMA ShownFields ==
    ASSUME NEW scr \in Screen, NEW m \in Message
    PROVE  /\ Shown(scr, m) \in Screen
           /\ Shown(scr, m).gen = IF m.type \in {"snapshot", "started"} THEN m.gen ELSE scr.gen
           /\ Shown(scr, m).tally = IF m.type \in {"snapshot", "vote"} THEN m.tally ELSE scr.tally
           /\ Shown(scr, m).winner = IF m.type = "completed" THEN m.winner ELSE scr.winner
           /\ Shown(scr, m).status = IF m.type \in {"started"} THEN "active"
                                     ELSE IF m.type \in {"completed", "expired"} THEN m.type
                                     ELSE scr.status
BY DEF Shown, Screen, Message

LEMMA GenZero == 0 \in Gens /\ {} \in SUBSET Ballots /\ \A g \in Gens : g # 0 => g > 0
BY ClientsAssumption DEF Gens

LEMMA IdleType ==
    /\ Msg("expired", 0, {}, NoMovie) \in Message
    /\ \A pc \in {"idle", "armed", "done"} :
        LET n == [Idle EXCEPT !.pc = pc] IN
        /\ n \in Task /\ n.pc = pc /\ n.gen = 0 /\ n.tally = {} /\ n.pick = NoMovie
        /\ n.insert = {}
        /\ n.queue = <<>> /\ n.targets = <<>> /\ n.current = Msg("expired", 0, {}, NoMovie)
    /\ Idle \in Task /\ Idle.pc = "idle" /\ Idle.gen = 0 /\ Idle.queue = <<>>
    /\ Idle.insert = {}
    /\ Idle.current = Msg("expired", 0, {}, NoMovie)
BY MsgType, GenZero, EmptySeq DEF Idle, Task

LEMMA BlankType ==
    ASSUME NEW r \in Response
    PROVE  /\ Restarted(r) \in Screen /\ Restarted(r).gen = r.gen /\ Restarted(r).tally = {}
           /\ Restarted(r).winner = NoMovie
           /\ Restarted(r).status = IF r.status = "expired" THEN "idle" ELSE r.status
BY DEF Restarted, Blank, Screen, Response

LEMMA CurrentType ==
    TypeOK => Current \in Response /\ Current.status = status /\ Current.gen = gen
BY DEF TypeOK, Current, Response

-----------------------------------------------------------------------------
LEMMA InitInv == Init => IInv
<1> SUFFICES ASSUME Init PROVE IInv
  OBVIOUS
<1> USE ClientsAssumption, IdleType, GenZero
<1>0. /\ \A t \in Requests : task[t] = [Idle EXCEPT !.pc = "idle"]
      /\ task[Clock] = [Idle EXCEPT !.pc = "armed"]
  BY DEF Init, Tasks
<1>1. \A t \in Tasks : /\ task[t] \in Task /\ task[t].pc \in {"idle", "armed"}
                       /\ task[t].gen = 0 /\ task[t].queue = <<>> /\ task[t].insert = {}
                       /\ task[t].current = Msg("expired", 0, {}, NoMovie)
  BY <1>0 DEF Tasks
<1>2. NoSnapshot \in Message /\ Blank \in Screen
  BY MsgType DEF NoSnapshot, Blank, Screen
<1>3. TypeOK
  <2>1. conns \in Seq(Sockets) /\ 0 \in 0 .. MaxDrops
    BY EmptySeq DEF Init
  <2>2. task \in [Tasks -> Task]
    BY <1>1 DEF Init
  <2> QED BY <1>2, <2>1, <2>2 DEF Init, TypeOK
<1>4. /\ Honest(Msg("expired", 0, {}, NoMovie))
      /\ Honest(NoSnapshot) /\ NoSnapshot.type = "snapshot"
  BY MsgType DEF NoSnapshot, Honest
<1>5. Len(<<>>) = 0
  OBVIOUS
<1>6. MessageInv
  BY <1>1, <1>4, <1>5 DEF Init, MessageInv
<1>7. NoPhantoms /\ ScreenInv
  BY DEF Init, NoPhantoms, ScreenInv, Blank
<1>8. CountInv /\ StatusInv /\ PresentInv /\ ClosedInv
  BY <1>1 DEF Init, CountInv, StatusInv, PresentInv, ClosedInv, Tasks
<1>9. QueryInv
  BY DEF Init, QueryInv, NoReply
<1>10. DecidedInv
  BY DEF Init, DecidedInv
<1>12. RegisteredInv
  BY <1>5 DEF Init, RegisteredInv, Among
<1> QED BY <1>3, <1>6, <1>7, <1>8, <1>9, <1>10, <1>12 DEF IInv

(* A page moves, the session and the handlers do not.                      *)
LEMMA PageMoves ==
    ASSUME IInv, UNCHANGED <<database, task>>, TypeOK', NoPhantoms', ScreenInv', PresentInv',
           QueryInv', RegisteredInv',
           \A c \in Clients : Honest(snap'[c]) /\ snap'[c].type = "snapshot",
           \A c \in Clients : present'[c] /\ status # "active" =>
                /\ present[c] /\ era'[c] = era[c]
                /\ gen = 0 => /\ screen'[c].status = screen[c].status
                              /\ screen'[c].winner = screen[c].winner
    PROVE  IInv'
<1>1. MessageInv'
  BY DEF IInv, MessageInv, Honest, database
<1>2. CountInv' /\ StatusInv'
  BY DEF IInv, CountInv, StatusInv, database
<1>3. ASSUME NEW c \in Clients, era'[c] = era[c], NEW types, Due(c, types) PROVE Due(c, types)'
  BY <1>3 DEF Due, Owes, Socket
<1>4. ClosedInv'
  <2> SUFFICES ASSUME gen = 0, status # "active", NEW c \in Clients, present'[c]
               PROVE  screen'[c].status # "active" \/ Due(c, {"completed", "expired"})'
    BY DEF ClosedInv, database
  <2>1. present[c] /\ era'[c] = era[c] /\ screen'[c].status = screen[c].status
    OBVIOUS
  <2> QED BY <1>3, <2>1 DEF IInv, ClosedInv
<1>5. DecidedInv'
  <2> SUFFICES ASSUME gen = 0, status = "completed", NEW c \in Clients, present'[c]
               PROVE  screen'[c].winner # NoMovie \/ Due(c, {"completed"})'
    BY DEF DecidedInv, database
  <2>1. present[c] /\ era'[c] = era[c] /\ screen'[c].winner = screen[c].winner
    OBVIOUS
  <2> QED BY <1>3, <2>1 DEF IInv, DecidedInv
<1> QED BY <1>1, <1>2, <1>4, <1>5 DEF IInv

LEMMA LoadNext == ASSUME IInv, NEW c \in Clients, LoadPage(c) PROVE IInv'
<1>1. /\ Current \in Response /\ Current.status = status /\ Current.gen = gen
      /\ Restarted(Current) \in Screen /\ Restarted(Current).gen = gen
      /\ Restarted(Current).tally = {} /\ Restarted(Current).winner = NoMovie
  BY CurrentType, BlankType DEF IInv
<1>2. /\ UNCHANGED <<database, task, conns, era, snap, reply, present>>
      /\ link[c] = "off" /\ ~present[c]
      /\ data' \in [Clients -> Response \cup {NoReply}] /\ screen' \in [Clients -> Screen]
      /\ link' \in [Clients -> {"off", "unused", "connecting", "accepted", "read", "open"}]
  BY <1>1 DEF LoadPage, IInv, TypeOK, PresentInv, Linked
<1>3. \A d \in Clients : /\ data'[d] = IF d = c THEN Current ELSE data[d]
                         /\ screen'[d] = IF d = c THEN Restarted(Current) ELSE screen[d]
                         /\ d # c => link'[d] = link[d]
                         /\ link'[c] \in {"connecting", "unused"}
                         /\ status = "active" => link'[c] = "connecting"
  BY DEF LoadPage, IInv, TypeOK
<1>4. TypeOK'
  BY <1>2 DEF IInv, TypeOK, database
<1>5. NoPhantoms' /\ ScreenInv'
  BY <1>1, <1>2, <1>3 DEF IInv, NoPhantoms, ScreenInv, database
<1>6. PresentInv'
  BY <1>2, <1>3 DEF IInv, PresentInv, Socket
<1>7. QueryInv'
  BY <1>1, <1>2, <1>3 DEF IInv, QueryInv, database
<1>8. RegisteredInv'
  BY <1>2, <1>3 DEF IInv, RegisteredInv, Socket
<1>9. \A d \in Clients : Honest(snap'[d]) /\ snap'[d].type = "snapshot"
  BY <1>2 DEF IInv, MessageInv
<1> QED BY <1>2, <1>3, <1>4, <1>5, <1>6, <1>7, <1>8, <1>9, PageMoves

LEMMA AnswerNext == ASSUME IInv, NEW c \in Clients, QueryAnswered(c) PROVE IInv'
<1>1. Current \in Response /\ Current.status = status /\ Current.gen = gen
  BY CurrentType DEF IInv
<1>2. /\ UNCHANGED <<database, task, conns, link, era, snap, data, screen, present>>
      /\ reply' \in [Clients -> Response \cup {NoReply, Asked}]
      /\ \A d \in Clients : reply'[d] = IF d = c THEN Current ELSE reply[d]
  BY <1>1 DEF QueryAnswered, IInv, TypeOK
<1>3. TypeOK'
  BY <1>2 DEF IInv, TypeOK, database
<1>4. NoPhantoms' /\ ScreenInv' /\ PresentInv' /\ RegisteredInv'
  BY <1>2 DEF IInv, NoPhantoms, ScreenInv, PresentInv, RegisteredInv, Socket, database
<1>5. QueryInv'
  BY <1>1, <1>2 DEF IInv, QueryInv, database
<1>6. \A d \in Clients : Honest(snap'[d]) /\ snap'[d].type = "snapshot"
  BY <1>2 DEF IInv, MessageInv
<1> QED BY <1>2, <1>3, <1>4, <1>5, <1>6, PageMoves

(* Before a reroll, a page that was connected before the end only starts   *)
(* over when it loses its socket.                                          *)
LEMMA RefreshNext == ASSUME IInv, NEW c \in Clients, PageRefreshed(c) PROVE IInv'
<1> DEFINE r == reply[c]
<1>1. /\ r \in Response /\ r.status \in {"active", "completed", "expired"} /\ r.gen \in Gens
      /\ Restarted(r) \in Screen /\ Restarted(r).gen = r.gen
      /\ Restarted(r).tally = {} /\ Restarted(r).winner = NoMovie
  BY BlankType DEF PageRefreshed, Response
<1>2. /\ UNCHANGED <<database, task, conns, era>>
      /\ \A d \in Clients : /\ reply'[d] = IF d = c THEN NoReply ELSE reply[d]
                            /\ data'[d] = IF d = c THEN r ELSE data[d]
                            /\ screen'[d] = IF d = c /\ r # data[c]
                                            THEN Restarted(r) ELSE screen[d]
  BY DEF PageRefreshed, IInv, TypeOK
<1>3. \/ /\ UNCHANGED <<link, present>>
         /\ r.status = "active" \/ link[c] \in {"connecting", "unused"}
      \/ /\ r.status # "active" /\ \A d \in Clients :
                /\ link'[d] = IF d = c THEN "unused" ELSE link[d]
                /\ present'[d] = IF d = c THEN FALSE ELSE present[d]
         /\ link' \in [Clients -> {"off", "unused", "connecting", "accepted", "read", "open"}]
         /\ present' \in [Clients -> BOOLEAN]
  BY DEF PageRefreshed, IInv, TypeOK
<1>4. NoSnapshot \in Message /\ Honest(NoSnapshot) /\ NoSnapshot.type = "snapshot"
  BY MsgType, GenZero DEF NoSnapshot, Honest
<1>5. snap' \in [Clients -> Message] /\ \A d \in Clients : Honest(snap'[d]) /\ snap'[d].type = "snapshot"
  BY <1>4 DEF PageRefreshed, IInv, TypeOK, MessageInv
<1>6. TypeOK'
  <2>1. /\ reply' \in [Clients -> Response \cup {NoReply, Asked}]
        /\ data' \in [Clients -> Response \cup {NoReply}]
        /\ screen' \in [Clients -> Screen]
    BY <1>1 DEF PageRefreshed, IInv, TypeOK
  <2> QED BY <1>2, <1>3, <1>5, <2>1 DEF IInv, TypeOK, database
<1>7. NoPhantoms' /\ ScreenInv'
  BY <1>1, <1>2 DEF IInv, NoPhantoms, ScreenInv, QueryInv, database
<1>8. PresentInv' /\ RegisteredInv'
  BY <1>2, <1>3 DEF IInv, PresentInv, RegisteredInv, Socket, Linked
<1>9. ASSUME NEW d \in Clients, present'[d]
      PROVE  /\ present[d] /\ era'[d] = era[d]
             /\ d = c => r.status = "active"
             /\ gen = 0 => screen'[d] = screen[d]
  <2>1. present[d] /\ era'[d] = era[d] /\ (d = c => r.status = "active")
    BY <1>2, <1>3, <1>9 DEF IInv, PresentInv, Linked
  <2>2. ASSUME gen = 0, d = c PROVE r = data[c]
    <3>1. data[c].status = "active" /\ data[c].gen = 0 /\ r.gen = 0 /\ r.status = "active"
      BY <2>1, <2>2 DEF IInv, QueryInv
    <3>2. data[c] \in Response
      BY <3>1 DEF IInv, TypeOK, NoReply
    <3> QED BY <1>1, <3>1, <3>2 DEF Response
  <2> QED BY <1>2, <2>1, <2>2
<1>10. QueryInv'
  <2>1. NoReply.gen = 0 /\ NoReply.status = "none"
    BY DEF NoReply
  <2>2. UNCHANGED <<status, gen>>
    BY <1>2 DEF database
  <2>3. gen = 0 => \A d \in Clients : data'[d].gen = 0 /\ reply'[d].gen = 0
    BY <1>2, <2>1 DEF IInv, QueryInv
  <2>4. gen = 0 => \A d \in Clients : present'[d] => data'[d].status = "active"
    BY <1>2, <1>9 DEF IInv, QueryInv
  <2>5. status = "active" => r.status = "active" /\ UNCHANGED link
    BY <1>1, <1>3 DEF IInv, QueryInv
  <2>6. status = "active" => \A d \in Clients :
            /\ link'[d] # "off" => data'[d].status = "active"
            /\ reply'[d].status \notin {"completed", "expired"}
    BY <1>2, <2>1, <2>5 DEF IInv, QueryInv
  <2> QED BY <2>2, <2>3, <2>4, <2>6 DEF QueryInv
<1>11. \A d \in Clients : present'[d] /\ status # "active" =>
            /\ present[d] /\ era'[d] = era[d]
            /\ gen = 0 => /\ screen'[d].status = screen[d].status
                          /\ screen'[d].winner = screen[d].winner
  BY <1>9
<1>12. UNCHANGED <<database, task>>
  BY <1>2
<1> QED BY <1>5, <1>6, <1>7, <1>8, <1>10, <1>11, <1>12, PageMoves

LEMMA AcceptedNext == ASSUME IInv, NEW c \in Clients, SocketAccepted(c) PROVE IInv'
<1>1. /\ UNCHANGED <<database, task, era, snap, data, reply, screen>>
      /\ link[c] = "connecting" /\ ~present[c] /\ Socket(c) \in Sockets
      /\ link' \in [Clients -> {"off", "unused", "connecting", "accepted", "read", "open"}]
      /\ present' \in [Clients -> BOOLEAN]
      /\ \A d \in Clients : /\ link'[d] = IF d = c THEN "accepted" ELSE link[d]
                            /\ present'[d] = IF d = c THEN status = "active" ELSE present[d]
  BY DEF SocketAccepted, IInv, TypeOK, PresentInv, Linked, Socket, Sockets, query
<1>2. /\ conns' \in Seq(Sockets) /\ Len(conns) \in Nat /\ Len(conns') = Len(conns) + 1
      /\ conns'[Len(conns) + 1] = Socket(c) /\ \A i \in 1 .. Len(conns) : conns'[i] = conns[i]
      /\ \A d \in Clients : Among(Socket(d), conns') <=> Among(Socket(d), conns) \/ d = c
  <2>1. /\ conns' = Append(conns, Socket(c)) /\ conns \in Seq(Sockets)
        /\ \A d \in Clients : Socket(d) = Socket(c) => d = c
    BY DEF SocketAccepted, IInv, TypeOK, Socket
  <2> QED BY <1>1, <2>1, AppendProperties, LenProperties, AmongAppend
<1>3. TypeOK'
  BY <1>1, <1>2 DEF IInv, TypeOK, database
<1>4. NoPhantoms' /\ ScreenInv'
  BY <1>1 DEF IInv, NoPhantoms, ScreenInv, database
<1>5. PresentInv' /\ QueryInv'
  BY <1>1, <1>2 DEF IInv, PresentInv, QueryInv, Socket, Linked, database
<1>6. RegisteredInv'
  <2>1. \A i \in 1 .. Len(conns) : conns[i] # Socket(c)
    BY <1>1 DEF IInv, RegisteredInv, Among
  <2>2. \A i, j \in 1 .. Len(conns') : conns'[i] = conns'[j] => i = j
    BY <1>2, <2>1 DEF IInv, RegisteredInv
  <2>3. \A i \in 1 .. Len(conns') : conns'[i][2] <= era[conns'[i][1]]
    BY <1>2 DEF IInv, RegisteredInv, TypeOK, Socket
  <2>4. \A d \in Clients : link'[d] \in {"off", "connecting"} => ~Among(Socket(d), conns')
    BY <1>1, <1>2 DEF IInv, RegisteredInv
  <2> QED BY <1>1, <2>2, <2>3, <2>4 DEF RegisteredInv, Socket
<1>7. \A d \in Clients : Honest(snap'[d]) /\ snap'[d].type = "snapshot"
  BY <1>1 DEF IInv, MessageInv
<1> QED BY <1>1, <1>3, <1>4, <1>5, <1>6, <1>7, PageMoves

LEMMA ReadNext == ASSUME IInv, NEW c \in Clients, SnapshotRead(c) PROVE IInv'
<1> DEFINE m == Msg("snapshot", gen, votes, NoMovie)
<1>1. m \in Message /\ Honest(m) /\ m.type = "snapshot"
  BY MsgType DEF IInv, TypeOK, Honest
<1> HIDE DEF m
<1>2. /\ UNCHANGED <<database, task, conns, era, data, reply, screen, present>>
      /\ link[c] = "accepted" /\ snap' \in [Clients -> Message]
      /\ link' \in [Clients -> {"off", "unused", "connecting", "accepted", "read", "open"}]
      /\ \A d \in Clients : /\ link'[d] = IF d = c THEN "read" ELSE link[d]
                            /\ snap'[d] = IF d = c THEN m ELSE snap[d]
  BY <1>1 DEF SnapshotRead, IInv, TypeOK, query, m
<1>3. TypeOK'
  BY <1>2 DEF IInv, TypeOK, database
<1>4. NoPhantoms' /\ ScreenInv' /\ PresentInv' /\ QueryInv' /\ RegisteredInv'
  BY <1>2 DEF IInv, NoPhantoms, ScreenInv, PresentInv, QueryInv, RegisteredInv, Socket, Linked,
              database
<1>5. \A d \in Clients : Honest(snap'[d]) /\ snap'[d].type = "snapshot"
  BY <1>1, <1>2 DEF IInv, MessageInv
<1> QED BY <1>2, <1>3, <1>4, <1>5, PageMoves

LEMMA SentNext == ASSUME IInv, NEW c \in Clients, SnapshotSent(c) PROVE IInv'
<1> DEFINE m == snap[c]
<1> DEFINE scr == Shown(screen[c], m)
<1>1. m \in Message /\ Honest(m) /\ m.type = "snapshot" /\ screen[c] \in Screen
  BY DEF IInv, TypeOK, MessageInv
<1>2. /\ scr \in Screen /\ scr.winner = screen[c].winner /\ scr.status = screen[c].status
      /\ scr.gen = m.gen /\ scr.tally = m.tally
  BY <1>1, ShownFields
<1>3. NoSnapshot \in Message /\ Honest(NoSnapshot) /\ NoSnapshot.type = "snapshot"
  BY MsgType, GenZero DEF NoSnapshot, Honest
<1>4. screen' = [screen EXCEPT ![c] = scr]
  BY DEF SnapshotSent
<1> HIDE DEF m, scr
<1>5. /\ UNCHANGED <<database, task, conns, era, data, reply, present>>
      /\ link[c] = "read" /\ snap' \in [Clients -> Message] /\ screen' \in [Clients -> Screen]
      /\ link' \in [Clients -> {"off", "unused", "connecting", "accepted", "read", "open"}]
      /\ \A d \in Clients : /\ link'[d] = IF d = c THEN "open" ELSE link[d]
                            /\ snap'[d] = IF d = c THEN NoSnapshot ELSE snap[d]
                            /\ screen'[d] = IF d = c THEN scr ELSE screen[d]
  BY <1>2, <1>3, <1>4 DEF SnapshotSent, IInv, TypeOK, query
<1>6. TypeOK'
  BY <1>5 DEF IInv, TypeOK, database
<1>7. NoPhantoms' /\ ScreenInv'
  BY <1>1, <1>2, <1>5 DEF IInv, NoPhantoms, ScreenInv, Honest, database
<1>8. PresentInv' /\ QueryInv' /\ RegisteredInv'
  BY <1>5 DEF IInv, PresentInv, QueryInv, RegisteredInv, Socket, Linked, database
<1>9. \A d \in Clients : Honest(snap'[d]) /\ snap'[d].type = "snapshot"
  BY <1>3, <1>5 DEF IInv, MessageInv
<1> QED BY <1>2, <1>5, <1>6, <1>7, <1>8, <1>9, PageMoves

LEMMA DropNext == ASSUME IInv, NEW c \in Clients, Drop(c) PROVE IInv'
<1>1. /\ UNCHANGED <<database, task, conns, snap, data, screen>>
      /\ link' \in [Clients -> {"off", "unused", "connecting", "accepted", "read", "open"}]
      /\ era' \in [Clients -> 0 .. MaxDrops] /\ present' \in [Clients -> BOOLEAN]
      /\ reply' \in [Clients -> Response \cup {NoReply, Asked}]
      /\ \A d \in Clients : /\ link'[d] = IF d = c THEN "connecting" ELSE link[d]
                            /\ era'[d] = IF d = c THEN era[c] + 1 ELSE era[d]
                            /\ present'[d] = IF d = c THEN FALSE ELSE present[d]
                            /\ reply'[d] \in {reply[d], Asked}
      /\ link[c] = "open"
  <2>1. era[c] + 1 \in 0 .. MaxDrops
    BY ClientsAssumption DEF Drop, IInv, TypeOK
  <2>2. PICK r \in {reply[c], Asked} : reply' = [reply EXCEPT ![c] = r]
    BY DEF Drop
  <2>3. r \in Response \cup {NoReply, Asked}
    BY <2>2 DEF IInv, TypeOK
  <2> QED BY <2>1, <2>2, <2>3 DEF Drop, IInv, TypeOK
<1>2. TypeOK'
  BY <1>1 DEF IInv, TypeOK, database
<1>3. NoPhantoms' /\ ScreenInv'
  BY <1>1 DEF IInv, NoPhantoms, ScreenInv, database
<1>4. PresentInv' /\ QueryInv'
  <2>1. Asked.gen = 0 /\ Asked.status = "asked"
    BY DEF Asked
  <2>2. UNCHANGED <<status, gen>>
    BY <1>1 DEF database
  <2>3. \A d \in Clients : reply'[d].gen \in {reply[d].gen, 0}
                /\ reply'[d].status \in {reply[d].status, "asked"}
    BY <1>1, <2>1
  <2>4. QueryInv'
    BY <1>1, <2>2, <2>3 DEF IInv, QueryInv
  <2>5. PresentInv'
    BY <1>1 DEF IInv, PresentInv, Socket
  <2> QED BY <2>4, <2>5
<1>5. RegisteredInv'
  <2>1. \A i \in 1 .. Len(conns) : conns[i] \in Sockets
    BY ElementOfSeq DEF IInv, TypeOK
  <2>2. \A i \in 1 .. Len(conns) : conns[i][1] \in Clients /\ conns[i][2] \in Nat
    BY <2>1, ClientsAssumption DEF Sockets
  <2>3. \A d \in Clients : era[d] \in Nat
    BY ClientsAssumption DEF IInv, TypeOK
  <2>4. \A i \in 1 .. Len(conns) : conns[i][2] <= era'[conns[i][1]]
    <3>0. \A d \in Clients : era'[d] = IF d = c THEN era[c] + 1 ELSE era[d]
      BY <1>1
    <3>1. \A d \in Clients : era'[d] \in Nat /\ era[d] <= era'[d]
      BY <2>3, <3>0
    <3>2. \A i \in 1 .. Len(conns) : conns[i][2] <= era[conns[i][1]]
      BY DEF IInv, RegisteredInv
    <3> QED BY <2>2, <2>3, <3>1, <3>2
  <2>5. ASSUME NEW i \in 1 .. Len(conns) PROVE conns[i] # <<c, era[c] + 1>>
    <3>1. conns[i][2] <= era[conns[i][1]]
      BY DEF IInv, RegisteredInv
    <3>2. conns[i][1] = c => conns[i][2] # era[c] + 1
      BY <2>2, <2>3, <3>1
    <3> DEFINE new == <<c, era[c] + 1>>
    <3>3. new[1] = c /\ new[2] = era[c] + 1
      OBVIOUS
    <3> HIDE DEF new
    <3>4. conns[i] # new
      BY <3>2, <3>3
    <3> QED BY <3>4 DEF new
  <2>6. ~Among(<<c, era[c] + 1>>, conns)
    BY <2>5 DEF Among
  <2> QED BY <1>1, <2>4, <2>6 DEF IInv, RegisteredInv, Socket
<1>6. \A d \in Clients : Honest(snap'[d]) /\ snap'[d].type = "snapshot"
  BY <1>1 DEF IInv, MessageInv
<1> QED BY <1>1, <1>2, <1>3, <1>4, <1>5, <1>6, PageMoves

LEMMA ForgetsNext == ASSUME IInv, NEW s \in Sockets, ServerForgets(s) PROVE IInv'
<1>1. UNCHANGED <<database, task, link, era, snap, data, reply, screen, present>> /\ ~Reachable(s)
  BY DEF ServerForgets, query
<1>2. PICK i \in 1 .. Len(conns) :
        conns[i] = s /\ conns' = SubSeq(conns, 1, i - 1) \o SubSeq(conns, i + 1, Len(conns))
  BY DEF ServerForgets
<1>3. /\ conns' \in Seq(Sockets) /\ Len(conns) \in Nat /\ Len(conns') = Len(conns) - 1
      /\ \A j \in 1 .. Len(conns') : conns'[j] = IF j < i THEN conns[j] ELSE conns[j + 1]
  BY <1>2, Without, LenProperties DEF IInv, TypeOK
<1>4. ASSUME NEW x, Among(x, conns') PROVE Among(x, conns)
  BY <1>3, <1>4 DEF Among
<1>5. ASSUME NEW x, Among(x, conns), x # s PROVE Among(x, conns')
  <2>1. PICK j \in 1 .. Len(conns) : conns[j] = x
    BY <1>5 DEF Among
  <2>2. CASE j < i
    BY <1>3, <2>1, <2>2 DEF Among
  <2>3. CASE j > i
    <3>1. j - 1 \in 1 .. Len(conns') /\ conns'[j - 1] = x
      BY <1>3, <2>1, <2>3
    <3> QED BY <3>1 DEF Among
  <2> QED BY <1>2, <1>5, <2>1, <2>2, <2>3
<1>6. TypeOK'
  BY <1>1, <1>3 DEF IInv, TypeOK, database
<1>7. NoPhantoms' /\ ScreenInv' /\ QueryInv'
  BY <1>1 DEF IInv, NoPhantoms, ScreenInv, QueryInv, database
<1>8. PresentInv'
  <2>1. \A d \in Clients : present[d] => Socket(d) # s
    BY <1>1 DEF IInv, PresentInv, Reachable, Socket, Linked
  <2> QED BY <1>1, <1>5, <2>1 DEF IInv, PresentInv, Socket
<1>9. RegisteredInv'
  <2>1. ASSUME NEW j \in 1 .. Len(conns'), NEW k \in 1 .. Len(conns'), conns'[j] = conns'[k]
        PROVE  j = k
    <3> DEFINE old(n) == IF n < i THEN n ELSE n + 1
    <3>1. \A n \in 1 .. Len(conns') : old(n) \in 1 .. Len(conns) /\ conns'[n] = conns[old(n)]
      BY <1>3
    <3>2. old(j) = old(k) => j = k
      OBVIOUS
    <3> HIDE DEF old
    <3>3. conns[old(j)] = conns[old(k)]
      BY <2>1, <3>1
    <3> QED BY <3>1, <3>2, <3>3 DEF IInv, RegisteredInv
  <2>2. \A j \in 1 .. Len(conns') : conns'[j][2] <= era[conns'[j][1]]
    BY <1>3 DEF IInv, RegisteredInv
  <2>3. \A d \in Clients : link[d] \in {"off", "connecting"} => ~Among(Socket(d), conns')
    BY <1>4 DEF IInv, RegisteredInv
  <2> QED BY <1>1, <2>1, <2>2, <2>3 DEF RegisteredInv, Socket
<1>10. \A d \in Clients : Honest(snap'[d]) /\ snap'[d].type = "snapshot"
  BY <1>1 DEF IInv, MessageInv
<1> QED BY <1>1, <1>6, <1>7, <1>8, <1>9, <1>10, PageMoves

-----------------------------------------------------------------------------
(* The handlers and the timeout task.                                      *)

LEMMA TaskTypes ==
    ASSUME NEW q \in Task
    PROVE  /\ q.gen \in Gens /\ q.tally \in SUBSET Ballots /\ q.pick \in Movies \cup {NoMovie}
           /\ q.queue \in Seq(Message) /\ q.current \in Message /\ q.targets \in Seq(Sockets)
           /\ q.insert \in SUBSET Ballots /\ q.by \in Clients \cup {Clock}
BY DEF Task

LEMMA PcChanged ==
    ASSUME NEW q \in Task, NEW pc \in {"idle", "vote", "commit", "reroll", "cast", "armed", "done"}
    PROVE  LET n == [q EXCEPT !.pc = pc] IN
           /\ n \in Task /\ n.pc = pc /\ n.gen = q.gen /\ n.tally = q.tally /\ n.pick = q.pick
           /\ n.insert = q.insert
           /\ n.queue = q.queue /\ n.current = q.current /\ n.targets = q.targets
BY DEF Task

LEMMA QueueChanged ==
    ASSUME NEW q \in Task, NEW queue \in Seq(Message)
    PROVE  LET n == [q EXCEPT !.pc = "cast", !.queue = queue] IN
           /\ n \in Task /\ n.pc = "cast" /\ n.gen = q.gen /\ n.tally = q.tally
           /\ n.pick = q.pick /\ n.insert = q.insert
           /\ n.queue = queue /\ n.current = q.current /\ n.targets = q.targets
BY DEF Task

LEMMA RerollBegun ==
    ASSUME NEW c \in Clients
    PROVE  LET n == [Idle EXCEPT !.pc = "reroll", !.by = c] IN
           /\ n \in Task /\ n.pc = "reroll" /\ n.by = c /\ n.gen = 0 /\ n.insert = {}
           /\ n.queue = <<>> /\ n.current = Msg("expired", 0, {}, NoMovie)
BY IdleType DEF Idle, Task

LEMMA PickChanged ==
    ASSUME NEW q \in Task, NEW m \in Movies \cup {NoMovie}
    PROVE  LET n == [q EXCEPT !.pc = "commit", !.pick = m] IN
           /\ n \in Task /\ n.pc = "commit" /\ n.pick = m
           /\ n.queue = q.queue /\ n.current = q.current
BY DEF Task

LEMMA TargetsChanged ==
    ASSUME NEW q \in Task, NEW targets \in Seq(Sockets)
    PROVE  LET n == [q EXCEPT !.targets = targets] IN
           /\ n \in Task /\ n.pc = q.pc /\ n.gen = q.gen /\ n.tally = q.tally /\ n.pick = q.pick
           /\ n.insert = q.insert
           /\ n.queue = q.queue /\ n.current = q.current /\ n.targets = targets
BY DEF Task

(* The task t becomes q.                                                   *)
LEMMA TaskChanged ==
    ASSUME TypeOK, NEW t \in Tasks, NEW q \in Task, task' = [task EXCEPT ![t] = q]
    PROVE  /\ task' \in [Tasks -> Task] /\ task'[t] = q
           /\ \A u \in Tasks : u # t => task'[u] = task[u]
           /\ \A u \in Requests : u # t => task'[u] = task[u]
BY DEF TypeOK, Tasks

(* The messages of a task are honest.                                      *)
Sends(q) == Honest(q.current) /\ \A i \in 1 .. Len(q.queue) : Honest(q.queue[i])

LEMMA AllSend == IInv => \A t \in Tasks : Sends(task[t])
BY DEF IInv, MessageInv, Sends

(* What a vote on its way knows.                                           *)
Counts(q) ==
    /\ q.pc = "vote" => q.by \in Clients
    /\ gen = 0 =>
        /\ q.gen = 0
        /\ q.insert \subseteq Clients \X {0}
        /\ q.pc = "commit" => q.tally \subseteq votes \cup q.insert

LEMMA IdleCounts == Sends(Idle) /\ Counts(Idle)
BY IdleType, MsgType, GenZero DEF Sends, Counts, Honest

(* One handler moves, and nothing else.                                    *)
LEMMA HandlerMoves ==
    ASSUME IInv, UNCHANGED <<database, sockets, screen>>, NEW t \in Tasks, NEW q \in Task,
           task' = [task EXCEPT ![t] = q], Sends(q), t \in Requests => Counts(q),
           \A c \in Clients : \A types : present[c] /\ Owes(task[t], c, types) => Owes(q, c, types)
    PROVE  IInv'
<1>1. /\ task' \in [Tasks -> Task] /\ task'[t] = q
      /\ \A u \in Tasks : u # t => task'[u] = task[u]
      /\ \A u \in Requests : u # t => task'[u] = task[u]
  BY TaskChanged DEF IInv
<1>2. /\ UNCHANGED <<status, winner, gen, votes, decided, conns, link, era, snap>>
      /\ UNCHANGED <<data, reply, screen, present>>
  BY DEF database, sockets, query
<1>3. TypeOK'
  BY <1>1, <1>2 DEF IInv, TypeOK
<1>4. NoPhantoms' /\ ScreenInv' /\ StatusInv' /\ PresentInv' /\ QueryInv' /\ RegisteredInv'
  BY <1>2 DEF IInv, NoPhantoms, ScreenInv, StatusInv, PresentInv, QueryInv, RegisteredInv, Socket
<1>6. MessageInv'
  BY <1>1, <1>2 DEF IInv, MessageInv, Honest, Sends
<1>7. CountInv'
  BY <1>1, <1>2 DEF IInv, CountInv, Counts
<1>9. ASSUME NEW c \in Clients, present[c], NEW types, Due(c, types) PROVE Due(c, types)'
  <2>1. PICK u \in Tasks : Owes(task[u], c, types)
    BY <1>9 DEF Due
  <2>2. Owes(task'[u], c, types)
    BY <1>1, <1>9, <2>1
  <2>3. Owes(task[u], c, types)'
    BY <1>2, <2>2 DEF Owes, Socket
  <2> QED BY <2>3 DEF Due
<1>10. ClosedInv' /\ DecidedInv'
  BY <1>2, <1>9 DEF IInv, ClosedInv, DecidedInv
<1> QED BY <1>3, <1>4, <1>6, <1>7, <1>10 DEF IInv

LEMMA StartsNext == ASSUME IInv, NEW t \in Tasks, BroadcastStarts(t) PROVE IInv'
<1> DEFINE m == Head(task[t].queue)
<1> DEFINE queue == Tail(task[t].queue)
<1> DEFINE q == [task[t] EXCEPT !.current = m, !.queue = queue, !.targets = conns]
<1>1. /\ task[t] \in Task /\ task[t].pc = "cast" /\ task[t].queue # <<>>
      /\ task[t].targets = <<>> /\ task[t].queue \in Seq(Message) /\ conns \in Seq(Sockets)
  BY TaskTypes DEF BroadcastStarts, IInv, TypeOK
<1>2. /\ m \in Message /\ queue \in Seq(Message) /\ m = task[t].queue[1]
      /\ Len(task[t].queue) \in Nat \ {0} /\ Len(queue) = Len(task[t].queue) - 1
      /\ \A i \in 1 .. Len(queue) : queue[i] = task[t].queue[i + 1]
  BY <1>1, HeadTailProperties, AmongHead, EmptySeq
<1>3. task' = [task EXCEPT ![t] = q]
  BY DEF BroadcastStarts
<1>4. UNCHANGED <<database, sockets, screen>>
  BY DEF BroadcastStarts
<1> HIDE DEF m, queue
<1>5. /\ q \in Task /\ q.pc = "cast" /\ q.gen = task[t].gen /\ q.insert = task[t].insert
      /\ q.queue = queue /\ q.current = m /\ q.targets = conns
  <2>1. /\ task[t] \in Task /\ m \in Message
        /\ queue \in Seq(Message) /\ conns \in Seq(Sockets)
    BY <1>1, <1>2
  <2>2. /\ q \in Task /\ q.pc = task[t].pc /\ q.gen = task[t].gen /\ q.insert = task[t].insert
        /\ q.queue = queue /\ q.current = m /\ q.targets = conns
    BY <2>1 DEF Task
  <2> QED BY <1>1, <2>2
<1> HIDE DEF q
<1>6. Sends(q)
  <2>1. \A i \in 1 .. Len(queue) : i + 1 \in 1 .. Len(task[t].queue)
    BY <1>2
  <2>2. 1 \in 1 .. Len(task[t].queue)
    BY <1>2
  <2> QED BY <1>2, <1>5, <2>1, <2>2, AllSend DEF Sends
<1>7. t \in Requests => Counts(q)
  BY <1>1, <1>5 DEF IInv, CountInv, Counts
<1>8. ASSUME NEW c \in Clients, NEW types, present[c], Owes(task[t], c, types)
      PROVE  Owes(q, c, types)
  <2>1. Among(Socket(c), conns) /\ ~Among(Socket(c), <<>>)
    BY <1>8 DEF IInv, PresentInv, Among
  <2>2. PICK i \in 1 .. Len(task[t].queue) : task[t].queue[i].type \in types
    BY <1>1, <1>8, <2>1 DEF Owes
  <2>3. CASE i = 1
    BY <1>2, <1>5, <2>1, <2>2, <2>3 DEF Owes
  <2>4. CASE i # 1
    <3>1. i - 1 \in 1 .. Len(queue) /\ queue[i - 1] = task[t].queue[i]
      BY <1>2, <2>2, <2>4
    <3> QED BY <1>5, <2>2, <3>1 DEF Owes
  <2> QED BY <2>3, <2>4
<1> QED BY <1>1, <1>3, <1>4, <1>5, <1>6, <1>7, <1>8, HandlerMoves

LEMMA EndsNext == ASSUME IInv, NEW t \in Tasks, BroadcastEnds(t) PROVE IInv'
<1>1. PICK pc \in {"idle", "done"} : task' = [task EXCEPT ![t] = [Idle EXCEPT !.pc = pc]]
  BY DEF BroadcastEnds
<1> DEFINE q == [Idle EXCEPT !.pc = pc]
<1>2. /\ q \in Task /\ q.pc = pc /\ q.gen = 0 /\ q.queue = <<>> /\ q.insert = {}
      /\ q.current = Msg("expired", 0, {}, NoMovie)
  BY IdleType
<1>3. Sends(q)
  BY <1>2, MsgType, GenZero DEF Sends, Honest
<1>4. Counts(q)
  BY <1>2 DEF Counts
<1>5. \A c \in Clients : \A types : ~Owes(task[t], c, types)
  <2>1. task[t].queue = <<>> /\ task[t].targets = <<>>
    BY DEF BroadcastEnds
  <2> QED BY <2>1 DEF Owes, Among
<1> HIDE DEF q
<1>6. UNCHANGED <<database, sockets, screen>>
  BY DEF BroadcastEnds
<1>7. task' = [task EXCEPT ![t] = q]
  BY <1>1 DEF q
<1> QED BY <1>2, <1>3, <1>4, <1>5, <1>6, <1>7, HandlerMoves

LEMMA FailsNext == ASSUME IInv, NEW t \in Requests, VoteFails(t) \/ RerollFails(t) PROVE IInv'
<1>1. \A d \in Clients : \A types : ~Owes(task[t], d, types)
  BY DEF VoteFails, RerollFails, Owes
<1>2. /\ task' = [task EXCEPT ![t] = Idle] /\ t \in Tasks
      /\ UNCHANGED <<database, sockets, screen>>
  BY DEF VoteFails, RerollFails, Tasks
<1> QED BY <1>1, <1>2, IdleType, IdleCounts, HandlerMoves

(* A request begins.                                                       *)
LEMMA Begins ==
    ASSUME IInv, UNCHANGED <<database, sockets, screen>>, NEW t \in Requests, task[t].pc = "idle",
           NEW q \in Task, task' = [task EXCEPT ![t] = q],
           q.pc \in {"vote", "reroll"}, q.by \in Clients, gen = 0 => q.gen = 0, q.insert = {},
           q.queue = <<>>, q.current = Msg("expired", 0, {}, NoMovie)
    PROVE  IInv'
<1>1. t \in Tasks
  BY DEF Tasks
<1>2. Sends(q)
  BY MsgType, GenZero DEF Sends, Honest
<1>3. Counts(q)
  BY DEF Counts
<1>4. \A d \in Clients : \A types : ~Owes(task[t], d, types)
  BY DEF Owes
<1> QED BY <1>1, <1>2, <1>3, <1>4, HandlerMoves

LEMMA BeginVoteNext ==
    ASSUME IInv, NEW t \in Requests, NEW c \in Clients, BeginVote(t, c) PROVE IInv'
<1>1. screen[c].gen \in Gens /\ (gen = 0 => screen[c].gen = 0)
  BY DEF IInv, TypeOK, Screen, ScreenInv
<1> PICK g \in Gens : g = screen[c].gen
  BY <1>1
<1> DEFINE q == [Idle EXCEPT !.pc = "vote", !.by = c, !.gen = g]
<1>2. /\ task' = [task EXCEPT ![t] = q] /\ task[t].pc = "idle"
      /\ UNCHANGED <<database, sockets, screen>>
  BY DEF BeginVote
<1>3. /\ q \in Task /\ q.pc = "vote" /\ q.by = c /\ q.gen = g /\ q.insert = {}
      /\ q.queue = <<>> /\ q.current = Msg("expired", 0, {}, NoMovie)
  BY IdleType DEF Idle, Task
<1> HIDE DEF q
<1>4. gen = 0 => q.gen = 0
  BY <1>1, <1>3
<1> QED BY <1>2, <1>3, <1>4, Begins

LEMMA BeginRerollNext ==
    ASSUME IInv, NEW t \in Requests, NEW c \in Clients, BeginReroll(t, c) PROVE IInv'
<1> DEFINE q == [Idle EXCEPT !.pc = "reroll", !.by = c]
<1>1. /\ task' = [task EXCEPT ![t] = q] /\ task[t].pc = "idle"
      /\ UNCHANGED <<database, sockets, screen>>
  BY DEF BeginReroll
<1>2. /\ q \in Task /\ q.pc = "reroll" /\ q.by = c /\ q.gen = 0 /\ q.insert = {}
      /\ q.queue = <<>> /\ q.current = Msg("expired", 0, {}, NoMovie)
  BY RerollBegun
<1> HIDE DEF q
<1> QED BY <1>1, <1>2, Begins

LEMMA TallyNext == ASSUME IInv, NEW t \in Requests, VoteTally(t) PROVE IInv'
<1> DEFINE ballot == <<task[t].by, task[t].gen>>
<1> DEFINE tally == votes \cup {ballot}
<1> DEFINE insert == {ballot} \ votes
<1>1. /\ task[t] \in Task /\ task[t].pc = "vote" /\ task[t].gen \in Gens /\ votes \subseteq Ballots
      /\ UNCHANGED <<database, sockets, screen>> /\ t \in Tasks /\ task[t].by \in Clients
  BY TaskTypes DEF VoteTally, IInv, TypeOK, CountInv, Tasks
<1>2. PICK m \in Movies \cup {NoMovie} :
        task' = [task EXCEPT ![t].pc = "commit", ![t].tally = tally, ![t].pick = m,
                             ![t].insert = insert]
  BY DEF VoteTally
<1> DEFINE q == [task[t] EXCEPT !.pc = "commit", !.tally = tally, !.pick = m, !.insert = insert]
<1>3. task' = [task EXCEPT ![t] = q]
  BY <1>2
<1>4. tally \in SUBSET Ballots /\ insert \in SUBSET Ballots /\ tally \subseteq votes \cup insert
  BY <1>1 DEF Ballots
<1>5. gen = 0 => insert \subseteq Clients \X {0} /\ task[t].gen = 0
  BY <1>1 DEF IInv, CountInv
<1> HIDE DEF tally, insert
<1>6. /\ q \in Task /\ q.pc = "commit" /\ q.tally = tally /\ q.pick = m /\ q.gen = task[t].gen
      /\ q.insert = insert /\ q.queue = task[t].queue /\ q.current = task[t].current
  BY <1>1, <1>4 DEF Task
<1> HIDE DEF q
<1>7. Sends(q)
  BY <1>1, <1>6, AllSend DEF Sends
<1>8. Counts(q)
  BY <1>4, <1>5, <1>6 DEF Counts
<1>9. \A d \in Clients : \A types : ~Owes(task[t], d, types)
  BY <1>1 DEF Owes
<1> QED BY <1>1, <1>3, <1>6, <1>7, <1>8, <1>9, HandlerMoves

LEMMA TimerReadsNext == ASSUME IInv, TimerReads PROVE IInv'
<1>1. /\ Clock \in Tasks /\ task[Clock] \in Task /\ task[Clock].pc = "armed"
      /\ UNCHANGED <<database, sockets, screen>> /\ Clock \notin Requests
  BY ClientsAssumption DEF TimerReads, IInv, TypeOK, Tasks
<1>2. ASSUME NEW q \in Task, q.queue = task[Clock].queue, q.current = task[Clock].current,
             task' = [task EXCEPT ![Clock] = q]
      PROVE  IInv'
  <2>1. Sends(q)
    BY <1>1, <1>2, AllSend DEF Sends
  <2>2. \A d \in Clients : \A types : ~Owes(task[Clock], d, types)
    BY <1>1 DEF Owes
  <2> QED BY <1>1, <1>2, <2>1, <2>2, HandlerMoves
<1>3. CASE status = "active"
  <2>1. PICK m \in Movies \cup {NoMovie} :
            task' = [task EXCEPT ![Clock].pc = "commit", ![Clock].pick = m]
    BY <1>3 DEF TimerReads
  <2> DEFINE q == [task[Clock] EXCEPT !.pc = "commit", !.pick = m]
  <2>2. task' = [task EXCEPT ![Clock] = q]
    BY <2>1
  <2>3. /\ q \in Task /\ q.pc = "commit"
        /\ q.queue = task[Clock].queue /\ q.current = task[Clock].current
    BY <1>1, PickChanged
  <2> HIDE DEF q
  <2> QED BY <1>2, <2>2, <2>3
<1>4. CASE status # "active"
  <2> DEFINE q == [task[Clock] EXCEPT !.pc = "done"]
  <2>1. task' = [task EXCEPT ![Clock] = q]
    BY <1>4 DEF TimerReads
  <2>2. /\ q \in Task /\ q.pc = "done"
        /\ q.queue = task[Clock].queue /\ q.current = task[Clock].current
    BY <1>1, PcChanged
  <2> HIDE DEF q
  <2> QED BY <1>2, <2>1, <2>2
<1> QED BY <1>3, <1>4

(* One send: the page that is reached shows the message.                   *)
LEMMA SendNextInv == ASSUME IInv, NEW t \in Tasks, SendNext(t) PROVE IInv'
<1> DEFINE m == task[t].current
<1> DEFINE s == Head(task[t].targets)
<1> DEFINE targets == Tail(task[t].targets)
<1> DEFINE q == [task[t] EXCEPT !.targets = targets]
<1>1. /\ task[t] \in Task /\ task[t].pc = "cast" /\ task[t].targets # <<>>
      /\ task[t].targets \in Seq(Sockets) /\ m \in Message
  BY TaskTypes DEF SendNext, IInv, TypeOK
<1>2. s \in Sockets /\ targets \in Seq(Sockets)
  BY <1>1, HeadTailProperties
<1>3. \A x : Among(x, task[t].targets) => x = s \/ Among(x, targets)
  BY <1>1, AmongHead
<1>4. task' = [task EXCEPT ![t] = q] /\ UNCHANGED <<database, sockets>>
  BY DEF SendNext
<1>5. screen' = IF Reachable(s) THEN [screen EXCEPT ![s[1]] = Shown(screen[s[1]], m)] ELSE screen
  BY DEF SendNext
<1> DEFINE scr(c) == Shown(screen[c], m)
<1>6. /\ s[1] \in Clients
      /\ \A c \in Clients : screen'[c] = IF Reachable(s) /\ c = s[1] THEN scr(c) ELSE screen[c]
  BY <1>2, <1>5 DEF Sockets, IInv, TypeOK
<1>7. \A c \in Clients :
        /\ scr(c) \in Screen
        /\ scr(c).gen \in {m.gen, screen[c].gen} /\ scr(c).tally \in {m.tally, screen[c].tally}
        /\ scr(c).winner = IF m.type = "completed" THEN m.winner ELSE screen[c].winner
        /\ m.type # "started" => scr(c).status = IF m.type \in {"completed", "expired"}
                                                 THEN m.type ELSE screen[c].status
  BY <1>1, ShownFields DEF IInv, TypeOK
<1> HIDE DEF m, s, targets, scr
<1>8. /\ q \in Task /\ q.pc = "cast" /\ q.gen = task[t].gen /\ q.insert = task[t].insert
      /\ q.queue = task[t].queue /\ q.current = m /\ q.targets = targets
  BY <1>1, <1>2, TargetsChanged DEF m
<1> HIDE DEF q
<1>9. /\ task' \in [Tasks -> Task] /\ task'[t] = q
      /\ \A u \in Tasks : u # t => task'[u] = task[u]
      /\ \A u \in Requests : u # t => task'[u] = task[u]
  BY <1>4, <1>8, TaskChanged DEF IInv
<1>10. /\ UNCHANGED <<status, winner, gen, votes, decided, conns, link, era, snap>>
       /\ UNCHANGED <<data, reply, present>>
  BY <1>4 DEF database, sockets, query
<1>11. Honest(m) /\ Sends(q)
  BY <1>8, AllSend DEF Sends, m
<1>12. TypeOK'
  <2>1. screen' \in [Clients -> Screen]
    BY <1>5, <1>6, <1>7 DEF IInv, TypeOK, scr
  <2> QED BY <1>9, <1>10, <2>1 DEF IInv, TypeOK
<1>13. NoPhantoms' /\ ScreenInv'
  <2>1. ASSUME NEW c \in Clients
        PROVE  /\ screen'[c].winner \in decided \cup {NoMovie}
               /\ gen = 0 => screen'[c].tally \subseteq votes /\ screen'[c].gen = 0
    <3>1. CASE screen'[c] = screen[c]
      BY <3>1 DEF IInv, NoPhantoms, ScreenInv
    <3>2. CASE screen'[c] = scr(c)
      BY <1>7, <1>11, <3>2 DEF IInv, NoPhantoms, ScreenInv, Honest
    <3> QED BY <1>6, <3>1, <3>2
  <2> QED BY <1>10, <2>1 DEF NoPhantoms, ScreenInv
<1>14. StatusInv' /\ PresentInv' /\ QueryInv' /\ RegisteredInv'
  BY <1>10 DEF IInv, StatusInv, PresentInv, QueryInv, RegisteredInv, Socket
<1>15. MessageInv'
  BY <1>9, <1>10, <1>11 DEF IInv, MessageInv, Honest, Sends
<1>16. CountInv'
  <2>1. \A u \in Requests : /\ task'[u].gen = task[u].gen /\ task'[u].insert = task[u].insert
                            /\ task'[u].pc # "cast" => task'[u] = task[u]
    BY <1>8, <1>9
  <2> QED BY <1>10, <2>1 DEF IInv, CountInv
<1>17. ASSUME NEW c \in Clients, present[c], NEW types, Due(c, types)
       PROVE  Due(c, types)' \/ (m.type \in types /\ screen'[c] = scr(c))
  <2>1. PICK u \in Tasks : Owes(task[u], c, types)
    BY <1>17 DEF Due
  <2>2. ASSUME Owes(task'[u], c, types) PROVE Due(c, types)'
    <3>1. Owes(task[u], c, types)'
      BY <1>10, <2>2 DEF Owes, Socket
    <3> QED BY <3>1 DEF Due
  <2>3. CASE u # t
    BY <1>9, <2>1, <2>2, <2>3
  <2>4. CASE u = t
    <3>1. CASE Among(Socket(c), targets) \/ \E i \in 1 .. Len(task[t].queue) :
                                                  task[t].queue[i].type \in types
      BY <1>8, <1>9, <2>1, <2>2, <2>4, <3>1 DEF Owes, m
    <3>2. CASE m.type \in types /\ Socket(c) = s
      <4>1. s[1] = c /\ Reachable(s)
        BY <1>17, <3>2 DEF IInv, PresentInv, Linked, Reachable, Socket
      <4> QED BY <1>6, <3>2, <4>1
    <3> QED BY <1>3, <2>1, <2>4, <3>1, <3>2 DEF Owes, m
  <2> QED BY <2>3, <2>4
<1>18. ClosedInv'
  <2> SUFFICES ASSUME gen = 0, status # "active", NEW c \in Clients, present[c],
                      ~Due(c, {"completed", "expired"})'
               PROVE  screen'[c].status # "active"
    BY <1>10 DEF ClosedInv
  <2>1. m.type # "started"
    BY <1>11 DEF Honest
  <2>2. CASE screen[c].status # "active"
    BY <1>6, <1>7, <2>1, <2>2
  <2>3. CASE Due(c, {"completed", "expired"})
    BY <1>7, <1>17, <2>1, <2>3
  <2> QED BY <2>2, <2>3 DEF IInv, ClosedInv
<1>19. DecidedInv'
  <2> SUFFICES ASSUME gen = 0, status = "completed", NEW c \in Clients, present[c],
                      ~Due(c, {"completed"})'
               PROVE  screen'[c].winner # NoMovie
    BY <1>10 DEF DecidedInv
  <2>1. m.type = "completed" => m.winner # NoMovie
    BY <1>1, MessageFields, ClientsAssumption
  <2>2. CASE screen[c].winner # NoMovie
    BY <1>6, <1>7, <2>1, <2>2
  <2>3. CASE Due(c, {"completed"})
    BY <1>7, <1>17, <2>1, <2>3
  <2> QED BY <2>2, <2>3 DEF IInv, DecidedInv
<1> QED BY <1>12, <1>13, <1>14, <1>15, <1>16, <1>18, <1>19 DEF IInv

(* After a reroll little is promised.                                      *)
LEMMA AfterReroll ==
    ASSUME IInv, gen' # 0, TypeOK', UNCHANGED <<status, winner, decided, sockets>>,
           NEW t \in Tasks, NEW q \in Task, task' = [task EXCEPT ![t] = q], q.pc # "vote",
           q.current.winner \in decided \cup {NoMovie},
           \A i \in 1 .. Len(q.queue) : q.queue[i].winner \in decided \cup {NoMovie},
           \A c \in Clients : screen'[c].winner = screen[c].winner
    PROVE  IInv'
<1>1. task'[t] = q /\ \A u \in Tasks : u # t => task'[u] = task[u]
  BY TaskChanged DEF IInv
<1>2. UNCHANGED <<status, winner, decided, conns, link, era, snap, data, reply, present>>
  BY DEF sockets, query
<1>3. MessageInv'
  BY <1>1, <1>2 DEF IInv, MessageInv, Honest
<1>4. NoPhantoms' /\ CountInv' /\ ScreenInv' /\ ClosedInv' /\ DecidedInv'
  <2>1. CountInv'
    BY <1>1 DEF IInv, CountInv, Tasks
  <2> QED BY <1>2, <2>1 DEF IInv, NoPhantoms, ScreenInv, ClosedInv, DecidedInv
<1>5. StatusInv' /\ PresentInv' /\ QueryInv' /\ RegisteredInv'
  BY <1>2 DEF IInv, StatusInv, PresentInv, QueryInv, RegisteredInv, Socket
<1> QED BY <1>3, <1>4, <1>5 DEF IInv

LEMMA RerollNext == ASSUME IInv, NEW t \in Requests, RerollCommit(t) PROVE IInv'
<1> DEFINE m == Msg("started", gen + 1, {}, NoMovie)
<1> DEFINE q == [task[t] EXCEPT !.pc = "cast", !.queue = <<m>>]
<1>1. /\ task[t] \in Task /\ t \in Tasks /\ gen + 1 \in Gens /\ gen' = gen + 1 /\ gen' # 0
      /\ votes' = {} /\ UNCHANGED <<status, winner, decided, sockets, screen>>
  BY ClientsAssumption DEF RerollCommit, IInv, TypeOK, Tasks, Gens
<1>2. task' = [task EXCEPT ![t] = q]
  BY DEF RerollCommit
<1>3. m \in Message /\ m.winner = NoMovie
  BY <1>1, MsgType, GenZero
<1> HIDE DEF m
<1>4. <<m>> \in Seq(Message) /\ \A i \in 1 .. Len(<<m>>) : <<m>>[i] = m
  BY <1>3
<1>5. q \in Task /\ q.pc = "cast" /\ q.queue = <<m>> /\ q.current = task[t].current
  BY <1>1, <1>4, QueueChanged
<1> HIDE DEF q
<1>6. q.current.winner \in decided \cup {NoMovie}
  BY <1>1, <1>5 DEF IInv, MessageInv, Honest
<1>7. \A i \in 1 .. Len(q.queue) : q.queue[i].winner \in decided \cup {NoMovie}
  BY <1>3, <1>4, <1>5
<1>8. TypeOK'
  <2>1. task' \in [Tasks -> Task]
    BY <1>1, <1>2, <1>5, TaskChanged DEF IInv
  <2> QED BY <1>1, <2>1 DEF IInv, TypeOK, sockets, query
<1> QED BY <1>1, <1>2, <1>5, <1>6, <1>7, <1>8, AfterReroll

LEMMA AnsweredNext == ASSUME IInv, NEW t \in Tasks, RerollAnswered(t) PROVE IInv'
<1> DEFINE p == task[t].by
<1>1. /\ UNCHANGED <<database, sockets>> /\ task' = [task EXCEPT ![t] = Idle]
      /\ screen' = [screen EXCEPT ![p] = [screen[p] EXCEPT !.gen = gen, !.tally = {}]]
      /\ task[t].current.type = "started"
  BY DEF RerollAnswered
<1> HIDE DEF p
<1>2. gen # 0 /\ gen \in Gens /\ UNCHANGED <<status, winner, gen, votes, decided>>
  BY <1>1 DEF IInv, TypeOK, MessageInv, Honest, database
<1>3. /\ screen' \in [Clients -> Screen]
      /\ \A d \in Clients : screen'[d].winner = screen[d].winner
  <2>1. CASE p \in Clients
    <3> DEFINE n == [screen[p] EXCEPT !.gen = gen, !.tally = {}]
    <3>1. n \in Screen /\ n.winner = screen[p].winner
      <4>1. screen[p] \in Screen /\ gen \in Gens /\ {} \in SUBSET Ballots
        BY <1>2, <2>1, GenZero DEF IInv, TypeOK
      <4> QED BY <4>1 DEF Screen
    <3>2. screen' = [screen EXCEPT ![p] = n]
      BY <1>1
    <3> HIDE DEF n
    <3> QED BY <2>1, <3>1, <3>2 DEF IInv, TypeOK
  <2>2. CASE p \notin Clients
    BY <1>1, <2>2 DEF IInv, TypeOK
  <2> QED BY <2>1, <2>2
<1>4. TypeOK'
  <2>1. task' \in [Tasks -> Task]
    BY <1>1, IdleType, TaskChanged DEF IInv
  <2> QED BY <1>1, <1>2, <1>3, <2>1 DEF IInv, TypeOK, sockets, query
<1>5. Idle.current.winner = NoMovie /\ \A i \in 1 .. Len(Idle.queue) : FALSE
  BY IdleType, MsgType, GenZero
<1> QED BY <1>1, <1>2, <1>3, <1>4, <1>5, IdleType, AfterReroll

(* A commit, and the messages about it that are queued.                    *)
LEMMA Commits ==
    ASSUME IInv, NEW t \in Tasks, NEW q \in Task, task' = [task EXCEPT ![t] = q],
           task[t].pc = "commit", q.pc = "cast", t \in Requests => q.gen = 0 /\ q.insert = {},
           UNCHANGED <<gen, sockets, screen>>, decided \subseteq decided', decided' \subseteq Movies,
           votes' \subseteq Ballots, votes \subseteq votes',
           gen = 0 => votes' \subseteq Clients \X {0},
           winner' \in Movies \cup {NoMovie},
           status' \in {"active", "completed", "expired"}, StatusInv',
           status' = "active" => status = "active",
           status' = "active" \/ status' = status
               \/ \E i \in 1 .. Len(q.queue) : q.queue[i].type \in {"completed", "expired"},
           status' # "completed" \/ status' = status
               \/ \E i \in 1 .. Len(q.queue) : q.queue[i].type = "completed",
           Honest(q.current)', (\A i \in 1 .. Len(q.queue) : Honest(q.queue[i]))'
    PROVE  IInv'
<1>1. /\ task' \in [Tasks -> Task] /\ task'[t] = q
      /\ \A u \in Tasks : u # t => task'[u] = task[u]
      /\ \A u \in Requests : u # t => task'[u] = task[u]
  BY TaskChanged DEF IInv
<1>2. UNCHANGED <<gen, conns, link, era, snap, data, reply, present, screen>>
  BY DEF sockets, query
<1>3. TypeOK'
  BY <1>1, <1>2 DEF IInv, TypeOK
<1>4. NoPhantoms' /\ ScreenInv' /\ PresentInv' /\ QueryInv' /\ RegisteredInv'
  BY <1>2 DEF IInv, NoPhantoms, ScreenInv, PresentInv, QueryInv, RegisteredInv, Socket
<1>6. MessageInv'
  <2>1. (\A u \in Tasks : Honest(task[u].current))'
    <3> SUFFICES ASSUME NEW u \in Tasks PROVE Honest(task[u].current)'
      OBVIOUS
    <3>1. CASE u = t
      BY <1>1, <3>1
    <3>2. CASE u # t
      BY <1>1, <1>2, <3>2 DEF IInv, MessageInv, Honest
    <3> QED BY <3>1, <3>2
  <2>2. (\A u \in Tasks : \A i \in 1 .. Len(task[u].queue) : Honest(task[u].queue[i]))'
    <3> SUFFICES ASSUME NEW u \in Tasks
                 PROVE  (\A i \in 1 .. Len(task[u].queue) : Honest(task[u].queue[i]))'
      OBVIOUS
    <3>1. CASE u = t
      BY <1>1, <3>1
    <3>2. CASE u # t
      BY <1>1, <1>2, <3>2 DEF IInv, MessageInv, Honest
    <3> QED BY <3>1, <3>2
  <2>3. (\A c \in Clients : Honest(snap[c]) /\ snap[c].type = "snapshot")'
    BY <1>2 DEF IInv, MessageInv, Honest
  <2> QED BY <2>1, <2>2, <2>3 DEF MessageInv
<1>7. CountInv'
  BY <1>1, <1>2 DEF IInv, CountInv
<1>8. ClosedInv'
  <2> SUFFICES ASSUME gen = 0, status' # "active", NEW c \in Clients, present[c],
                      screen[c].status = "active"
               PROVE  Due(c, {"completed", "expired"})'
    BY <1>2 DEF ClosedInv
  <2>1. CASE \E i \in 1 .. Len(q.queue) : q.queue[i].type \in {"completed", "expired"}
    <3>1. Owes(task[t], c, {"completed", "expired"})'
      BY <1>1, <2>1 DEF Owes
    <3> QED BY <3>1 DEF Due
  <2>2. CASE status # "active"
    <3>1. PICK u \in Tasks : Owes(task[u], c, {"completed", "expired"})
      BY <2>2 DEF IInv, ClosedInv, Due
    <3>2. u # t
      BY <3>1 DEF Owes
    <3>3. Owes(task[u], c, {"completed", "expired"})'
      BY <1>1, <1>2, <3>1, <3>2 DEF Owes, Socket
    <3> QED BY <3>3 DEF Due
  <2> QED BY <2>1, <2>2
<1>9. DecidedInv'
  <2> SUFFICES ASSUME gen = 0, status' = "completed", NEW c \in Clients, present[c],
                      screen[c].winner = NoMovie
               PROVE  Due(c, {"completed"})'
    BY <1>2 DEF DecidedInv
  <2>1. CASE \E i \in 1 .. Len(q.queue) : q.queue[i].type = "completed"
    <3>1. Owes(task[t], c, {"completed"})'
      BY <1>1, <2>1 DEF Owes
    <3> QED BY <3>1 DEF Due
  <2>2. CASE status = "completed"
    <3>1. PICK u \in Tasks : Owes(task[u], c, {"completed"})
      BY <2>2 DEF IInv, DecidedInv, Due
    <3>2. u # t
      BY <3>1 DEF Owes
    <3>3. Owes(task[u], c, {"completed"})'
      BY <1>1, <1>2, <3>1, <3>2 DEF Owes, Socket
    <3> QED BY <3>3 DEF Due
  <2> QED BY <2>1, <2>2
<1> QED BY <1>3, <1>4, <1>6, <1>7, <1>8, <1>9 DEF IInv

(* The messages about a decision.                                          *)
LEMMA Announcement ==
    ASSUME NEW m \in Movies \cup {NoMovie}, NEW b \in SUBSET Ballots
    PROVE  LET s == <<Msg("vote", 0, b, NoMovie)>> \o Completed(m) IN
           /\ s \in Seq(Message)
           /\ \A i \in 1 .. Len(s) :
                \/ s[i] = Msg("vote", 0, b, NoMovie)
                \/ m # NoMovie /\ s[i] = Msg("completed", 0, {}, m)
           /\ m # NoMovie => \E i \in 1 .. Len(s) : s[i] = Msg("completed", 0, {}, m)
<1> DEFINE v == Msg("vote", 0, b, NoMovie)
<1> DEFINE e == Msg("completed", 0, {}, m)
<1>1. v \in Message /\ (m # NoMovie => e \in Message)
  BY MsgType, GenZero
<1>2. CASE m = NoMovie
  <2>1. Completed(m) = <<>>
    BY <1>2 DEF Completed
  <2> HIDE DEF v
  <2>2. <<v>> \o <<>> = <<v>> /\ <<v>> \in Seq(Message) /\ \A i \in 1 .. Len(<<v>>) : <<v>>[i] = v
    BY <1>1
  <2>3. /\ <<v>> \o Completed(m) \in Seq(Message)
        /\ \A i \in 1 .. Len(<<v>> \o Completed(m)) : (<<v>> \o Completed(m))[i] = v
    BY <2>1, <2>2
  <2> QED BY <1>2, <2>3 DEF v
<1>3. CASE m # NoMovie
  <2>1. Completed(m) = <<e>>
    BY <1>3 DEF Completed
  <2> HIDE DEF v, e
  <2> DEFINE w == <<v>> \o <<e>>
  <2>2. /\ <<v>> \in Seq(Message) /\ Len(<<v>>) = 1 /\ <<v>>[1] = v
        /\ <<e>> \in Seq(Message) /\ Len(<<e>>) = 1 /\ <<e>>[1] = e
    BY <1>1, <1>3
  <2>3. /\ w \in Seq(Message) /\ Len(w) = Len(<<v>>) + Len(<<e>>)
        /\ \A i \in 1 .. Len(<<v>>) + Len(<<e>>) :
                w[i] = IF i <= Len(<<v>>) THEN <<v>>[i] ELSE <<e>>[i - Len(<<v>>)]
    BY <2>2, ConcatProperties
  <2> HIDE DEF w
  <2>4. Len(w) = 2 /\ w[1] = v /\ w[2] = e
    BY <2>2, <2>3
  <2>5. (\A i \in 1 .. Len(w) : w[i] = v \/ w[i] = e) /\ (\E i \in 1 .. Len(w) : w[i] = e)
    <3>1. 2 \in 1 .. Len(w) /\ \A i \in 1 .. Len(w) : i = 1 \/ i = 2
      BY <2>4
    <3> QED BY <2>4, <3>1
  <2> QED BY <1>3, <2>1, <2>3, <2>5 DEF v, e, w
<1> QED BY <1>2, <1>3

LEMMA CommitNext == ASSUME IInv, NEW t \in Requests, VoteCommit(t) PROVE IInv'
<1>1. /\ task[t] \in Task /\ t \in Tasks /\ task[t].pc = "commit"
      /\ task[t].insert \in SUBSET Ballots
  BY TaskTypes DEF VoteCommit, IInv, TypeOK, Tasks
<1> PICK m \in Movies \cup {NoMovie}, b \in SUBSET Ballots :
        m = task[t].pick /\ b = task[t].tally
  BY <1>1, TaskTypes
<1>2. /\ votes' = votes \cup task[t].insert /\ UNCHANGED <<gen, sockets, screen>>
      /\ m # NoMovie => status' = "completed" /\ winner' = m /\ decided' = decided \cup {m}
      /\ m = NoMovie => UNCHANGED <<status, winner, decided>>
  BY DEF VoteCommit
<1>3. PICK queue \in Seq(Message) : queue = <<Msg("vote", 0, b, NoMovie)>> \o Completed(m)
  BY Announcement
<1>4. /\ \A i \in 1 .. Len(queue) : \/ queue[i] = Msg("vote", 0, b, NoMovie)
                                    \/ m # NoMovie /\ queue[i] = Msg("completed", 0, {}, m)
      /\ m # NoMovie => \E i \in 1 .. Len(queue) : queue[i] = Msg("completed", 0, {}, m)
  BY <1>3, Announcement
<1>5. PICK q \in Task :
        /\ task' = [task EXCEPT ![t] = q] /\ q.pc = "cast" /\ q.gen = 0 /\ q.insert = {}
        /\ q.queue = queue /\ q.current = Msg("expired", 0, {}, NoMovie)
  <2> DEFINE n == [Idle EXCEPT !.pc = "cast", !.queue = queue]
  <2>0. Idle \in Task
    BY IdleType
  <2>1. /\ n \in Task /\ n.pc = "cast" /\ n.gen = Idle.gen /\ n.insert = Idle.insert
        /\ n.queue = queue /\ n.current = Idle.current
    BY <2>0, QueueChanged, ZenonT(40)
  <2>2. task' = [task EXCEPT ![t] = n]
    BY <1>3 DEF VoteCommit
  <2> HIDE DEF n
  <2> QED BY <2>1, <2>2, IdleType
<1>6. /\ Msg("vote", 0, b, NoMovie).type = "vote" /\ Msg("vote", 0, b, NoMovie).gen = 0
      /\ Msg("vote", 0, b, NoMovie).tally = b /\ Msg("vote", 0, b, NoMovie).winner = NoMovie
      /\ Msg("completed", 0, {}, m).type = "completed" /\ Msg("completed", 0, {}, m).gen = 0
      /\ Msg("completed", 0, {}, m).tally = {} /\ Msg("completed", 0, {}, m).winner = m
  BY DEF Msg
<1>7. gen = 0 => b \subseteq votes' /\ votes' \subseteq Clients \X {0}
  BY <1>1, <1>2 DEF IInv, CountInv
<1>8. votes' \subseteq Ballots /\ votes \subseteq votes'
  BY <1>1, <1>2 DEF IInv, TypeOK
<1>9. m # NoMovie => m \in decided'
  BY <1>2
<1>10. Honest(q.current)' /\ (\A i \in 1 .. Len(q.queue) : Honest(q.queue[i]))'
  <2>1. Honest(q.current)'
    BY <1>5, MsgType, GenZero DEF Honest
  <2>2. (\A i \in 1 .. Len(q.queue) : Honest(q.queue[i]))'
    BY <1>2, <1>4, <1>5, <1>6, <1>7, <1>9 DEF Honest
  <2> QED BY <2>1, <2>2
<1>11. /\ winner' \in Movies \cup {NoMovie}
       /\ decided \subseteq decided' /\ decided' \subseteq Movies
       /\ status' \in {"active", "completed", "expired"}
       /\ status' = "active" => status = "active"
       /\ status' = status \/ \E i \in 1 .. Len(q.queue) : q.queue[i].type = "completed"
  BY <1>1, <1>2, <1>4, <1>5, <1>6 DEF IInv, TypeOK
<1>12. StatusInv'
  BY <1>2 DEF IInv, StatusInv
<1>13. status' = status \/ \E i \in 1 .. Len(q.queue) :
                                q.queue[i].type \in {"completed", "expired"}
  BY <1>11
<1> QED BY <1>1, <1>2, <1>5, <1>7, <1>8, <1>10, <1>11, <1>12, <1>13, Commits

LEMMA TimerNext == ASSUME IInv, TimerCommits PROVE IInv'
<1>1. /\ task[Clock] \in Task /\ Clock \in Tasks /\ task[Clock].pc = "commit"
      /\ UNCHANGED <<gen, votes, sockets, screen>> /\ Clock \notin Requests
  BY ClientsAssumption DEF TimerCommits, IInv, TypeOK, Tasks
<1> PICK m \in Movies \cup {NoMovie} : m = task[Clock].pick
  BY <1>1, TaskTypes
<1>2. PICK e \in Message :
        /\ task' = [task EXCEPT ![Clock].pc = "cast", ![Clock].queue = <<e>>]
        /\ e.tally = {} /\ e.gen = 0
        /\ \/ /\ status' = "completed" /\ winner' = m /\ m # NoMovie
              /\ decided' = decided \cup {m}
              /\ e.type = "completed" /\ e.winner = m
           \/ /\ status' = "expired" /\ UNCHANGED <<winner, decided>>
              /\ e.type = "expired" /\ e.winner = NoMovie
  <2>1. CASE m = NoMovie
    <3>1. Msg("expired", 0, {}, NoMovie) \in Message
      BY MsgType, GenZero
    <3> QED BY <2>1, <3>1, MsgType, GenZero DEF TimerCommits
  <2>2. CASE m # NoMovie
    <3> DEFINE w == Msg("completed", 0, {}, m)
    <3>1. /\ w \in Message /\ w.type = "completed" /\ w.gen = 0 /\ w.tally = {}
          /\ w.winner = m
      BY <2>2, MsgType, GenZero
    <3>2. /\ task' = [task EXCEPT ![Clock].pc = "cast", ![Clock].queue = <<w>>]
          /\ status' = "completed" /\ winner' = m /\ decided' = decided \cup {m}
      BY <2>2 DEF TimerCommits, Completed
    <3> HIDE DEF w
    <3> QED BY <2>2, <3>1, <3>2
  <2> QED BY <2>1, <2>2
<1>3. <<e>> \in Seq(Message) /\ Len(<<e>>) = 1 /\ \A i \in 1 .. Len(<<e>>) : <<e>>[i] = e
  OBVIOUS
<1>4. PICK q \in Task :
        /\ task' = [task EXCEPT ![Clock] = q] /\ q.pc = "cast" /\ q.gen = task[Clock].gen
        /\ q.queue = <<e>> /\ q.current = task[Clock].current
  <2> DEFINE n == [task[Clock] EXCEPT !.pc = "cast", !.queue = <<e>>]
  <2>1. /\ n \in Task /\ n.pc = "cast" /\ n.gen = task[Clock].gen
        /\ n.queue = <<e>> /\ n.current = task[Clock].current
    BY <1>1, <1>3, QueueChanged, ZenonT(40)
  <2>2. task' = [task EXCEPT ![Clock] = n]
    BY <1>2
  <2> HIDE DEF n
  <2> QED BY <2>1, <2>2
<1>5. Honest(q.current)' /\ (\A i \in 1 .. Len(q.queue) : Honest(q.queue[i]))'
  <2>1. Honest(task[Clock].current)
    BY <1>1 DEF IInv, MessageInv
  <2>2. decided \subseteq decided'
    BY <1>2
  <2>3. Honest(q.current)'
    BY <1>1, <1>4, <2>1, <2>2 DEF Honest
  <2>4. (\A i \in 1 .. Len(q.queue) : Honest(q.queue[i]))'
    BY <1>1, <1>2, <1>3, <1>4 DEF Honest
  <2> QED BY <2>3, <2>4
<1>6. /\ \E i \in 1 .. Len(q.queue) : q.queue[i].type \in {"completed", "expired"}
      /\ status' = "completed" => \E i \in 1 .. Len(q.queue) : q.queue[i].type = "completed"
  BY <1>2, <1>3, <1>4
<1>9. /\ winner' \in Movies \cup {NoMovie} /\ status' \in {"completed", "expired"}
      /\ decided \subseteq decided' /\ decided' \subseteq Movies
  BY <1>1, <1>2 DEF IInv, TypeOK
<1>10. StatusInv'
  BY <1>2 DEF IInv, StatusInv
<1>11. /\ votes' \subseteq Ballots /\ votes \subseteq votes'
       /\ gen = 0 => votes' \subseteq Clients \X {0}
  BY <1>1 DEF IInv, TypeOK, CountInv
<1> QED BY <1>1, <1>4, <1>5, <1>6, <1>9, <1>10, <1>11, Commits

-----------------------------------------------------------------------------
LEMMA StutterNext == IInv /\ UNCHANGED vars => IInv'
<1> SUFFICES ASSUME IInv, UNCHANGED vars PROVE IInv'
  OBVIOUS
<1>1. UNCHANGED <<database, task>> /\ UNCHANGED <<conns, link, era, snap, data, reply, screen, present>>
  BY DEF vars, database
<1>2. TypeOK'
  BY <1>1 DEF IInv, TypeOK, database
<1>3. NoPhantoms' /\ ScreenInv' /\ PresentInv' /\ QueryInv' /\ RegisteredInv'
  BY <1>1 DEF IInv, NoPhantoms, ScreenInv, PresentInv, QueryInv, RegisteredInv, Socket, database
<1>4. \A c \in Clients : Honest(snap'[c]) /\ snap'[c].type = "snapshot"
  BY <1>1 DEF IInv, MessageInv
<1> QED BY <1>1, <1>2, <1>3, <1>4, PageMoves

LEMMA CastNext == ASSUME IInv, NEW t \in Tasks, Cast(t) PROVE IInv'
BY StartsNext, SendNextInv, EndsNext, AnsweredNext DEF Cast, Answered

LEMMA NextInv == IInv /\ [Next]_vars => IInv'
<1> SUFFICES ASSUME IInv, Next PROVE IInv'
  BY StutterNext
<1>1. ASSUME NEW c \in Clients,
             LoadPage(c) \/ QueryAnswered(c) \/ PageRefreshed(c) \/ Connect(c) \/ Drop(c)
      PROVE  IInv'
  <2>1. CASE LoadPage(c) \/ QueryAnswered(c) \/ PageRefreshed(c) \/ Drop(c)
    BY <2>1, LoadNext, AnswerNext, RefreshNext, DropNext
  <2>2. CASE Connect(c)
    BY <2>2, AcceptedNext, ReadNext, SentNext DEF Connect
  <2> QED BY <1>1, <2>1, <2>2
<1>2. ASSUME NEW t \in Requests, NEW c \in Clients, BeginVote(t, c) \/ BeginReroll(t, c)
      PROVE  IInv'
  BY <1>2, BeginVoteNext, BeginRerollNext
<1>3. ASSUME NEW t \in Requests, Handler(t) PROVE IInv'
  <2>1. t \in Tasks
    BY DEF Tasks
  <2> QED BY <1>3, <2>1, TallyNext, CommitNext, FailsNext, RerollNext, CastNext DEF Handler
<1>4. CASE Timer
  <2>1. Clock \in Tasks
    BY DEF Tasks
  <2> QED BY <1>4, <2>1, TimerReadsNext, TimerNext, CastNext DEF Timer
<1> QED BY <1>1, <1>2, <1>3, <1>4, ForgetsNext DEF Next

(* What relates the sockets, the messages under way and the screens.       *)
THEOREM Invariant == Spec => []IInv
BY InitInv, NextInv, PTL DEF Spec

THEOREM TypeCorrect == Spec => []TypeOK
<1>1. IInv => TypeOK
  BY DEF IInv
<1> QED BY <1>1, Invariant, PTL

(* No screen shows a winner that was never committed, nor, before a        *)
(* reroll, a vote that was not cast: for any number of members, lost       *)
(* connections, broadcasts under way at once, and whether or not the time  *)
(* runs out.                                                               *)
THEOREM ScreensAreHonest == Spec => []NoPhantoms
<1>1. IInv => NoPhantoms
  BY DEF IInv
<1> QED BY <1>1, Invariant, PTL

(* When the handlers have answered nothing is owed to a page.              *)
LEMMA QuietOwesNothing == ASSUME Quiet PROVE \A c \in Clients : \A types : ~Due(c, types)
BY DEF Quiet, Due, Owes

(* The end of a session reaches every page that was connected before it,   *)
(* whether a vote or the timeout ended it, and even if one overtook the    *)
(* other.                                                                  *)
THEOREM EndReachesPages == Spec => []ClosedScreens
<1>1. IInv => ClosedScreens
  BY QuietOwesNothing DEF IInv, ClosedInv, ClosedScreens
<1> QED BY <1>1, Invariant, PTL

(* Before a reroll, a page that was connected since before the end of a    *)
(* completed session shows a winner that was committed, however many       *)
(* requests and the timeout decide the session at once.                    *)
THEOREM WinnerReachesPages == Spec => []PresentSeeWinner
<1>1. IInv => PresentSeeWinner
  <2> SUFFICES ASSUME IInv, Quiet, status = "completed", gen = 0, NEW c \in Clients, present[c]
               PROVE  screen[c].winner \in decided
    BY DEF PresentSeeWinner
  <2>1. screen[c].winner # NoMovie
    BY QuietOwesNothing DEF IInv, DecidedInv
  <2> QED BY <2>1 DEF IInv, NoPhantoms
<1> QED BY <1>1, Invariant, PTL

(* manager.connect and disconnect keep one entry for a socket: a broadcast *)
(* sends a message to no socket twice.                                     *)
THEOREM RegisteredOnce ==
    Spec => [](\A i, j \in 1 .. Len(conns) : conns[i] = conns[j] => i = j)
<1>1. IInv => \A i, j \in 1 .. Len(conns) : conns[i] = conns[j] => i = j
  BY DEF IInv, RegisteredInv
<1> QED BY <1>1, Invariant, PTL

=============================================================================
