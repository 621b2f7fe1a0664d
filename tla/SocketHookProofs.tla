-------------------------- MODULE SocketHookProofs --------------------------
(* Theorems of SocketHook for every number of pages, sessions, sockets and *)
(* faults.                                                                 *)
EXTENDS SocketHook, TLAPS, FiniteSetTheorems

Busy == {"connecting", "open", "closing"}

(* A page that is followed has not closed its hook, and is the only one.   *)
PageInv ==
    /\ \A p \in Pages : Following(p) => ~closed[p]
    /\ \A p, q \in Pages : Following(p) /\ Following(q) => p = q

(* A hook has the socket of wsRef, or one timer, and never both.           *)
SocketInv ==
    /\ \A s \in Sockets : state[s] \in Busy => ws[owner[s]] = s /\ timers[owner[s]] = 0
    /\ \A p \in Pages : timers[p] \in {0, 1}
    /\ \A p \in Pages : phase[p] = "new" => SocketsOf(p) = {} /\ timers[p] = 0

(* heartbeatRef is the interval of a socket of the same hook.              *)
BeatInv ==
    /\ \A p \in Pages : beat[p] # NoSocket => owner[beat[p]] = p
    /\ HeartbeatRuns

(* A page that was left without a timer or a reroll has nothing that can   *)
(* still write, and one that is not open yet has nothing either.           *)
LeftInv ==
    \A p \in Pages :
        phase[p] = "left" /\ p \notin late =>
            /\ closed[p] /\ timers[p] = 0 /\ p \notin asked
            /\ \A s \in Sockets : owner[s] = p => ~Live(s)

AskInv == \A p \in asked : phase[p] # "new"

IInv ==
    /\ TypeOK /\ PageInv /\ SocketInv /\ BeatInv /\ LeftInv /\ AskInv
    /\ NotAbandoned /\ OwnSession

-----------------------------------------------------------------------------
LEMMA InitInv == Init => IInv
<1> SUFFICES ASSUME Init PROVE IInv
  OBVIOUS
<1> USE HookAssumption DEF Init
<1>1. TypeOK
  BY DEF TypeOK
<1>2. PageInv
  BY DEF PageInv, Following
<1>3. SocketInv
  BY DEF SocketInv, Busy, SocketsOf
<1>4. BeatInv
  BY DEF BeatInv, HeartbeatRuns
<1>5. LeftInv /\ AskInv
  BY DEF LeftInv, AskInv
<1>6. NotAbandoned /\ OwnSession
  BY DEF NotAbandoned, OwnSession, Following
<1> QED BY <1>1, <1>2, <1>3, <1>4, <1>5, <1>6 DEF IInv

(* What a new WebSocket changes, value by value.                           *)
LEMMA ConnectStep ==
    ASSUME TypeOK, NEW p \in Pages, NEW s \in Sockets, Connect(p, s)
    PROVE  /\ state' \in [Sockets -> {"unused", "connecting", "open", "closing", "closed"}]
           /\ owner' \in [Sockets -> Pages] /\ good' \in [Sockets -> BOOLEAN]
           /\ server' \in [Sockets -> {"none", "accepted", "joined", "ended"}]
           /\ ws' \in [Pages -> Sockets \cup {NoSocket}]
           /\ beat' \in [Pages -> Sockets \cup {NoSocket}] /\ beating' \subseteq Sockets
           /\ state[s] \in {"unused", "closed"} /\ (state[s] = "closed" => server[s] = "ended")
           /\ state'[s] = "connecting" /\ owner'[s] = p /\ server'[s] = "none"
           /\ \A t \in Sockets \ {s} :
                state'[t] = state[t] /\ owner'[t] = owner[t] /\ server'[t] = server[t]
           /\ ws'[p] = s /\ \A q \in Pages \ {p} : ws'[q] = ws[q]
           /\ \A q \in Pages : beat'[q] = IF beat[q] = s THEN NoSocket ELSE beat[q]
           /\ beating' = beating \ {s}
BY DEF TypeOK, Connect, Free

-----------------------------------------------------------------------------
LEMMA TypeNext == ASSUME TypeOK, SocketInv, [Next]_vars PROVE TypeOK'
<1> USE HookAssumption
<1>1. ASSUME NEW p \in Pages, NEW x \in Sessions, Open(p, x) PROVE TypeOK'
  <2>1. PICK s \in Sockets : Connect(p, s)
    BY <1>1 DEF Open
  <2> QED BY <1>1, <2>1, ConnectStep DEF TypeOK, Open
<1>2. ASSUME NEW p \in Pages, Leave(p) PROVE TypeOK'
  BY <1>2 DEF TypeOK, Leave
<1>3. ASSUME NEW p \in Pages, TimerFires(p) PROVE TypeOK'
  <2>1. PICK s \in Sockets : Connect(p, s)
    BY <1>3 DEF TimerFires
  <2>2. timers' \in [Pages -> Nat]
    BY <1>3 DEF TypeOK, TimerFires
  <2> QED BY <1>3, <2>1, <2>2, ConnectStep DEF TypeOK, TimerFires
<1>4. ASSUME NEW s \in Sockets, OpenEvent(s) PROVE TypeOK'
  BY <1>4 DEF TypeOK, OpenEvent, Beats
<1>5. ASSUME NEW s \in Sockets, CloseEvent(s) PROVE TypeOK'
  <2>1. timers' \in [Pages -> Nat]
    BY <1>5 DEF TypeOK, CloseEvent, Retries
  <2> QED BY <1>5, <2>1 DEF TypeOK, CloseEvent
<1>6. ASSUME NEW s \in Sockets, Message(s) PROVE TypeOK'
  BY <1>6 DEF TypeOK, Message, hook, objects
<1>7. ASSUME NEW s \in Sockets, Endpoint(s) PROVE TypeOK'
  BY <1>7 DEF TypeOK, Endpoint, Refuse, Accept, Register, Forget, hook, objects
<1>8. ASSUME NEW s \in Sockets, Lost(s) PROVE TypeOK'
  BY <1>8 DEF TypeOK, Lost, hook
<1>9. CASE Restart
  BY <1>9 DEF TypeOK, Restart, hook
<1>10. CASE TokenExpires \/ TokenRefreshed \/ UNCHANGED vars
  BY <1>10 DEF TypeOK, TokenExpires, TokenRefreshed, vars, hook, objects
<1>11. ASSUME NEW p \in Pages, Component(p) PROVE TypeOK'
  BY <1>11 DEF TypeOK, Component, Refilled, Reroll, RerollAnswered, RerollFails, hook,
               objects
<1> QED BY <1>1, <1>2, <1>3, <1>4, <1>5, <1>6, <1>7, <1>8, <1>9, <1>10, <1>11 DEF Next, Browser

LEMMA PageNext == ASSUME TypeOK, PageInv, [Next]_vars PROVE PageInv'
<1>1. ASSUME NEW p \in Pages, NEW x \in Sessions, Open(p, x) PROVE PageInv'
  BY <1>1 DEF TypeOK, PageInv, Open, Following
<1>2. ASSUME NEW p \in Pages, Leave(p) PROVE PageInv'
  BY <1>2 DEF TypeOK, PageInv, Leave, Following
<1>3. CASE UNCHANGED <<phase, closed>>
  BY <1>3 DEF PageInv, Following
<1> QED
  BY <1>1, <1>2, <1>3
     DEF Next, vars, TimerFires, Browser, OpenEvent, CloseEvent, Endpoint, Refuse, Accept,
         Register, Forget, Message, Lost, Restart, TokenExpires, TokenRefreshed, hook,
         Component, Refilled, Reroll, RerollAnswered, RerollFails

(* Which sockets are busy changes with the browser's steps only.           *)
LEMMA BusyStays ==
    ASSUME TypeOK,
           \/ \E s \in Sockets : OpenEvent(s) \/ Message(s) \/ Endpoint(s) \/ Lost(s)
           \/ \E p \in Pages : Leave(p) \/ Component(p)
           \/ Restart \/ TokenExpires \/ TokenRefreshed \/ UNCHANGED vars
    PROVE  /\ \A s \in Sockets : state'[s] \in Busy <=> state[s] \in Busy
           /\ UNCHANGED <<ws, owner, timers>>
BY DEF TypeOK, Busy, Live, OpenEvent, Message, Endpoint, Refuse, Accept, Register, Forget, Lost,
       Leave, Restart, TokenExpires, TokenRefreshed, vars, hook, objects,
       Component, Refilled, Reroll, RerollAnswered, RerollFails

LEMMA SocketNext == ASSUME TypeOK, SocketInv, [Next]_vars PROVE SocketInv'
<1> USE HookAssumption
<1>0. \A p \in Pages : SocketsOf(p) = {s \in Sockets : owner[s] = p /\ state[s] \in Busy}
  BY DEF SocketsOf, Busy
<1>1. ASSUME NEW p \in Pages, NEW s \in Sockets, Connect(p, s),
             timers'[p] = 0, \A q \in Pages \ {p} : timers'[q] = timers[q],
             SocketsOf(p) = {}, phase'[p] # "new",
             \A q \in Pages \ {p} : phase'[q] = phase[q]
      PROVE  SocketInv'
  <2>1. \A t \in Sockets \ {s} : state[t] \in Busy => owner[t] # p
    BY <1>0, <1>1
  <2>2. ASSUME NEW t \in Sockets, state'[t] \in Busy
        PROVE  ws'[owner'[t]] = t /\ timers'[owner'[t]] = 0
    <3>1. CASE t = s
      BY <1>1, <3>1, ConnectStep
    <3>2. CASE t # s
      <4>1. owner'[t] = owner[t] /\ owner[t] \in Pages \ {p} /\ state[t] \in Busy
        BY <1>1, <2>1, <2>2, <3>2, ConnectStep DEF TypeOK
      <4>2. ws[owner[t]] = t /\ timers[owner[t]] = 0
        BY <4>1 DEF SocketInv
      <4> QED BY <1>1, <4>1, <4>2, ConnectStep
    <3> QED BY <3>1, <3>2
  <2>3. ASSUME NEW q \in Pages, phase'[q] = "new" PROVE SocketsOf(q)' = {} /\ timers'[q] = 0
    <3>1. q # p /\ SocketsOf(q) = {} /\ timers'[q] = 0
      BY <1>1, <2>3 DEF SocketInv
    <3>2. \A t \in Sockets : ~(owner'[t] = q /\ state'[t] \in Busy)
      BY <1>0, <1>1, <3>1, ConnectStep
    <3> QED BY <3>1, <3>2 DEF SocketsOf, Busy
  <2> QED BY <1>1, <2>2, <2>3 DEF SocketInv
<1>2. ASSUME NEW p \in Pages, NEW x \in Sessions, Open(p, x) PROVE SocketInv'
  <2>1. PICK s \in Sockets : Connect(p, s)
    BY <1>2 DEF Open
  <2>2. SocketsOf(p) = {} /\ timers[p] = 0 /\ UNCHANGED timers
    BY <1>2 DEF SocketInv, Open
  <2>3. phase'[p] # "new" /\ \A q \in Pages \ {p} : phase'[q] = phase[q]
    BY <1>2 DEF Open, TypeOK
  <2> QED BY <1>1, <2>1, <2>2, <2>3
<1>3. ASSUME NEW p \in Pages, TimerFires(p) PROVE SocketInv'
  <2>1. PICK s \in Sockets : Connect(p, s)
    BY <1>3 DEF TimerFires
  <2>2. /\ timers[p] = 1 /\ timers'[p] = 0 /\ phase' = phase
        /\ \A q \in Pages \ {p} : timers'[q] = timers[q]
    BY <1>3 DEF SocketInv, TimerFires, TypeOK
  <2>3. SocketsOf(p) = {} /\ phase[p] # "new"
    BY <1>0, <2>2 DEF SocketInv
  <2> QED BY <1>1, <2>1, <2>2, <2>3
<1>4. ASSUME NEW s \in Sockets, CloseEvent(s) PROVE SocketInv'
  <2>1. state[s] \in Busy /\ owner[s] \in Pages /\ timers[owner[s]] = 0 /\ ws[owner[s]] = s
    BY <1>4 DEF CloseEvent, SocketInv, Busy, TypeOK
  <2>2. /\ UNCHANGED <<owner, ws, phase>> /\ state'[s] = "closed"
        /\ \A t \in Sockets \ {s} : state'[t] = state[t]
        /\ timers'[owner[s]] \in {0, 1}
        /\ \A q \in Pages \ {owner[s]} : timers'[q] = timers[q]
    BY <1>4, <2>1 DEF CloseEvent, TypeOK, Retries
  <2>3. \A t \in Sockets : state'[t] \in Busy => owner[t] # owner[s] /\ state[t] \in Busy
    BY <2>1, <2>2 DEF SocketInv, Busy
  <2>4. phase[owner[s]] # "new"
    BY <1>0, <2>1 DEF SocketInv
  <2>5. ASSUME NEW q \in Pages, phase'[q] = "new" PROVE SocketsOf(q)' = {} /\ timers'[q] = 0
    <3>1. q # owner[s] /\ SocketsOf(q) = {} /\ timers'[q] = 0
      BY <2>2, <2>4, <2>5 DEF SocketInv
    <3>2. \A t \in Sockets : ~(owner'[t] = q /\ state'[t] \in Busy)
      BY <1>0, <2>2, <2>3, <3>1
    <3> QED BY <3>1, <3>2 DEF SocketsOf, Busy
  <2> QED BY <2>1, <2>2, <2>3, <2>5 DEF SocketInv, TypeOK
<1>5. ASSUME /\ \A s \in Sockets : state'[s] \in Busy <=> state[s] \in Busy
             /\ UNCHANGED <<ws, owner, timers>>,
             \A p \in Pages : phase'[p] = "new" => phase[p] = "new"
      PROVE  SocketInv'
  BY <1>5 DEF SocketInv, SocketsOf, Busy
<1>6. ASSUME \/ \E s \in Sockets : OpenEvent(s) \/ Message(s) \/ Endpoint(s) \/ Lost(s)
             \/ \E p \in Pages : Leave(p) \/ Component(p)
             \/ Restart \/ TokenExpires \/ TokenRefreshed \/ UNCHANGED vars
      PROVE  SocketInv'
  <2>1. \A p \in Pages : phase'[p] = "new" => phase[p] = "new"
    BY <1>6 DEF OpenEvent, Message, Endpoint, Refuse, Accept, Register, Forget, Lost, Leave,
                Restart, TokenExpires, TokenRefreshed, vars, TypeOK,
                Component, Refilled, Reroll, RerollAnswered, RerollFails
  <2> QED BY <1>5, <1>6, <2>1, BusyStays
<1> QED BY <1>2, <1>3, <1>4, <1>6 DEF Next, Browser

LEMMA BeatNext == ASSUME TypeOK, SocketInv, BeatInv, [Next]_vars PROVE BeatInv'
<1> USE HookAssumption
<1>1. ASSUME NEW p \in Pages, NEW s \in Sockets, Connect(p, s) PROVE BeatInv'
  BY <1>1, ConnectStep DEF BeatInv, HeartbeatRuns, TypeOK
<1>2. ASSUME NEW p \in Pages, Leave(p) PROVE BeatInv'
  <2>1. UNCHANGED <<beat, owner>> /\ beating' = beating \ {beat[p]}
    BY <1>2 DEF Leave
  <2>2. ASSUME NEW s \in Sockets, state'[s] = "open" PROVE s \in beating'
    <3>1. state[s] = "open" /\ s # ws[p]
      BY <1>2, <2>2 DEF Leave, TypeOK, Live
    <3>2. owner[s] # p
      BY <3>1 DEF SocketInv, Busy
    <3> QED BY <2>1, <3>1, <3>2 DEF BeatInv, HeartbeatRuns
  <2> QED BY <2>1, <2>2 DEF BeatInv, HeartbeatRuns
<1>3. ASSUME NEW s \in Sockets, OpenEvent(s) PROVE BeatInv'
  BY <1>3 DEF BeatInv, HeartbeatRuns, TypeOK, OpenEvent, Beats
<1>4. ASSUME NEW s \in Sockets, CloseEvent(s) PROVE BeatInv'
  <2>1. UNCHANGED <<beat, owner>> /\ beating' = beating \ {beat[owner[s]]}
    BY <1>4 DEF CloseEvent
  <2>2. ASSUME NEW t \in Sockets, state'[t] = "open" PROVE t \in beating'
    <3>1. state[t] = "open" /\ t # s
      BY <1>4, <2>2 DEF CloseEvent, TypeOK
    <3>2. owner[t] # owner[s]
      BY <1>4, <3>1 DEF SocketInv, Busy, CloseEvent
    <3>3. owner[s] \in Pages
      BY DEF TypeOK
    <3> QED BY <2>1, <3>1, <3>2, <3>3 DEF BeatInv, HeartbeatRuns
  <2> QED BY <2>1, <2>2 DEF BeatInv, HeartbeatRuns
<1>5. CASE UNCHANGED <<beat, owner, beating>> /\ \A s \in Sockets : state'[s] = "open" => state[s] = "open"
  BY <1>5 DEF BeatInv, HeartbeatRuns
<1>6. ASSUME NEW s \in Sockets, Endpoint(s) \/ Message(s) \/ Lost(s) PROVE BeatInv'
  BY <1>5, <1>6 DEF Endpoint, Refuse, Accept, Register, Forget, Message, Lost, TypeOK, hook,
                    objects
<1>7. CASE Restart \/ TokenExpires \/ TokenRefreshed \/ UNCHANGED vars
  BY <1>5, <1>7 DEF Restart, TokenExpires, TokenRefreshed, TypeOK, hook, objects, vars
<1>8. ASSUME NEW p \in Pages, Component(p) PROVE BeatInv'
  BY <1>5, <1>8 DEF Component, Refilled, Reroll, RerollAnswered, RerollFails, hook, objects
<1> QED BY <1>1, <1>2, <1>3, <1>4, <1>6, <1>7, <1>8 DEF Next, Browser, Open, TimerFires

LEMMA LeftNext == ASSUME TypeOK, SocketInv, LeftInv, [Next]_vars PROVE LeftInv'
<1> USE HookAssumption
<1>1. ASSUME NEW p \in Pages, NEW s \in Sockets, Connect(p, s), phase'[p] # "left" \/ p \in late,
             \A q \in Pages \ {p} : /\ phase'[q] = phase[q] /\ closed'[q] = closed[q]
                                    /\ timers'[q] = timers[q],
             UNCHANGED <<asked, late>>
      PROVE  LeftInv'
  BY <1>1, ConnectStep DEF LeftInv, Live
<1>2. ASSUME NEW p \in Pages, NEW x \in Sessions, Open(p, x) PROVE LeftInv'
  <2>1. PICK s \in Sockets : Connect(p, s)
    BY <1>2 DEF Open
  <2> QED BY <1>1, <1>2, <2>1 DEF Open, TypeOK
<1>3. ASSUME NEW p \in Pages, TimerFires(p) PROVE LeftInv'
  <2>1. PICK s \in Sockets : Connect(p, s)
    BY <1>3 DEF TimerFires
  <2>2. phase[p] # "left" \/ p \in late
    BY <1>3 DEF TimerFires, LeftInv
  <2> QED BY <1>1, <1>3, <2>1, <2>2 DEF TimerFires, TypeOK
<1>4. ASSUME NEW p \in Pages, Leave(p) PROVE LeftInv'
  <2>1. \A s \in Sockets : owner[s] = p => ~Live(s)'
    BY <1>4 DEF Leave, TypeOK, SocketInv, Busy, Live
  <2>2. \A s \in Sockets : Live(s)' => Live(s)
    BY <1>4 DEF Leave, TypeOK, Live
  <2>3. closed'[p] /\ (p \notin late' => timers'[p] = 0 /\ p \notin asked')
    BY <1>4 DEF Leave, TypeOK, SocketInv
  <2>4. /\ \A q \in Pages \ {p} : phase'[q] = phase[q] /\ closed'[q] = closed[q]
        /\ UNCHANGED <<owner, timers, asked>> /\ late \subseteq late'
    BY <1>4 DEF Leave, TypeOK
  <2> QED BY <2>1, <2>2, <2>3, <2>4 DEF LeftInv
<1>5. ASSUME NEW s \in Sockets, CloseEvent(s) PROVE LeftInv'
  <2>1. \A t \in Sockets : Live(t)' => Live(t)
    BY <1>5 DEF CloseEvent, TypeOK, Live
  <2>2. \A p \in Pages : closed[p] => timers'[p] = timers[p]
    BY <1>5 DEF CloseEvent, TypeOK, Retries
  <2> QED BY <1>5, <2>1, <2>2 DEF CloseEvent, LeftInv
<1>6. CASE /\ UNCHANGED <<phase, closed, timers, owner, late>>
           /\ \A q \in Pages : phase[q] = "left" /\ q \in asked' => q \in asked
           /\ \A t \in Sockets : Live(t)' => Live(t)
  BY <1>6 DEF LeftInv
<1>7. ASSUME NEW s \in Sockets, OpenEvent(s) \/ Endpoint(s) \/ Message(s) \/ Lost(s)
      PROVE  LeftInv'
  <2>1. \A t \in Sockets : Live(t)' => Live(t)
    BY <1>7 DEF OpenEvent, Endpoint, Refuse, Accept, Register, Forget, Message, Lost, TypeOK,
                Live, objects
  <2> QED
    BY <1>6, <1>7, <2>1
       DEF OpenEvent, Endpoint, Refuse, Accept, Register, Forget, Message, Lost, hook, objects
<1>8. CASE Restart \/ TokenExpires \/ TokenRefreshed \/ UNCHANGED vars
  <2>1. \A t \in Sockets : Live(t)' => Live(t)
    BY <1>8 DEF Restart, TokenExpires, TokenRefreshed, TypeOK, Live, objects, vars
  <2> QED BY <1>6, <1>8, <2>1 DEF Restart, TokenExpires, TokenRefreshed, hook, objects, vars
<1>9. ASSUME NEW p \in Pages, Component(p) PROVE LeftInv'
  <2>1. \A t \in Sockets : Live(t)' => Live(t)
    BY <1>9 DEF Component, Refilled, Reroll, RerollAnswered, RerollFails, Live, objects
  <2>2. \A q \in Pages : phase[q] = "left" /\ q \in asked' => q \in asked
    BY <1>9 DEF Component, Refilled, Reroll, RerollAnswered, RerollFails, Following
  <2> QED
    BY <1>6, <1>9, <2>1, <2>2
       DEF Component, Refilled, Reroll, RerollAnswered, RerollFails, hook, objects
<1> QED BY <1>2, <1>3, <1>4, <1>5, <1>7, <1>8, <1>9 DEF Next, Browser

LEMMA AskNext == ASSUME TypeOK, AskInv, [Next]_vars PROVE AskInv'
<1>1. ASSUME NEW p \in Pages, Component(p) PROVE AskInv'
  BY <1>1 DEF AskInv, Component, Refilled, Reroll, RerollAnswered, RerollFails, Following
<1>2. CASE UNCHANGED <<phase, asked>>
  BY <1>2 DEF AskInv
<1>3. ASSUME UNCHANGED asked, NEW p \in Pages, NEW x \in {"on", "left"},
             phase' = [phase EXCEPT ![p] = x]
      PROVE  AskInv'
  BY <1>3 DEF AskInv, TypeOK
<1> QED
  BY <1>1, <1>2, <1>3
     DEF Next, vars, Open, Leave, TimerFires, Browser, OpenEvent, CloseEvent, Endpoint, Refuse,
         Accept, Register, Forget, Message, Lost, Restart, TokenExpires, TokenRefreshed

LEMMA FollowedNext ==
    ASSUME TypeOK, PageInv, SocketInv, NotAbandoned, [Next]_vars PROVE NotAbandoned'
<1> USE HookAssumption
<1> DEFINE Kept(p) == SocketsOf(p) # {} \/ timers[p] > 0
<1>1. ASSUME NEW p \in Pages, NEW s \in Sockets, Connect(p, s),
             \A q \in Pages \ {p} : phase'[q] = phase[q] /\ timers'[q] = timers[q]
      PROVE  NotAbandoned'
  <2>1. s \in SocketsOf(p)'
    BY <1>1, ConnectStep DEF SocketsOf
  <2>2. ASSUME NEW q \in Pages \ {p}, Following(q)' PROVE Kept(q)'
    <3>1. Following(q) /\ timers'[q] = timers[q]
      BY <1>1, <2>2 DEF Following
    <3>2. ASSUME NEW t \in SocketsOf(q) PROVE t \in SocketsOf(q)'
      BY <1>1, <3>2, ConnectStep DEF SocketsOf
    <3> QED BY <3>1, <3>2 DEF NotAbandoned
  <2> QED BY <2>1, <2>2 DEF NotAbandoned
<1>2. ASSUME NEW p \in Pages, NEW x \in Sessions, Open(p, x) PROVE NotAbandoned'
  BY <1>1, <1>2 DEF Open, TypeOK
<1>3. ASSUME NEW p \in Pages, TimerFires(p) PROVE NotAbandoned'
  BY <1>1, <1>3 DEF TimerFires, TypeOK
<1>4. ASSUME NEW s \in Sockets, CloseEvent(s) PROVE NotAbandoned'
  <2>1. owner[s] \in Pages /\ UNCHANGED <<phase, owner>>
    BY <1>4 DEF CloseEvent, TypeOK
  <2>2. ASSUME NEW p \in Pages, Following(p), p = owner[s] PROVE timers'[p] > 0
    BY <1>4, <2>1, <2>2 DEF CloseEvent, PageInv, Retries, TypeOK
  <2>3. ASSUME NEW p \in Pages, Following(p), p # owner[s] PROVE Kept(p)'
    <3>1. timers'[p] = timers[p]
      BY <1>4, <2>3 DEF CloseEvent, TypeOK
    <3>2. ASSUME NEW t \in SocketsOf(p) PROVE t \in SocketsOf(p)'
      BY <1>4, <2>3, <3>2 DEF CloseEvent, SocketsOf, TypeOK
    <3> QED BY <2>3, <3>1, <3>2 DEF NotAbandoned
  <2> QED BY <2>1, <2>2, <2>3 DEF NotAbandoned, Following
<1>5. CASE \/ \E s \in Sockets : OpenEvent(s) \/ Message(s) \/ Endpoint(s) \/ Lost(s)
           \/ \E p \in Pages : Leave(p) \/ Component(p)
           \/ Restart \/ TokenExpires \/ TokenRefreshed \/ UNCHANGED vars
  <2>1. \A p \in Pages : Following(p)' => Following(p)
    BY <1>5 DEF OpenEvent, Message, Endpoint, Refuse, Accept, Register, Forget, Lost, Leave,
                Restart, TokenExpires, TokenRefreshed, vars, TypeOK, Following,
                Component, Refilled, Reroll, RerollAnswered, RerollFails
  <2>2. \A p \in Pages : SocketsOf(p)' = SocketsOf(p) /\ timers'[p] = timers[p]
    BY <1>5, BusyStays DEF SocketsOf, Busy
  <2> QED BY <2>1, <2>2 DEF NotAbandoned
<1> QED BY <1>2, <1>3, <1>4, <1>5 DEF Next, Browser

LEMMA OwnNext ==
    ASSUME TypeOK, PageInv, SocketInv, LeftInv, AskInv, OwnSession, [Next]_vars
    PROVE  OwnSession'
(* Whoever writes is open, or was left with something pending.             *)
<1>0. ASSUME UNCHANGED <<phase, of, late>>, NEW q \in Pages, shown' = of[q],
             Following(q) \/ q \in late
      PROVE  OwnSession'
  BY <1>0 DEF PageInv, OwnSession, Following
<1>1. ASSUME NEW p \in Pages, NEW x \in Sessions, Open(p, x) PROVE OwnSession'
  BY <1>1 DEF Open, OwnSession, Following, TypeOK
<1>2. ASSUME NEW p \in Pages, Leave(p) PROVE OwnSession'
  BY <1>2 DEF Leave, OwnSession, Following, TypeOK
<1>3. ASSUME NEW s \in Sockets, Message(s) PROVE OwnSession'
  <2> DEFINE q == owner[s]
  <2>1. q \in Pages /\ s \in SocketsOf(q) /\ Live(s)
    BY <1>3 DEF Message, TypeOK, SocketsOf, Live
  <2>2. Following(q) \/ q \in late
    BY <2>1 DEF SocketInv, LeftInv, TypeOK, Following
  <2>3. UNCHANGED <<phase, of, late>> /\ shown' = of[q]
    BY <1>3 DEF Message
  <2> QED BY <1>0, <2>1, <2>2, <2>3
<1>4. ASSUME NEW p \in Pages, Refilled(p) PROVE OwnSession'
  BY <1>0, <1>4 DEF Refilled
<1>5. ASSUME NEW p \in Pages, RerollAnswered(p) PROVE OwnSession'
  <2>1. Following(p) \/ p \in late
    BY <1>5 DEF RerollAnswered, AskInv, LeftInv, TypeOK, Following
  <2> QED BY <1>0, <1>5, <2>1 DEF RerollAnswered
<1>6. CASE UNCHANGED <<phase, of, shown, late>>
  BY <1>6 DEF OwnSession, Following
<1> QED
  BY <1>1, <1>2, <1>3, <1>4, <1>5, <1>6
     DEF Next, vars, TimerFires, Browser, OpenEvent, CloseEvent, Endpoint, Refuse, Accept,
         Register, Forget, Lost, Restart, TokenExpires, TokenRefreshed, Component, Reroll,
         RerollFails

LEMMA AtMostOne == ASSUME TypeOK, SocketInv PROVE OneSocket
<1> SUFFICES ASSUME NEW p \in Pages PROVE Cardinality(SocketsOf(p)) + timers[p] <= 1
  BY DEF OneSocket
<1>1. \A s \in SocketsOf(p) : s = ws[p] /\ timers[p] = 0
  BY DEF SocketsOf, SocketInv, Busy
<1>2. timers[p] \in {0, 1}
  BY DEF SocketInv
<1>3. CASE SocketsOf(p) = {}
  BY <1>2, <1>3, FS_EmptySet
<1>4. CASE SocketsOf(p) # {}
  <2>1. SocketsOf(p) = {ws[p]} /\ timers[p] = 0
    BY <1>1, <1>4
  <2> QED BY <2>1, FS_Singleton
<1> QED BY <1>3, <1>4

-----------------------------------------------------------------------------
THEOREM Invariant == Spec => []IInv
<1>1. IInv /\ [Next]_vars => IInv'
  BY TypeNext, PageNext, SocketNext, BeatNext, LeftNext, AskNext, FollowedNext, OwnNext
     DEF IInv
<1> QED BY InitInv, <1>1, PTL DEF Spec

(* Type correctness of the hook, its sockets and the endpoint.             *)
THEOREM TypeCorrect == Spec => []TypeOK
<1>1. IInv => TypeOK
  BY DEF IInv
<1> QED BY Invariant, <1>1, PTL

(* A mounted page always has a socket or a timer that will open one        *)
(* (onclose and setTimeout of use-websocket.ts).                           *)
THEOREM NeverAbandoned == Spec => []NotAbandoned
<1>1. IInv => NotAbandoned
  BY DEF IInv
<1> QED BY Invariant, <1>1, PTL

(* A hook never has two sockets, nor a socket and a timer.                 *)
THEOREM NeverTwoSockets == Spec => []OneSocket
<1>1. IInv => OneSocket
  BY AtMostOne DEF IInv
<1> QED BY Invariant, <1>1, PTL

(* An open socket has its heartbeat (onopen, onclose and the cleanup of    *)
(* the effect in use-websocket.ts).                                        *)
THEOREM HeartbeatsRun == Spec => []HeartbeatRuns
<1>1. IInv => HeartbeatRuns
  BY DEF IInv, BeatInv
<1> QED BY Invariant, <1>1, PTL

(* The store shows the session of the page that is open, or of one that    *)
(* was left while it waited to reconnect or for the answer to a reroll     *)
(* (use-websocket.ts, and reroll of group-session.tsx).                    *)
THEOREM StoreOfOwnSession == Spec => []OwnSession
<1>1. IInv => OwnSession
  BY DEF IInv
<1> QED BY Invariant, <1>1, PTL

=============================================================================
