---------------------------- MODULE SocketHook ----------------------------
(***************************************************************************)
(* The WebSocket hook of the session page and the endpoint it talks to:    *)
(* frontend/src/hooks/use-websocket.ts (effect, reconnection, heartbeat),  *)
(* and _authenticate, session_socket and WebSocketManager of               *)
(* backend/app/routers/websocket.py.  RealtimeSession says what the        *)
(* messages do to a screen, and whom a broadcast that has copied its       *)
(* targets reaches; here are the sockets: one browser tab opens and leaves *)
(* session pages, every mounted page has a copy of the hook, and all of    *)
(* them write to one session store, as does the answer to a reroll that    *)
(* frontend/src/components/group-session.tsx has asked for.                *)
(*                                                                         *)
(*   phase, of        each mount of the page, and the session it is for    *)
(*   closed, ws,      closedByCallerRef, wsRef and heartbeatRef of its     *)
(*   beat             hook (beat names the socket the interval belongs to) *)
(*   timers           its calls of setTimeout(connect) that are pending    *)
(*   state, owner     readyState of each WebSocket object, and its hook    *)
(*   good             the token in its url had not expired                 *)
(*   server           what the endpoint has done with it; the manager's    *)
(*                    _connections are those that have joined              *)
(*   beating          the intervals that run                               *)
(*   asked            the pages that wait for the answer to a reroll       *)
(*   shown            the session whose data the store holds               *)
(*   token            the access token in the auth store                   *)
(*   faults           lost connections and restarts so far                 *)
(*   late             (history) the pages left with a timer or a reroll    *)
(*                    pending                                              *)
(* Delays are not counted: a timer may fire at any moment after it is set. *)
(* This is a production build: React's strict mode, which runs an effect   *)
(* twice when a page is mounted, is for development.                       *)
(***************************************************************************)
EXTENDS Integers, FiniteSets

CONSTANTS
    Pages,        \* the mounts of the session page
    Sessions,     \* the sessions they are for
    Sockets,      \* WebSocket objects
    MaxFaults,    \* bound on lost connections and restarts
    NoSession, NoSocket

ASSUME HookAssumption ==
    /\ IsFiniteSet(Sockets) /\ NoSocket \notin Sockets /\ NoSession \notin Sessions
    /\ MaxFaults \in Nat

VARIABLES phase, of, closed, ws, beat, timers, state, owner, good, server, beating,
          asked, shown, token, faults, late

hook == <<closed, ws, beat, timers>>
objects == <<state, owner, good>>
vars == <<phase, of, closed, ws, beat, timers, state, owner, good, server, beating,
          asked, shown, token, faults, late>>

Following(p) == phase[p] = "on"
Live(s) == state[s] \in {"connecting", "open"}

(* Handlers or timers of this hook may still run.                          *)
Active(p) ==
    \/ Following(p) \/ timers[p] > 0
    \/ \E s \in Sockets : owner[s] = p /\ state[s] \in {"connecting", "open", "closing"}

(* An object that is not made yet, or whose handlers have all run.  Its    *)
(* interval may still tick, but sends nothing and is forgotten with it.    *)
Free(s) ==
    \/ state[s] = "unused"
    \/ /\ state[s] = "closed" /\ server[s] = "ended"
       /\ \A p \in Pages : Active(p) => ws[p] # s

-----------------------------------------------------------------------------
Init ==
    /\ phase = [p \in Pages |-> "new"]
    /\ of = [p \in Pages |-> NoSession]
    /\ closed = [p \in Pages |-> FALSE]
    /\ ws = [p \in Pages |-> NoSocket]
    /\ beat = [p \in Pages |-> NoSocket]
    /\ timers = [p \in Pages |-> 0]
    /\ state = [s \in Sockets |-> "unused"]
    /\ owner \in [Sockets -> Pages] /\ \A s, t \in Sockets : owner[s] = owner[t]
    /\ good = [s \in Sockets |-> FALSE]
    /\ server = [s \in Sockets |-> "none"]
    /\ beating = {} /\ asked = {}
    /\ shown = NoSession /\ token = "fresh" /\ faults = 0 /\ late = {}

-----------------------------------------------------------------------------
(* The hook.                                                               *)

(* A new WebSocket for a hook, which wsRef refers to from now on.          *)
Connect(p, s) ==
    /\ Free(s)
    /\ state' = [state EXCEPT ![s] = "connecting"]
    /\ owner' = [owner EXCEPT ![s] = p]
    /\ good' = [good EXCEPT ![s] = token = "fresh"]
    /\ server' = [server EXCEPT ![s] = "none"]
    /\ ws' = [ws EXCEPT ![p] = s]
    /\ beat' = [q \in Pages |-> IF beat[q] = s THEN NoSocket ELSE beat[q]]
    /\ beating' = beating \ {s}

(* A session page is mounted: the store is filled with its session, and    *)
(* the effect connects.                                                    *)
Open(p, x) ==
    /\ phase[p] = "new" /\ \A q \in Pages : ~Following(q)
    /\ phase' = [phase EXCEPT ![p] = "on"]
    /\ of' = [of EXCEPT ![p] = x]
    /\ shown' = x
    /\ closed' = [closed EXCEPT ![p] = FALSE]
    /\ \E s \in Sockets : Connect(p, s)
    /\ UNCHANGED <<timers, asked, token, faults, late>>

(* The cleanup, when the page is left or its session is over: wsRef is     *)
(* closed and its heartbeat stopped, a pending reconnection or reroll is   *)
(* not.                                                                    *)
Leave(p) ==
    /\ Following(p)
    /\ phase' = [phase EXCEPT ![p] = "left"]
    /\ closed' = [closed EXCEPT ![p] = TRUE]
    /\ state' = [state EXCEPT ![ws[p]] = IF Live(ws[p]) THEN "closing" ELSE @]
    /\ beating' = beating \ {beat[p]}
    /\ late' = IF timers[p] > 0 \/ p \in asked THEN late \cup {p} ELSE late
    /\ UNCHANGED <<of, ws, beat, timers, owner, good, server, asked, shown, token, faults>>

(* onopen starts an interval, whatever this hook has started before.       *)
Beats(s) == {s}

OpenEvent(s) ==
    /\ state[s] = "connecting" /\ server[s] \in {"accepted", "joined"}
    /\ state' = [state EXCEPT ![s] = "open"]
    /\ beat' = [beat EXCEPT ![owner[s]] = s]
    /\ beating' = beating \cup Beats(s)
    /\ UNCHANGED <<phase, of, closed, ws, timers, owner, good, server, asked, shown,
                   token, faults, late>>

(* onclose plans one reconnection, unless the page was left.               *)
RetriesAlways(p) == 1                                          \* mutant of Retries
RetriesTwice(p) == IF closed[p] THEN 0 ELSE 2                  \* mutant of Retries
RetriesOpened(p) == IF closed[p] \/ beat[p] = NoSocket THEN 0 ELSE 1 \* mutant of Retries
Retries(p) == IF closed[p] THEN 0 ELSE 1

CloseEvent(s) ==
    /\ state[s] = "closing"
    /\ state' = [state EXCEPT ![s] = "closed"]
    /\ beating' = beating \ {beat[owner[s]]}
    /\ timers' = [timers EXCEPT ![owner[s]] = @ + Retries(owner[s])]
    /\ UNCHANGED <<phase, of, closed, ws, beat, owner, good, server, asked, shown,
                   token, faults, late>>

(* Nobody asks whether the page is still there.                            *)
TimerFires(p) ==
    /\ timers[p] > 0
    /\ timers' = [timers EXCEPT ![p] = @ - 1]
    /\ \E s \in Sockets : Connect(p, s)
    /\ UNCHANGED <<phase, of, closed, asked, shown, token, faults, late>>

(* onmessage: a snapshot, a tally, a start or an end of the session of the *)
(* hook that received it, put into the one store.                          *)
Message(s) ==
    /\ state[s] = "open" /\ server[s] = "joined"
    /\ shown' = of[owner[s]]
    /\ UNCHANGED <<phase, of, hook, objects, server, beating, asked, token, faults, late>>

-----------------------------------------------------------------------------
(* The component.                                                          *)

(* The effect runs again when a refetch of the open session differs.       *)
Refilled(p) ==
    /\ Following(p)
    /\ shown' = of[p]
    /\ UNCHANGED <<phase, of, hook, objects, server, beating, asked, token, faults, late>>

(* reroll: the button is disabled until the request is answered or fails.  *)
Reroll(p) ==
    /\ Following(p) /\ p \notin asked
    /\ asked' = asked \cup {p}
    /\ UNCHANGED <<phase, of, hook, objects, server, beating, shown, token, faults, late>>

(* setCandidates and setTally after the await, whichever page is open now. *)
RerollAnswered(p) ==
    /\ p \in asked
    /\ asked' = asked \ {p}
    /\ shown' = of[p]
    /\ UNCHANGED <<phase, of, hook, objects, server, beating, token, faults, late>>

RerollFails(p) ==
    /\ p \in asked
    /\ asked' = asked \ {p}
    /\ UNCHANGED <<phase, of, hook, objects, server, beating, shown, token, faults, late>>

Component(p) == Refilled(p) \/ Reroll(p) \/ RerollAnswered(p) \/ RerollFails(p)

-----------------------------------------------------------------------------
(* The endpoint.                                                           *)

(* _authenticate, and the checks of session and membership: whoever is     *)
(* refused is closed before the handshake is complete.                     *)
Refuse(s) ==
    /\ state[s] # "unused" /\ server[s] = "none"
    /\ ~good[s] \/ ~Live(s)
    /\ server' = [server EXCEPT ![s] = "ended"]
    /\ state' = [state EXCEPT ![s] = IF Live(s) THEN "closing" ELSE @]
    /\ UNCHANGED <<phase, of, hook, owner, good, beating, asked, shown, token, faults, late>>

Accept(s) ==
    /\ state[s] # "unused" /\ server[s] = "none" /\ good[s]
    /\ server' = [server EXCEPT ![s] = "accepted"]
    /\ UNCHANGED <<phase, of, hook, objects, beating, asked, shown, token, faults, late>>

(* manager.connect.                                                        *)
Register(s) ==
    /\ server[s] = "accepted"
    /\ server' = [server EXCEPT ![s] = "joined"]
    /\ UNCHANGED <<phase, of, hook, objects, beating, asked, shown, token, faults, late>>

(* receive_json or a send raises: manager.disconnect in the finally.       *)
Forget(s) ==
    /\ server[s] = "joined" /\ ~Live(s)
    /\ server' = [server EXCEPT ![s] = "ended"]
    /\ UNCHANGED <<phase, of, hook, objects, beating, asked, shown, token, faults, late>>

-----------------------------------------------------------------------------
(* The environment.                                                        *)

(* A connection is lost, or not established; onerror closes the object.    *)
Lost(s) ==
    /\ Live(s) /\ faults < MaxFaults
    /\ state' = [state EXCEPT ![s] = "closing"]
    /\ faults' = faults + 1
    /\ UNCHANGED <<phase, of, hook, owner, good, server, beating, asked, shown, token, late>>

(* The process of the backend ends and is started again.                   *)
Restart ==
    /\ faults < MaxFaults
    /\ faults' = faults + 1
    /\ server' = [s \in Sockets |-> IF state[s] = "unused" THEN "none" ELSE "ended"]
    /\ state' = [s \in Sockets |-> IF Live(s) THEN "closing" ELSE state[s]]
    /\ UNCHANGED <<phase, of, hook, owner, good, beating, asked, shown, token, late>>

(* The access token lives for fifteen minutes; a request that is refused   *)
(* for it gets a new one into the store.                                   *)
TokenExpires ==
    /\ token = "fresh" /\ token' = "stale"
    /\ UNCHANGED <<phase, of, hook, objects, server, beating, asked, shown, faults, late>>
TokenRefreshed ==
    /\ token = "stale" /\ token' = "fresh"
    /\ UNCHANGED <<phase, of, hook, objects, server, beating, asked, shown, faults, late>>

-----------------------------------------------------------------------------
Browser(s) == OpenEvent(s) \/ CloseEvent(s)
Endpoint(s) == Refuse(s) \/ Accept(s) \/ Register(s) \/ Forget(s)

Next ==
    \/ \E p \in Pages :
        \/ \E x \in Sessions : Open(p, x)
        \/ Leave(p) \/ TimerFires(p) \/ Component(p)
    \/ \E s \in Sockets : Browser(s) \/ Endpoint(s) \/ Message(s) \/ Lost(s)
    \/ Restart \/ TokenExpires \/ TokenRefreshed

Spec == Init /\ [][Next]_vars

-----------------------------------------------------------------------------
(* Properties.                                                             *)

TypeOK ==
    /\ phase \in [Pages -> {"new", "on", "left"}]
    /\ of \in [Pages -> Sessions \cup {NoSession}]
    /\ closed \in [Pages -> BOOLEAN]
    /\ ws \in [Pages -> Sockets \cup {NoSocket}]
    /\ beat \in [Pages -> Sockets \cup {NoSocket}]
    /\ timers \in [Pages -> Nat]
    /\ state \in [Sockets -> {"unused", "connecting", "open", "closing", "closed"}]
    /\ owner \in [Sockets -> Pages]
    /\ good \in [Sockets -> BOOLEAN]
    /\ server \in [Sockets -> {"none", "accepted", "joined", "ended"}]
    /\ beating \subseteq Sockets /\ asked \subseteq Pages /\ late \subseteq Pages
    /\ shown \in Sessions \cup {NoSession}
    /\ token \in {"fresh", "stale"} /\ faults \in 0 .. MaxFaults

SocketsOf(p) == {s \in Sockets : owner[s] = p /\ state[s] \in {"connecting", "open", "closing"}}

(* A mounted page is never left without a socket: one is open or being     *)
(* opened, or one is closing, or a timer will open one, whatever was lost. *)
NotAbandoned == \A p \in Pages : Following(p) => SocketsOf(p) # {} \/ timers[p] > 0

(* One mounted hook has one socket or one timer, so that no message is     *)
(* handled twice.                                                          *)
OneSocket == \A p \in Pages : Cardinality(SocketsOf(p)) + timers[p] <= 1

(* An open socket is kept alive by its heartbeat, also after reconnections *)
(* and beside what an earlier page has left.                               *)
HeartbeatRuns == \A s \in Sockets : state[s] = "open" => s \in beating

(* The store holds the session of the page that is open, or of one that    *)
(* was left while it waited to reconnect or for the answer to a reroll:    *)
(* no other page, nor its socket, writes once it was left.                 *)
OwnSession ==
    \A p \in Pages : Following(p) => shown = of[p] \/ \E q \in late : shown = of[q]

(* Expected, and not so: what a page left behind never writes to the store *)
(* of the next one.                                                        *)
StoreIsOwn == \A p \in Pages : Following(p) => shown = of[p]

=============================================================================
