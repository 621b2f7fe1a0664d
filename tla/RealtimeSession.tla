-------------------------- MODULE RealtimeSession --------------------------
(***************************************************************************)
(* What the screens of a running session show: the WebSocket endpoint and  *)
(* the broadcasts of backend/app/routers/websocket.py, the handlers of     *)
(* backend/app/routers/groups.py that call them after a commit, and the    *)
(* session page of the frontend (components/group-session.tsx,             *)
(* store/session-store.ts, hooks/use-websocket.ts).                        *)
(*                                                                         *)
(* The database side is that of GroupSession reduced to what a message     *)
(* carries: a vote is <<client, generation of the candidates>>, and every  *)
(* request that sees one vote per client completes the session, also the   *)
(* one that casts a vote anew while others are under way.                  *)
(*                                                                         *)
(*   status, winner, gen, votes   the committed session                    *)
(*   decided   (history) every winner that has been committed              *)
(*   task      the handlers of HTTP requests, any number of them for a     *)
(*             page, and the timeout task; their broadcasts interleave     *)
(*   conns     manager._connections[session_id], in order of registration  *)
(*   link, era a client's socket and how often it was replaced             *)
(*   snap      what the endpoint has read for the snapshot of a socket     *)
(*   data      what the session query of each page holds; a change of it   *)
(*             makes the page start over                                   *)
(*   reply     the answer to that query, while it is under way             *)
(*   screen    the session store of each client                            *)
(*   present   (history) the socket in use was registered before the       *)
(*             session was closed                                          *)
(* A page handles a message when it is sent to its socket: one connection  *)
(* keeps the order of its messages, and a longer way for one of them is a  *)
(* later send of a task that the others do not wait for.                   *)
(* Presence messages (member_joined, ping, pong) change nothing modelled.  *)
(***************************************************************************)
EXTENDS Integers, FiniteSets, Sequences

CONSTANTS
    Clients,      \* one page per member of the group
    Requests,     \* as many HTTP requests are handled at a time
    Movies,       \* the movies that may win
    MaxRerolls,   \* bound on rerolls
    Flaky,        \* the clients whose connection may be lost,
    MaxDrops,     \* and how often, each,
    Offline,      \* and those of them whose whole network may be away
    Timeout,      \* whether the behaviours include the end of the five minutes
    NoMovie, Clock

ASSUME ClientsAssumption ==
    /\ IsFiniteSet(Clients) /\ Clock \notin Clients /\ Clock \notin Requests
    /\ NoMovie \notin Movies /\ Flaky \subseteq Clients /\ Offline \subseteq Flaky
    /\ MaxRerolls \in Nat /\ MaxDrops \in Nat /\ Timeout \in BOOLEAN

VARIABLES status, winner, gen, votes, decided, task, conns, link, era, snap, data, reply, screen,
          present

database == <<status, winner, gen, votes, decided>>
query == <<data, reply>>
sockets == <<conns, link, era, snap, query, present>>
vars == <<status, winner, gen, votes, decided, task, conns, link, era, snap, data, reply, screen,
          present>>

Gens == 0 .. MaxRerolls
Ballots == Clients \X Gens
Sockets == Clients \X (0 .. MaxDrops)
Tasks == Requests \cup {Clock}

Message == [type : {"snapshot", "started", "vote", "expired"},
            gen : Gens, tally : SUBSET Ballots, winner : {NoMovie}]
    \cup  [type : {"completed"}, gen : Gens, tally : SUBSET Ballots, winner : Movies]

Msg(type, g, tally, m) == [type |-> type, gen |-> g, tally |-> tally, winner |-> m]

Task == [pc : {"idle", "vote", "commit", "reroll", "cast", "armed", "done"},
         by : Clients \cup {Clock},            \* the page that asked
         gen : Gens, tally : SUBSET Ballots, pick : Movies \cup {NoMovie},
         insert : SUBSET Ballots,              \* flushed and not committed
         queue : Seq(Message), current : Message, targets : Seq(Sockets)]

Idle == [pc |-> "idle", by |-> Clock, gen |-> 0, tally |-> {}, pick |-> NoMovie, insert |-> {},
         queue |-> <<>>, current |-> Msg("expired", 0, {}, NoMovie), targets |-> <<>>]

NoSnapshot == Msg("snapshot", 0, {}, NoMovie)
Response == [status : {"active", "completed", "expired"}, gen : Gens]
NoReply == [status |-> "none", gen |-> 0]
Asked == [status |-> "asked", gen |-> 0]
Screen == [status : {"idle", "active", "completed", "expired"}, gen : Gens,
           tally : SUBSET Ballots, winner : Movies \cup {NoMovie}]
Blank == [status |-> "idle", gen |-> 0, tally |-> {}, winner |-> NoMovie]

(* The socket a client uses now, and whether the server can reach it.      *)
Socket(c) == <<c, era[c]>>
Reachable(s) == s = Socket(s[1]) /\ link[s[1]] \in {"accepted", "read", "open"}

-----------------------------------------------------------------------------
(* The session has just been started: nobody but the starter knows its id, *)
(* so that the first session_started has no receiver.                      *)
Init ==
    /\ status = "active" /\ winner = NoMovie /\ gen = 0 /\ votes = {} /\ decided = {}
    /\ task = [t \in Tasks |-> [Idle EXCEPT !.pc = IF t = Clock THEN "armed" ELSE "idle"]]
    /\ conns = <<>>
    /\ link = [c \in Clients |-> "off"]
    /\ era = [c \in Clients |-> 0]
    /\ snap = [c \in Clients |-> NoSnapshot]
    /\ data = [c \in Clients |-> NoReply]
    /\ reply = [c \in Clients |-> NoReply]
    /\ screen = [c \in Clients |-> Blank]
    /\ present = [c \in Clients |-> FALSE]

-----------------------------------------------------------------------------
(* The page and its socket.                                                *)

(* handleMessage and the setters of the store.                             *)
ShownStartsOver(scr, msg) ==                                   \* mutant of Shown
    CASE msg.type = "snapshot"  -> [scr EXCEPT !.gen = msg.gen, !.tally = msg.tally]
      [] msg.type = "started"   -> [scr EXCEPT !.gen = msg.gen, !.status = "active"]
      [] msg.type = "vote"      -> [scr EXCEPT !.tally = msg.tally]
      [] msg.type = "completed" -> [scr EXCEPT !.winner = msg.winner, !.status = "completed"]
      [] msg.type = "expired"   -> [Blank EXCEPT !.status = "expired"]
Shown(scr, msg) ==
    CASE msg.type = "snapshot"  -> [scr EXCEPT !.gen = msg.gen, !.tally = msg.tally]
      [] msg.type = "started"   -> [scr EXCEPT !.gen = msg.gen, !.status = "active"]
      [] msg.type = "vote"      -> [scr EXCEPT !.tally = msg.tally]
      [] msg.type = "completed" -> [scr EXCEPT !.winner = msg.winner, !.status = "completed"]
      [] msg.type = "expired"   -> [scr EXCEPT !.status = "expired"]

(* The effect on the query's data: the store is emptied and gets the       *)
(* candidates and the status; an expired session is shown as "idle", and   *)
(* the winner in the response is not stored.                               *)
Restarted(response) ==
    [Blank EXCEPT !.gen = response.gen,
                  !.status = IF response.status = "expired" THEN "idle" ELSE response.status]

Current == [status |-> status, gen |-> gen]

(* GET of the session; a socket is only opened for an active one.          *)
LoadPage(c) ==
    /\ link[c] = "off"
    /\ data' = [data EXCEPT ![c] = Current]
    /\ screen' = [screen EXCEPT ![c] = Restarted(Current)]
    /\ link' = [link EXCEPT ![c] = IF status = "active" THEN "connecting" ELSE "unused"]
    /\ UNCHANGED <<database, task, conns, era, snap, reply, present>>

(* The query is asked again when the browser is back online ...            *)
QueryAnswered(c) ==
    /\ reply[c] = Asked
    /\ reply' = [reply EXCEPT ![c] = Current]
    /\ UNCHANGED <<database, task, conns, link, era, snap, data, screen, present>>

(* ... and data that differs from the old restarts the page.  The hook     *)
(* closes the socket of a session that is over, but not the timer of a     *)
(* reconnection: the socket that timer opens still feeds the page.         *)
PageRefreshed(c) ==
    /\ reply[c] \in Response
    /\ reply' = [reply EXCEPT ![c] = NoReply]
    /\ data' = [data EXCEPT ![c] = reply[c]]
    /\ screen' = IF reply[c] = data[c] THEN screen
                 ELSE [screen EXCEPT ![c] = Restarted(reply[c])]
    /\ \/ /\ reply[c].status = "active" \/ link[c] \in {"connecting", "unused"}
          /\ UNCHANGED <<link, present>>
       \/ /\ reply[c].status # "active"
          /\ link' = [link EXCEPT ![c] = "unused"]
          /\ present' = [present EXCEPT ![c] = FALSE]
    /\ snap' = IF link'[c] = "unused" THEN [snap EXCEPT ![c] = NoSnapshot] ELSE snap
    /\ UNCHANGED <<database, task, conns, era>>

(* session_socket: accept and register ...                                 *)
SocketAccepted(c) ==
    /\ link[c] = "connecting"
    /\ link' = [link EXCEPT ![c] = "accepted"]
    /\ conns' = Append(conns, Socket(c))
    /\ present' = [present EXCEPT ![c] = status = "active"]
    /\ UNCHANGED <<database, task, era, snap, query, screen>>

(* ... read the candidates and the tally ...                               *)
SnapshotRead(c) ==
    /\ link[c] = "accepted"
    /\ link' = [link EXCEPT ![c] = "read"]
    /\ snap' = [snap EXCEPT ![c] = Msg("snapshot", gen, votes, NoMovie)]
    /\ UNCHANGED <<database, task, conns, era, query, screen, present>>

(* ... and send them; the snapshot says nothing about the status.          *)
SnapshotSent(c) ==
    /\ link[c] = "read"
    /\ link' = [link EXCEPT ![c] = "open"]
    /\ screen' = [screen EXCEPT ![c] = Shown(@, snap[c])]
    /\ snap' = [snap EXCEPT ![c] = NoSnapshot]
    /\ UNCHANGED <<database, task, conns, era, query, present>>

(* The connection is lost with what was under way; the hook reconnects     *)
(* after its backoff, whatever the store shows, and if the whole network   *)
(* was away the query is asked again.                                      *)
Drop(c) ==
    /\ c \in Flaky /\ link[c] = "open" /\ era[c] < MaxDrops
    /\ link' = [link EXCEPT ![c] = "connecting"]
    /\ era' = [era EXCEPT ![c] = @ + 1]
    /\ present' = [present EXCEPT ![c] = FALSE]
    /\ \E r \in {reply[c], IF c \in Offline /\ reply[c] = NoReply THEN Asked ELSE reply[c]} :
        reply' = [reply EXCEPT ![c] = r]
    /\ UNCHANGED <<database, task, conns, snap, data, screen>>

(* The endpoint notices the disconnect: manager.disconnect.  A socket is   *)
(* registered once.                                                        *)
ServerForgets(s) ==
    /\ ~Reachable(s)
    /\ \E i \in 1 .. Len(conns) :
        /\ conns[i] = s
        /\ conns' = SubSeq(conns, 1, i - 1) \o SubSeq(conns, i + 1, Len(conns))
    /\ UNCHANGED <<database, task, link, era, snap, query, screen, present>>

-----------------------------------------------------------------------------
(* WebSocketManager.broadcast: the list of targets is copied under the     *)
(* lock, and every send is awaited.                                        *)

BroadcastStarts(t) ==
    /\ task[t].pc = "cast" /\ task[t].targets = <<>> /\ task[t].queue # <<>>
    /\ task' = [task EXCEPT ![t].current = Head(task[t].queue),
                            ![t].queue = Tail(@),
                            ![t].targets = conns]
    /\ UNCHANGED <<database, sockets, screen>>

(* A send that raises is logged and the next target is served.             *)
SendNextStops(t) ==                                            \* mutant of SendNext
    /\ task[t].pc = "cast" /\ task[t].targets # <<>>
    /\ LET s == Head(task[t].targets) IN
        IF Reachable(s)
        THEN /\ screen' = [screen EXCEPT ![s[1]] = Shown(@, task[t].current)]
             /\ task' = [task EXCEPT ![t].targets = Tail(@)]
        ELSE /\ task' = [task EXCEPT ![t].targets = <<>>]
             /\ UNCHANGED screen
    /\ UNCHANGED <<database, sockets>>
SendNextWaits(t) ==                                            \* mutant of SendNext
    /\ task[t].pc = "cast" /\ task[t].targets # <<>>
    /\ LET s == Head(task[t].targets) IN
        /\ Reachable(s)
        /\ screen' = [screen EXCEPT ![s[1]] = Shown(@, task[t].current)]
    /\ task' = [task EXCEPT ![t].targets = Tail(@)]
    /\ UNCHANGED <<database, sockets>>
SendNext(t) ==
    /\ task[t].pc = "cast" /\ task[t].targets # <<>>
    /\ LET s == Head(task[t].targets) IN
        screen' = IF Reachable(s)
                  THEN [screen EXCEPT ![s[1]] = Shown(@, task[t].current)]
                  ELSE screen
    /\ task' = [task EXCEPT ![t].targets = Tail(@)]
    /\ UNCHANGED <<database, sockets>>

BroadcastEnds(t) ==
    /\ task[t].pc = "cast" /\ task[t].targets = <<>> /\ task[t].queue = <<>>
    /\ task' = [task EXCEPT ![t] = [Idle EXCEPT !.pc = IF t = Clock THEN "done" ELSE "idle"]]
    /\ UNCHANGED <<database, sockets, screen>>

-----------------------------------------------------------------------------
(* The vote handler.                                                       *)

(* The cards and the reroll button are enabled on a page of status active. *)
Voting(c) == link[c] \notin {"off", "unused"} /\ screen[c].status = "active"

(* A vote may be cast anew, for another choice or the same, and nothing    *)
(* waits for the answer to the one before.                                 *)
BeginVote(t, c) ==
    /\ task[t].pc = "idle"
    /\ Voting(c) /\ status = "active"
    /\ task' = [task EXCEPT ![t] = [Idle EXCEPT !.pc = "vote", !.by = c, !.gen = screen[c].gen]]
    /\ UNCHANGED <<database, sockets, screen>>

(* The flush, the tally, and the decision to finalize, inside the          *)
(* transaction.  The unique index holds an INSERT back while another       *)
(* request inserts the same vote.                                          *)
VoteTally(t) ==
    /\ task[t].pc = "vote"
    /\ LET ballot == <<task[t].by, task[t].gen>>
           tally == votes \cup {ballot} IN
        /\ \A u \in Requests : ballot \notin task[u].insert
        /\ \E m \in IF Cardinality(tally) >= Cardinality(Clients) THEN Movies ELSE {NoMovie} :
            task' = [task EXCEPT ![t].pc = "commit", ![t].tally = tally, ![t].pick = m,
                                 ![t].insert = {ballot} \ votes]
    /\ UNCHANGED <<database, sockets, screen>>

(* The same vote has been inserted or the one that was read deleted        *)
(* meanwhile, or the database raises: rolled back.                         *)
VoteFails(t) ==
    /\ task[t].pc = "vote"
    /\ task' = [task EXCEPT ![t] = Idle]
    /\ UNCHANGED <<database, sockets, screen>>

Completed(m) == IF m = NoMovie THEN <<>> ELSE <<Msg("completed", 0, {}, m)>>

(* The commit; then vote_cast, and session_completed if it finalized.      *)
VoteAnnouncedFirst(t) ==                                       \* mutant of VoteCommit
    /\ task[t].pc = "commit"
    /\ votes' = votes \cup task[t].insert
    /\ task' = [task EXCEPT ![t] =
                  [Idle EXCEPT !.pc = "cast",
                               !.queue = <<Msg("vote", 0, task[t].tally, NoMovie)>>
                                             \o Completed(task[t].pick)]]
    /\ UNCHANGED <<status, winner, gen, decided, sockets, screen>>
VoteCommit(t) ==
    /\ task[t].pc = "commit"
    /\ votes' = votes \cup task[t].insert
    /\ IF task[t].pick # NoMovie
       THEN status' = "completed" /\ winner' = task[t].pick /\ decided' = decided \cup {winner'}
       ELSE UNCHANGED <<status, winner, decided>>
    /\ task' = [task EXCEPT ![t] =
                  [Idle EXCEPT !.pc = "cast",
                               !.queue = <<Msg("vote", 0, task[t].tally, NoMovie)>>
                                             \o Completed(task[t].pick)]]
    /\ UNCHANGED <<gen, sockets, screen>>

-----------------------------------------------------------------------------
(* The reroll handler.                                                     *)

(* The button is disabled until the answer to the last one.                *)
Rerolling(c) == \E t \in Requests : task[t].by = c /\ task[t].pc \in {"reroll", "cast"}

BeginReroll(t, c) ==
    /\ task[t].pc = "idle"
    /\ Voting(c) /\ ~Rerolling(c) /\ status = "active"
    /\ task' = [task EXCEPT ![t] = [Idle EXCEPT !.pc = "reroll", !.by = c]]
    /\ UNCHANGED <<database, sockets, screen>>

RerollFails(t) ==
    /\ task[t].pc = "reroll"
    /\ task' = [task EXCEPT ![t] = Idle]
    /\ UNCHANGED <<database, sockets, screen>>

RerollCommit(t) ==
    /\ task[t].pc = "reroll" /\ gen < MaxRerolls
    /\ gen' = gen + 1
    /\ votes' = {}
    /\ task' = [task EXCEPT ![t].pc = "cast",
                            ![t].queue = <<Msg("started", gen + 1, {}, NoMovie)>>]
    /\ UNCHANGED <<status, winner, decided, sockets, screen>>

(* The response, with the candidates of that moment, reaches the page that *)
(* asked, which also clears its tally.  The others keep theirs.            *)
RerollAnswered(t) ==
    /\ task[t].pc = "cast" /\ task[t].current.type = "started"
    /\ task[t].targets = <<>> /\ task[t].queue = <<>>
    /\ screen' = [screen EXCEPT ![task[t].by].gen = gen, ![task[t].by].tally = {}]
    /\ task' = [task EXCEPT ![t] = Idle]
    /\ UNCHANGED <<database, sockets>>

-----------------------------------------------------------------------------
(* The timeout task: expire_and_broadcast.                                 *)

TimerReads ==
    /\ Timeout /\ task[Clock].pc = "armed"
    /\ IF status = "active"
       THEN \E m \in IF votes = {} THEN {NoMovie} ELSE Movies :
              task' = [task EXCEPT ![Clock].pc = "commit", ![Clock].pick = m]
       ELSE task' = [task EXCEPT ![Clock].pc = "done"]
    /\ UNCHANGED <<database, sockets, screen>>

TimerCommitsSilently ==                                        \* mutant of TimerCommits
    /\ task[Clock].pc = "commit"
    /\ LET m == task[Clock].pick IN
        IF m # NoMovie
        THEN /\ status' = "completed" /\ winner' = m /\ decided' = decided \cup {m}
             /\ task' = [task EXCEPT ![Clock].pc = "cast", ![Clock].queue = Completed(m)]
        ELSE /\ status' = "expired" /\ UNCHANGED <<winner, decided>>
             /\ task' = [task EXCEPT ![Clock].pc = "done"]
    /\ UNCHANGED <<gen, votes, sockets, screen>>
TimerCommits ==
    /\ task[Clock].pc = "commit"
    /\ LET m == task[Clock].pick IN
        IF m # NoMovie
        THEN /\ status' = "completed" /\ winner' = m /\ decided' = decided \cup {m}
             /\ task' = [task EXCEPT ![Clock].pc = "cast", ![Clock].queue = Completed(m)]
        ELSE /\ status' = "expired" /\ UNCHANGED <<winner, decided>>
             /\ task' = [task EXCEPT ![Clock].pc = "cast",
                                     ![Clock].queue = <<Msg("expired", 0, {}, NoMovie)>>]
    /\ UNCHANGED <<gen, votes, sockets, screen>>

-----------------------------------------------------------------------------
Answered(t) == IF task[t].current.type = "started" THEN RerollAnswered(t) ELSE BroadcastEnds(t)
Cast(t) == BroadcastStarts(t) \/ SendNext(t) \/ Answered(t)

Handler(t) == \/ VoteTally(t) \/ VoteFails(t) \/ VoteCommit(t)
              \/ RerollFails(t) \/ RerollCommit(t) \/ Cast(t)
Timer == TimerReads \/ TimerCommits \/ Cast(Clock)
Connect(c) == SocketAccepted(c) \/ SnapshotRead(c) \/ SnapshotSent(c)

Next ==
    \/ \E c \in Clients :
        \/ LoadPage(c) \/ QueryAnswered(c) \/ PageRefreshed(c)
        \/ Connect(c) \/ Drop(c)
        \/ \E t \in Requests : BeginVote(t, c) \/ BeginReroll(t, c)
    \/ \E t \in Requests : Handler(t)
    \/ \E s \in Sockets : ServerForgets(s)
    \/ Timer

Spec == Init /\ [][Next]_vars

(* A handler, the endpoint of a socket and the event loop of a browser run *)
(* on; nobody has to load the page, to vote or to reroll.                  *)
Fairness ==
    /\ \A c \in Clients : WF_vars(Connect(c))
    /\ \A t \in Requests : WF_vars(Handler(t))
    /\ WF_vars(Timer)

FairSpec == Spec /\ Fairness

-----------------------------------------------------------------------------
(* Properties.                                                             *)

TypeOK ==
    /\ status \in {"active", "completed", "expired"}
    /\ winner \in Movies \cup {NoMovie}
    /\ gen \in Gens /\ votes \subseteq Ballots /\ decided \subseteq Movies
    /\ task \in [Tasks -> Task]
    /\ conns \in Seq(Sockets)
    /\ link \in [Clients -> {"off", "unused", "connecting", "accepted", "read", "open"}]
    /\ era \in [Clients -> 0 .. MaxDrops]
    /\ snap \in [Clients -> Message]
    /\ data \in [Clients -> Response \cup {NoReply}]
    /\ reply \in [Clients -> Response \cup {NoReply, Asked}]
    /\ screen \in [Clients -> Screen]
    /\ present \in [Clients -> BOOLEAN]

(* Every handler has answered and every socket is connected.               *)
Quiet ==
    /\ \A t \in Tasks : task[t].pc \in {"idle", "armed", "done"}
    /\ \A c \in Clients : link[c] \in {"off", "unused", "open"}

(* No screen runs ahead of the commits, whatever is broadcast, lost or     *)
(* reconnected: a winner that is shown has been committed, and until a     *)
(* reroll every vote in a tally that is shown has been cast, though        *)
(* tallies are counted inside the transactions and arrive in any order.    *)
NoPhantoms ==
    /\ \A c \in Clients : screen[c].winner \in decided \cup {NoMovie}
    /\ gen = 0 => \A c \in Clients : screen[c].tally \subseteq votes

(* A page whose socket was registered before the session was closed, and   *)
(* has not been lost, shows a winner once everything has settled, though   *)
(* votes cast anew and the timeout may decide again, and even when a       *)
(* message to another page failed: a winner that was committed, and so the *)
(* one in the row if the session was decided once.  (After a reroll the    *)
(* answer to an old query may start the page over.)                        *)
PresentSeeWinner ==
    Quiet /\ status = "completed" /\ gen = 0 =>
        \A c \in Clients : present[c] => screen[c].winner \in decided

(* Expected, and not so: what those pages show is the winner in the row.   *)
(* Two requests may each see all votes, the second because a vote is cast  *)
(* anew, and decide a tie in their own way.                                *)
PresentAgree ==
    Quiet /\ status = "completed" =>
        \A c \in Clients : present[c] => screen[c].winner = winner

(* Every broadcast ends, whatever becomes of the sockets it was meant for: *)
(* a page that is gone does not keep the winner from the others.           *)
BroadcastsEnd == \A t \in Tasks : task[t].pc = "cast" ~> task[t].pc # "cast"

(* Expected, and not so: once shown, a winner stays.  A page may start over.*)
ShownWinnerStays ==
    [][\A c \in Clients : screen[c].winner # NoMovie => screen[c].winner' # NoMovie]_vars

(* Expected, and not so: every page that follows the session shows the     *)
(* winner.                                                                 *)
EveryoneSeesWinner ==
    Quiet /\ status = "completed" =>
        \A c \in Clients : link[c] = "open" => screen[c].winner = winner

(* A page that has been connected since before the end of a session whose  *)
(* candidates were never replaced does not show a running vote when        *)
(* everything has settled.                                                 *)
ClosedScreens ==
    Quiet /\ status # "active" /\ gen = 0 =>
        \A c \in Clients : present[c] => screen[c].status # "active"

(* Expected, and not so: pages connected since before the end show the     *)
(* newest tally.  A snapshot that was read before a vote, or the older of  *)
(* two tallies, may come last.                                             *)
FreshTallies ==
    Quiet /\ gen = 0 => \A c \in Clients : present[c] /\ link[c] = "open" => screen[c].tally = votes

(* Expected, and not so: pages that are connected show the current         *)
(* candidates.                                                             *)
FreshCandidates ==
    Quiet => \A c \in Clients : link[c] = "open" => screen[c].gen = gen

=============================================================================
