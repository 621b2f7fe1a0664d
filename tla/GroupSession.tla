---------------------------- MODULE GroupSession ----------------------------
(***************************************************************************)
(* One voting session of one group, as backend/app/services/               *)
(* group_service.py runs it behind the HTTP handlers of                    *)
(* backend/app/routers/groups.py and the timeout task of                   *)
(* backend/app/routers/websocket.py.                                       *)
(*                                                                         *)
(* Every request runs in its own database transaction (READ COMMITTED, no  *)
(* SELECT ... FOR UPDATE anywhere in the code) and gives up the event loop *)
(* at every await, so a request is a worker with a program counter: one    *)
(* action per statement whose result or effect another request can tell    *)
(* apart.  What a transaction has written and not committed is kept in its *)
(* worker; everybody else reads the committed tables.                      *)
(*                                                                         *)
(*   status, winner   the row of group_sessions (completed_at is assigned  *)
(*                    with every change of status and never read)          *)
(*   votes            the committed rows of session_votes                  *)
(*   role             the rows of group_members                            *)
(*   cands            the Redis key session:{id}:candidates                *)
(*   shown            every candidate some screen may still display        *)
(*   foreign          movies voted on that have never been candidates      *)
(*   announced        the starter has the response: the id is known        *)
(*   timer, verdict   the task in _session_timeout_tasks and its local     *)
(*   req              the requests in flight                               *)
(*   faults           how many faults have happened (bounded)              *)
(***************************************************************************)
EXTENDS Integers, FiniteSets

CONSTANTS
    Users,       \* the users who can ever be members of the group
    Owner,       \* the user who created it
    Movers,      \* the users who join or leave during the session
    Rated,       \* the users with at least MIN_RATINGS_PER_MEMBER ratings
    Movies,      \* the rows of the movies table
    Choices,     \* the vote choices in use, a subset of VoteChoice
    Workers,     \* request slots: how many requests overlap
    RerollCap,   \* the 5 of reroll_session_candidates; 0 forbids a reroll
    MaxFaults,   \* bound on crashes and failed calls
    NoMovie, NoRow

VoteChoice == {"yes", "maybe", "no"}

ASSUME UsersAssumption ==
    /\ IsFiniteSet(Users) /\ Owner \in Users
    /\ Movers \subseteq Users /\ Rated \subseteq Users
ASSUME MoviesAssumption ==
    /\ IsFiniteSet(Movies) /\ NoMovie \notin Movies
    /\ Choices \subseteq VoteChoice
ASSUME BoundsAssumption == RerollCap \in Nat /\ MaxFaults \in Nat

Row == [user : Users, movie : Movies, vote : Choices]

ASSUME NoRowAssumption == NoRow \notin Row

VARIABLES status, winner, votes, role, cands, shown, foreign, announced,
          timer, verdict, req, faults

sessionRow == <<status, winner>>
vars == <<status, winner, votes, role, cands, shown, foreign, announced,
          timer, verdict, req, faults>>

Steps == {"idle",
          "start_ai", "start_commit",
          "vote_read", "vote_flush", "vote_count", "vote_tally",
          "vote_resolve", "vote_commit",
          "reroll_ai", "reroll_delete", "reroll_cache", "reroll_commit"}

Key == [user : Users, movie : Movies]

(* What a request carries from one await to the next.                      *)
Request == [pc       : Steps,
            row      : Row \cup {NoRow},          \* the vote being cast
            prior    : VoteChoice \cup {"absent", "wiped"},
            write    : {"none", "insert", "update"},
            expected : Nat,
            pick     : Movies \cup {NoMovie},
            batch    : SUBSET Movies,
            todo     : SUBSET Key,        \* the votes a DELETE has yet to reach
            wipe     : SUBSET Row]        \* those it has deleted

Idle == [pc |-> "idle", row |-> NoRow, prior |-> "absent", write |-> "none",
         expected |-> 0, pick |-> NoMovie, batch |-> {}, todo |-> {}, wipe |-> {}]

Decided == {"completed", "expired"}
Members == {u \in Users : role[u] # "none"}

SameKey(r, s) == r.user = s.user /\ r.movie = s.movie
KeyOf(r) == [user |-> r.user, movie |-> r.movie]

(* The table as the transaction of w sees it: its own flushed row, inserted *)
(* or put in the place of the one it updates, over the committed ones.      *)
Replaced(w) == {r \in votes : req[w].write = "update" /\ SameKey(r, req[w].row)}
Written(w) == IF req[w].write = "none" THEN {} ELSE {req[w].row}
View(w) == (votes \ Replaced(w)) \cup Written(w)

(* The transaction of v holds the row lock (or the unique-index entry) of  *)
(* the vote r.                                                             *)
HoldsKey(v, r) ==
    \/ req[v].write # "none" /\ SameKey(req[v].row, r)
    \/ \E s \in req[v].wipe : SameKey(s, r)

LockedByNobody(w, r) == FALSE                                   \* mutant of Locked
Locked(w, r) == \E v \in Workers \ {w} : HoldsKey(v, r)

-----------------------------------------------------------------------------
(* build_vote_tally and _resolve_winner: the movies of highest score among *)
(* the movies that have a row.  GROUP BY promises no order, so a tie is    *)
(* broken either way.                                                      *)

Count(rows, m, c) == Cardinality({r \in rows : r.movie = m /\ r.vote = c})
Score(rows, m) == 2 * Count(rows, m, "yes") + Count(rows, m, "maybe")
VotedOn(rows) == {r.movie : r \in rows}
LeadersByVotes(rows) ==                                        \* mutants of Leaders
    {m \in VotedOn(rows) : \A n \in VotedOn(rows) :
        Cardinality({r \in rows : r.movie = n}) <= Cardinality({r \in rows : r.movie = m})}
LeadersOfCatalogue(rows) ==
    {m \in Movies : \A n \in Movies : Score(rows, n) <= Score(rows, m)}
Leaders(rows) ==
    {m \in VotedOn(rows) : \A n \in VotedOn(rows) : Score(rows, n) <= Score(rows, m)}

-----------------------------------------------------------------------------
Init ==
    /\ status = "none"
    /\ winner = NoMovie
    /\ votes = {}
    /\ role \in {r \in [Users -> {"owner", "member", "none"}] :
                    \A u \in Users : r[u] = "owner" <=> u = Owner}
    /\ cands = {}
    /\ shown = {}
    /\ foreign = {}
    /\ announced = FALSE
    /\ timer = "unset"
    /\ verdict = NoMovie
    /\ req = [w \in Workers |-> Idle]
    /\ faults = 0

-----------------------------------------------------------------------------
(* start_session and the start handler.                                    *)

Starting == \E w \in Workers : req[w].pc \in {"start_ai", "start_commit"}

(* Membership, rating counts, profiles, history; then the row is added and *)
(* flushed, still uncommitted.  Its id, and so its Redis key, is new: what *)
(* an attempt that failed has cached is under another.                     *)
BeginStart(w, u) ==
    /\ req[w].pc = "idle"
    /\ status = "none" /\ ~Starting
    /\ u \in Members
    /\ Members \subseteq Rated
    /\ cands' = {}
    /\ req' = [req EXCEPT ![w].pc = "start_ai"]
    /\ UNCHANGED <<sessionRow, votes, role, shown, foreign, announced, timer, verdict, faults>>

(* While the picks are resolved, fetch_and_cache_movie commits each movie  *)
(* it stores; the first such commit also commits the flushed session row.  *)
StartMovieSaved(w) ==
    /\ req[w].pc = "start_ai"
    /\ status = "none"
    /\ status' = "active"
    /\ UNCHANGED <<winner, votes, role, cands, shown, foreign, announced, timer, verdict, req, faults>>

(* The candidates are cached in Redis before the commit.                   *)
StartCandidates(w) ==
    /\ req[w].pc = "start_ai"
    /\ \E picks \in (SUBSET Movies) \ {{}} :
        /\ cands' = picks
        /\ req' = [req EXCEPT ![w].pc = "start_commit", ![w].batch = picks]
    /\ UNCHANGED <<sessionRow, votes, role, shown, foreign, announced, timer, verdict, faults>>

(* No usable pick, an upstream error, or a session left unusable by a      *)
(* failed flush of a movie: what was not committed is rolled back.         *)
StartFails(w) ==
    /\ req[w].pc = "start_ai"
    /\ req' = [req EXCEPT ![w] = Idle]
    /\ UNCHANGED <<sessionRow, votes, role, cands, shown, foreign, announced, timer, verdict, faults>>

(* Commit; the handler arms the timeout and answers the starter with the   *)
(* candidates it has picked.                                               *)
StartCommitUntimed(w) ==                                       \* mutant of StartCommit
    /\ req[w].pc = "start_commit"
    /\ status' = "active"
    /\ announced' = TRUE
    /\ shown' = shown \cup req[w].batch
    /\ req' = [req EXCEPT ![w] = Idle]
    /\ UNCHANGED <<winner, votes, role, cands, foreign, timer, verdict, faults>>
StartCommit(w) ==
    /\ req[w].pc = "start_commit"
    /\ status' = "active"
    /\ announced' = TRUE
    /\ shown' = shown \cup req[w].batch
    /\ timer' = "armed"
    /\ req' = [req EXCEPT ![w] = Idle]
    /\ UNCHANGED <<winner, votes, role, cands, foreign, verdict, faults>>

-----------------------------------------------------------------------------
(* cast_vote, statement by statement.                                      *)

(* _ensure_member and the status check.  The movie is any row of the       *)
(* movies table: nothing compares it with the candidates.  A screen may    *)
(* show candidates that a reroll has replaced, or (SocketHook) those of    *)
(* the session of another page.                                            *)
BeginVote(w, u, m, c) ==
    /\ req[w].pc = "idle"
    /\ announced
    /\ u \in Members
    /\ status = "active"
    /\ foreign' = foreign \cup ({m} \ shown)
    /\ req' = [req EXCEPT ![w] = [Idle EXCEPT !.pc = "vote_read",
                                              !.row = [user |-> u, movie |-> m, vote |-> c]]]
    /\ UNCHANGED <<sessionRow, votes, role, cands, shown, announced, timer, verdict, faults>>

(* SELECT the user's earlier vote on that movie.                           *)
VoteRead(w) ==
    /\ req[w].pc = "vote_read"
    /\ \/ /\ \A r \in votes : ~SameKey(r, req[w].row)
          /\ req' = [req EXCEPT ![w].pc = "vote_flush"]
       \/ \E r \in votes :
            /\ SameKey(r, req[w].row)
            /\ req' = [req EXCEPT ![w].pc = "vote_flush", ![w].prior = r.vote]
    /\ UNCHANGED <<sessionRow, votes, role, cands, shown, foreign, announced, timer, verdict, faults>>

(* INSERT; the unique index makes it wait for a transaction that holds the *)
(* same key, and fail when a row with that key has been committed.         *)
VoteInsert(w) ==
    /\ req[w].pc = "vote_flush" /\ req[w].prior = "absent"
    /\ ~Locked(w, req[w].row)
    /\ IF \E r \in votes : SameKey(r, req[w].row)
       THEN req' = [req EXCEPT ![w] = Idle]
       ELSE req' = [req EXCEPT ![w].pc = "vote_count", ![w].write = "insert"]
    /\ UNCHANGED <<sessionRow, votes, role, cands, shown, foreign, announced, timer, verdict, faults>>

(* UPDATE of the row that was read, or no statement at all when the choice *)
(* is the one it already holds.                                            *)
VoteUpdate(w) ==
    /\ req[w].pc = "vote_flush" /\ req[w].prior \in VoteChoice
    /\ IF req[w].prior = req[w].row.vote
       THEN req' = [req EXCEPT ![w].pc = "vote_count"]
       ELSE /\ ~Locked(w, req[w].row)
            /\ req' = [req EXCEPT ![w].pc = "vote_count", ![w].write = "update"]
    /\ UNCHANGED <<sessionRow, votes, role, cands, shown, foreign, announced, timer, verdict, faults>>

(* The row that was read is gone: the UPDATE matches nothing and the flush *)
(* raises StaleDataError.                                                  *)
VoteStaleRetries(w) ==                                         \* mutant of VoteStale
    /\ req[w].pc = "vote_flush" /\ req[w].prior = "wiped"
    /\ UNCHANGED vars
VoteStale(w) ==
    /\ req[w].pc = "vote_flush" /\ req[w].prior = "wiped"
    /\ req' = [req EXCEPT ![w] = Idle]
    /\ UNCHANGED <<sessionRow, votes, role, cands, shown, foreign, announced, timer, verdict, faults>>

(* maybe_finalize_session: the candidates from Redis and the member count, *)
(* multiplied ...                                                          *)
ExpectedOffByOne == Cardinality(Members) * Cardinality(cands) - 1 \* mutant of Expected
Expected == Cardinality(Members) * Cardinality(cands)

VoteExpected(w) ==
    /\ req[w].pc = "vote_count"
    /\ req' = [req EXCEPT ![w].pc = "vote_tally", ![w].expected = Expected]
    /\ UNCHANGED <<sessionRow, votes, role, cands, shown, foreign, announced, timer, verdict, faults>>

(* ... then the number of votes, which is compared with that product.      *)
AllVotesIn(w) ==
    req[w].expected # 0 /\ Cardinality(View(w)) >= req[w].expected

VoteTally(w) ==
    /\ req[w].pc = "vote_tally"
    /\ req' = [req EXCEPT ![w].pc = IF AllVotesIn(w) THEN "vote_resolve" ELSE "vote_commit"]
    /\ UNCHANGED <<sessionRow, votes, role, cands, shown, foreign, announced, timer, verdict, faults>>

(* _resolve_winner over a fresh read of the table.                         *)
VoteResolve(w) ==
    /\ req[w].pc = "vote_resolve"
    /\ \/ /\ View(w) = {}
          /\ req' = [req EXCEPT ![w].pc = "vote_commit"]
       \/ \E m \in Leaders(View(w)) :
            req' = [req EXCEPT ![w].pc = "vote_commit", ![w].pick = m]
    /\ UNCHANGED <<sessionRow, votes, role, cands, shown, foreign, announced, timer, verdict, faults>>

(* The UPDATE of the session row names its primary key only; it and the    *)
(* commit are one step, since the row lock hides what is between them.     *)
VoteCommit(w) ==
    /\ req[w].pc = "vote_commit"
    /\ votes' = View(w)
    /\ IF req[w].pick # NoMovie
       THEN status' = "completed" /\ winner' = req[w].pick
       ELSE UNCHANGED sessionRow
    /\ req' = [req EXCEPT ![w] = Idle]
    /\ UNCHANGED <<role, cands, shown, foreign, announced, timer, verdict, faults>>

-----------------------------------------------------------------------------
(* reroll_session_candidates.                                              *)

(* Membership and status checks, then the current candidates from Redis.   *)
BeginReroll(w, u) ==
    /\ req[w].pc = "idle"
    /\ announced
    /\ u \in Members
    /\ status = "active"
    /\ req' = [req EXCEPT ![w].pc = "reroll_ai", ![w].batch = cands]
    /\ UNCHANGED <<sessionRow, votes, role, cands, shown, foreign, announced, timer, verdict, faults>>

(* New picks outside the old ones; then the DELETE begins.  It will look   *)
(* at the votes that are committed now, and not see a row that another     *)
(* transaction inserts or has inserted without committing it.              *)
RerollPicks(w) ==
    /\ req[w].pc = "reroll_ai"
    /\ \E picks \in (SUBSET (Movies \ req[w].batch)) \ {{}} :
        /\ Cardinality(picks) <= RerollCap
        /\ req' = [req EXCEPT ![w].pc = "reroll_delete", ![w].batch = picks,
                              ![w].todo = {KeyOf(r) : r \in votes}]
    /\ UNCHANGED <<sessionRow, votes, role, cands, shown, foreign, announced, timer, verdict, faults>>

(* The DELETE takes one row after the other, in no order SQL would promise *)
(* (an updated row moves), waits at a row another transaction has locked,  *)
(* and keeps those it has.  A row updated meanwhile is deleted as it is    *)
(* now.                                                                    *)
RerollLocks(w) ==
    /\ req[w].pc = "reroll_delete"
    /\ \E k \in req[w].todo : \E r \in votes :
        /\ SameKey(r, k) /\ ~Locked(w, r)
        /\ req' = [req EXCEPT ![w].todo = @ \ {k}, ![w].wipe = @ \cup {r}]
    /\ UNCHANGED <<sessionRow, votes, role, cands, shown, foreign, announced, timer, verdict, faults>>

RerollDeleted(w) ==
    /\ req[w].pc = "reroll_delete" /\ req[w].todo = {}
    /\ req' = [req EXCEPT ![w].pc = "reroll_cache"]
    /\ UNCHANGED <<sessionRow, votes, role, cands, shown, foreign, announced, timer, verdict, faults>>

(* The DELETE of w may be waiting for v.  In a circle each waits for       *)
(* another one, and PostgreSQL ends one of the transactions.               *)
DeleteWaitsFor(w, v) ==
    /\ v # w /\ req[w].pc = "reroll_delete"
    /\ \E k \in req[w].todo : HoldsKey(v, k)

Circle(C) == \A v \in C : \E u \in C : DeleteWaitsFor(v, u)
InCircle(w) ==
    req[w].pc = "reroll_delete" /\ \E C \in SUBSET Workers : w \in C /\ Circle(C)

(* No new pick, an upstream error, a deadlock or a Redis error: rolled     *)
(* back.                                                                   *)
RerollFails(w) ==
    /\ req[w].pc \in {"reroll_ai", "reroll_cache"} \/ InCircle(w)
    /\ req' = [req EXCEPT ![w] = Idle]
    /\ UNCHANGED <<sessionRow, votes, role, cands, shown, foreign, announced, timer, verdict, faults>>

RerollCache(w) ==
    /\ req[w].pc = "reroll_cache"
    /\ cands' = req[w].batch
    /\ shown' = shown \cup req[w].batch
    /\ foreign' = foreign \ req[w].batch
    /\ req' = [req EXCEPT ![w].pc = "reroll_commit", ![w].batch = {}]
    /\ UNCHANGED <<sessionRow, votes, role, announced, timer, verdict, faults>>

(* A vote that has read one of the wiped rows and still has to update it.  *)
LosesRow(v, wipe) ==
    /\ req[v].pc = "vote_flush"
    /\ req[v].prior \in VoteChoice /\ req[v].prior # req[v].row.vote
    /\ \E r \in wipe : SameKey(r, req[v].row)

(* The commit.  A DELETE that has yet to reach one of these rows finds it  *)
(* gone; a row voted anew under its key is not of its snapshot.            *)
RerollCommit(w) ==
    /\ req[w].pc = "reroll_commit"
    /\ votes' = votes \ req[w].wipe
    /\ req' = [v \in Workers |->
                 IF v = w THEN Idle
                 ELSE IF LosesRow(v, req[w].wipe) THEN [req[v] EXCEPT !.prior = "wiped"]
                 ELSE IF req[v].pc = "reroll_delete"
                      THEN [req[v] EXCEPT !.todo = @ \ {KeyOf(r) : r \in req[w].wipe}]
                 ELSE req[v]]
    /\ UNCHANGED <<sessionRow, role, cands, shown, foreign, announced, timer, verdict, faults>>

-----------------------------------------------------------------------------
(* schedule_session_timeout, expire_and_broadcast and                      *)
(* expire_session_if_overdue.  The task sleeps for the whole timeout after *)
(* the row was created, so the age check passes when it wakes up.          *)

TimerFiresTooEarly ==                                          \* mutant of TimerFires
    /\ timer = "armed"
    /\ timer' = "unset"
    /\ UNCHANGED <<sessionRow, votes, role, cands, shown, foreign, announced, verdict, req, faults>>
TimerFires ==
    /\ timer = "armed"
    /\ timer' = IF status = "active" THEN "overdue" ELSE "unset"
    /\ UNCHANGED <<sessionRow, votes, role, cands, shown, foreign, announced, verdict, req, faults>>

TimerResolves ==
    /\ timer = "overdue"
    /\ \/ votes = {} /\ UNCHANGED verdict
       \/ \E m \in Leaders(votes) : verdict' = m
    /\ timer' = "closing"
    /\ UNCHANGED <<sessionRow, votes, role, cands, shown, foreign, announced, req, faults>>

(* With no vote the winner column is not assigned, whatever it holds.      *)
TimerCommitsNoWinner ==                                        \* mutant of TimerCommits
    /\ timer = "closing"
    /\ status' = (IF verdict # NoMovie THEN "completed" ELSE "expired")
    /\ winner' = verdict
    /\ timer' = "unset"
    /\ verdict' = NoMovie
    /\ UNCHANGED <<votes, role, cands, shown, foreign, announced, req, faults>>
TimerCommits ==
    /\ timer = "closing"
    /\ IF verdict # NoMovie
       THEN status' = "completed" /\ winner' = verdict
       ELSE status' = "expired" /\ UNCHANGED winner
    /\ timer' = "unset"
    /\ verdict' = NoMovie
    /\ UNCHANGED <<votes, role, cands, shown, foreign, announced, req, faults>>

-----------------------------------------------------------------------------
(* join_group_by_code and leave_group while the session runs.  Of the      *)
(* group the session only knows its contract, which GroupMembership        *)
(* implements statement by statement; with it an owner may be gone while   *)
(* others remain, as happens when somebody joins after the owner's check.  *)
Group == INSTANCE Membership WITH founded <- TRUE

Join(u) ==
    /\ Group!Join(u)
    /\ UNCHANGED <<sessionRow, votes, cands, shown, foreign, announced, timer, verdict, req, faults>>

Leave(u) ==
    /\ Group!Leave(u)
    /\ UNCHANGED <<sessionRow, votes, cands, shown, foreign, announced, timer, verdict, req, faults>>

-----------------------------------------------------------------------------
(* Faults, at most MaxFaults of them.                                      *)

(* The process restarts: requests and the timeout task are gone, and       *)
(* nothing at startup arms it again.                                       *)
Crash ==
    /\ req' = [w \in Workers |-> Idle]
    /\ timer' = "unset"
    /\ verdict' = NoMovie
    /\ UNCHANGED <<sessionRow, votes, role, cands, shown, foreign, announced>>

(* A database or Redis call of a request raises: get_db rolls back.        *)
RequestError(w) ==
    /\ req[w].pc # "idle"
    /\ req' = [req EXCEPT ![w] = Idle]
    /\ UNCHANGED <<sessionRow, votes, role, cands, shown, foreign, announced, timer, verdict>>

(* A call of the timeout task raises: _runner drops the task.  (So does    *)
(* an age check that fails because the clocks of the service and of the    *)
(* database disagree; both end with the session active and no timer.)      *)
TimerError ==
    /\ timer \in {"armed", "overdue", "closing"}
    /\ timer' = "unset"
    /\ verdict' = NoMovie
    /\ UNCHANGED <<sessionRow, votes, role, cands, shown, foreign, announced, req>>

(* Redis loses the key.                                                    *)
RedisLoss ==
    /\ cands # {}
    /\ cands' = {}
    /\ UNCHANGED <<sessionRow, votes, role, shown, foreign, announced, timer, verdict, req>>

Fault ==
    /\ faults < MaxFaults
    /\ faults' = faults + 1
    /\ \/ Crash
       \/ \E w \in Workers : RequestError(w)
       \/ TimerError
       \/ RedisLoss

-----------------------------------------------------------------------------
Start(w) == StartMovieSaved(w) \/ StartCandidates(w) \/ StartFails(w) \/ StartCommit(w)
Vote(w) == \/ VoteRead(w) \/ VoteInsert(w) \/ VoteUpdate(w) \/ VoteStale(w)
           \/ VoteExpected(w) \/ VoteTally(w) \/ VoteResolve(w) \/ VoteCommit(w)
Reroll(w) == \/ RerollPicks(w) \/ RerollLocks(w) \/ RerollDeleted(w)
             \/ RerollFails(w) \/ RerollCache(w) \/ RerollCommit(w)

(* A request that has begun takes its next step.                           *)
Progress(w) == Start(w) \/ Vote(w) \/ Reroll(w)

Begin(w) ==
    \E u \in Users :
        \/ BeginStart(w, u)
        \/ BeginReroll(w, u)
        \/ \E m \in Movies, c \in Choices : BeginVote(w, u, m, c)

Timer == TimerFires \/ TimerResolves \/ TimerCommits

Next ==
    \/ \E w \in Workers : Begin(w) \/ Progress(w)
    \/ Timer
    \/ \E u \in Movers : Join(u) \/ Leave(u)
    \/ Fault

Spec == Init /\ [][Next]_vars

(* The event loop resumes every task whose await is over: client and       *)
(* database calls all end, with a result or with a timeout error, and      *)
(* asyncio.sleep ends.  Nobody has to begin a request, join or leave.      *)
Fairness == /\ \A w \in Workers : WF_vars(Progress(w))
            /\ WF_vars(Timer)

FairSpec == Spec /\ Fairness

-----------------------------------------------------------------------------
(* Properties.                                                             *)

(* Every variable keeps its type; expected counts stay natural numbers.    *)
TypeOK ==
    /\ status \in {"none", "active"} \cup Decided
    /\ winner \in Movies \cup {NoMovie}
    /\ votes \subseteq Row
    /\ role \in [Users -> {"owner", "member", "none"}]
    /\ cands \subseteq Movies
    /\ shown \subseteq Movies
    /\ foreign \subseteq Movies
    /\ announced \in BOOLEAN
    /\ timer \in {"unset", "armed", "overdue", "closing"}
    /\ verdict \in Movies \cup {NoMovie}
    /\ req \in [Workers -> Request]
    /\ faults \in Nat

(* However votes and rerolls interleave between the SELECT, the flush and  *)
(* the commit of cast_vote, a member has at most one committed vote on a   *)
(* movie: the tally counts nobody twice.                                   *)
UniqueVotes == \A r, s \in votes : SameKey(r, s) => r = s

(* What the group has been asked, or has brought in itself.                *)
PutToVote == shown \cup foreign

(* The movie that wins, in the row or about to be written to it, is one    *)
(* that was offered to the group or that a member has named in a vote on   *)
(* this session, through any number of rerolls, timeouts and crashes.      *)
WinnerWasPutToVote ==
    /\ winner # NoMovie => winner \in PutToVote
    /\ verdict # NoMovie => verdict \in PutToVote
    /\ \A w \in Workers : req[w].pick # NoMovie => req[w].pick \in PutToVote

(* Expected, and not so: only a candidate wins.                            *)
WinnerWasOffered == winner # NoMovie => winner \in shown

(* Without faults a session whose id is known and that is still active has *)
(* a timeout task that will close it: there is no window between the       *)
(* handler's commit and schedule_session_timeout, nor a path of the task   *)
(* that gives up.                                                          *)
TimerGuardsSession ==
    announced /\ status = "active" /\ faults = 0 => timer # "unset"

(* maybe_finalize_session compares two numbers; while nobody leaves, no    *)
(* reroll has replaced the candidates and no vote names another movie,     *)
(* equal numbers mean that every member has voted on every candidate.  (A  *)
(* session the timeout task has not touched yet.)                          *)
EveryoneVoted ==
    \A u \in Members, m \in cands : \E r \in votes : r.user = u /\ r.movie = m

FinalizedByFullVote ==
    status = "completed" /\ timer = "armed" /\ cands = shown /\ VotedOn(votes) \subseteq cands
        => EveryoneVoted

(* Expected, and not so: a vote on another movie counts as little.         *)
FinalizedByCandidates ==
    status = "completed" /\ timer = "armed" /\ cands = shown => EveryoneVoted

Quiet == \A w \in Workers : req[w].pc = "idle"

(* Expected, and not so: between requests, when every member has voted on  *)
(* every candidate, the session is over and nobody waits for the timeout.  *)
(* Two last votes that overlap do not count each other.                    *)
AllVotedIsDecided ==
    Quiet /\ announced /\ cands # {} /\ Members # {} /\ EveryoneVoted
        => status \in Decided

(* No movie has a higher score in the table than the winner that a full    *)
(* vote decided.                                                           *)
WinnerLeads ==
    status = "completed" /\ timer = "armed" =>
        \A m \in VotedOn(votes) : Score(votes, m) <= Score(votes, winner)

(* Expected, and not so: after a reroll the table holds votes on the new   *)
(* candidates only.                                                        *)
VotesMatchCandidates ==
    Quiet /\ announced => VotedOn(votes) \subseteq cands

(* Expected, and not so: votes change only while the session is active.    *)
VotesOnlyWhileActive == [][votes' # votes => status = "active"]_vars

(* Expected, and not so: the winner the screens were told stays the winner.*)
WinnerFinal == [][winner # NoMovie => winner' = winner]_vars

(* What a statement waits for: the INSERT or UPDATE of a vote for the row  *)
(* it names, the DELETE of a reroll for the votes it has yet to reach.     *)
Waits(w) ==
    \/ /\ req[w].pc = "vote_flush" /\ req[w].prior \notin {"wiped", req[w].row.vote}
       /\ Locked(w, req[w].row)
    \/ /\ req[w].pc = "reroll_delete" /\ req[w].todo # {}
       /\ \A k \in req[w].todo : Locked(w, k)

CanGoOn(w) == ENABLED <<Progress(w)>>_vars
Holds(w) == req[w].write # "none" \/ req[w].wipe # {}

(* Nothing but a lock stops a request: no handler is left in a step it     *)
(* cannot leave, and a deadlock is found out.                              *)
FreeGoesOn ==
    \A w \in Workers : (req[w].pc # "idle" /\ ~Waits(w)) \/ InCircle(w) => CanGoOn(w)

(* A request waits for a row lock only while the transaction of some       *)
(* holder can go on: the votes on one key never wait in a circle, two      *)
(* rerolls that do are parted by the database, and no request is left in a *)
(* step it cannot leave.                                                   *)
NobodyStuck ==
    /\ FreeGoesOn
    /\ \A w \in Workers : Waits(w) =>
          CanGoOn(w) \/ \E v \in Workers \ {w} : Holds(v) /\ CanGoOn(v)

(* Under the fairness of the event loop and until the first fault, a       *)
(* session the group knows of is decided, by its votes or by the timeout.  *)
SessionEnds == announced ~> status \in Decided \/ faults > 0

(* Expected, and not so: every row that is committed as active is decided, *)
(* the one of a start that failed included.                                *)
ActiveSessionEnds == status = "active" ~> status \in Decided

-----------------------------------------------------------------------------
(* The contract of a session (SessionLifecycle), which this module         *)
(* implements.                                                             *)

Phase == CASE status = "none" -> "absent"
           [] status = "active" -> "open"
           [] OTHER -> "closed"

Lifecycle == INSTANCE SessionLifecycle
    WITH phase <- Phase, result <- winner, offered <- PutToVote

LifecycleSpec == Lifecycle!Spec

=============================================================================
