# Formal models of Flick

TLA+ models of the parts of Flick in which several people, several requests and
several clocks meet: the voting session of a group, what the screens of its members
show, the sockets that keep them up to date, membership,
accounts and the ways into them, the refresh tokens that keep a browser signed in
and the tab that uses them, ratings with the taste profile computed from them, the
watchlist, and the recommended movies with the caches behind them.
TLC checks the models on small instances, and TLAPS proves the central
properties for every instance. All paths are relative to the repository.

## 1. The system and its parts

| Part | State it keeps | Operations | Interacts with | What makes it correct |
|---|---|---|---|---|
| Group session (`backend/app/services/group_service.py`, `routers/groups.py`) | rows of `group_sessions` and `session_votes`; the candidates in Redis; one asyncio timer per session in the process | `start_session`, `cast_vote` with `maybe_finalize_session`, `reroll_session_candidates`, `expire_session_if_overdue`, `schedule_session_timeout` | movie service (commits the caller's transaction), recommendations, Redis, WebSocket broadcasts after commits | one vote per member and movie; no request waits for ever; the session ends, and with a movie that was put to the vote and leads it |
| Screens (`routers/websocket.py`, `frontend/src/components/group-session.tsx`, `store/session-store.ts`, `hooks/use-websocket.ts`) | the manager's list of sockets; the store and the query data of each page; the sockets, timers and intervals of each mounted hook | connect, snapshot, broadcast, heartbeat, reconnect, reload, vote, mount and unmount | called by the session handlers and the timeout task | a winner is never shown early; everybody sees the winner; a closed session is not shown as running; a page that is open has one live socket or will have one; what a tally counts was cast |
| Membership (`group_service.py`) | `groups`, `group_members` | `create_group`, `join_group_by_code`, `leave_group` | the session counts the members | one group per code, one owner, no group that lost its owner to its members |
| Refresh tokens (`utils/jwt_utils.py`, `services/auth_service.py`, `routers/auth.py`, `frontend/src/lib/api.ts`) | `refresh_tokens`; the cookie of the browser | login, refresh, logout, expiry | every page that gets a 401 | the cookie of a signed-in user works; a family has one usable token; an ended family stays ended |
| Accounts (`services/auth_service.py`, `routers/auth.py`) | `users`; the two cookies of the Google flow | register, authenticate, Google login and callback | tokens, taste profiles | one user per address, each with a profile; every way in leads to it |
| Sign-in of a tab (`frontend/src/lib/api.ts`, `lib/auth.ts`, `store/auth-store.ts`, `hooks/use-auth.ts`, `app/auth/callback/page.tsx`) | user and access token in memory; `refreshInFlight`; the cookie of the browser | login, logout, fetchMe, refresh and retry, the effects of `useAuth` | every page; refresh tokens | the user shown is the one of the token; a sign-out lasts; every request ends; a good cookie signs in |
| Ratings and taste (`routers/ratings.py`, `services/taste_profile_service.py`) | `ratings`, `user_taste_profiles` | upsert, delete, recompute, aggregate | sessions need rated members; recommendations | whoever can rate has a profile; the profile is that of the ratings |
| Movie cache (`services/movie_service.py`, `utils/tmdb_client.py`, `utils/redis_client.py`) | `movies`; Redis | fetch, upsert, cached calls | sessions, ratings, watchlist | one row per TMDB id; what counts as fresh is fresh |
| Recommendations (`services/recommendation_service.py`, `utils/openai_client.py`) | a Redis entry per user | personal, mood, group picks | sessions | a list shows stored, distinct movies in the order of the model |
| Watchlist (`routers/watchlist.py`, `components/watchlist-tile.tsx`) | `watchlist_items`; the query cache and the tiles of a tab | add, update, delete, list, toggle | movie cache | one item per user and movie; a watched item has a time; the tile shows what is stored |
| Rate limits, middleware, configuration, pages | none of their own | | | |

What is hard here: every HTTP handler is a coroutine with its own database
session. The engine runs PostgreSQL at READ COMMITTED and the code never locks a
row while reading, so every decision is taken on data that may have changed by
the time it is written. The timeout of a session is a task in memory. Broadcasts
are sent one socket at a time, after the commit, by whichever handler got there.
The browser adds reconnections, reloads and several tabs. `PROJECT.json` lists
each such place under "hazards", with the line where it bites and the properties
that cover it.

## 2. Modules

```
SessionLifecycle   <- what a session promises (abstract)
      ^ refinement
GroupSession       <- GroupSessionProofs     MCGroupSession
RealtimeSession    <- RealtimeSessionProofs  MCRealtimeSession
Membership         <- what a group promises about its members (abstract)
      ^ refinement by GroupMembership; its actions are those of GroupSession's members
SocketHook         <- SocketHookProofs       MCSocketHook
GroupMembership    <- GroupMembershipProofs  MCGroupMembership
Identity           <- what accounts promise (abstract)
      ^ refinement
Accounts           <- AccountsProofs         MCAccounts
TokenRotation      <- TokenRotationProofs    MCTokenRotation
SignIn             <- AccountsProofs         MCSignIn
TasteProfile       <- TasteProfileProofs     MCTasteProfile
Watchlist          <- MovieListsProofs       MCWatchlist
Recommendations    <- MovieListsProofs       MCRecommendations
```

The models share one way of looking at the backend: **a request is a record
in a slot, with a program counter; one action is the code between two points
where another request can see or change something** (an `await` on the database,
on Redis or on a socket). What a transaction has flushed and not committed
stays in its record; the variables named after tables hold committed rows only.
Waiting for a row lock is a guard. `RequestError` is a call that raises, after
which `get_db` rolls back.

### GroupSession (and SessionLifecycle)

One session of one group. State: the session row (`status`, `winner`), the
committed `votes`, the members' `role`, the Redis candidates `cands`, the
candidates any screen may still show (`shown`), the movies somebody voted on although
they were never candidates (`foreign`), whether the starter has been
answered (`announced`), the `timer` task with the winner it has resolved
(`verdict`), and the requests `req`.

| Code | Actions |
|---|---|
| `start_session`, `start` | `BeginStart`, `StartMovieSaved` (the commit inside `_upsert_from_payload`), `StartCandidates`, `StartFails`, `StartCommit` |
| `cast_vote` | `BeginVote`, `VoteRead`, `VoteInsert` / `VoteUpdate` / `VoteStale` |
| `maybe_finalize_session` | `VoteExpected`, `VoteTally`, `VoteResolve`, `VoteCommit` |
| `reroll_session_candidates` | `BeginReroll`, `RerollPicks`, `RerollLocks` (row by row), `RerollDeleted`, `RerollFails`, `RerollCache`, `RerollCommit` |
| `schedule_session_timeout`, `expire_session_if_overdue` | `TimerFires`, `TimerResolves`, `TimerCommits`, `TimerError` |
| membership during a session | `Join`, `Leave` |
| environment | `Crash` (restart of the process), `RequestError`, `RedisLoss` |

The unique constraint on votes and the row locks of UPDATE and DELETE are
`Locked`. The DELETE of a reroll works on the rows that were committed when it began,
takes them one by one in any order and keeps those it has while it waits for the
next; two of them can wait for each other (`InCircle`), and PostgreSQL then ends one.
A vote names any movie of the catalogue: `cast_vote` does not compare it with the
candidates. Choosing candidates (taste vectors, the LLM, TMDB) is the choice of a
set of movies; a tie of scores is broken either way because the SQL promises no
order. Time is not counted: the timer may fire at any moment after the session
was announced. The task sleeps for the whole timeout after the row was created, so the
branch of `expire_session_if_overdue` for a session that is not old enough is not
taken unless the clocks of the service and the database disagree; it is `TimerError`, a task that ends and leaves the
session active, which counts as a fault.

`SessionLifecycle` is the abstract promise: movies are put to the vote, by a start, a
reroll or whoever votes on one; the session opens
once, closes with one of these movies or with none, never opens again, and a
published result is never withdrawn. It does *not* promise that the result is
never replaced, because the code does not keep that (`WinnerFinal`, section 3).
`GroupSession` implements it under the mapping at the end of the module.

`Join` and `Leave` are those of `Membership`, which `GroupMembership` is shown to
implement: nothing more is assumed of the members while a session runs than what the
membership code keeps. In particular the owner may leave while others stay
(`OwnerLeavesLast`, section 3).

### RealtimeSession

The database side is reduced to what a message can carry; the subject is the
path from a commit to the screens. `conns` is the manager's list; `task` holds
the handlers of HTTP requests, any of which may be of any page, and the timeout task,
with the
messages it still has to broadcast and the sockets it still has to serve, so two
broadcasts interleave send by send. `screen` is the store of each page, `data`
and `reply` its TanStack query and an answer under way. A page handles a message
when it is sent: one connection keeps its order, and a slow connection is a
later send. `present` is a history variable: the socket in use was registered
while the session was active.

A page may vote again at any time, with another choice or the same, and does not wait
for its earlier requests. So two requests can each see that everybody has voted and
decide a tie differently; `decided` (history) holds every winner that was committed.

### SocketHook

What `RealtimeSession` takes for granted: the sockets themselves. A browser tab
opens and leaves session pages; each mount of the page has its own copy of the
hook's refs, and all of them write to one store.

| Code | Actions |
|---|---|
| the effect of `useWebSocket`, `connect` | `Open`, `Connect` |
| its clean-up | `Leave` |
| `onopen`, `onclose`, `onmessage`, the `setTimeout` | `OpenEvent`, `CloseEvent`, `Message`, `TimerFires` |
| the effect of `GroupSession` after a refetch, `reroll` and its answer | `Refilled`; `Reroll`, `RerollAnswered`, `RerollFails` |
| `_authenticate`, `session_socket` | `Refuse`, `Accept`, `Register`, `Forget` |
| environment | `Lost`, `Restart`, `TokenExpires`, `TokenRefreshed` |

The model is of a production build: React's strict mode, which runs an effect
twice, is for development. Delays are not counted. `OpenEvent` starts an interval and forgets the one before;
`CloseEvent` stops whatever `heartbeatRef` names, which need not be its own. The
answer to a reroll may take a minute and is put into the store also when its page was
left (`asked`); `late` (history) are the pages left with that or a reconnection
pending. Whom a broadcast reaches that has copied its targets is in `RealtimeSession`.

### GroupMembership (and Membership)

`code`, `role` and the requests. Each of the three operations reads first and
writes later; the two unique indexes are the guards of `CreateFlush` and
`JoinInsert`. `LeaveDelete` deletes by primary key: a row that was deleted
meanwhile is not matched, and a row inserted by a rejoin is another one.

`Membership` is what remains for others to rely on: a group is founded with its owner,
people join as members and leave, nobody changes places, and nobody becomes owner
later. Each group of `GroupMembership` implements it (`MembershipKept`).

### TokenRotation

`status` and `family` are the rows of `refresh_tokens`, `cookie` the browser's.
`RefreshRead`/`RefreshFlush`/`RefreshCommit` are the steps of
`verify_and_rotate_refresh_token`, `RevokeStarts`/`RevokeCommit` the UPDATE of
`_revoke_family`, which finds the rows committed when it starts and waits for
those an uncommitted rotation has changed. Neither a failed refresh nor a logout
changes the cookie: the exception handler and the `Response` that `logout`
returns replace the response on which `delete_cookie` was called (external: the
framework merges those headers into neither). `Abandoned` is a reload or a broken
connection while the server works on a request: the tab may refresh again with the
cookie it has, and nobody receives the answer. `cut` (history) says that this has
happened to a refresh. Access tokens are stateless; any
tab may refresh at any time.

### Accounts (and Identity)

`email`, `google` and `password` are the columns of `users`, `reg` and `flow` the
registrations and Google sign-ins under way. `RegisterRead`/`RegisterCommit` are
`register_user`, `PasswordLogin` is `authenticate_user`, `Start`, `Callback`,
`Exchange`, `LookupGoogle`, `LookupMail`, `CreateLinked`/`Link` and `Answered` are
`google_login`, `google_callback` and `handle_google_callback` in their order. All
Google sign-ins are of one browser, whose tabs share `flick_oauth_state` and
`flick_oauth_verifier`; each cookie is named by the flow that set it. `MailMoves`
lets an address pass from one Google identity to another.

`Identity` is the promise: an address gets at most one account and keeps it, and
whoever signs in, by password or through a Google identity with that address, gets
that account. `Accounts` implements it while addresses do not move.

### SignIn

One tab. `user` and `token` are the auth store, `call` the requests, `refresh` is
`refreshInFlight`, `effect` the mounted `useAuth`s whose effect has to run, `url` the
token in the address of the callback page. Families of refresh tokens are numbers,
`owner` says whose, `alive` which are not revoked; how one rotates is
`TokenRotation`. That a refresh is served exactly when the family of its cookie is
alive (`RefreshServed`) is what `RefusedOnlyWhenEnded` says there, for one tab and
until an answer is lost.

| Code | Actions |
|---|---|
| `login`, `logout`, any other request | `Login`, `LoginAnswered`; `Logout`, `LogoutAnswered`; `Data`, `DataAnswered` |
| `fetchMeIfPossible`, `useAuth`, the callback page | `Effect`, `Mount`, `CallbackEffect`, `MeAnswered` |
| the response interceptor, `refreshAccessToken` | `Refused`, `RefreshAnswered`, `RefreshLost` |
| `get_current_user` and the auth handlers | `Served`, `RefreshServed` |
| environment | `Error`, `Expire`, `FamilyEnds`, `Reload`, `GoogleReturns` |

A token lives for fifteen minutes and a request for one at most, so `Expire` does
not fall between a refresh and the retry. `register` is a request followed by
`login`. The specification is `TabSpec` (`TabInit`, `TabNext`, `TabTypeOK`, the null
value `Nobody`), so that `AccountsProofs` can extend this module and `Accounts`.

A sign-in or a sign-out that overlaps another request, or fails halfway, sets
`mixed`, for good: the store then may mix two sessions, and `UserMatchesToken`,
`StaysSignedOut` and `GoodCookieSignsIn` say nothing of what follows.

### Watchlist

One user, one movie. `rows` are the rows of `watchlist_items` (whether `watched` and
`watched_at` are set), `call` the requests of all tabs, `data`, `query` and `stale` the
TanStack query of each tab, `tile` the mounted tile with its own `watched` flag.
`Begin` reads, `AddCommit`, `PatchCommit` and `DeleteCommit` write (an update writes
the columns that differ from what it has read), `Answered`, `Refused` and
`AnswerLost` are the `try`, `catch` and `finally` of the tile. `Show` and `Hide` are the
list being shown and left; that the 30 seconds of a cache entry have passed is a
choice.

### TasteProfile

One e-mail address, from its sign-up on: `user`, the committed `rating` of each
movie, the row `profile`, and the requests.

| Code | Actions |
|---|---|
| `register_user`, `handle_google_callback` | `BeginSignUp`, `UserFlush`, `UserCommit` |
| `upsert_rating` | `BeginRate`, `RateRead`, `RateFlush`, then the next two rows |
| `delete_rating` | `BeginDelete`, `DeleteFlush`, then the next two rows |
| `compute_taste_profile` | `Recompute` (reads the ratings), `LoadProfile`, `ProfileFlush` |
| the commit of both handlers | `Commit` |
| `get_db` | `RequestError` |

A request sees the committed ratings and its own (`View`). SQLAlchemy writes the
columns that differ from the row it has loaded, so `dirty` is fixed when the
profile is loaded and `Commit` writes only those columns, over whatever the row
has become. `late` and `exact` are history: another request committed after
this one had read, and the last writer of the profile was not late. The
arithmetic (weights in ten-thousandths, averages in hundredths) rounds halves up
where Python rounds them to even. Reviews and languages are left out; whether
a review differs is a choice, by which a score that is unchanged may still be part of
an UPDATE. Such an UPDATE locks the row and leaves its score as it is (`WritesScore`).

### Recommendations

Lists and the movies behind them. `row` is the `movies` table with two ages, that
of the data and that of `cached_at`; `detail` is TMDB's answer in Redis,
`personal` the cached list.

| Code | Actions |
|---|---|
| `get_personal_recommendations`, `get_mood_recommendations` | `BeginPersonal`, `BeginMood`, `History`, `Finish` |
| `call_with_retry`, `_call` | `AskFails`, `AskRejected`, `AskGarbled`, `AskAnswered` |
| `_materialize_recommendations`, `_resolve_recommendation` | `NoMatch`, and `Then`, `Take`, `Skip` after each title |
| `fetch_and_cache_movie` | `BeginView`, `FindRow`, `Flush`, `CommitRow` |
| `cache_async` and `_request` of the TMDB client | `FindDetail`, `FetchFails`, `FetchRejected`, `Fetched`, `Store` |
| environment | `Tick`, `ListExpires`, `Crash` |

The titles the model names, and the movie TMDB's search finds for each, are one
choice (`AskAnswered`). A flush that fails leaves the session of a list unusable
(`broken`), because the loop swallows the exception and nobody rolls back.
Requests take seconds and a cached movie lasts a day, so `Tick` is taken only
between requests. `MovieListsProofs` is about this module and `Watchlist` at once,
which is why some names here (`ListsInit`, `ListsSpec`, `MovieRow`) are longer than
in the other modules.

## 3. Runs

Passing runs, with their bounds (`*.cfg`):

| Run | Instance | Shows |
|---|---|---|
| `SessionRaces` | 2 users, 2 movies, yes/no, 2 overlapping requests, reroll cap 2, timer, fixed membership | `UniqueVotes`, `WinnerWasPutToVote`, `TimerGuardsSession`: two requests and the timer never double a vote, decide on a movie nobody named, or leave the session without its timer; `NobodyStuck`: whoever waits for a row lock waits for a transaction that can go on, or in a circle that the database breaks; `FinalizedByFullVote`: counting rows is the same as everybody having voted, while all votes are on candidates; `LifecycleSpec`: the refinement of `SessionLifecycle` |
| `SessionFaults` | 2 users of whom one joins and leaves, yes/maybe, one request at a time, one fault (restart, failed call, lost Redis key), fair | `WinnerLeads`: the winner of a full vote has the best score; `SessionEnds` |
| `ScreensWinner` | 2 pages, 2 overlapping vote requests of either, cast anew at will, 2 movies; one page may lose its connection once | `NoPhantoms`: no screen runs ahead of the commits; `PresentSeeWinner`: a page connected since before the end shows a winner that was committed |
| `ScreensPage` | 1 page, one request at a time, 2 movies, one lost connection or network, one reroll, the timer, fair | `PresentSeeWinner` beside the timer; `ClosedScreens`: a closed session is not shown as running; `BroadcastsEnd` |
| `HookPages` | 2 mounts of a page for 2 sessions, 3 sockets, 1 lost connection or restart, rerolls | `NotAbandoned`, `OneSocket`; `OwnSession`: the store holds the open session, or that of a page left with a reconnection or a reroll pending |
| `MembershipRaces` | 2 users, 2 groups, 2 codes, 3 requests | `OneOwner`, `CodesUnique`, `MembershipKept`: each group implements `Membership` |
| `TokensOneTab` | 1 tab, 3 requests, 4 tokens, 1 fault (failed or abandoned request, lost answer), 1 logout | `CookieLives`; `RefusedOnlyWhenEnded`: a refused refresh means that the login is over; `OneLive`: a family has one usable token until a refresh is abandoned; `EndedStaysEnded` |
| `AccountsRaces` | 2 addresses, 2 Google identities, 3 accounts, 3 Google sign-ins, 2 registrations, an address that moves once | `VerifierFits`, `SameAccount`, and the refinement of `Identity` up to the move |
| `SignInFaults` | 2 users, 2 requests at a time, 3 families, 1 error or reload | `UserMatchesToken`, `StaysSignedOut`, `GoodCookieSignsIn`: the user shown is the token's, a sign-out lasts, and a good cookie signs its user in without a password |
| `WatchlistRaces` | 1 tab, 2 ids, 2 requests at a time | `OneItem`, `TileShowsStored`, `RemovedStaysAway` |
| `TasteRaces` | 1 account, 2 movies of different genres, scores 1 and 2, 2 requests | `ProfileOfAccount`, `ProfileFollowsRatings`, `NobodyStuck` |
| `RecommendationLists` | 1 list request, 1 movie view, 2 movies, 3 titles for a list of 2, 2 attempts, a day of 2 ticks, 1 crash | `ListsTypeOK`, `MetadataAge`, `ListsAreStored`, `ListsFollowPicks` |

Why the bounds are enough: every race in this code is between two transactions,
or between one and the timer; two slots are the smallest number that shows it,
and a third adds a bystander (which `MembershipRaces` and `TokensOneTab`
include). Two users and two movies distinguish "my vote", "another vote on the
same movie" and "the same user on another movie"; two movies make a wrong winner
possible. One reroll already separates old candidates from new ones. One lost
connection or one restart is followed by everything else the model can do.
In `HookPages` two pages and three sockets let a page be left while it waits to
reconnect, and one more be opened before the timer fires. In `AccountsRaces` a
third account and a third sign-in let an identity come back after another one has
taken its address. `SignInFaults` has three families for the cookie that is found,
a sign-in and one more after a sign-out. `WatchlistRaces` has one tab: the list
can be left and shown again while a request is under way, so updates overlap in
one tab already. In `RecommendationLists` three titles for two places make a list
end early or late, a title may be repeated or find nothing, and two ticks are
enough for a cached answer to be older than new and younger than a day.
The two runs of `RealtimeSession` split its behaviours: two pages with two requests,
without timer and reroll, and one page with both. Two pages with the timer, or with
a session query asked again, are out of TLC's reach; for `NoPhantoms`,
`PresentSeeWinner` and `ClosedScreens` the proofs cover them. In `SessionRaces` the
choices are yes and no, in `SessionFaults` yes and maybe: the first decides ties and
zero scores, the second scores that the number of votes does not order. The modules without a `TypeOK` in their run have
it proved (section 4).
Wherever a property holds only for a fixed membership, for one request at a
time, for one tab or without faults, the run or the property says so, and the
table below says what happens otherwise.

`CHECK_DEADLOCK FALSE` is set everywhere because the systems really stop: a
decided session, a settled page or a database without free tokens has nothing
left to do. That nothing stops too early is what `NobodyStuck` and the liveness
properties say.

`SYMMETRY` is used in runs without liveness only, and permutes sets whose
members the modules treat alike; where one user is the owner (a constant) it is
not permuted.

### Statements the code does not keep

The modules also state what one would expect and the code does not provide; their
comments begin with "Expected, and not so". TLC refutes each on the instance named
here (the configuration of a run of the same module, changed as said); they
explain the conditions in the passing properties, and no run is kept for them.
Three of them are statements of the repository itself: `AllVotedIsDecided` is the
docstring of `maybe_finalize_session` (`group_service.py:542`), `ActiveSessionEnds`
the timeout that the repository's README promises (line 38), and `OwnerLeavesLast`
the error message of `leave_group` (`group_service.py:200`).

| Statement | Refuted on | Because |
|---|---|---|
| `AllVotedIsDecided` | `SessionRaces` | two concurrent last votes do not see each other; a fully voted session stays active until the timeout |
| `ActiveSessionEnds` | `SessionFaults` without faults | a start that fails after a movie was stored leaves an active row without a timer |
| `OwnerLeavesLast` | `MembershipRaces` | an owner counts the members and leaves while a join commits |
| `VotesMatchCandidates` | `SessionFaults`, 1 user, no fault | a vote on a candidate that a reroll replaced is accepted |
| `VotesOnlyWhileActive` | the same | a vote is committed after the session was closed |
| `WinnerFinal` | the same | the last vote and the timer both close the session, with different winners |
| `WinnerWasOffered` | `SessionRaces` | `cast_vote` accepts any movie, and `_resolve_winner` counts every row |
| `FinalizedByCandidates` | `SessionRaces` | a vote on another movie completes the number of rows while a candidate still waits for one |
| `FinalizedByFullVote` | `SessionRaces` with a user who leaves | the rows of somebody who left count towards the total |
| `WinnerLeads` | `SessionRaces` (overlapping votes) | a vote commits between the resolution and the commit |
| `EveryoneSeesWinner` | `ScreensWinner`, no lost connection | the snapshot carries neither status nor winner |
| `PresentAgree` | `ScreensWinner`, no lost connection | a vote cast anew and the last vote each see all votes, decide a tie differently, and their broadcasts reach the pages in different orders |
| `ClosedScreens` without its `gen = 0` | `ScreensPage` | a late `session_started` reopens an expired session on the screen |
| `FreshTallies` | `ScreensWinner`, no lost connection | the older of two tallies, or a snapshot read before a vote, comes last |
| `FreshCandidates` | `ScreensWinner` with a reroll, no lost connection | a snapshot puts the old candidates back |
| `CookieLives`, `RefusedOnlyWhenEnded`, `OneLive` | `TokensOneTab` with 2 tabs | two tabs refresh with one cookie: the second brings a token that is used up and ends the family, or both rotate it |
| `NoDouble` | `TokensOneTab` | the page is reloaded while the server rotates its token, and the new page sends the same token: both rotations find it live, and each issues a successor |
| `RevocationComplete` | `TokensOneTab` | a rotation that overlaps the revocation of its family leaves a usable token |
| `ShownWinnerStays` | `ScreensPage` | the session query, asked again after the network was away and answered after the end, makes the page start over without the winner |
| `ProfileIsCurrent` | `TasteRaces` | of two overlapping ratings, the one that writes the profile last has not seen the other |
| `ProfileCoherent` | `TasteRaces` | only the columns that changed are written, so a profile can count ratings and have no average |
| `StoreIsOwn` | `HookPages` | the timer of a page that was left still opens a socket, which writes to the store of the next page; and the answer to its reroll does so too |
| `AlwaysSameAccount` | `AccountsRaces` | the address of a Google identity moves; the identity that gets it overwrites `google_id` |
| `CookiesKept` | `AccountsRaces` | the answer to an earlier flow deletes the cookies of a later one |
| `UserHasToken` | `SignInFaults` | the answer to `fetchMeIfPossible` arrives after a sign-out |
| `SignOutSticks` | `SignInFaults` | the request to sign out is lost, its cookie lives on, and the effect of `useAuth` signs in again |
| `AlwaysOnePerson` | `SignInFaults` | the second request of `login` fails, or a refresh is answered after a sign-in |
| `CookieAlwaysSignsIn` | `SignInFaults` with 3 requests at a time and 1 user, no fault | a request of an old session asks for its refresh, the user signs out and in again before the refusal arrives, and `clearAuth` takes the new user out of the store |
| `TileFollows` | `WatchlistRaces` | `useState` takes `item.watched` once |
| `AlwaysTimed` | `WatchlistRaces` | two overlapping updates each write the columns they saw differ |
| `StoredPicksShown` | `RecommendationLists` | after a rejected insert the session refuses every query, and the titles that follow are dropped |

### Fairness

`GroupSession` and `RealtimeSession` state fairness, and `SessionFaults` and
`ScreensPage` use it: weak fairness of the next step of every request in flight, of
the timer task, and of a socket that has been accepted. The code justifies it: each
of these is a coroutine on an event loop that runs every ready task, and a database
lock is released when its transaction ends, which is itself such a step. No fairness
is assumed of people (nobody must vote, reroll, load a page or connect), of faults,
or of browsers asking again. The other modules need none: what must not be left
undone there (a page without a socket, a tile without its buttons, a cookie that
signs nobody in) is stated as an invariant of the states in which something is still
under way, or in which everything has settled.

## 4. Proofs

**GroupSessionProofs** (for every finite set of users and movies, every set of
requests, every bound on faults):

- `TypeCorrect`, `VotesUnique`, `WinnerPutToVote` and `TimerGuards` are invariants,
  `Refinement` is the theorem that `GroupSession` implements `SessionLifecycle`.
- `UniqueVotes` is not inductive: two requests that have each flushed an insert
  for the same key would break it with their commits. The strengthening `LockInv`
  says who holds which locks: a flushed write excludes every other write and
  delete on its key, and while an inserted row waits no committed row has its
  key. `OfferInv` strengthens `WinnerWasPutToVote` by the votes, by what the requests and the
  timer are about to write, `PhaseInv` says that only the start runs before the
  session is announced. `IInv` is their conjunction with `TypeOK` and
  `TimerGuardsSession`; it is preserved action by action.
- `OnlyRerollsDeadlock`: a vote takes its one row lock with its last write and never
  waits again (`OwnLocks`), so whoever is waited for and waits itself is a reroll in the
  middle of its DELETE. `HoldersGoOn` is `NobodyStuck` itself, from one hypothesis that
  is about ENABLED: `FreeGoesOn`, that a request which waits for no lock, or waits in a
  circle, has a step. If nobody could go on behind a waiting request, the rerolls
  waiting there would form a circle.
- `FullVoteFinalizes` (`FinalizedByFullVote` for a fixed membership, until the first
  fault; the property itself is about votes on candidates) is an argument about cardinalities. `maybe_finalize_session` compares the
  number of rows with members times candidates, read at different times. `CandInv`:
  the candidates are shown before they are voted on, and a reroll that changes them
  leaves `cands # shown`. `VoterInv`: rows are of members, so with `UniqueVotes`, and
  if all votes are on candidates, the
  rows inject into members times candidates, and as many rows as pairs means all
  pairs (`FullTable`). `CoverInv` carries that from the count to the commit: once
  counted, no row is withdrawn unless a reroll intervenes. `KeysSeen` says which
  keys the transaction's own view has.
- `WinnerLeadsAlone` (`WinnerLeads` when requests do not overlap) needs `LeadInv`: the
  pick of a request is a leader of its own view, which is what its commit leaves, and
  nothing changes the table while the timer is armed and the session completed. It
  holds with members who join and leave, with the timeout task and with faults.

**RealtimeSessionProofs** (for every finite set of pages, every set of movies and
requests, any number of rerolls and lost connections, with or without the timeout):

- `TypeCorrect`, `ScreensAreHonest` (`NoPhantoms`), `EndReachesPages`
  (`ClosedScreens`), `WinnerReachesPages` (`PresentSeeWinner`) and `RegisteredOnce` are
  invariants, without further hypotheses.
- A message is true when it is made and stays true (`Honest`): a winner that is
  announced is committed, and a tally of the first candidates counts votes that were
  cast. `MessageInv` says so of every queue, of every message being sent and of every
  snapshot, `ScreenInv` of the screens and `QueryInv` of the answers to the session
  query.
- That the end reaches a page is an obligation that moves: `Due(c, types)` says that
  some handler still owes page `c` a message of those types, either because it is in
  its queue or because it is being sent and the page's socket is among the targets
  that are left. `ClosedInv` says that a page that was present shows the end or is
  owed it, `DecidedInv` the same of a winner. `PresentInv` ties `present` to the
  registry, and `Among` that the copy of the registry a broadcast works through has
  the socket. `Owes` disappears only by a send to that very socket.
- Which winner a page shows is not fixed, because several requests and the timeout may
  decide (`PresentAgree`, section 3). That it is a committed one is `NoPhantoms`; that
  there is one is `DecidedInv`. `CountInv` bounds what a transaction counts by the
  committed votes and its own.

**GroupMembershipProofs** (for every set of users, groups, codes and requests):

- `TypeCorrect`, `CodesAreUnique` and `AtMostOneOwner` are invariants, and
  `GroupsKeepContract` says that every group implements `Membership`.
- `CodesUnique` needs `CodeInv`: a flushed group already excludes others from its
  code and id. `OneOwner` needs `RoleInv`: a group that does not exist has no
  members, and whoever joins or leaves does so in a group that exists, so that the
  owner's row is the first row of its group.

**AccountsProofs** (for every set of addresses, Google identities, accounts, flows
and registrations, any number of moves):

- `TypeCorrect` and `VerifierIsOwn` are invariants, `LinkedGetsItsAccount` an action
  property, `Refinement` the theorem that `Accounts` implements `Identity` until an
  address moves.
- `VerifierFits` needs `CookieInv`: the two cookies are of one flow. `SameAccount`
  needs `TableInv`, the unique indexes, so that whoever holds an identity is the
  account the lookup finds. The refinement needs `FlowInv` and `MailInv` besides:
  what a sign-in has read stays true until it commits, because rows are not deleted
  and, without moves, an account keeps the address of its identity.

**AccountsProofs**, on `SignIn` (for every set of users, every finite set of requests,
every set of hooks that is not empty, any number of sign-ins and failures):

- `TabTypeCorrect`, `OnePersonShown`, `SignOutLasts` and `GoodCookieIsEnough` are
  invariants, all the run checks. One inductive invariant, `TabInv`, carries them.
- What holds whatever overlaps: `CallsInv` says what a request holds at each stage (the
  second request of a login and a retry have a good token, a served login the
  family it began, a served logout a family that has ended), `RefreshInv` that a
  refresh has somebody waiting for it and that a refusal is final.
- What holds until a sign-in or sign-out overlaps something: `Alone`, that it is the
  only one under way and the refresh is of the cookie's family; `OnePerson`, that the
  store, the address of the callback page and every request are of the user of that
  family; `SignedOut`, that after a sign-out nothing under way has or will get a token.
- `Asks` makes `GoodCookieSignsIn` inductive: a tab that shows a visitor beside a good
  cookie has an effect to run, a token in its address, or a request that asks who is
  there; the refusal of the last one either asks again or ends in a refresh that
  succeeds. `CookieAlwaysSignsIn` (section 3) shows why it speaks of sessions that do not
  overlap.
- The bound on families counts the logins under way (`TabTypes`), so that each finds
  room for the family it begins; that is why the set of requests is finite.

**SocketHookProofs** (for every set of pages and sessions, every finite set of
sockets, every bound on faults):

- `TypeCorrect`, `NeverAbandoned`, `NeverTwoSockets`, `HeartbeatsRun` and
  `StoreOfOwnSession` are invariants.
- `SocketInv` is the heart: a socket that is not closed is the one `wsRef` names, and
  then the hook has no timer. `OneSocket` is its consequence. `BeatInv` says that
  `heartbeatRef` names an interval of the same hook, so that no `onclose` stops the
  heartbeat of another socket; `LeftInv` says that a page that was left without a
  timer or a reroll pending has nothing that can still write to the store, which is what
  `OwnSession` needs; `AskInv`, that a page asks for rerolls only once it is open.

**TokenRotationProofs** (for every set of tabs, requests and tokens, every bound on
failures and logouts):

- `TypeCorrect` is an invariant, `EndsForGood` an action property: a family that was
  ended stays so. It needs `Carries`, what a request holds of the token it was sent
  and the one it inserts, and `NewInv`, that two transactions insert different
  tokens.
- `OneTokenLives` and `CookieStaysGood` assume one tab, in which `refreshAccessToken`
  lets one refresh run at a time. Then whoever rotates is alone (`TabInv`), the token
  it replaces is the only one of its family that can be used, and the token it
  inserts is in the cookie once it has been answered (`CookieInv`). `TabInv` ends when a
  refresh is abandoned (`cut`), with which `OneLive` ends too; that this is a fault
  (`CutCounts`) makes it available to the other two (`UncutInv`). With two tabs both
  are false (section 3).
- `RefusalTellsEnd` is `RefusedOnlyWhenEnded`, for one tab and until an answer is lost.
  `CookieInv` says nothing once somebody has logged out, so this one needs its own
  invariant, `HeadInv`, over any number of logouts. A token is a `Head` when it can be
  used, or when its family is dead and no exchange will revive it. The cookie is a head,
  or a refresh that was sent with it is about to replace it (`Led`); the cookie a
  refresh was just sent with and the token an answer brings are heads, and the answer's
  token is not yet the cookie (`Fit`), nor what another request was sent with or will
  bring (`Apart`).

**MovieListsProofs**, on `Watchlist` (for every set of tabs, ids and requests):

- `TypeCorrect`, `ListedOnce`, `TimedWhenWatched` and `ButtonsAreFreed` are
  invariants, `NoRevival` an action property.
- `WatchedHasTime` needs `AloneInv`: what a request that nobody has overlapped has
  read is still so when it writes. `WaitsForItsOwn` is inductive once the types are
  known.
- `RestedTileIsStored` is `TileShowsStored`, about the tab that is alone. An id is
  drawn once, so a row that is gone stays away (`IdInv`). `RestInv`: a tile at rest
  has the stored flag, and if its row is gone a query under way will say so, or a
  request that has removed it is about to be answered. `AskInv`: a tile that waits shows
  what its request asks for, and the row holds the opposite until the commit, so
  that the revert of an error restores what is stored. `OthersInv`: a request whose
  tile is gone is about a row that is gone. `CacheInv`: what the query cache holds or is
  about to hold is stored, or the tile's own request will make it ask again. The
  condition of the property (`hurried`) is needed: `TileFollows` in section 3.

**MovieListsProofs**, on `Recommendations` (for every set of movies and requests, any
length of lists, number of attempts, ticks of a day and crashes):

- `ListsTypeCorrect`, `ListsStored`, `ListsInOrder` and `MetadataIsRecent` are
  invariants, all the run checks.
- Each step of a request is of one of seven kinds (`Kinds`): what it does to the
  caches, and whether the request is still at its movie. `StepTurns` proves that once,
  and the invariants are proved kind by kind.
- For the lists, `Sound` adds to `ListsFollowPicks` that the movies resolved so far
  stand among the titles before the one being resolved, so that the next may go
  behind them (`PlacesNext`), and `Grows` that a step adds to a list only what is
  stored by then.
- `MetadataAge` is not inductive. Without a crash, `Timely`: an answer in Redis has a
  row that is not older, or a request that is about to write one (`Backed`), and a
  request at its movie has read only what is of this very moment (`InTime`), so that
  it writes data of age 0; rows and answers then grow older together. With crashes
  only `Ages` is left: an answer is younger than a day, and so are data when they
  are written.

**TasteProfileProofs** (for every finite set of movies and genres, any genres of
the movies, any best score and number of requests):

- `ProfileTypes`, `AccountHasProfile` and `ProfileIsFollowed` are invariants.
  `NobodyWaitsInCircle`: who holds the profile waits for nobody, who holds a rating waits
  for the profile only; `HoldersGoOn` is `NobodyStuck` from `FreeGoesOn`, as above.
- `ProfileFollowsRatings` speaks of committed rows; what makes it inductive is
  what a request that is not late knows (`ReadInv`): the rating it has read is
  still there, the ratings it has seen are those its commit will leave, and the
  columns it will not write are right. `LockInv` excludes two writers of one
  rating or of the profile, `GoneInv` and `NoWriteInv` say why a request may write
  nothing, and `UserInv` that nobody rates before the user and its profile are
  committed. The lemmas split each step into what it does to its own request
  (`OwnInv`) and to the others (`OtherInv`, `OtherRequests`): only a commit
  reaches another request, and makes it late.

Assumptions are the named `ASSUME`s of the modules: finite sets, null values that
are not members of the sets they stand beside, and in `SignIn` at least one use of
`useAuth` (the navigation bar) and room for one sign-in. TLC evaluates them in every
run.

Model-checked only:

- liveness (`SessionEnds`, `BroadcastsEnd`), which is outside the prover;
- `FreeGoesOn` of `GroupSession` and `TasteProfile`, the half of `NobodyStuck` that is
  about ENABLED: a request that waits for no lock has a step.

Apart from the two `HoldersGoOn`, five theorems have a hypothesis besides the
assumptions of their module: a fixed membership (`FullVoteFinalizes`), requests that do
not overlap (`WinnerLeadsAlone`), one tab (`OneTokenLives`, `CookieStaysGood`,
`RefusalTellsEnd`). Each is the condition under which the run checks the property, and
section 3 names the counterexample without it.

## 5. Not modelled, and the plan

Not modelled because there is nothing to check in a state machine: rate limits,
security headers, logging, sanitizing, configuration, migrations, presentation,
the texts of prompts, the choices of the language model, password hashing, the
OAuth exchange with Google.

Left out of the parts that are modelled: React's strict mode; presence messages
beyond the heartbeat, which no screen shows; the pages' mark of their own vote;
the back-off delays of the clients; the read-only listings; the merge of
similar movies and the aggregate of a group's taste, which are pure functions that
shape a prompt or a page.

The modules were written in this order, the most important behaviour first:
`GroupSession` with `SessionLifecycle`, `RealtimeSession`, `GroupMembership`,
`TokenRotation`, `TasteProfile`, `Recommendations`, then `SocketHook`, `SignIn`,
`Accounts` with `Identity`, and `Watchlist`, and the proofs of each once TLC agreed.
What could come next:

1. An abstract specification of the screens (each page shows a prefix of the
   session's history) that `RealtimeSession` implements for pages that stay
   connected.
2. Real time where the code depends on it: the 60 seconds the page waits for a
   list against the back-off of the clients, and the timeout of a session
   against the age it checks.
