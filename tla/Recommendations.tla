-------------------------- MODULE Recommendations ---------------------------
(***************************************************************************)
(* Lists of recommended movies and the movies behind them:                 *)
(* get_personal_recommendations, get_mood_recommendations and              *)
(* _materialize_recommendations of services/recommendation_service.py,     *)
(* fetch_and_cache_movie of services/movie_service.py, and the retries and *)
(* caches of utils/openai_client.py, tmdb_client.py and redis_client.py.   *)
(*                                                                         *)
(* A list request asks the language model for titles and resolves them one *)
(* after the other in one database session; a view request (a movie page,  *)
(* a rating, a watchlist entry) resolves one movie.  Each movie goes       *)
(* through two caches that last a day: the answer of TMDB in Redis and the *)
(* row in the database.  Requests last seconds and a tick is a good part   *)
(* of a day, so time passes between requests.                              *)
(*                                                                         *)
(*   row       the movies table: how old the data of TMDB are and how long *)
(*             ago the row was written (cached_at), in ticks, the latter   *)
(*             up to a day and the former up to two, older being the same  *)
(*   detail    the age of TMDB's answer in Redis, None without one         *)
(*   personal  the cached list of the user, NoList without one             *)
(*   req       the requests: picks are the titles, as the movies TMDB      *)
(*             finds for them, at is the one being resolved, out the       *)
(*             movies resolved so far, found the row as read, data the age *)
(*             of the data it will write, tries the failed attempts of the *)
(*             current call, asked says that the model was asked again,    *)
(*             broken that the session has failed a flush                  *)
(*   faults    the crashes so far                                          *)
(***************************************************************************)
EXTENDS Integers, Sequences, FiniteSets

CONSTANTS
    Movies,
    Lists, Views,  \* request slots of the two kinds
    MaxPicks,      \* the most titles of a list, 2 * MAX_RESULTS in the code
    MaxResults,    \* MAX_RESULTS
    Attempts,      \* 3 in both clients
    Day,           \* ticks that a cached movie lasts
    MaxFaults,
    NoMovie, NoList

ASSUME RecommendationsAssumption ==
    /\ Lists \cap Views = {}
    /\ NoMovie \notin Movies /\ NoList # <<>>
    /\ MaxPicks \in Nat \ {0} /\ MaxResults \in Nat \ {0} /\ Attempts \in Nat \ {0}
    /\ Day \in Nat \ {0} /\ MaxFaults \in Nat

VARIABLES row, detail, personal, req, faults

listVars == <<row, detail, personal, req, faults>>

Requests == Lists \cup Views
None == -1

SeqsUpTo(S, n) == UNION {[1..k -> S] : k \in 0..n}
Picks == SeqsUpTo(Movies \cup {NoMovie}, MaxPicks) \ {<<>>}

MovieRow == [data : 0..2 * Day, cached : 0..Day]
Absent == [data |-> None, cached |-> None]

Request ==
    [pc : {"idle", "history", "ask", "row", "detail", "fetch", "store", "flush", "commit",
           "finish"},
     kind   : {"none", "personal", "mood", "view"},
     picks  : Picks \cup {<<>>},
     at     : 0..MaxPicks,
     out    : SeqsUpTo(Movies, MaxResults),
     found  : {"none", "absent", "stale"},
     data   : 0..2 * Day,
     tries  : 0..Attempts - 1,
     asked  : BOOLEAN,
     broken : BOOLEAN]

Idle == [pc |-> "idle", kind |-> "none", picks |-> <<>>, at |-> 0, out |-> <<>>,
         found |-> "none", data |-> 0, tries |-> 0, asked |-> FALSE, broken |-> FALSE]

Stored == {m \in Movies : row[m] # Absent}
Fresh(m) == row[m] # Absent /\ row[m].cached < Day
Movie(r) == req[r].picks[req[r].at]
InList(m, s) == \E i \in 1..Len(s) : s[i] = m

(* A row that is flushed and not committed is locked.                      *)
Locked(m) == \E r \in Requests : req[r].pc = "commit" /\ Movie(r) = m

ListsInit ==
    /\ row = [m \in Movies |-> Absent]
    /\ detail = [m \in Movies |-> None]
    /\ personal = NoList
    /\ req = [r \in Requests |-> Idle]
    /\ faults = 0

Caches == <<row, detail, personal, faults>>

-----------------------------------------------------------------------------
(* The start of a request.                                                 *)

BeginView(r, m) ==
    /\ req[r].pc = "idle"
    /\ req' = [req EXCEPT ![r] = [Idle EXCEPT !.pc = "row", !.kind = "view",
                                              !.picks = <<m>>, !.at = 1]]
    /\ UNCHANGED Caches

(* A cached list is answered at once.                                      *)
BeginPersonal(r) ==
    /\ req[r].pc = "idle" /\ personal = NoList
    /\ req' = [req EXCEPT ![r] = [Idle EXCEPT !.pc = "history", !.kind = "personal"]]
    /\ UNCHANGED Caches

BeginMood(r) ==
    /\ req[r].pc = "idle"
    /\ req' = [req EXCEPT ![r] = [Idle EXCEPT !.pc = "ask", !.kind = "mood"]]
    /\ UNCHANGED Caches

(* Without any rating there is no personal list.                           *)
History(r) ==
    /\ req[r].pc = "history"
    /\ \E rated \in BOOLEAN :
          req' = [req EXCEPT ![r] = IF rated THEN [@ EXCEPT !.pc = "ask"] ELSE Idle]
    /\ UNCHANGED Caches

-----------------------------------------------------------------------------
(* call_with_retry: the language model.                                    *)

(* A server error or a lost connection: the last attempt raises.           *)
FailedCallOnceMore(r, otherwise) ==                            \* mutant of FailedCall
    req' = IF req[r].tries < Attempts THEN [req EXCEPT ![r].tries = @ + 1]
                                      ELSE [req EXCEPT ![r] = otherwise]
FailedCall(r, otherwise) ==
    req' = IF req[r].tries + 1 < Attempts THEN [req EXCEPT ![r].tries = @ + 1]
                                          ELSE [req EXCEPT ![r] = otherwise]

AskFails(r) ==
    /\ req[r].pc = "ask"
    /\ FailedCall(r, Idle)
    /\ UNCHANGED Caches

(* A client error, an envelope without a message, or no usable title.      *)
AskRejected(r) ==
    /\ req[r].pc = "ask"
    /\ req' = [req EXCEPT ![r] = Idle]
    /\ UNCHANGED Caches

(* An answer that is not JSON is asked for once more.                      *)
AskGarbled(r) ==
    /\ req[r].pc = "ask"
    /\ req' = [req EXCEPT ![r] = IF @.asked THEN Idle
                                 ELSE [@ EXCEPT !.asked = TRUE, !.tries = 0]]
    /\ UNCHANGED Caches

(* The titles, each with the movie that TMDB's search finds for it; none   *)
(* when the search fails or has no title that matches.                     *)
AskAnswered(r) ==
    /\ req[r].pc = "ask"
    /\ \E picks \in Picks :
          req' = [req EXCEPT ![r] = [Idle EXCEPT !.pc = "row", !.kind = req[r].kind,
                                                 !.picks = picks, !.at = 1]]
    /\ UNCHANGED Caches

-----------------------------------------------------------------------------
(* What follows a title, with out as the movies resolved now: the next     *)
(* title, the end of the list, or an error if the list is empty.  A view   *)
(* has one movie.                                                          *)
Then(r, out, broken) ==
    LET list == [Idle EXCEPT !.kind = req[r].kind, !.picks = req[r].picks, !.out = out]
    IN  IF req[r].kind = "view" THEN Idle
        ELSE IF Len(out) < MaxResults /\ req[r].at < Len(req[r].picks)
        THEN [list EXCEPT !.pc = "row", !.at = req[r].at + 1, !.broken = broken]
        ELSE IF out = <<>> THEN Idle
        ELSE [list EXCEPT !.pc = "finish"]

Skip(r) == Then(r, req[r].out, req[r].broken)

TakeAgain(r) == Then(r, Append(req[r].out, Movie(r)), req[r].broken)   \* mutant of Take
Take(r) == IF InList(Movie(r), req[r].out) THEN Skip(r)
           ELSE Then(r, Append(req[r].out, Movie(r)), req[r].broken)

NoMatch(r) ==
    /\ req[r].pc = "row" /\ Movie(r) = NoMovie
    /\ req' = [req EXCEPT ![r] = Skip(r)]
    /\ UNCHANGED Caches

-----------------------------------------------------------------------------
(* fetch_and_cache_movie.                                                  *)

(* SELECT of the row, which a session that has failed a flush refuses.     *)
FindRow(r) ==
    /\ req[r].pc = "row" /\ Movie(r) # NoMovie
    /\ req' = [req EXCEPT ![r] =
                 IF req[r].broken THEN Skip(r)
                 ELSE IF Fresh(Movie(r)) THEN Take(r)
                 ELSE [@ EXCEPT !.pc = "detail",
                                !.found = IF Movie(r) \in Stored THEN "stale" ELSE "absent"]]
    /\ UNCHANGED Caches

(* cache_async: the answer in Redis, or a call to TMDB.                    *)
FindDetail(r) ==
    /\ req[r].pc = "detail"
    /\ req' = [req EXCEPT ![r] = IF detail[Movie(r)] = None
                                 THEN [@ EXCEPT !.pc = "fetch"]
                                 ELSE [@ EXCEPT !.pc = "flush", !.data = detail[Movie(r)]]]
    /\ UNCHANGED Caches

FetchFails(r) ==
    /\ req[r].pc = "fetch"
    /\ FailedCall(r, Skip(r))
    /\ UNCHANGED Caches

(* An unknown movie or another client error of TMDB, or Redis failing.     *)
FetchRejected(r) ==
    /\ req[r].pc \in {"detail", "fetch"}
    /\ req' = [req EXCEPT ![r] = Skip(r)]
    /\ UNCHANGED Caches

Fetched(r) ==
    /\ req[r].pc = "fetch"
    /\ req' = [req EXCEPT ![r].pc = "store", ![r].tries = 0]
    /\ UNCHANGED Caches

(* A failure to write to Redis is swallowed.                               *)
Store(r) ==
    /\ req[r].pc = "store"
    /\ \E kept \in BOOLEAN :
          detail' = IF kept THEN [detail EXCEPT ![Movie(r)] = 0] ELSE detail
    /\ req' = [req EXCEPT ![r].pc = "flush"]
    /\ UNCHANGED <<row, personal, faults>>

(* INSERT or UPDATE.  An insert that another request has overtaken fails,  *)
(* and nobody rolls the session of a list back.                            *)
FlushTakes(r) ==                                               \* mutant of Flush
    /\ req[r].pc = "flush"
    /\ ~Locked(Movie(r))
    /\ req' = [req EXCEPT ![r] = Take(r)]
    /\ UNCHANGED Caches
Flush(r) ==
    /\ req[r].pc = "flush"
    /\ ~Locked(Movie(r))
    /\ req' = [req EXCEPT ![r] = IF req[r].found = "absent" /\ Movie(r) \in Stored
                                 THEN Then(r, req[r].out, TRUE)
                                 ELSE [@ EXCEPT !.pc = "commit"]]
    /\ UNCHANGED Caches

CommitRow(r) ==
    /\ req[r].pc = "commit"
    /\ row' = [row EXCEPT ![Movie(r)] = [data |-> req[r].data, cached |-> 0]]
    /\ req' = [req EXCEPT ![r] = Take(r)]
    /\ UNCHANGED <<detail, personal, faults>>

-----------------------------------------------------------------------------
(* The answer; a personal list is cached first, and is lost with Redis.    *)
Finish(r) ==
    /\ req[r].pc = "finish"
    /\ \E kept \in BOOLEAN :
          personal' = IF kept /\ req[r].kind = "personal" THEN req[r].out ELSE personal
    /\ req' = [req EXCEPT ![r] = Idle]
    /\ UNCHANGED <<row, detail, faults>>

(* The fifteen minutes of a list are over.                                 *)
ListExpires ==
    /\ personal # NoList
    /\ personal' = NoList
    /\ UNCHANGED <<row, detail, req, faults>>

(* The process stops or the database fails: the transaction is gone.       *)
Crash(r) ==
    /\ req[r].pc # "idle" /\ faults < MaxFaults
    /\ faults' = faults + 1
    /\ req' = [req EXCEPT ![r] = Idle]
    /\ UNCHANGED <<row, detail, personal>>

(* Time passes; Redis drops what has lasted a day.                         *)
Older(n, cap) == IF n < cap THEN n + 1 ELSE n
DetailLastsTwoDays(n) == IF n = None \/ n + 1 >= 2 * Day THEN None ELSE n + 1  \* mutant of DetailAge
DetailAge(n) == IF n = None \/ n + 1 >= Day THEN None ELSE n + 1

Tick ==
    /\ \A r \in Requests : req[r].pc = "idle"
    /\ row' = [m \in Movies |-> IF row[m] = Absent THEN Absent
                                ELSE [data   |-> Older(row[m].data, 2 * Day),
                                      cached |-> Older(row[m].cached, Day)]]
    /\ detail' = [m \in Movies |-> DetailAge(detail[m])]
    /\ UNCHANGED <<personal, req, faults>>

Start(r) == \/ r \in Lists /\ (BeginPersonal(r) \/ BeginMood(r))
            \/ r \in Views /\ \E m \in Movies : BeginView(r, m)

Step(r) == \/ History(r)
           \/ AskFails(r) \/ AskRejected(r) \/ AskGarbled(r) \/ AskAnswered(r)
           \/ NoMatch(r) \/ FindRow(r) \/ FindDetail(r)
           \/ FetchFails(r) \/ FetchRejected(r) \/ Fetched(r)
           \/ Store(r) \/ Flush(r) \/ CommitRow(r) \/ Finish(r)

ListsNext == \/ \E r \in Requests : Start(r) \/ Step(r) \/ Crash(r)
        \/ ListExpires \/ Tick

ListsSpec == ListsInit /\ [][ListsNext]_listVars

-----------------------------------------------------------------------------
(* Properties.                                                             *)

(* No list is longer than MAX_RESULTS, no call is tried more often than    *)
(* three times, and rows and requests have their shapes.                   *)
ListsTypeOK ==
    /\ row \in [Movies -> MovieRow \cup {Absent}]
    /\ detail \in [Movies -> {None} \cup 0..2 * Day]
    /\ personal \in SeqsUpTo(Movies, MaxResults) \cup {NoList}
    /\ req \in [Requests -> Request]
    /\ faults \in 0..MaxFaults

(* A row that counts as fresh carries data of the last day, although they  *)
(* may come from an answer that was in Redis for most of a day: whoever    *)
(* puts an answer there also writes the row.  Only a crash between the two *)
(* lets the ages add up, to less than two days.                            *)
MetadataAge ==
    \A m \in Movies : Fresh(m) => row[m].data < (IF faults = 0 THEN Day ELSE 2 * Day)

(* Whatever a list shows has a committed row, so a rating or a vote on it  *)
(* finds its movie.                                                        *)
ListsAreStored ==
    /\ \A r \in Requests : \A i \in 1..Len(req[r].out) : req[r].out[i] \in Stored
    /\ personal # NoList => \A i \in 1..Len(personal) : personal[i] \in Stored

(* A list keeps the order in which the model named the movies and shows    *)
(* none of them twice, whatever fails in between; an empty one is never    *)
(* cached.                                                                 *)
Within(s, t) ==
    \E f \in [1..Len(s) -> 1..Len(t)] :
        /\ \A i, j \in 1..Len(s) : i < j => f[i] < f[j] /\ s[i] # s[j]
        /\ \A i \in 1..Len(s) : s[i] = t[f[i]]

ListsFollowPicks ==
    /\ \A r \in Requests : Within(req[r].out, req[r].picks)
    /\ personal # <<>>

(* What one would expect and does not hold: a title whose movie has a      *)
(* fresh row is shown when the list goes on to the next.                   *)
StoredPicksShown ==
    [][\A r \in Lists :
          /\ req[r].pc \in {"row", "flush"} /\ req'[r].pc \in {"row", "finish"}
          /\ req'[r].at # req[r].at
          /\ Movie(r) # NoMovie /\ Fresh(Movie(r))
          => InList(Movie(r), req'[r].out)]_listVars

=============================================================================
