---------------------------- MODULE TasteProfile ----------------------------
(***************************************************************************)
(* The ratings of one account and the taste profile computed from them:    *)
(* register_user and handle_google_callback of services/auth_service.py,   *)
(* upsert_rating and delete_rating of routers/ratings.py, and              *)
(* compute_taste_profile of services/taste_profile_service.py.             *)
(*                                                                         *)
(* Rows of different users never meet, so the module follows one e-mail    *)
(* address.  A request is a worker in a READ COMMITTED transaction.  After *)
(* it has written its rating it reads all ratings it can see, computes the *)
(* profile and writes it over whatever profile there is: two requests that *)
(* overlap may each miss what the other has written.  The session writes   *)
(* only the columns that differ from those it has loaded.                  *)
(*                                                                         *)
(*   user      whether the users row exists; the Google id that a login    *)
(*             adds to an existing row is left out, nothing here reads it  *)
(*   rating    the committed rows of ratings, NoScore where there is none  *)
(*   profile   the row of user_taste_profiles                              *)
(*   req       the requests in flight: found is the rating as read, gone   *)
(*             says that its row has been deleted since, seen are the      *)
(*             ratings the profile is computed from, dirty the columns     *)
(*             that differ from the profile row as read, late says that    *)
(*             another request committed after this one has read           *)
(*   exact     the profile was last written by a request that was not late *)
(*             (late and exact are history, the code keeps neither)        *)
(***************************************************************************)
EXTENDS Integers, FiniteSets, FiniteSetsExt

CONSTANTS
    Movies,
    Genres,
    GenresOf,    \* the genres of each movie
    MaxScore,    \* the best score, 5 in the code
    Workers,     \* request slots
    NoMovie, NoProfile

ASSUME TasteAssumption ==
    /\ IsFiniteSet(Movies) /\ IsFiniteSet(Genres)
    /\ GenresOf \in [Movies -> SUBSET Genres]
    /\ MaxScore \in Nat \ {0}
    /\ NoMovie \notin Movies

VARIABLES user, rating, profile, req, exact

vars == <<user, rating, profile, req, exact>>

NoScore == 0
Scores == 1..MaxScore
Ratings == [Movies -> Scores \cup {NoScore}]
Nothing == [m \in Movies |-> NoScore]

-----------------------------------------------------------------------------
(* compute_taste_profile: the profile of a set of ratings.  A weight is in *)
(* ten-thousandths, an average in hundredths and 0 without ratings.        *)

Rated(r) == {m \in Movies : r[m] # NoScore}

GenreScore(r, g) == MapThenSumSet(LAMBDA m : r[m], {m \in Movies : g \in GenresOf[m]})
Best(r) == CHOOSE n \in {GenreScore(r, g) : g \in Genres} :
              \A g \in Genres : GenreScore(r, g) <= n

Rounded(a, b) == (2 * a + b) \div (2 * b)

Weights(r) == [g \in Genres |->
                 IF GenreScore(r, g) = 0 THEN 0
                 ELSE Rounded(10000 * GenreScore(r, g), Best(r))]
Average(r) == IF Rated(r) = {} THEN 0
              ELSE Rounded(100 * MapThenSumSet(LAMBDA m : r[m], Movies),
                           Cardinality(Rated(r)))

ProfileOf == [r \in Ratings |-> [genre_weights |-> Weights(r),
                                 avg_rating    |-> Average(r),
                                 total_ratings |-> Cardinality(Rated(r))]]

(* Each column is that of some ratings, not always of the same.            *)
Profile == [genre_weights : {ProfileOf[r].genre_weights : r \in Ratings},
            avg_rating    : {ProfileOf[r].avg_rating : r \in Ratings},
            total_ratings : {ProfileOf[r].total_ratings : r \in Ratings}]

ASSUME NoProfileAssumption == NoProfile \notin Profile

Columns == {"genre_weights", "avg_rating", "total_ratings"}

(* The columns of a loaded row that the computation changes, and the row   *)
(* once these have been written.                                           *)
Changed(row, r) == {c \in Columns : ProfileOf[r][c] # row[c]}
Column(row, r, cols, c) == IF c \in cols THEN ProfileOf[r][c] ELSE row[c]
Written(row, r, cols) ==
    [genre_weights |-> Column(row, r, cols, "genre_weights"),
     avg_rating    |-> Column(row, r, cols, "avg_rating"),
     total_ratings |-> Column(row, r, cols, "total_ratings")]

-----------------------------------------------------------------------------
Request ==
    {r \in [pc     : {"idle", "user_flush", "user_commit", "rate_read", "rate_flush",
                      "delete_flush", "recompute", "load", "profile_flush", "commit"},
            kind   : {"none", "rate", "delete"},
            movie  : Movies \cup {NoMovie},
            score  : Scores \cup {NoScore},
            found  : Scores \cup {NoScore},
            gone   : BOOLEAN,
            wrote  : BOOLEAN,
            seen   : Ratings,
            dirty  : SUBSET Columns,
            late   : BOOLEAN] :
        /\ r.pc \notin {"idle", "user_flush", "user_commit"} => r.movie \in Movies
        /\ r.pc \in {"rate_read", "rate_flush"} => r.score # NoScore
        /\ r.pc = "delete_flush" => r.found # NoScore}

Idle == [pc |-> "idle", kind |-> "none", movie |-> NoMovie, score |-> NoScore,
         found |-> NoScore, gone |-> FALSE, wrote |-> FALSE, seen |-> Nothing,
         dirty |-> {}, late |-> FALSE]

(* A written rating is locked until its transaction ends, and so is the    *)
(* profile; an insert waits for the other insert of the same key.          *)
RatingLocked(w) == \E v \in Workers \ {w} : req[v].wrote /\ req[v].movie = req[w].movie
ProfileShared(w) == \E v \in Workers \ {w} :                   \* mutant of ProfileLocked
                       req[v].pc \in {"profile_flush", "commit"}
ProfileLocked(w) == \E v \in Workers \ {w} : req[v].pc = "commit"
UserLocked(w) == \E v \in Workers \ {w} : req[v].pc = "user_commit"

Init ==
    /\ user = FALSE
    /\ rating = Nothing
    /\ profile = NoProfile
    /\ req = [w \in Workers |-> Idle]
    /\ exact = TRUE

-----------------------------------------------------------------------------
(* register_user and handle_google_callback.                               *)

(* No user has the address, and none has the Google id.                    *)
BeginSignUp(w) ==
    /\ req[w].pc = "idle" /\ ~user
    /\ req' = [req EXCEPT ![w] = [Idle EXCEPT !.pc = "user_flush"]]
    /\ UNCHANGED <<user, rating, profile, exact>>

(* INSERT of the user, which the unique e-mail rejects if it is taken.     *)
UserFlush(w) ==
    /\ req[w].pc = "user_flush"
    /\ ~UserLocked(w)
    /\ req' = IF ~user THEN [req EXCEPT ![w].pc = "user_commit"]
                                  ELSE [req EXCEPT ![w] = Idle]
    /\ UNCHANGED <<user, rating, profile, exact>>

(* An empty profile is added to the user, and both are committed.          *)
UserCommitWithoutProfile(w) ==                                 \* mutant of UserCommit
    /\ req[w].pc = "user_commit"
    /\ user' = TRUE
    /\ req' = [req EXCEPT ![w] = Idle]
    /\ UNCHANGED <<rating, profile, exact>>
UserCommit(w) ==
    /\ req[w].pc = "user_commit"
    /\ user' = TRUE
    /\ profile' = ProfileOf[Nothing]
    /\ req' = [req EXCEPT ![w] = Idle]
    /\ UNCHANGED <<rating, exact>>

-----------------------------------------------------------------------------
(* upsert_rating and delete_rating.                                        *)

(* The movie is in the database; what fetch_and_cache_movie does to get it *)
(* there is in Recommendations.                                            *)
BeginRate(w, m, s) ==
    /\ req[w].pc = "idle" /\ user
    /\ req' = [req EXCEPT ![w] = [Idle EXCEPT !.pc = "rate_read", !.kind = "rate",
                                              !.movie = m, !.score = s]]
    /\ UNCHANGED <<user, rating, profile, exact>>

RateRead(w) ==
    /\ req[w].pc = "rate_read"
    /\ req' = [req EXCEPT ![w].pc = "rate_flush", ![w].found = rating[req[w].movie]]
    /\ UNCHANGED <<user, rating, profile, exact>>

(* The unique index rejects a second row for the movie, and a row that is  *)
(* gone cannot be updated.                                                 *)
Rejected(w) == IF req[w].found = NoScore THEN rating[req[w].movie] # NoScore
                                         ELSE req[w].gone

(* INSERT or UPDATE; with the same score again there is an UPDATE only if  *)
(* the review, which is left out, is another.                              *)
RateFlush(w) ==
    /\ req[w].pc = "rate_flush"
    /\ \/ /\ req[w].found = req[w].score
          /\ req' = [req EXCEPT ![w].pc = "recompute"]
       \/ /\ ~RatingLocked(w)
          /\ req' = IF Rejected(w) THEN [req EXCEPT ![w] = Idle]
                    ELSE [req EXCEPT ![w].pc = "recompute", ![w].wrote = TRUE]
    /\ UNCHANGED <<user, rating, profile, exact>>

(* The rating is read by its id.                                           *)
BeginDelete(w, m) ==
    /\ req[w].pc = "idle" /\ rating[m] # NoScore
    /\ req' = [req EXCEPT ![w] = [Idle EXCEPT !.pc = "delete_flush", !.kind = "delete",
                                              !.movie = m, !.found = rating[m]]]
    /\ UNCHANGED <<user, rating, profile, exact>>

(* DELETE by primary key; a row that is gone is not missed.                *)
DeleteFlush(w) ==
    /\ req[w].pc = "delete_flush"
    /\ req[w].gone \/ ~RatingLocked(w)
    /\ req' = [req EXCEPT ![w].pc = "recompute", ![w].wrote = ~req[w].gone]
    /\ UNCHANGED <<user, rating, profile, exact>>

-----------------------------------------------------------------------------
(* compute_taste_profile within the transaction of the request.            *)

(* The rating of the request's movie as the request sees it: deleted, or   *)
(* the object it holds in memory, unless that object's row is gone.        *)
Own(w) == IF req[w].gone THEN rating[req[w].movie]
          ELSE IF req[w].kind = "delete" THEN NoScore
          ELSE req[w].score

View(w) == [rating EXCEPT ![req[w].movie] = Own(w)]

(* What the request still needs: what it has written and what it has read. *)
HasComputed(w, rows) ==
    [Idle EXCEPT !.pc = "load", !.movie = req[w].movie, !.wrote = req[w].wrote,
                 !.found = IF req[w].wrote THEN req[w].found ELSE NoScore,
                 !.score = Own(w), !.seen = rows,
                 !.late = req[w].late]

RecomputeCommittedOnly(w) ==                                   \* mutant of Recompute
    /\ req[w].pc = "recompute"
    /\ req' = [req EXCEPT ![w] = HasComputed(w, rating)]
    /\ UNCHANGED <<user, rating, profile, exact>>
Recompute(w) ==
    /\ req[w].pc = "recompute"
    /\ req' = [req EXCEPT ![w] = HasComputed(w, View(w))]
    /\ UNCHANGED <<user, rating, profile, exact>>

(* SELECT of the profile.  An account has its profile from the start, so   *)
(* the branch that would add one is not reached (ProfileOfAccount).        *)
LoadProfile(w) ==
    /\ req[w].pc = "load"
    /\ req' = [req EXCEPT ![w].pc = "profile_flush", ![w].dirty = Changed(profile, req[w].seen)]
    /\ UNCHANGED <<user, rating, profile, exact>>

(* UPDATE of the profile, which waits for another transaction's.           *)
ProfileFlush(w) ==
    /\ req[w].pc = "profile_flush"
    /\ ~ProfileLocked(w)
    /\ req' = [req EXCEPT ![w].pc = "commit"]
    /\ UNCHANGED <<user, rating, profile, exact>>

(* A commit comes too late for a request that has read the ratings, and    *)
(* for one that has read the rating of the same movie into memory.         *)
HasRead(v, w) ==
    \/ req[v].pc \in {"load", "profile_flush"}
    \/ /\ req[v].pc \in {"rate_flush", "recompute"} /\ req[v].kind = "rate"
       /\ req[v].movie = req[w].movie

DeletesRowOf(w, v) ==
    /\ req[w].wrote /\ req[w].score = NoScore
    /\ req[v].movie = req[w].movie /\ req[v].found # NoScore

Overtaken(v, w) == [req[v] EXCEPT !.late = @ \/ HasRead(v, w),
                                  !.gone = @ \/ DeletesRowOf(w, v)]

(* An UPDATE of the review alone leaves the score as it is.                *)
WritesScore(w) == req[w].wrote /\ req[w].score # req[w].found

Commit(w) ==
    /\ req[w].pc = "commit"
    /\ rating' = IF WritesScore(w)
                 THEN [rating EXCEPT ![req[w].movie] = req[w].score]
                 ELSE rating
    /\ profile' = Written(profile, req[w].seen, req[w].dirty)
    /\ exact' = ~req[w].late
    /\ req' = [v \in Workers |-> IF v = w THEN Idle ELSE Overtaken(v, w)]
    /\ UNCHANGED user

-----------------------------------------------------------------------------
(* A database call raises: get_db rolls back.                              *)
RequestError(w) ==
    /\ req[w].pc # "idle"
    /\ req' = [req EXCEPT ![w] = Idle]
    /\ UNCHANGED <<user, rating, profile, exact>>

Begin(w) == \/ BeginSignUp(w)
            \/ \E m \in Movies : BeginDelete(w, m) \/ \E s \in Scores : BeginRate(w, m, s)

Step(w) == \/ UserFlush(w) \/ UserCommit(w)
           \/ RateRead(w) \/ RateFlush(w) \/ DeleteFlush(w)
           \/ Recompute(w) \/ LoadProfile(w) \/ ProfileFlush(w) \/ Commit(w)

Next == \E w \in Workers : Begin(w) \/ Step(w) \/ RequestError(w)

Spec == Init /\ [][Next]_vars

-----------------------------------------------------------------------------
(* Properties.                                                             *)

(* The rows and requests have the shapes of the tables and handlers.       *)
TypeOK ==
    /\ user \in BOOLEAN
    /\ rating \in Ratings
    /\ profile \in Profile \cup {NoProfile}
    /\ req \in [Workers -> Request]
    /\ exact \in BOOLEAN

(* A user and its profile appear together: whoever can rate has a profile, *)
(* however two registrations and Google logins of one address overlap.     *)
ProfileOfAccount == user <=> profile # NoProfile

(* The profile is that of the committed ratings whenever its last writer   *)
(* was not overtaken: a commit before the request has read the ratings is  *)
(* harmless, and no column keeps a value from another time.                *)
ProfileFollowsRatings == profile # NoProfile /\ exact => profile = ProfileOf[rating]

(* What a statement waits for: the write of a rating for the rating, that  *)
(* of a profile for the profile, a sign-up for the other sign-up.          *)
Waits(w) ==
    \/ req[w].pc = "user_flush" /\ UserLocked(w)
    \/ /\ \/ req[w].pc = "rate_flush" /\ req[w].found # req[w].score
          \/ req[w].pc = "delete_flush" /\ ~req[w].gone
       /\ RatingLocked(w)
    \/ req[w].pc = "profile_flush" /\ ProfileLocked(w)

CanGoOn(w) == ENABLED Step(w)

(* Nothing but a lock stops a request.                                     *)
FreeGoesOn == \A w \in Workers : req[w].pc # "idle" /\ ~Waits(w) => CanGoOn(w)

(* Requests wait for each other's locks and never all at once: ratings     *)
(* are locked before the profile, by every request.                        *)
NobodyStuck ==
    /\ FreeGoesOn
    /\ (\E w \in Workers : req[w].pc # "idle") => \E w \in Workers : CanGoOn(w)

(* Expected, and not so when requests overlap: the profile between         *)
(* requests is that of the ratings.                                        *)
ProfileIsCurrent ==
    (\A w \in Workers : req[w].pc = "idle") /\ profile # NoProfile => profile = ProfileOf[rating]

(* Expected, and not so: the columns of a profile agree with each other.   *)
ProfileCoherent ==
    profile # NoProfile => (profile.total_ratings = 0 <=> profile.avg_rating = 0)

=============================================================================
