------------------------- MODULE TasteProfileProofs -------------------------
(* Theorems of TasteProfile for every set of movies, genres and requests.  *)
EXTENDS TasteProfile, TLAPS

WithAccount == {"rate_read", "rate_flush", "delete_flush", "recompute", "load",
                "profile_flush", "commit"}
AfterWrite == {"recompute", "load", "profile_flush", "commit"}

(* A user who is flushed is alone and not yet there, ratings need a user,  *)
(* and user and profile come together.                                     *)
UserInv ==
    /\ \A w \in Workers : req[w].pc = "user_commit" => ~user
    /\ \A v, w \in Workers : req[v].pc = "user_commit" /\ req[w].pc = "user_commit" => v = w
    /\ \A w \in Workers : req[w].pc \in WithAccount => user
    /\ ~user => rating = Nothing
    /\ ProfileOfAccount

(* The locks: of one rating, and of the profile.                           *)
LockInv ==
    /\ \A w \in Workers : req[w].wrote => req[w].pc \in AfterWrite
    /\ \A v, w \in Workers :
          req[v].wrote /\ req[w].wrote /\ req[v].movie = req[w].movie => v = w
    /\ \A v, w \in Workers : req[v].pc = "commit" /\ req[w].pc = "commit" => v = w

(* The ratings as they will be when the request has committed.             *)
Effect(w) == IF WritesScore(w) THEN [rating EXCEPT ![req[w].movie] = req[w].score] ELSE rating

(* A request that is not late knows the database: the rating it has read   *)
(* is still there, it has seen the ratings that its commit leaves, and the *)
(* columns it does not write are right.                                    *)
ReadInv(w) ==
    ~req[w].late =>
      /\ req[w].kind = "rate" /\ req[w].pc \in {"rate_flush", "recompute"}
            => rating[req[w].movie] = req[w].found
      /\ req[w].pc \in {"load", "profile_flush", "commit"} => req[w].seen = Effect(w)
      /\ req[w].pc \in {"profile_flush", "commit"}
            => req[w].dirty = Changed(profile, req[w].seen)

(* Only a row that was read can be missed, and a row that the request      *)
(* itself has locked stays.                                                *)
GoneInv(w) ==
    /\ req[w].gone => req[w].found # NoScore
    /\ req[w].wrote => ~req[w].gone

(* A request that writes nothing has a reason.                             *)
NoWriteInv(w) ==
    req[w].pc = "recompute" /\ ~req[w].wrote =>
        \/ req[w].kind = "rate" /\ req[w].found = req[w].score
        \/ req[w].kind = "delete" /\ req[w].gone

(* What the handlers know of a request before they write.                  *)
KindInv(w) ==
    /\ req[w].pc = "rate_read" => req[w].found = NoScore
    /\ req[w].pc \in {"rate_read", "rate_flush"} => req[w].kind = "rate"
    /\ req[w].pc = "delete_flush" => req[w].kind = "delete"
    /\ req[w].pc = "recompute" => \/ req[w].kind = "rate"
                                  \/ req[w].kind = "delete" /\ req[w].found # NoScore

WorkerInv(w) == ReadInv(w) /\ GoneInv(w) /\ NoWriteInv(w) /\ KindInv(w)

IInv == /\ TypeOK /\ UserInv /\ LockInv
        /\ \A w \in Workers : WorkerInv(w)
        /\ ProfileFollowsRatings

-----------------------------------------------------------------------------
LEMMA ScoreFacts == NoScore \notin Scores /\ Nothing \in Ratings
BY TasteAssumption DEF NoScore, Scores, Nothing, Ratings

LEMMA IdleType == Idle \in Request
BY ScoreFacts DEF Idle, Request, Columns

(* The profile of some ratings is a profile.                               *)
LEMMA ProfileType == ASSUME NEW r \in Ratings PROVE ProfileOf[r] \in Profile
<1>1. ProfileOf[r] = [genre_weights |-> Weights(r), avg_rating |-> Average(r),
                      total_ratings |-> Cardinality(Rated(r))]
  BY DEF ProfileOf
<1>2. /\ ProfileOf[r].genre_weights \in {ProfileOf[q].genre_weights : q \in Ratings}
      /\ ProfileOf[r].avg_rating \in {ProfileOf[q].avg_rating : q \in Ratings}
      /\ ProfileOf[r].total_ratings \in {ProfileOf[q].total_ratings : q \in Ratings}
  OBVIOUS
<1>3. ProfileOf[r] = [genre_weights |-> ProfileOf[r].genre_weights,
                      avg_rating    |-> ProfileOf[r].avg_rating,
                      total_ratings |-> ProfileOf[r].total_ratings]
  BY <1>1
<1> QED BY <1>2, <1>3 DEF Profile

(* Writing some columns of one profile over another gives a profile.       *)
LEMMA WrittenType ==
    ASSUME NEW p \in Profile, NEW r \in Ratings, NEW cols \in SUBSET Columns
    PROVE  Written(p, r, cols) \in Profile
<1> DEFINE q == ProfileOf[r]
<1>1. q \in Profile
  BY ProfileType
<1> HIDE DEF q
<1>2. ASSUME NEW c \in Columns PROVE Column(p, r, cols, c) = p[c] \/ Column(p, r, cols, c) = q[c]
  BY DEF Column, q
<1>3. /\ Column(p, r, cols, "genre_weights") \in {ProfileOf[s].genre_weights : s \in Ratings}
      /\ Column(p, r, cols, "avg_rating") \in {ProfileOf[s].avg_rating : s \in Ratings}
      /\ Column(p, r, cols, "total_ratings") \in {ProfileOf[s].total_ratings : s \in Ratings}
  BY <1>1, <1>2 DEF Profile, Columns
<1> QED BY <1>3 DEF Written, Profile

(* Writing the columns that differ gives the profile that was computed.    *)
LEMMA WrittenChanges ==
    ASSUME NEW p \in Profile, NEW r \in Ratings
    PROVE  Written(p, r, Changed(p, r)) = ProfileOf[r]
<1>1. \A c \in Columns : Column(p, r, Changed(p, r), c) = ProfileOf[r][c]
  BY DEF Column, Changed
<1>2. ProfileOf[r] = [genre_weights |-> ProfileOf[r].genre_weights,
                      avg_rating    |-> ProfileOf[r].avg_rating,
                      total_ratings |-> ProfileOf[r].total_ratings]
  BY DEF ProfileOf
<1> QED BY <1>1, <1>2 DEF Written, Columns

-----------------------------------------------------------------------------
(* What a request carries at each of its steps.                            *)
LEMMA RequestType ==
    ASSUME TypeOK, NEW w \in Workers
    PROVE  /\ req[w] \in Request
           /\ req[w].pc \in WithAccount => req[w].movie \in Movies
           /\ req[w].seen \in Ratings /\ req[w].dirty \in SUBSET Columns
           /\ req[w].score \in Scores \cup {NoScore}
           /\ req[w].wrote \in BOOLEAN /\ req[w].late \in BOOLEAN /\ req[w].gone \in BOOLEAN
BY DEF TypeOK, Request, WithAccount

(* What a request sees are ratings.                                        *)
LEMMA ViewType ==
    ASSUME TypeOK, NEW w \in Workers, req[w].movie \in Movies
    PROVE  Own(w) \in Scores \cup {NoScore} /\ View(w) \in Ratings
<1>1. rating \in Ratings /\ req[w].score \in Scores \cup {NoScore}
  BY RequestType DEF TypeOK
<1>2. Own(w) \in Scores \cup {NoScore}
  BY <1>1 DEF Own, Ratings
<1> QED BY <1>1, <1>2 DEF View, Ratings

(* A request after it has read its rating, written it, been overtaken, or *)
(* loaded the profile.                                                     *)
LEMMA ReadStep ==
    ASSUME NEW r \in Request, r.pc = "rate_read", NEW x \in Scores \cup {NoScore}
    PROVE  [r EXCEPT !.pc = "rate_flush", !.found = x] \in Request
BY DEF Request

LEMMA WriteStep ==
    ASSUME NEW r \in Request, r.pc \in {"rate_flush", "delete_flush"}, NEW a \in BOOLEAN
    PROVE  [r EXCEPT !.pc = "recompute", !.wrote = a] \in Request
BY DEF Request

LEMMA OvertakenStep ==
    ASSUME NEW r \in Request, NEW a \in BOOLEAN, NEW b \in BOOLEAN
    PROVE  [r EXCEPT !.late = a, !.gone = b] \in Request
BY DEF Request

LEMMA LoadStep ==
    ASSUME NEW r \in Request, r.pc = "load", NEW cols \in SUBSET Columns
    PROVE  [r EXCEPT !.pc = "profile_flush", !.dirty = cols] \in Request
BY DEF Request

(* A request that another has overtaken.                                   *)
LEMMA OvertakenFields ==
    ASSUME TypeOK, NEW v \in Workers, NEW w
    PROVE  LET q == Overtaken(v, w) IN
           /\ q.pc = req[v].pc /\ q.kind = req[v].kind /\ q.movie = req[v].movie
           /\ q.score = req[v].score /\ q.found = req[v].found /\ q.wrote = req[v].wrote
           /\ q.seen = req[v].seen /\ q.dirty = req[v].dirty
           /\ q.late <=> req[v].late \/ HasRead(v, w)
           /\ q.gone <=> req[v].gone \/ DeletesRowOf(w, v)
           /\ q \in Request
<1>1. req[v] \in Request
  BY RequestType
<1>2. Overtaken(v, w) \in Request
  <2>1. /\ (req[v].late \/ HasRead(v, w)) \in BOOLEAN
        /\ (req[v].gone \/ DeletesRowOf(w, v)) \in BOOLEAN
    OBVIOUS
  <2> QED BY <1>1, <2>1, OvertakenStep, Zenon DEF Overtaken
<1>3. Overtaken(v, w).late <=> req[v].late \/ HasRead(v, w)
  BY <1>1 DEF Overtaken, Request
<1>4. Overtaken(v, w).gone <=> req[v].gone \/ DeletesRowOf(w, v)
  BY <1>1 DEF Overtaken, Request
<1>5. LET q == Overtaken(v, w) IN
      /\ q.pc = req[v].pc /\ q.kind = req[v].kind /\ q.movie = req[v].movie
      /\ q.score = req[v].score /\ q.found = req[v].found /\ q.wrote = req[v].wrote
      /\ q.seen = req[v].seen /\ q.dirty = req[v].dirty
  BY <1>1 DEF Overtaken, Request
<1> QED BY <1>2, <1>3, <1>4, <1>5

LEMMA TypeNext == ASSUME TypeOK, UserInv, [Next]_vars PROVE TypeOK'
<1> USE DEF TypeOK
<1>1. ASSUME NEW w \in Workers, Begin(w) PROVE TypeOK'
  <2>1. CASE BeginSignUp(w)
    <3>1. [Idle EXCEPT !.pc = "user_flush"] \in Request
      BY IdleType DEF Idle, Request
    <3> QED BY <2>1, <3>1 DEF BeginSignUp
  <2>2. ASSUME NEW m \in Movies, BeginDelete(w, m) PROVE TypeOK'
    <3>1. rating[m] \in Scores
      BY <2>2 DEF BeginDelete, Ratings
    <3>2. [Idle EXCEPT !.pc = "delete_flush", !.kind = "delete", !.movie = m, !.found = rating[m]]
            \in Request
      BY <3>1, IdleType, ScoreFacts DEF Idle, Request
    <3> QED BY <2>2, <3>2 DEF BeginDelete
  <2>3. ASSUME NEW m \in Movies, NEW s \in Scores, BeginRate(w, m, s) PROVE TypeOK'
    <3>1. [Idle EXCEPT !.pc = "rate_read", !.kind = "rate", !.movie = m, !.score = s] \in Request
      BY IdleType, ScoreFacts DEF Idle, Request
    <3> QED BY <2>3, <3>1 DEF BeginRate
  <2> QED BY <1>1, <2>1, <2>2, <2>3 DEF Begin
<1>2. ASSUME NEW w \in Workers, Step(w) PROVE TypeOK'
  <2>1. CASE UserFlush(w)
    <3>1. [req[w] EXCEPT !.pc = "user_commit"] \in Request
      BY <2>1 DEF UserFlush, Request
    <3> QED BY <2>1, <3>1, IdleType DEF UserFlush
  <2>2. CASE UserCommit(w)
    BY <2>2, IdleType, ProfileType, ScoreFacts DEF UserCommit
  <2>3. CASE RateRead(w)
    <3>1. rating[req[w].movie] \in Scores \cup {NoScore}
      BY <2>3, RequestType DEF RateRead, Ratings, WithAccount
    <3>2. [req[w] EXCEPT !.pc = "rate_flush", !.found = rating[req[w].movie]] \in Request
      <4>1. req[w] \in Request /\ req[w].pc = "rate_read"
        BY <2>3, RequestType DEF RateRead
      <4> QED BY <3>1, <4>1, ReadStep, Zenon
    <3>3. req' = [req EXCEPT ![w] =
                    [req[w] EXCEPT !.pc = "rate_flush", !.found = rating[req[w].movie]]]
      BY <2>3 DEF RateRead
    <3> QED BY <2>3, <3>2, <3>3 DEF RateRead
  <2>4. CASE RateFlush(w)
    <3>1. [req[w] EXCEPT !.pc = "recompute"] \in Request
      BY <2>4 DEF RateFlush, Request
    <3>2. [req[w] EXCEPT !.pc = "recompute", !.wrote = TRUE] \in Request
      <4>1. /\ req[w] \in Request /\ req[w].pc \in {"rate_flush", "delete_flush"}
            /\ TRUE \in BOOLEAN
        BY <2>4, RequestType DEF RateFlush
      <4> QED BY <4>1, WriteStep, Zenon
    <3>3. \/ req' = [req EXCEPT ![w] = [req[w] EXCEPT !.pc = "recompute"]]
          \/ req' = [req EXCEPT ![w] = [req[w] EXCEPT !.pc = "recompute", !.wrote = TRUE]]
          \/ req' = [req EXCEPT ![w] = Idle]
      BY <2>4 DEF RateFlush
    <3> QED BY <2>4, <3>1, <3>2, <3>3, IdleType DEF RateFlush
  <2>5. CASE DeleteFlush(w)
    <3>1. [req[w] EXCEPT !.pc = "recompute", !.wrote = ~req[w].gone] \in Request
      <4>1. /\ req[w] \in Request /\ req[w].pc \in {"rate_flush", "delete_flush"}
            /\ (~req[w].gone) \in BOOLEAN
        BY <2>5, RequestType DEF DeleteFlush
      <4> QED BY <4>1, WriteStep, Zenon
    <3>2. req' = [req EXCEPT ![w] = [req[w] EXCEPT !.pc = "recompute", !.wrote = ~req[w].gone]]
      BY <2>5 DEF DeleteFlush
    <3> QED BY <2>5, <3>1, <3>2 DEF DeleteFlush
  <2>6. CASE Recompute(w)
    <3>1. req[w].movie \in Movies
      BY <2>6, RequestType DEF Recompute, WithAccount
    <3>2. HasComputed(w, View(w)) \in Request
      <4> DEFINE f == IF req[w].wrote THEN req[w].found ELSE NoScore
      <4>1. f \in Scores \cup {NoScore} /\ req[w].wrote \in BOOLEAN /\ req[w].late \in BOOLEAN
        BY RequestType DEF Request
      <4>2. Own(w) \in Scores \cup {NoScore} /\ View(w) \in Ratings
        BY <3>1, ViewType
      <4>3. HasComputed(w, View(w)) =
              [Idle EXCEPT !.pc = "load", !.movie = req[w].movie, !.wrote = req[w].wrote,
                           !.found = f, !.score = Own(w), !.seen = View(w),
                           !.late = req[w].late]
        BY DEF HasComputed
      <4> HIDE DEF f
      <4> QED BY <3>1, <4>1, <4>2, <4>3, IdleType DEF Idle, Request
    <3> QED BY <2>6, <3>2 DEF Recompute
  <2>7. CASE LoadProfile(w)
    <3>1. [req[w] EXCEPT !.pc = "profile_flush", !.dirty = Changed(profile, req[w].seen)]
            \in Request
      <4>1. req[w] \in Request /\ req[w].pc = "load"
        BY <2>7, RequestType DEF LoadProfile
      <4>2. Changed(profile, req[w].seen) \in SUBSET Columns
        BY DEF Changed
      <4> QED BY <4>1, <4>2, LoadStep, Zenon
    <3>2. req' = [req EXCEPT ![w] = [req[w] EXCEPT !.pc = "profile_flush",
                                                   !.dirty = Changed(profile, req[w].seen)]]
      BY <2>7 DEF LoadProfile
    <3> QED BY <2>7, <3>1, <3>2 DEF LoadProfile
  <2>8. CASE ProfileFlush(w)
    <3>1. [req[w] EXCEPT !.pc = "commit"] \in Request
      BY <2>8 DEF ProfileFlush, Request
    <3> QED BY <2>8, <3>1 DEF ProfileFlush
  <2>9. CASE Commit(w)
    <3>1. req[w].pc \in WithAccount
      BY <2>9 DEF Commit, WithAccount
    <3>2. profile \in Profile
      BY <3>1 DEF UserInv, ProfileOfAccount
    <3>3. profile' \in Profile
      BY <2>9, <3>2, WrittenType, RequestType DEF Commit
    <3>4. rating' \in Ratings
      BY <2>9, <3>1, RequestType DEF Commit, Ratings
    <3>5. req' \in [Workers -> Request]
      <4>1. \A v \in Workers : Overtaken(v, w) \in Request
        BY OvertakenFields
      <4> QED BY <2>9, <4>1, IdleType DEF Commit
    <3>6. exact' \in BOOLEAN
      BY <2>9, RequestType DEF Commit
    <3> QED BY <2>9, <3>3, <3>4, <3>5, <3>6 DEF Commit
  <2> QED BY <1>2, <2>1, <2>2, <2>3, <2>4, <2>5, <2>6, <2>7, <2>8, <2>9 DEF Step
<1>3. ASSUME NEW w \in Workers, RequestError(w) PROVE TypeOK'
  BY <1>3, IdleType DEF RequestError
<1>4. CASE UNCHANGED vars
  BY <1>4 DEF vars
<1> QED BY <1>1, <1>2, <1>3, <1>4 DEF Next

-----------------------------------------------------------------------------
(* What a step of one request does to another: nothing, unless it commits. *)
LEMMA OtherRequests ==
    ASSUME TypeOK, NEW w \in Workers, NEW v \in Workers, v # w,
           Begin(w) \/ Step(w) \/ RequestError(w)
    PROVE  /\ req'[v].pc = req[v].pc /\ req'[v].kind = req[v].kind
           /\ req'[v].movie = req[v].movie /\ req'[v].score = req[v].score
           /\ req'[v].found = req[v].found /\ req'[v].wrote = req[v].wrote
           /\ req'[v].seen = req[v].seen /\ req'[v].dirty = req[v].dirty
           /\ req'[v] = req[v] \/ Commit(w)
           /\ Commit(w) => /\ req'[v].late <=> req[v].late \/ HasRead(v, w)
                           /\ req'[v].gone <=> req[v].gone \/ DeletesRowOf(w, v)
<1>1. CASE Commit(w)
  <2>1. req'[v] = Overtaken(v, w)
    BY <1>1 DEF Commit
  <2> QED BY <1>1, <2>1, OvertakenFields
<1>2. CASE ~Commit(w)
  <2>1. ASSUME Begin(w) PROVE req'[v] = req[v]
    <3>1. BeginSignUp(w) => req'[v] = req[v]
      BY DEF BeginSignUp, TypeOK
    <3>2. \A m \in Movies : BeginDelete(w, m) => req'[v] = req[v]
      BY DEF BeginDelete, TypeOK
    <3>3. \A m \in Movies, s \in Scores : BeginRate(w, m, s) => req'[v] = req[v]
      BY DEF BeginRate, TypeOK
    <3> QED BY <2>1, <3>1, <3>2, <3>3 DEF Begin
  <2>2. ASSUME RequestError(w) PROVE req'[v] = req[v]
    BY <2>2 DEF RequestError, TypeOK
  <2>3. UserFlush(w) \/ UserCommit(w) => req'[v] = req[v]
    BY DEF UserFlush, UserCommit, TypeOK
  <2>4. RateRead(w) \/ RateFlush(w) \/ DeleteFlush(w) => req'[v] = req[v]
    BY DEF RateRead, RateFlush, DeleteFlush, TypeOK
  <2>5. Recompute(w) \/ LoadProfile(w) \/ ProfileFlush(w) => req'[v] = req[v]
    BY DEF Recompute, LoadProfile, ProfileFlush, TypeOK
  <2>6. req'[v] = req[v]
    BY <1>2, <2>1, <2>2, <2>3, <2>4, <2>5 DEF Step
  <2> QED BY <1>2, <2>6
<1> QED BY <1>1, <1>2

(* What a step of a request needs to get to where it gets.                 *)
LEMMA OwnSteps ==
    ASSUME TypeOK, UserInv, LockInv, NEW w \in Workers, Begin(w) \/ Step(w) \/ RequestError(w)
    PROVE  /\ req'[w].pc = "user_commit" => ~user /\ ~UserLocked(w)
           /\ req'[w].pc \in WithAccount => user
           /\ req'[w].wrote => /\ req'[w].pc \in AfterWrite
                               /\ req'[w].movie = req[w].movie
                               /\ req[w].wrote \/ ~RatingLocked(w)
           /\ req'[w].pc = "commit" => ~ProfileLocked(w)
<1> USE DEF TypeOK, UserInv, LockInv, WithAccount, AfterWrite, Idle
<1>0. req[w] \in Request /\ req[w] = [req[w] EXCEPT !.pc = req[w].pc]
  BY RequestType DEF Request
<1>1. CASE BeginSignUp(w)
  BY <1>1, <1>0, RequestType DEF BeginSignUp
<1>2. CASE UserFlush(w)
  BY <1>2, <1>0, RequestType DEF UserFlush
<1>3. CASE UserCommit(w)
  BY <1>3, <1>0, RequestType DEF UserCommit
<1>4. CASE RateRead(w)
  BY <1>4, <1>0, RequestType DEF RateRead
<1>5. CASE RateFlush(w)
  <2>1. CASE req'[w] = Idle
    BY <2>1
  <2>2. CASE req'[w] = [req[w] EXCEPT !.pc = "recompute"]
    BY <1>5, <1>0, <2>2 DEF RateFlush, Request
  <2>3. CASE req'[w] = [req[w] EXCEPT !.pc = "recompute", !.wrote = TRUE] /\ ~RatingLocked(w)
    BY <1>5, <1>0, <2>3 DEF RateFlush, Request
  <2> QED BY <1>5, <2>1, <2>2, <2>3 DEF RateFlush
<1>6. CASE DeleteFlush(w)
  BY <1>6, <1>0, RequestType DEF DeleteFlush
<1>7. CASE Recompute(w)
  BY <1>7, <1>0, RequestType DEF Recompute, HasComputed
<1>8. CASE LoadProfile(w)
  BY <1>8, <1>0, RequestType DEF LoadProfile
<1>9. CASE ProfileFlush(w)
  BY <1>9, <1>0, RequestType DEF ProfileFlush
<1>10. CASE Commit(w)
  <2>1. req'[w] = Idle
    BY <1>10, Zenon DEF Commit
  <2> QED BY <2>1
<1>11. CASE RequestError(w)
  BY <1>11, <1>0, RequestType DEF RequestError
<1>12. ASSUME NEW m \in Movies, NEW s \in Scores, BeginRate(w, m, s)
       PROVE  req'[w].pc = "rate_read" /\ ~req'[w].wrote /\ user
  BY <1>12 DEF BeginRate
<1>13. ASSUME NEW m \in Movies, BeginDelete(w, m)
       PROVE  req'[w].pc = "delete_flush" /\ ~req'[w].wrote /\ user
  BY <1>13 DEF BeginDelete, Nothing
<1> QED BY <1>1, <1>2, <1>3, <1>4, <1>5, <1>6, <1>7, <1>8, <1>9, <1>10, <1>11, <1>12, <1>13
        DEF Begin, Step

(* The users row and the profile.                                          *)
LEMMA UserNext ==
    ASSUME TypeOK, UserInv, LockInv, NEW w \in Workers, Begin(w) \/ Step(w) \/ RequestError(w)
    PROVE  UserInv'
<1> DEFINE Rest == user' = user /\ rating' = rating /\ profile' = profile
<1>1. \/ Rest
      \/ Commit(w)
      \/ UserCommit(w)
  <2>1. Begin(w) \/ RequestError(w) => Rest
    BY Zenon DEF Begin, BeginSignUp, BeginDelete, BeginRate, RequestError
  <2>2. Step(w) => Rest \/ Commit(w) \/ UserCommit(w)
    BY DEF Step, UserFlush, RateRead, RateFlush, DeleteFlush, Recompute, LoadProfile, ProfileFlush
  <2> QED BY <2>1, <2>2
<1>2. CASE UserCommit(w)
  <2>1. user' /\ profile' # NoProfile
    BY <1>2, ScoreFacts, ProfileType, NoProfileAssumption DEF UserCommit
  <2>2. \A v \in Workers : req'[v].pc # "user_commit"
    <3>1. req'[w] = Idle
      BY <1>2 DEF UserCommit, TypeOK
    <3>2. \A v \in Workers : v # w => req'[v] = req[v]
      BY <1>2 DEF UserCommit, TypeOK
    <3> QED BY <1>2, <3>1, <3>2 DEF UserCommit, UserInv, Idle
  <2> QED BY <2>1, <2>2 DEF UserInv, ProfileOfAccount
<1>3. CASE ~UserCommit(w)
  <2>1. /\ user' = user
        /\ profile' # NoProfile <=> profile # NoProfile
        /\ ~user => rating' = rating
    <3>1. CASE Rest
      BY <3>1
    <3>2. CASE Commit(w)
      <4>1. user /\ profile \in Profile
        BY <3>2 DEF Commit, UserInv, WithAccount, ProfileOfAccount, TypeOK
      <4>2. profile' \in Profile
        BY <3>2, <4>1, WrittenType, RequestType DEF Commit
      <4> QED BY <3>2, <4>1, <4>2, NoProfileAssumption DEF Commit
    <3> QED BY <1>1, <1>3, <3>1, <3>2
  <2>2. \A v \in Workers : v # w => req'[v].pc = req[v].pc
    BY OtherRequests
  <2>3. req'[w].pc = "user_commit" => ~user /\ ~UserLocked(w)
    BY OwnSteps
  <2>4. req'[w].pc \in WithAccount => user
    BY OwnSteps
  <2>5. \A v \in Workers : req'[v].pc = "user_commit" => ~user'
    BY <2>1, <2>2, <2>3 DEF UserInv
  <2>6. \A u, v \in Workers :
           req'[u].pc = "user_commit" /\ req'[v].pc = "user_commit" => u = v
    BY <2>2, <2>3 DEF UserInv, UserLocked
  <2>7. \A v \in Workers : req'[v].pc \in WithAccount => user'
    BY <2>1, <2>2, <2>4 DEF UserInv
  <2> QED BY <2>1, <2>5, <2>6, <2>7 DEF UserInv, ProfileOfAccount
<1> QED BY <1>2, <1>3

(* The locks.                                                              *)
LEMMA LockNext ==
    ASSUME TypeOK, UserInv, LockInv, NEW w \in Workers, Begin(w) \/ Step(w) \/ RequestError(w)
    PROVE  LockInv'
<1>1. \A v \in Workers : v # w => /\ req'[v].pc = req[v].pc /\ req'[v].movie = req[v].movie
                                  /\ req'[v].wrote = req[v].wrote
  BY OtherRequests
<1>2. /\ req'[w].wrote => /\ req'[w].pc \in AfterWrite
                          /\ req'[w].movie = req[w].movie
                          /\ req[w].wrote \/ ~RatingLocked(w)
      /\ req'[w].pc = "commit" => ~ProfileLocked(w)
  BY OwnSteps
<1>3. \A v \in Workers : req'[v].wrote => req'[v].pc \in AfterWrite
  BY <1>1, <1>2 DEF LockInv
<1>4. ASSUME NEW u \in Workers, NEW v \in Workers,
             req'[u].wrote, req'[v].wrote, req'[u].movie = req'[v].movie
      PROVE  u = v
  BY <1>1, <1>2, <1>4 DEF LockInv, RatingLocked
<1>5. ASSUME NEW u \in Workers, NEW v \in Workers, req'[u].pc = "commit", req'[v].pc = "commit"
      PROVE  u = v
  BY <1>1, <1>2, <1>5 DEF LockInv, ProfileLocked
<1> QED BY <1>3, <1>4, <1>5 DEF LockInv

-----------------------------------------------------------------------------
(* An idle worker has nothing to answer for.                               *)
LEMMA IdleInv == ASSUME NEW w \in Workers, req'[w] = Idle PROVE WorkerInv(w)'
BY DEF WorkerInv, ReadInv, GoneInv, NoWriteInv, KindInv, Idle

(* What a request sees is what its own writing will leave, unless another  *)
(* has come between.                                                       *)
LEMMA ViewIsEffect ==
    ASSUME TypeOK, NEW w \in Workers, WorkerInv(w), req[w].pc = "recompute", ~req[w].late
    PROVE  View(w) = IF req[w].wrote /\ Own(w) # req[w].found
                     THEN [rating EXCEPT ![req[w].movie] = Own(w)] ELSE rating
<1>1. rating = [rating EXCEPT ![req[w].movie] = rating[req[w].movie]]
  BY DEF TypeOK, Ratings
<1>2. CASE req[w].wrote /\ Own(w) # req[w].found
  BY <1>2 DEF View
<1>3. CASE req[w].wrote /\ Own(w) = req[w].found
  <2>1. req[w].kind = "rate"
    BY <1>3 DEF WorkerInv, KindInv, GoneInv, Own
  <2>2. Own(w) = rating[req[w].movie]
    BY <1>3, <2>1 DEF WorkerInv, ReadInv
  <2> QED BY <1>1, <1>3, <2>2 DEF View
<1>4. CASE ~req[w].wrote
  <2>1. Own(w) = rating[req[w].movie]
    BY <1>4 DEF WorkerInv, NoWriteInv, ReadInv, Own
  <2> QED BY <1>1, <1>4, <2>1 DEF View
<1> QED BY <1>2, <1>3, <1>4

(* The steps of the request itself.                                        *)
LEMMA OwnInv ==
    ASSUME TypeOK, UserInv, LockInv, NEW w \in Workers, WorkerInv(w),
           Begin(w) \/ Step(w) \/ RequestError(w)
    PROVE  WorkerInv(w)'
<1> USE DEF TypeOK
<1>0. req[w] \in Request
  BY RequestType
<1>1. CASE BeginSignUp(w)
  <2>1. req'[w] = [Idle EXCEPT !.pc = "user_flush"]
    BY <1>1 DEF BeginSignUp
  <2> QED BY <2>1 DEF WorkerInv, ReadInv, GoneInv, NoWriteInv, KindInv, Idle
<1>2. ASSUME NEW m \in Movies, BeginDelete(w, m) PROVE WorkerInv(w)'
  <2>1. req'[w] = [Idle EXCEPT !.pc = "delete_flush", !.kind = "delete", !.movie = m,
                               !.found = rating[m]]
    BY <1>2 DEF BeginDelete
  <2> QED BY <2>1 DEF WorkerInv, ReadInv, GoneInv, NoWriteInv, KindInv, Idle
<1>3. ASSUME NEW m \in Movies, NEW s \in Scores, BeginRate(w, m, s) PROVE WorkerInv(w)'
  <2>1. req'[w] = [Idle EXCEPT !.pc = "rate_read", !.kind = "rate", !.movie = m, !.score = s]
    BY <1>3 DEF BeginRate
  <2> QED BY <2>1 DEF WorkerInv, ReadInv, GoneInv, NoWriteInv, KindInv, Idle
<1>4. CASE UserCommit(w) \/ Commit(w) \/ RequestError(w)
  <2>1. req'[w] = Idle
    BY <1>4 DEF UserCommit, Commit, RequestError
  <2> QED BY <2>1, IdleInv
<1>5. CASE UserFlush(w)
  <2>1. CASE req'[w] = [req[w] EXCEPT !.pc = "user_commit"] /\ req[w].pc = "user_flush"
    <3>1. /\ req'[w].pc = "user_commit" /\ req'[w].wrote = req[w].wrote
          /\ req'[w].gone = req[w].gone /\ req'[w].found = req[w].found
      BY <1>0, <2>1 DEF Request
    <3> QED BY <2>1, <3>1 DEF WorkerInv, ReadInv, GoneInv, NoWriteInv, KindInv, LockInv, AfterWrite
  <2> QED BY <1>5, <2>1, IdleInv DEF UserFlush
<1>6. CASE RateRead(w)
  <2>1. req'[w] = [req[w] EXCEPT !.pc = "rate_flush", !.found = rating[req[w].movie]]
    BY <1>6 DEF RateRead
  <2>2. /\ req'[w].pc = "rate_flush" /\ req'[w].found = rating[req[w].movie]
        /\ req'[w].kind = req[w].kind /\ req'[w].wrote = req[w].wrote
        /\ req'[w].gone = req[w].gone /\ req'[w].movie = req[w].movie
    BY <1>0, <2>1 DEF Request
  <2>3. ~req[w].wrote /\ ~req[w].gone /\ req[w].kind = "rate" /\ rating' = rating
    BY <1>6 DEF RateRead, LockInv, AfterWrite, WorkerInv, GoneInv, KindInv
  <2> QED BY <2>2, <2>3 DEF WorkerInv, ReadInv, GoneInv, NoWriteInv, KindInv
<1>7. CASE RateFlush(w)
  <2>1. req[w].pc = "rate_flush" /\ ~req[w].wrote /\ req[w].kind = "rate" /\ rating' = rating
    BY <1>7 DEF RateFlush, LockInv, AfterWrite, WorkerInv, KindInv
  <2>2. CASE req'[w] = [req[w] EXCEPT !.pc = "recompute"] /\ req[w].found = req[w].score
    <3>1. /\ req'[w].pc = "recompute" /\ req'[w].found = req[w].found
          /\ req'[w].kind = req[w].kind /\ req'[w].wrote = req[w].wrote
          /\ req'[w].gone = req[w].gone /\ req'[w].movie = req[w].movie
          /\ req'[w].score = req[w].score /\ req'[w].late = req[w].late
      BY <1>0, <2>2 DEF Request
    <3> QED BY <2>1, <2>2, <3>1 DEF WorkerInv, ReadInv, GoneInv, NoWriteInv, KindInv
  <2>3. CASE req'[w] = [req[w] EXCEPT !.pc = "recompute", !.wrote = TRUE] /\ ~Rejected(w)
    <3>1. /\ req'[w].pc = "recompute" /\ req'[w].wrote
          /\ req'[w].kind = req[w].kind /\ req'[w].movie = req[w].movie
          /\ req'[w].gone = req[w].gone /\ req'[w].found = req[w].found
          /\ req'[w].late = req[w].late
      BY <1>0, <2>3 DEF Request
    <3>2. ~req[w].gone
      BY <2>3 DEF Rejected, WorkerInv, GoneInv
    <3> QED BY <2>1, <3>1, <3>2 DEF WorkerInv, ReadInv, GoneInv, NoWriteInv, KindInv
  <2> QED BY <1>7, <2>2, <2>3, IdleInv DEF RateFlush
<1>8. CASE DeleteFlush(w)
  <2>1. req'[w] = [req[w] EXCEPT !.pc = "recompute", !.wrote = ~req[w].gone]
    BY <1>8 DEF DeleteFlush
  <2>2. /\ req'[w].pc = "recompute" /\ (req'[w].wrote <=> ~req[w].gone)
        /\ req'[w].kind = req[w].kind
        /\ req'[w].gone = req[w].gone /\ req'[w].found = req[w].found
    BY <1>0, <2>1 DEF Request
  <2>3. req[w].kind = "delete" /\ req[w].found # NoScore
    BY <1>0, <1>8 DEF DeleteFlush, WorkerInv, KindInv, Request
  <2> QED BY <2>2, <2>3 DEF WorkerInv, ReadInv, GoneInv, NoWriteInv, KindInv
<1>9. CASE Recompute(w)
  <2>1. req[w].pc = "recompute" /\ req'[w] = HasComputed(w, View(w)) /\ rating' = rating
    BY <1>9 DEF Recompute
  <2>2. /\ req'[w].pc = "load" /\ req'[w].movie = req[w].movie /\ req'[w].wrote = req[w].wrote
        /\ req'[w].score = Own(w) /\ req'[w].seen = View(w) /\ req'[w].late = req[w].late
        /\ req'[w].gone = FALSE /\ (req[w].wrote => req'[w].found = req[w].found)
    BY <2>1 DEF HasComputed, Idle
  <2>3. ~req[w].late => req'[w].seen = Effect(w)'
    BY <2>1, <2>2, ViewIsEffect DEF Effect, WritesScore
  <2> QED BY <2>2, <2>3 DEF WorkerInv, ReadInv, GoneInv, NoWriteInv, KindInv, Effect, WritesScore
<1>10. CASE LoadProfile(w)
  <2>1. /\ req'[w] = [req[w] EXCEPT !.pc = "profile_flush", !.dirty = Changed(profile, req[w].seen)]
        /\ req[w].pc = "load" /\ rating' = rating /\ profile' = profile
    BY <1>10 DEF LoadProfile
  <2>2. /\ req'[w].pc = "profile_flush" /\ req'[w].dirty = Changed(profile, req[w].seen)
        /\ req'[w].movie = req[w].movie /\ req'[w].wrote = req[w].wrote
        /\ req'[w].score = req[w].score /\ req'[w].seen = req[w].seen
        /\ req'[w].late = req[w].late /\ req'[w].gone = req[w].gone
        /\ req'[w].found = req[w].found
    BY <1>0, <2>1 DEF Request
  <2> QED BY <2>1, <2>2 DEF WorkerInv, ReadInv, GoneInv, NoWriteInv, KindInv, Effect, WritesScore
<1>11. CASE ProfileFlush(w)
  <2>1. /\ req'[w] = [req[w] EXCEPT !.pc = "commit"]
        /\ req[w].pc = "profile_flush" /\ rating' = rating /\ profile' = profile
    BY <1>11 DEF ProfileFlush
  <2>2. /\ req'[w].pc = "commit" /\ req'[w].dirty = req[w].dirty
        /\ req'[w].movie = req[w].movie /\ req'[w].wrote = req[w].wrote
        /\ req'[w].score = req[w].score /\ req'[w].seen = req[w].seen
        /\ req'[w].late = req[w].late /\ req'[w].gone = req[w].gone
        /\ req'[w].found = req[w].found
    BY <1>0, <2>1 DEF Request
  <2> QED BY <2>1, <2>2 DEF WorkerInv, ReadInv, GoneInv, NoWriteInv, KindInv, Effect, WritesScore
<1> QED BY <1>1, <1>2, <1>3, <1>4, <1>5, <1>6, <1>7, <1>8, <1>9, <1>10, <1>11 DEF Begin, Step

(* The steps of another request: only a commit touches what this one has   *)
(* read, and then this one is late or about another movie.                 *)
LEMMA OtherInv ==
    ASSUME TypeOK, UserInv, LockInv, NEW w \in Workers, NEW v \in Workers, v # w, WorkerInv(v),
           Begin(w) \/ Step(w) \/ RequestError(w)
    PROVE  WorkerInv(v)'
<1>1. CASE ~Commit(w)
  <2>1. req'[v] = req[v]
    BY <1>1, OtherRequests
  <2>2. rating' = rating /\ (profile' = profile \/ UserCommit(w))
    <3>1. Begin(w) \/ RequestError(w) => rating' = rating /\ profile' = profile
      BY Zenon DEF Begin, BeginSignUp, BeginDelete, BeginRate, RequestError
    <3>2. Step(w) => rating' = rating /\ (profile' = profile \/ UserCommit(w))
      BY <1>1 DEF Step, UserFlush, UserCommit, RateRead, RateFlush, DeleteFlush, Recompute,
                  LoadProfile, ProfileFlush
    <3> QED BY <3>1, <3>2
  <2>3. CASE profile' = profile
    BY <2>1, <2>2, <2>3 DEF WorkerInv, ReadInv, GoneInv, NoWriteInv, KindInv, Effect, WritesScore
  <2>4. CASE UserCommit(w)
    <3>1. req[v].pc \notin WithAccount
      BY <2>4 DEF UserCommit, UserInv
    <3> QED BY <2>1, <2>2, <3>1
            DEF WorkerInv, ReadInv, GoneInv, NoWriteInv, KindInv, WithAccount
  <2> QED BY <2>2, <2>3, <2>4
<1>2. CASE Commit(w)
  <2>1. /\ req'[v].pc = req[v].pc /\ req'[v].kind = req[v].kind
        /\ req'[v].movie = req[v].movie /\ req'[v].score = req[v].score
        /\ req'[v].found = req[v].found /\ req'[v].wrote = req[v].wrote
        /\ req'[v].late <=> req[v].late \/ HasRead(v, w)
        /\ req'[v].gone <=> req[v].gone \/ DeletesRowOf(w, v)
    BY <1>2, OtherRequests
  <2>2. req[v].pc # "commit"
    BY <1>2 DEF Commit, LockInv
  <2>3. ReadInv(v)'
    <3>1. CASE req[v].kind = "rate" /\ req[v].pc \in {"rate_flush", "recompute"}
      <4>1. req[v].movie \in Movies /\ req[w].movie \in Movies
        BY <1>2, <3>1, RequestType DEF Commit, WithAccount
      <4>2. req[v].movie # req[w].movie => rating'[req[v].movie] = rating[req[v].movie]
        BY <1>2, <4>1 DEF Commit, TypeOK, Ratings
      <4>3. req[v].movie = req[w].movie => req'[v].late
        BY <2>1, <3>1 DEF HasRead
      <4> QED BY <2>1, <3>1, <4>2, <4>3 DEF WorkerInv, ReadInv
    <3>2. CASE req[v].pc \in {"load", "profile_flush"}
      BY <2>1, <3>2 DEF ReadInv, HasRead
    <3> QED BY <2>1, <2>2, <3>1, <3>2 DEF ReadInv
  <2>4. GoneInv(v)'
    BY <2>1 DEF WorkerInv, GoneInv, DeletesRowOf, LockInv
  <2>5. NoWriteInv(v)' /\ KindInv(v)'
    BY <2>1 DEF WorkerInv, NoWriteInv, KindInv
  <2> QED BY <2>3, <2>4, <2>5 DEF WorkerInv
<1> QED BY <1>1, <1>2

(* The profile: its writer was not late, or it is as the account began.    *)
LEMMA FollowsNext ==
    ASSUME TypeOK, UserInv, ProfileFollowsRatings, NEW w \in Workers, WorkerInv(w),
           Begin(w) \/ Step(w) \/ RequestError(w)
    PROVE  ProfileFollowsRatings'
<1>1. CASE Commit(w)
  <2>1. SUFFICES ASSUME ~req[w].late PROVE profile' = ProfileOf[rating']
    BY <1>1 DEF Commit, ProfileFollowsRatings
  <2>2. profile \in Profile
    BY <1>1 DEF Commit, TypeOK, UserInv, WithAccount, ProfileOfAccount
  <2>3. /\ rating' = req[w].seen
        /\ req[w].dirty = Changed(profile, req[w].seen)
    BY <1>1, <2>1 DEF Commit, WorkerInv, ReadInv, Effect, WritesScore
  <2> QED BY <1>1, <2>2, <2>3, WrittenChanges, RequestType DEF Commit
<1>2. CASE UserCommit(w)
  BY <1>2 DEF UserCommit, UserInv, ProfileFollowsRatings
<1>3. CASE ~Commit(w) /\ ~UserCommit(w)
  <2>1. Begin(w) \/ RequestError(w) => UNCHANGED <<rating, profile, exact>>
    BY Zenon DEF Begin, BeginSignUp, BeginDelete, BeginRate, RequestError
  <2>2. Step(w) => UNCHANGED <<rating, profile, exact>>
    BY <1>3 DEF Step, UserFlush, RateRead, RateFlush, DeleteFlush, Recompute, LoadProfile,
                ProfileFlush
  <2> QED BY <2>1, <2>2 DEF ProfileFollowsRatings
<1> QED BY <1>1, <1>2, <1>3

-----------------------------------------------------------------------------
LEMMA InitInv == Init => IInv
<1> SUFFICES ASSUME Init PROVE IInv
  OBVIOUS
<1>1. TypeOK
  BY ScoreFacts, IdleType DEF Init, TypeOK
<1>2. \A w \in Workers : req[w] = Idle
  BY DEF Init
<1>3. UserInv /\ LockInv
  BY <1>2 DEF Init, UserInv, LockInv, ProfileOfAccount, Idle, WithAccount
<1>4. \A w \in Workers : WorkerInv(w)
  BY <1>2 DEF WorkerInv, ReadInv, GoneInv, NoWriteInv, KindInv, Idle
<1>5. ProfileFollowsRatings
  BY DEF Init, ProfileFollowsRatings
<1> QED BY <1>1, <1>3, <1>4, <1>5 DEF IInv

LEMMA InvNext == IInv /\ [Next]_vars => IInv'
<1> SUFFICES ASSUME IInv, [Next]_vars PROVE IInv'
  OBVIOUS
<1> USE DEF IInv
<1>1. TypeOK'
  BY TypeNext
<1>2. ASSUME NEW w \in Workers, Begin(w) \/ Step(w) \/ RequestError(w) PROVE IInv'
  <2>1. UserInv' /\ LockInv'
    BY <1>2, UserNext, LockNext
  <2>2. \A v \in Workers : WorkerInv(v)'
    BY <1>2, OwnInv, OtherInv
  <2>3. ProfileFollowsRatings'
    BY <1>2, FollowsNext
  <2> QED BY <1>1, <2>1, <2>2, <2>3
<1>3. CASE UNCHANGED vars
  <2>1. UserInv' /\ LockInv' /\ ProfileFollowsRatings'
    BY <1>3 DEF vars, UserInv, LockInv, ProfileFollowsRatings, ProfileOfAccount
  <2>2. \A v \in Workers : WorkerInv(v)'
    BY <1>3 DEF vars, WorkerInv, ReadInv, GoneInv, NoWriteInv, KindInv, Effect, WritesScore
  <2> QED BY <1>1, <2>1, <2>2
<1> QED BY <1>2, <1>3 DEF Next

LEMMA Invariance == Spec => []IInv
BY InitInv, InvNext, PTL DEF Spec

(* For any movies, genres and number of requests, the rows and requests    *)
(* keep their shapes: a rating always belongs to a request with a movie,   *)
(* and every column of the profile is that of some ratings.                *)
THEOREM ProfileTypes == Spec => []TypeOK
<1>1. IInv => TypeOK
  BY DEF IInv
<1> QED BY <1>1, Invariance, PTL

(* However sign-ups and logins of one address overlap, whoever can rate    *)
(* has a profile: the branch of compute_taste_profile that would add a     *)
(* second one is never needed.                                             *)
THEOREM AccountHasProfile == Spec => []ProfileOfAccount
<1>1. IInv => ProfileOfAccount
  BY DEF IInv, UserInv
<1> QED BY <1>1, Invariance, PTL

(* A rating or deletion that nobody overtook leaves the profile of exactly *)
(* the ratings it leaves, though it writes only the columns that changed   *)
(* and computes from its own view of the table.                            *)
THEOREM ProfileIsFollowed == Spec => []ProfileFollowsRatings
<1>1. IInv => ProfileFollowsRatings
  BY DEF IInv
<1> QED BY <1>1, Invariance, PTL

-----------------------------------------------------------------------------
(* Whom a request waits for: a write of a rating for the other writer of   *)
(* that rating, the UPDATE of the profile for the other writer of the      *)
(* profile, a sign-up for the other sign-up (the guards with RatingLocked, *)
(* ProfileLocked and UserLocked).                                          *)
WaitsFor(w, v) ==
    /\ w # v
    /\ \/ /\ \/ req[w].pc = "rate_flush" /\ req[w].found # req[w].score
             \/ req[w].pc = "delete_flush" /\ ~req[w].gone
          /\ req[v].wrote /\ req[v].movie = req[w].movie
       \/ req[w].pc = "profile_flush" /\ req[v].pc = "commit"
       \/ req[w].pc = "user_flush" /\ req[v].pc = "user_commit"

(* The safety half of NobodyStuck: ratings are locked before the profile,  *)
(* by upsert_rating as by delete_rating, so that whoever a waiting request *)
(* waits for, waits at most for one that waits for nobody.                 *)
THEOREM NobodyWaitsInCircle ==
    Spec => [](\A t, u, v, w \in Workers : WaitsFor(t, u) /\ WaitsFor(u, v) => ~WaitsFor(v, w))
<1>1. IInv => \A t, u, v, w \in Workers : WaitsFor(t, u) /\ WaitsFor(u, v) => ~WaitsFor(v, w)
  <2> SUFFICES ASSUME IInv, NEW t \in Workers, NEW u \in Workers, NEW v \in Workers,
                      NEW w \in Workers, WaitsFor(t, u), WaitsFor(u, v), WaitsFor(v, w)
               PROVE  FALSE
    OBVIOUS
  <2>1. req[u].wrote \/ req[u].pc \in {"commit", "user_commit"}
    BY DEF WaitsFor
  <2>2. req[u].pc = "profile_flush" /\ req[v].pc = "commit"
    BY <2>1 DEF WaitsFor, IInv, LockInv, AfterWrite
  <2> QED BY <2>2 DEF WaitsFor
<1> QED BY <1>1, Invariance, PTL

(* NobodyStuck, from its half that is about a single request: follow a     *)
(* request that waits to the one it waits for; that one, or the holder of  *)
(* the profile it waits for in turn, goes on.                              *)
THEOREM HoldersGoOn == Spec => [](FreeGoesOn => NobodyStuck)
<1>1. IInv /\ FreeGoesOn => NobodyStuck
  <2> SUFFICES ASSUME IInv, FreeGoesOn, NEW u \in Workers, req[u].pc # "idle"
               PROVE  \E w \in Workers : CanGoOn(w)
    BY DEF NobodyStuck
  <2>1. CASE ~Waits(u)
    BY <2>1 DEF FreeGoesOn
  <2>2. ASSUME NEW w \in Workers, req[w].pc \in {"commit", "user_commit"}
        PROVE  CanGoOn(w)
    BY <2>2 DEF FreeGoesOn, Waits
  <2>3. CASE Waits(u)
    <3>1. PICK v \in Workers : req[v].wrote \/ req[v].pc \in {"commit", "user_commit"}
      BY <2>3 DEF Waits, UserLocked, RatingLocked, ProfileLocked
    <3>2. CASE req[v].pc \in {"commit", "user_commit"}
      BY <2>2, <3>2
    <3>3. CASE req[v].wrote
      <4>1. req[v].pc \in AfterWrite
        BY <3>3 DEF IInv, LockInv
      <4>2. CASE ~Waits(v)
        BY <4>1, <4>2 DEF FreeGoesOn, AfterWrite
      <4>3. CASE Waits(v)
        BY <2>2, <4>1, <4>3 DEF Waits, AfterWrite, ProfileLocked
      <4> QED BY <4>2, <4>3
    <3> QED BY <3>1, <3>2, <3>3
  <2> QED BY <2>1, <2>3
<1> QED BY <1>1, Invariance, PTL

=============================================================================
