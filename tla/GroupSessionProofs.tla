------------------------- MODULE GroupSessionProofs -------------------------
(* Theorems of GroupSession for every set of users, movies and requests.   *)
EXTENDS GroupSession, FiniteSetTheorems, TLAPS

Flushed == {"vote_count", "vote_tally", "vote_resolve", "vote_commit"}
VoteSteps == {"vote_read", "vote_flush"} \cup Flushed
StartSteps == {"start_ai", "start_commit"}
Deleting == {"reroll_delete", "reroll_cache", "reroll_commit"}
RerollSteps == {"reroll_ai"} \cup Deleting

-----------------------------------------------------------------------------
(* The strengthening of UniqueVotes: who holds which row locks.            *)

(* Only a vote between its flush and its commit has written a row, and     *)
(* only a reroll from its DELETE to its commit has locked rows.            *)
OwnLocks ==
    \A w \in Workers :
        /\ req[w].pc = "idle" => req[w] = Idle
        /\ req[w].pc \in VoteSteps => req[w].row \in Row
        /\ req[w].write # "none" => req[w].pc \in Flushed
        /\ req[w].wipe # {} => req[w].pc \in Deleting

(* A vote that has been flushed excludes every other one on its key, and a *)
(* reroll that has deleted it.                                             *)
Exclusive ==
    \A v, w \in Workers :
        v # w /\ req[v].write # "none" =>
            /\ req[w].write # "none" => ~SameKey(req[v].row, req[w].row)
            /\ \A s \in req[w].wipe : ~SameKey(req[v].row, s)

(* While an inserted row waits for its commit no other row takes its key.  *)
FreshInserts ==
    \A w \in Workers :
        req[w].write = "insert" => \A r \in votes : ~SameKey(r, req[w].row)

LockInv == OwnLocks /\ Exclusive /\ FreshInserts /\ UniqueVotes

-----------------------------------------------------------------------------
(* The strengthening of WinnerWasPutToVote.                                  *)
OfferInv ==
    /\ VotedOn(votes) \subseteq PutToVote
    /\ \A w \in Workers : req[w].row \in Row => req[w].row.movie \in PutToVote
    /\ WinnerWasPutToVote

-----------------------------------------------------------------------------
(* The phases of a session: nothing but its start happens before it is     *)
(* announced, and there is one start.                                      *)
PhaseInv ==
    /\ announced => status # "none"
    /\ ~announced => /\ status \in {"none", "active"}
                     /\ timer = "unset"
    /\ \A w \in Workers :
        /\ req[w].pc \in StartSteps => ~announced
        /\ req[w].pc \in VoteSteps \cup RerollSteps => announced
        /\ req[w].pick # NoMovie => req[w].pc \in VoteSteps
    /\ \A v, w \in Workers :
        req[v].pc \in StartSteps /\ req[w].pc \in StartSteps => v = w

IInv == TypeOK /\ LockInv /\ OfferInv /\ PhaseInv /\ TimerGuardsSession

-----------------------------------------------------------------------------
(* Type correctness.                                                       *)

(* What the helpers return.                                                *)
LEMMA ExpectedType == ASSUME TypeOK PROVE Expected \in Nat
<1>1. Members \subseteq Users /\ cands \subseteq Movies
  BY DEF Members, TypeOK
<1>2. IsFiniteSet(Members) /\ IsFiniteSet(cands)
  BY <1>1, FS_Subset, UsersAssumption, MoviesAssumption
<1>3. Cardinality(Members) \in Nat /\ Cardinality(cands) \in Nat
  BY <1>2, FS_CardinalityType
<1>4. \A a, b \in Nat : a * b \in Nat
  OBVIOUS
<1> QED BY <1>3, <1>4 DEF Expected

LEMMA IdleType == Idle \in Request
BY DEF Idle, Request, Steps

LEMMA LeadersType ==
    ASSUME NEW rows, rows \subseteq Row PROVE Leaders(rows) \subseteq Movies
BY DEF Leaders, VotedOn, Row

LEMMA ViewType ==
    ASSUME TypeOK, NEW w \in Workers, OwnLocks PROVE View(w) \subseteq Row
BY DEF TypeOK, View, Replaced, Written, OwnLocks, VoteSteps, Flushed, Deleting

(* A request's own steps, and those of the timeout task, keep every type.  *)
LEMMA TypeNext == ASSUME TypeOK, OwnLocks, [Next]_vars PROVE TypeOK'
<1> USE DEF TypeOK, sessionRow
<1>1. ASSUME NEW w \in Workers, NEW u \in Users, BeginStart(w, u) PROVE TypeOK'
  BY <1>1 DEF BeginStart, Request, Steps
<1>2. ASSUME NEW w \in Workers, NEW u \in Users, NEW m \in Movies, NEW c \in Choices,
             BeginVote(w, u, m, c)
      PROVE  TypeOK'
  BY <1>2 DEF BeginVote, Idle, Request, Steps, Row
<1>3. ASSUME NEW w \in Workers, NEW u \in Users, BeginReroll(w, u) PROVE TypeOK'
  <2>1. [req[w] EXCEPT !.pc = "reroll_ai", !.batch = cands] \in Request
    BY ZenonT(60) DEF Request, Steps
  <2> QED BY <1>3, <2>1 DEF BeginReroll
<1>4. ASSUME NEW w \in Workers, Start(w) PROVE TypeOK'
  <2>1. CASE StartMovieSaved(w)
    BY <2>1 DEF StartMovieSaved
  <2>2. CASE StartCandidates(w)
    <3>1. PICK picks \in SUBSET Movies :
            /\ cands' = picks
            /\ req' = [req EXCEPT ![w].pc = "start_commit", ![w].batch = picks]
      BY <2>2 DEF StartCandidates
    <3>2. [req[w] EXCEPT !.pc = "start_commit", !.batch = picks] \in Request
      BY ZenonT(60) DEF Request, Steps
    <3> QED BY <2>2, <3>1, <3>2 DEF StartCandidates
  <2>3. CASE StartFails(w)
    BY <2>3, IdleType DEF StartFails
  <2>4. CASE StartCommit(w)
    <3>1. req[w].batch \in SUBSET Movies
      BY DEF Request
    <3> QED BY <2>4, <3>1, IdleType DEF StartCommit
  <2> QED BY <1>4, <2>1, <2>2, <2>3, <2>4 DEF Start
<1>5. ASSUME NEW w \in Workers, Vote(w) PROVE TypeOK'
  <2>1. CASE VoteRead(w)
    <3>1. [req[w] EXCEPT !.pc = "vote_flush"] \in Request
      BY ZenonT(60) DEF Request, Steps
    <3>2. ASSUME NEW r \in votes
          PROVE  [req[w] EXCEPT !.pc = "vote_flush", !.prior = r.vote] \in Request
      <4>1. r.vote \in VoteChoice
        BY MoviesAssumption DEF Row
      <4> QED BY <4>1, ZenonT(60) DEF Request, Steps
    <3> QED BY <2>1, <3>1, <3>2 DEF VoteRead
  <2>2. CASE VoteInsert(w)
    BY <2>2, IdleType DEF VoteInsert, Request, Steps
  <2>3. CASE VoteUpdate(w)
    <3>1. [req[w] EXCEPT !.pc = "vote_count"] \in Request
      BY DEF Request, Steps
    <3>2. [req[w] EXCEPT !.pc = "vote_count", !.write = "update"] \in Request
      BY ZenonT(60) DEF Request, Steps
    <3> QED BY <2>3, <3>1, <3>2 DEF VoteUpdate
  <2>4. CASE VoteStale(w)
    BY <2>4, IdleType DEF VoteStale
  <2>5. CASE VoteExpected(w)
    <3>1. Expected \in Nat
      BY ExpectedType
    <3>2. [req[w] EXCEPT !.pc = "vote_tally", !.expected = Expected] \in Request
      BY <3>1, ZenonT(60) DEF Request, Steps
    <3> QED BY <2>5, <3>2 DEF VoteExpected
  <2>6. CASE VoteTally(w)
    BY <2>6 DEF VoteTally, Request, Steps
  <2>7. CASE VoteResolve(w)
    <3>1. Leaders(View(w)) \subseteq Movies
      BY ViewType, LeadersType
    <3> QED BY <2>7, <3>1 DEF VoteResolve, Request, Steps
  <2>8. CASE VoteCommit(w)
    <3>1. View(w) \subseteq Row
      BY ViewType
    <3>2. req[w].pick \in Movies \cup {NoMovie}
      BY DEF Request
    <3> QED BY <2>8, <3>1, <3>2, IdleType DEF VoteCommit, Decided
  <2> QED BY <1>5, <2>1, <2>2, <2>3, <2>4, <2>5, <2>6, <2>7, <2>8 DEF Vote
<1>6. ASSUME NEW w \in Workers, Reroll(w) PROVE TypeOK'
  <2>1. CASE RerollPicks(w)
    <3>1. PICK picks \in SUBSET Movies :
            req' = [req EXCEPT ![w].pc = "reroll_delete", ![w].batch = picks,
                               ![w].todo = {KeyOf(r) : r \in votes}]
      BY <2>1 DEF RerollPicks
    <3>2. {KeyOf(r) : r \in votes} \in SUBSET Key
      BY DEF KeyOf, Key, Row
    <3>3. [req[w] EXCEPT !.pc = "reroll_delete", !.batch = picks,
                         !.todo = {KeyOf(r) : r \in votes}] \in Request
      BY <3>2, ZenonT(60) DEF Request, Steps
    <3> QED BY <2>1, <3>1, <3>3 DEF RerollPicks
  <2>5. CASE RerollLocks(w)
    <3>1. PICK k \in req[w].todo, r \in votes :
            req' = [req EXCEPT ![w].todo = @ \ {k}, ![w].wipe = @ \cup {r}]
      BY <2>5 DEF RerollLocks
    <3>2. req[w].todo \ {k} \in SUBSET Key /\ req[w].wipe \cup {r} \in SUBSET Row
      BY DEF Request
    <3>3. [req[w] EXCEPT !.todo = req[w].todo \ {k}, !.wipe = req[w].wipe \cup {r}] \in Request
      BY <3>2, ZenonT(60) DEF Request
    <3> QED BY <2>5, <3>1, <3>3 DEF RerollLocks
  <2>6. CASE RerollDeleted(w)
    BY <2>6 DEF RerollDeleted, Request, Steps
  <2>2. CASE RerollFails(w)
    BY <2>2, IdleType DEF RerollFails
  <2>3. CASE RerollCache(w)
    <3>1. [req[w] EXCEPT !.pc = "reroll_commit", !.batch = {}] \in Request
      BY ZenonT(60) DEF Request, Steps
    <3>2. req[w].batch \in SUBSET Movies
      BY DEF Request
    <3> QED BY <2>3, <3>1, <3>2 DEF RerollCache
  <2>4. CASE RerollCommit(w)
    <3>1. ASSUME NEW v \in Workers
          PROVE  [req[v] EXCEPT !.prior = "wiped"] \in Request
      BY ZenonT(60) DEF Request
    <3>2. ASSUME NEW v \in Workers
          PROVE  [req[v] EXCEPT !.todo = @ \ {KeyOf(r) : r \in req[w].wipe}] \in Request
      <4>1. req[v].todo \ {KeyOf(r) : r \in req[w].wipe} \in SUBSET Key
        BY DEF Request
      <4> QED BY <4>1, ZenonT(60) DEF Request
    <3> QED BY <2>4, <3>1, <3>2, IdleType DEF RerollCommit
  <2> QED BY <1>6, <2>1, <2>2, <2>3, <2>4, <2>5, <2>6 DEF Reroll
<1>7. CASE Timer
  <2>1. Leaders(votes) \subseteq Movies
    BY LeadersType
  <2> QED BY <1>7, <2>1 DEF Timer, TimerFires, TimerResolves, TimerCommits, Decided
<1>8. ASSUME NEW u \in Movers, Join(u) \/ Leave(u) PROVE TypeOK'
  BY <1>8 DEF Join, Leave, Group!Join, Group!Leave
<1>9. CASE Fault
  BY <1>9, IdleType DEF Fault, Crash, RequestError, TimerError, RedisLoss
<1>10. CASE UNCHANGED vars
  BY <1>10 DEF vars
<1> QED
  BY <1>1, <1>2, <1>3, <1>4, <1>5, <1>6, <1>7, <1>8, <1>9, <1>10 DEF Next, Begin, Progress

(* What the steps of a DELETE leave alone.                                 *)
DeleteStep(w) == RerollPicks(w) \/ RerollLocks(w) \/ RerollDeleted(w)

LEMMA DeleteEffect ==
    ASSUME TypeOK, NEW w \in Workers, DeleteStep(w)
    PROVE  /\ UNCHANGED <<status, winner, votes, role, cands, shown, foreign, announced,
                          timer, verdict, faults>>
           /\ req'[w].row = req[w].row /\ req'[w].write = req[w].write
           /\ req'[w].pick = req[w].pick
           /\ \/ req[w].pc \in {"reroll_ai", "reroll_delete"} /\ req'[w].wipe = req[w].wipe
              \/ req[w].pc = "reroll_delete"
           /\ req'[w].pc \in {"reroll_delete", "reroll_cache"}
           /\ \A v \in Workers \ {w} : req'[v] = req[v]
<1>0. req \in [Workers -> Request]
  BY DEF TypeOK
<1>1. CASE RerollPicks(w)
  BY <1>0, <1>1 DEF RerollPicks, sessionRow, Request
<1>2. CASE RerollLocks(w)
  BY <1>0, <1>2 DEF RerollLocks, sessionRow, Request
<1>3. CASE RerollDeleted(w)
  BY <1>0, <1>3 DEF RerollDeleted, sessionRow, Request
<1> QED BY <1>1, <1>2, <1>3 DEF DeleteStep

-----------------------------------------------------------------------------
(* Row locks.                                                              *)

(* A request that goes idle, or moves on without locking anything, cannot  *)
(* break the lock discipline, and neither can rows that disappear.         *)
Keeps(v) ==
    \/ req'[v] = Idle
    \/ /\ req'[v].row = req[v].row
       /\ req'[v].write = req[v].write
       /\ req'[v].wipe = req[v].wipe
       /\ req'[v].pc # "idle"
       /\ req'[v].pc \in VoteSteps => req[v].pc \in VoteSteps
       /\ req[v].write # "none" => req'[v].pc \in Flushed
       /\ req[v].wipe # {} => req'[v].pc \in Deleting

LEMMA LocksKept ==
    ASSUME LockInv, votes' \subseteq votes, \A v \in Workers : Keeps(v)
    PROVE  LockInv'
<1>1. OwnLocks'
  <2> SUFFICES ASSUME NEW w \in Workers
               PROVE  /\ req'[w].pc = "idle" => req'[w] = Idle
                      /\ req'[w].pc \in VoteSteps => req'[w].row \in Row
                      /\ req'[w].write # "none" => req'[w].pc \in Flushed
                      /\ req'[w].wipe # {} => req'[w].pc \in Deleting
    BY DEF OwnLocks
  <2>1. CASE req'[w] = Idle
    BY <2>1 DEF Idle, VoteSteps, Flushed, Deleting
  <2>2. CASE req'[w] # Idle
    BY <2>2 DEF LockInv, OwnLocks, Keeps
  <2> QED BY <2>1, <2>2
<1>2. Exclusive'
  BY DEF LockInv, Exclusive, Keeps, Idle, SameKey
<1>3. FreshInserts'
  BY DEF LockInv, FreshInserts, Keeps, Idle, SameKey
<1>4. UniqueVotes'
  BY DEF LockInv, UniqueVotes, SameKey
<1> QED BY <1>1, <1>2, <1>3, <1>4 DEF LockInv

LEMMA LockNext == ASSUME TypeOK, LockInv, [Next]_vars PROVE LockInv'
<1> USE DEF sessionRow
<1>0. req \in [Workers -> Request]
  BY DEF TypeOK
<1>1. ASSUME NEW w \in Workers, NEW u \in Users, BeginStart(w, u) PROVE LockInv'
  BY <1>0, <1>1, LocksKept, ZenonT(60)
     DEF BeginStart, Keeps, LockInv, OwnLocks, Idle, VoteSteps, Flushed, Deleting, Request
<1>2. ASSUME NEW w \in Workers, NEW u \in Users, NEW m \in Movies, NEW c \in Choices,
             BeginVote(w, u, m, c)
      PROVE  LockInv'
  <2>1. /\ votes' = votes
        /\ req'[w].row \in Row
        /\ req'[w].write = "none" /\ req'[w].wipe = {} /\ req'[w].pc = "vote_read"
        /\ \A v \in Workers \ {w} : req'[v] = req[v]
    BY <1>0, <1>2 DEF BeginVote, Idle, Row
  <2>2. OwnLocks'
    BY <2>1 DEF LockInv, OwnLocks, VoteSteps, Flushed, Deleting
  <2>3. Exclusive'
    BY <2>1 DEF LockInv, Exclusive, SameKey
  <2>4. FreshInserts'
    BY <2>1 DEF LockInv, FreshInserts, SameKey
  <2>5. UniqueVotes'
    BY <2>1 DEF LockInv, UniqueVotes
  <2> QED BY <2>2, <2>3, <2>4, <2>5 DEF LockInv
<1>3. ASSUME NEW w \in Workers, NEW u \in Users, BeginReroll(w, u) PROVE LockInv'
  BY <1>0, <1>3, LocksKept, ZenonT(60)
     DEF BeginReroll, Keeps, LockInv, OwnLocks, Idle, VoteSteps, Flushed, Deleting, Request
<1>4. ASSUME NEW w \in Workers, Start(w) PROVE LockInv'
  <2>1. CASE StartMovieSaved(w)
    BY <2>1, LocksKept DEF StartMovieSaved, Keeps, LockInv, OwnLocks, Idle
  <2>2. CASE StartCandidates(w)
    <3>1. /\ votes' = votes
          /\ req[w].pc = "start_ai" /\ req'[w].pc = "start_commit"
          /\ req'[w].row = req[w].row /\ req'[w].write = req[w].write
          /\ req'[w].wipe = req[w].wipe
          /\ \A v \in Workers \ {w} : req'[v] = req[v]
      BY <1>0, <2>2 DEF StartCandidates, Request
    <3>2. \A v \in Workers : Keeps(v)
      BY <3>1 DEF Keeps, LockInv, OwnLocks, VoteSteps, Flushed, Deleting
    <3> QED BY <3>1, <3>2, LocksKept
  <2>3. CASE StartFails(w)
    BY <1>0, <2>3, LocksKept DEF StartFails, Keeps, LockInv, OwnLocks, Idle
  <2>4. CASE StartCommit(w)
    BY <1>0, <2>4, LocksKept DEF StartCommit, Keeps, LockInv, OwnLocks, Idle
  <2> QED BY <1>4, <2>1, <2>2, <2>3, <2>4 DEF Start
<1>5. ASSUME NEW w \in Workers, Vote(w) PROVE LockInv'
  <2>1. CASE VoteRead(w) \/ VoteStale(w) \/ VoteExpected(w) \/ VoteTally(w) \/ VoteResolve(w)
    <3>1. votes' = votes
      BY <2>1 DEF VoteRead, VoteStale, VoteExpected, VoteTally, VoteResolve
    <3>2. Keeps(w)
      <4>1. CASE VoteRead(w)
        BY <1>0, <4>1 DEF VoteRead, Keeps, LockInv, OwnLocks, VoteSteps, Flushed, Deleting, Request
      <4>2. CASE VoteStale(w)
        BY <1>0, <4>2 DEF VoteStale, Keeps
      <4>3. CASE VoteExpected(w)
        BY <1>0, <4>3 DEF VoteExpected, Keeps, LockInv, OwnLocks, VoteSteps, Flushed, Deleting, Request
      <4>4. CASE VoteTally(w)
        BY <1>0, <4>4 DEF VoteTally, Keeps, LockInv, OwnLocks, VoteSteps, Flushed, Deleting, Request
      <4>5. CASE VoteResolve(w)
        BY <1>0, <4>5 DEF VoteResolve, Keeps, LockInv, OwnLocks, VoteSteps, Flushed, Deleting, Request
      <4> QED BY <2>1, <4>1, <4>2, <4>3, <4>4, <4>5
    <3>3. \A v \in Workers \ {w} : req'[v] = req[v]
      BY <1>0, <2>1 DEF VoteRead, VoteStale, VoteExpected, VoteTally, VoteResolve
    <3>4. \A v \in Workers \ {w} : Keeps(v)
      BY <3>3 DEF Keeps, LockInv, OwnLocks, Idle
    <3> QED BY <3>1, <3>2, <3>4, LocksKept
  <2>2. ASSUME VoteInsert(w) \/ VoteUpdate(w), req'[w].write # req[w].write PROVE LockInv'
    <3>1. /\ votes' = votes
          /\ req[w].pc = "vote_flush" /\ req'[w].pc = "vote_count"
          /\ req'[w].row = req[w].row /\ req'[w].wipe = req[w].wipe
          /\ ~Locked(w, req[w].row)
          /\ \A v \in Workers \ {w} : req'[v] = req[v]
      <4>1. req[w].pc = "vote_flush" /\ req[w].write \in {"none", "insert", "update"}
        BY <1>0, <2>2 DEF VoteInsert, VoteUpdate, Request
      <4>2. CASE VoteInsert(w) /\ req' = [req EXCEPT ![w] = Idle]
        <5>1. req'[w].write = "none" /\ req[w].write = "none"
          BY <1>0, <4>1, <4>2 DEF Idle, LockInv, OwnLocks, Flushed, Deleting
        <5> QED BY <2>2, <5>1
      <4>3. CASE VoteInsert(w) /\ req' = [req EXCEPT ![w].pc = "vote_count", ![w].write = "insert"]
        BY <1>0, <4>3 DEF VoteInsert, Request
      <4>4. CASE VoteUpdate(w)
        BY <1>0, <2>2, <4>4 DEF VoteUpdate, Request
      <4> QED BY <2>2, <4>2, <4>3, <4>4 DEF VoteInsert
    <3>2. req'[w].write = "insert" => \A r \in votes : ~SameKey(r, req[w].row)
      BY <1>0, <2>2 DEF VoteInsert, VoteUpdate, Idle, Request
    <3>3. OwnLocks'
      BY <3>1 DEF LockInv, OwnLocks, VoteSteps, Flushed, Deleting
    <3>4. Exclusive'
      BY <3>1, <3>3 DEF LockInv, OwnLocks, Exclusive, Locked, HoldsKey, SameKey, VoteSteps,
                        Flushed, Deleting
    <3>5. FreshInserts'
      BY <3>1, <3>2 DEF LockInv, FreshInserts, SameKey
    <3>6. UniqueVotes'
      BY <3>1 DEF LockInv, UniqueVotes
    <3> QED BY <3>3, <3>4, <3>5, <3>6 DEF LockInv
  <2>3. ASSUME VoteInsert(w) \/ VoteUpdate(w), req'[w].write = req[w].write PROVE LockInv'
    <3>1. votes' = votes
      BY <2>3 DEF VoteInsert, VoteUpdate
    <3>2. Keeps(w)
      <4>1. CASE VoteInsert(w)
        BY <1>0, <2>3, <4>1 DEF VoteInsert, Keeps, LockInv, OwnLocks, VoteSteps, Flushed, Deleting, Request
      <4>2. CASE VoteUpdate(w)
        BY <1>0, <2>3, <4>2 DEF VoteUpdate, Keeps, LockInv, OwnLocks, VoteSteps, Flushed, Deleting, Request
      <4> QED BY <2>3, <4>1, <4>2
    <3>3. \A v \in Workers \ {w} : req'[v] = req[v]
      BY <1>0, <2>3 DEF VoteInsert, VoteUpdate
    <3>4. \A v \in Workers \ {w} : Keeps(v)
      BY <3>3 DEF Keeps, LockInv, OwnLocks, Idle
    <3> QED BY <3>1, <3>2, <3>4, LocksKept
  <2>4. CASE VoteCommit(w)
    <3>1. /\ votes' = (votes \ Replaced(w)) \cup Written(w)
          /\ req'[w] = Idle
          /\ \A v \in Workers \ {w} : req'[v] = req[v]
      BY <1>0, <2>4 DEF VoteCommit, View
    <3>2. req[w].write \in {"none", "insert", "update"}
      BY <1>0 DEF Request
    <3>3. OwnLocks'
      BY <3>1 DEF LockInv, OwnLocks, Idle, VoteSteps, Flushed, Deleting
    <3>4. Exclusive'
      BY <3>1 DEF LockInv, Exclusive, Idle, SameKey
    <3>5. FreshInserts'
      BY <3>1, <3>2 DEF LockInv, FreshInserts, Exclusive, Written, Idle, SameKey
    <3>6. UniqueVotes'
      BY <3>1, <3>2 DEF LockInv, UniqueVotes, FreshInserts, Replaced, Written, SameKey
    <3> QED BY <3>3, <3>4, <3>5, <3>6 DEF LockInv
  <2> QED BY <1>5, <2>1, <2>2, <2>3, <2>4 DEF Vote
<1>6. ASSUME NEW w \in Workers, Reroll(w) PROVE LockInv'
  <2>1. CASE RerollLocks(w)
    <3>1. PICK k \in req[w].todo, r \in votes :
            /\ SameKey(r, k) /\ ~Locked(w, r)
            /\ req' = [req EXCEPT ![w].todo = @ \ {k}, ![w].wipe = @ \cup {r}]
      BY <2>1 DEF RerollLocks
    <3>2. /\ votes' = votes
          /\ req[w].pc = "reroll_delete" /\ req'[w].pc = "reroll_delete"
          /\ req'[w].write = req[w].write /\ req'[w].wipe = req[w].wipe \cup {r}
          /\ \A v \in Workers \ {w} : req'[v] = req[v]
      BY <1>0, <2>1, <3>1 DEF RerollLocks, Request
    <3>3. req[w].write = "none"
      BY <3>2 DEF LockInv, OwnLocks, VoteSteps, Flushed, Deleting
    <3>4. OwnLocks'
      BY <3>2, <3>3 DEF LockInv, OwnLocks, VoteSteps, Flushed, Deleting
    <3>5. \A v \in Workers \ {w} : req[v].write # "none" => ~SameKey(req[v].row, r)
      BY <3>1 DEF Locked, HoldsKey
    <3>6. Exclusive'
      BY <3>2, <3>3, <3>5 DEF LockInv, Exclusive
    <3>7. FreshInserts'
      BY <3>2, <3>3 DEF LockInv, FreshInserts, SameKey
    <3>8. UniqueVotes'
      BY <3>2 DEF LockInv, UniqueVotes
    <3> QED BY <3>4, <3>6, <3>7, <3>8 DEF LockInv
  <2>5. CASE RerollPicks(w) \/ RerollDeleted(w)
    <3>1. /\ votes' = votes
          /\ req[w].pc \in RerollSteps /\ req'[w].pc \in Deleting
          /\ req'[w].row = req[w].row /\ req'[w].write = req[w].write
          /\ req'[w].wipe = req[w].wipe
          /\ \A v \in Workers \ {w} : req'[v] = req[v]
      <4>1. CASE RerollPicks(w)
        BY <1>0, <4>1 DEF RerollPicks, Request, RerollSteps, Deleting
      <4>2. CASE RerollDeleted(w)
        BY <1>0, <4>2 DEF RerollDeleted, Request, RerollSteps, Deleting
      <4> QED BY <2>5, <4>1, <4>2
    <3>2. \A v \in Workers : Keeps(v)
      BY <3>1 DEF Keeps, LockInv, OwnLocks, VoteSteps, Flushed, RerollSteps, Deleting
    <3> QED BY <3>1, <3>2, LocksKept
  <2>2. CASE RerollFails(w)
    BY <1>0, <2>2, LocksKept DEF RerollFails, Keeps, LockInv, OwnLocks, Idle
  <2>3. CASE RerollCache(w)
    BY <1>0, <2>3, LocksKept, ZenonT(60)
       DEF RerollCache, Keeps, LockInv, OwnLocks, Idle, VoteSteps, Flushed, Deleting, Request
  <2>4. CASE RerollCommit(w)
    <3>1. votes' \subseteq votes
      BY <2>4 DEF RerollCommit
    <3>2. \A v \in Workers : Keeps(v)
      <4> SUFFICES ASSUME NEW v \in Workers PROVE Keeps(v)
        OBVIOUS
      <4>1. CASE req'[v] = Idle
        BY <4>1 DEF Keeps
      <4>2. CASE req'[v] = [req[v] EXCEPT !.prior = "wiped"] /\ LosesRow(v, req[w].wipe)
        BY <1>0, <4>2 DEF Keeps, LosesRow, LockInv, OwnLocks, Request
      <4>3. CASE /\ req'[v] = [req[v] EXCEPT !.todo = @ \ {KeyOf(r) : r \in req[w].wipe}]
                 /\ req[v].pc = "reroll_delete"
        BY <1>0, <4>3 DEF Keeps, LockInv, OwnLocks, Request
      <4>4. CASE req'[v] = req[v]
        BY <4>4 DEF Keeps, LockInv, OwnLocks
      <4> QED BY <2>4, <4>1, <4>2, <4>3, <4>4 DEF RerollCommit
    <3> QED BY <3>1, <3>2, LocksKept
  <2> QED BY <1>6, <2>1, <2>2, <2>3, <2>4, <2>5 DEF Reroll
<1>7. ASSUME votes' = votes, req' = req PROVE LockInv'
  BY <1>7, LocksKept DEF Keeps, LockInv, OwnLocks, Idle
<1>8. ASSUME votes' = votes,
             \/ req' = [v \in Workers |-> Idle]
             \/ \E w \in Workers : req' = [req EXCEPT ![w] = Idle]
      PROVE  LockInv'
  <2>1. \A v \in Workers : Keeps(v)
    BY <1>0, <1>8 DEF Keeps, LockInv, OwnLocks, Idle
  <2> QED BY <1>8, <2>1, LocksKept
<1>9. ASSUME Timer \/ UNCHANGED vars \/ \E u \in Movers : Join(u) \/ Leave(u)
      PROVE  LockInv'
  BY <1>7, <1>9 DEF Timer, TimerFires, TimerResolves, TimerCommits, Join, Leave, vars
<1>10. CASE Fault
  BY <1>7, <1>8, <1>10 DEF Fault, Crash, RequestError, TimerError, RedisLoss
<1> QED
  BY <1>1, <1>2, <1>3, <1>4, <1>5, <1>6, <1>9, <1>10 DEF Next, Begin, Progress

-----------------------------------------------------------------------------
(* Offered movies.                                                         *)

(* What has been put to the vote stays so.                                 *)
CarriesOffered(v) ==
    \/ req'[v] = Idle
    \/ req'[v].row = req[v].row /\ req'[v].pick = req[v].pick

LEMMA LeadersOffered ==
    ASSUME NEW rows, VotedOn(rows) \subseteq PutToVote PROVE Leaders(rows) \subseteq PutToVote
BY DEF Leaders

LEMMA ViewOffered ==
    ASSUME OfferInv, OwnLocks, NEW w \in Workers PROVE VotedOn(View(w)) \subseteq PutToVote
<1>1. Written(w) # {} => req[w].row \in Row
  BY DEF Written, OwnLocks, VoteSteps
<1> QED BY <1>1 DEF OfferInv, VotedOn, View, Written

LEMMA OfferKept ==
    ASSUME OfferInv, PutToVote \subseteq PutToVote', votes' \subseteq votes,
           winner' = winner, verdict' \in {verdict, NoMovie},
           \A v \in Workers : CarriesOffered(v)
    PROVE  OfferInv'
<1>1. (VotedOn(votes) \subseteq PutToVote)'
  BY DEF OfferInv, VotedOn
<1>2. (\A w \in Workers : req[w].row \in Row => req[w].row.movie \in PutToVote)'
  BY NoRowAssumption DEF OfferInv, CarriesOffered, Idle
<1>3. WinnerWasPutToVote'
  BY DEF OfferInv, WinnerWasPutToVote, CarriesOffered, Idle
<1> QED BY <1>1, <1>2, <1>3 DEF OfferInv

LEMMA OfferNext == ASSUME TypeOK, OwnLocks, OfferInv, [Next]_vars PROVE OfferInv'
<1> USE DEF sessionRow
<1>0. req \in [Workers -> Request]
  BY DEF TypeOK
<1>1. ASSUME NEW w \in Workers, NEW u \in Users, BeginStart(w, u) PROVE OfferInv'
  BY <1>0, <1>1, OfferKept DEF BeginStart, CarriesOffered, PutToVote, Request
<1>2. ASSUME NEW w \in Workers, NEW u \in Users, NEW m \in Movies, NEW c \in Choices,
             BeginVote(w, u, m, c)
      PROVE  OfferInv'
  <2>1. /\ UNCHANGED <<votes, winner, verdict>>
        /\ req'[w].row.movie = m /\ req'[w].pick = NoMovie
        /\ \A v \in Workers \ {w} : req'[v] = req[v]
    BY <1>0, <1>2 DEF BeginVote, Idle
  <2>2. PutToVote \subseteq PutToVote' /\ m \in PutToVote'
    BY <1>2 DEF BeginVote, PutToVote
  <2> QED BY <2>1, <2>2 DEF OfferInv, WinnerWasPutToVote, VotedOn
<1>3. ASSUME NEW w \in Workers, NEW u \in Users, BeginReroll(w, u) PROVE OfferInv'
  BY <1>0, <1>3, OfferKept DEF BeginReroll, CarriesOffered, PutToVote, Request
<1>4. ASSUME NEW w \in Workers, Start(w) PROVE OfferInv'
  <2>1. CASE StartMovieSaved(w)
    BY <2>1, OfferKept DEF StartMovieSaved, CarriesOffered, PutToVote
  <2>2. CASE StartCandidates(w)
    BY <1>0, <2>2, OfferKept DEF StartCandidates, CarriesOffered, PutToVote, Request
  <2>3. CASE StartFails(w)
    BY <1>0, <2>3, OfferKept DEF StartFails, CarriesOffered, PutToVote
  <2>4. CASE StartCommit(w)
    BY <1>0, <2>4, OfferKept DEF StartCommit, CarriesOffered, PutToVote
  <2> QED BY <1>4, <2>1, <2>2, <2>3, <2>4 DEF Start
<1>5. ASSUME NEW w \in Workers, Vote(w) PROVE OfferInv'
  <2>1. CASE VoteRead(w)
    BY <1>0, <2>1, OfferKept DEF VoteRead, CarriesOffered, PutToVote, Request
  <2>2. CASE VoteInsert(w)
    BY <1>0, <2>2, OfferKept DEF VoteInsert, CarriesOffered, PutToVote, Request
  <2>3. CASE VoteUpdate(w)
    BY <1>0, <2>3, OfferKept DEF VoteUpdate, CarriesOffered, PutToVote, Request
  <2>4. CASE VoteStale(w)
    BY <1>0, <2>4, OfferKept DEF VoteStale, CarriesOffered, PutToVote
  <2>5. CASE VoteExpected(w)
    BY <1>0, <2>5, OfferKept DEF VoteExpected, CarriesOffered, PutToVote, Request
  <2>6. CASE VoteTally(w)
    BY <1>0, <2>6, OfferKept DEF VoteTally, CarriesOffered, PutToVote, Request
  <2>7. CASE VoteResolve(w)
    <3>1. Leaders(View(w)) \subseteq PutToVote
      BY ViewOffered, LeadersOffered
    <3>2. /\ UNCHANGED <<votes, shown, foreign, winner, verdict>>
          /\ req'[w].row = req[w].row
          /\ req'[w].pick = req[w].pick \/ req'[w].pick \in Leaders(View(w))
          /\ \A v \in Workers \ {w} : req'[v] = req[v]
      BY <1>0, <2>7 DEF VoteResolve, Request
    <3> QED BY <3>1, <3>2 DEF OfferInv, WinnerWasPutToVote, PutToVote, VotedOn
  <2>8. CASE VoteCommit(w)
    <3>1. /\ votes' = View(w) /\ winner' \in {winner, req[w].pick}
          /\ UNCHANGED <<shown, foreign, verdict>>
          /\ req'[w] = Idle
          /\ \A v \in Workers \ {w} : req'[v] = req[v]
      BY <1>0, <2>8 DEF VoteCommit
    <3>2. (VotedOn(votes) \subseteq PutToVote)'
      BY <3>1, ViewOffered DEF VotedOn, PutToVote
    <3>3. (\A v \in Workers : req[v].row \in Row => req[v].row.movie \in PutToVote)'
      BY <3>1, NoRowAssumption DEF OfferInv, PutToVote, Idle
    <3>4. WinnerWasPutToVote'
      BY <3>1 DEF OfferInv, WinnerWasPutToVote, PutToVote, Idle
    <3> QED BY <3>2, <3>3, <3>4 DEF OfferInv
  <2> QED BY <1>5, <2>1, <2>2, <2>3, <2>4, <2>5, <2>6, <2>7, <2>8 DEF Vote
<1>6. ASSUME NEW w \in Workers, Reroll(w) PROVE OfferInv'
  <2>1. CASE DeleteStep(w)
    BY <2>1, DeleteEffect, OfferKept DEF CarriesOffered, PutToVote
  <2>2. CASE RerollFails(w)
    BY <1>0, <2>2, OfferKept DEF RerollFails, CarriesOffered, PutToVote
  <2>3. CASE RerollCache(w)
    BY <1>0, <2>3, OfferKept DEF RerollCache, CarriesOffered, PutToVote, Request
  <2>4. CASE RerollCommit(w)
    <3>1. votes' \subseteq votes /\ UNCHANGED <<shown, foreign, winner, verdict>>
      BY <2>4 DEF RerollCommit
    <3>2. \A v \in Workers : CarriesOffered(v)
      BY <1>0, <2>4 DEF RerollCommit, CarriesOffered, PutToVote, Request
    <3> QED BY <3>1, <3>2, OfferKept DEF PutToVote
  <2> QED BY <1>6, <2>1, <2>2, <2>3, <2>4 DEF Reroll, DeleteStep
<1>7. CASE Timer
  <2>1. CASE TimerFires
    BY <2>1, OfferKept DEF TimerFires, CarriesOffered, PutToVote
  <2>2. CASE TimerResolves
    <3>1. Leaders(votes) \subseteq PutToVote
      BY LeadersOffered DEF OfferInv
    <3> QED BY <2>2, <3>1 DEF TimerResolves, OfferInv, WinnerWasPutToVote, PutToVote, VotedOn
  <2>3. CASE TimerCommits
    BY <2>3 DEF TimerCommits, OfferInv, WinnerWasPutToVote, PutToVote, VotedOn
  <2> QED BY <1>7, <2>1, <2>2, <2>3 DEF Timer
<1>8. ASSUME NEW u \in Movers, Join(u) \/ Leave(u) PROVE OfferInv'
  BY <1>8, OfferKept DEF Join, Leave, CarriesOffered, PutToVote
<1>9. CASE Fault
  <2>1. /\ UNCHANGED <<votes, shown, foreign, winner>>
        /\ verdict' \in {verdict, NoMovie}
        /\ \A v \in Workers : CarriesOffered(v)
    BY <1>0, <1>9 DEF Fault, Crash, RequestError, TimerError, RedisLoss, CarriesOffered, PutToVote
  <2> QED BY <2>1, OfferKept DEF PutToVote
<1>10. CASE UNCHANGED vars
  BY <1>10, OfferKept DEF vars, CarriesOffered, PutToVote
<1> QED
  BY <1>1, <1>2, <1>3, <1>4, <1>5, <1>6, <1>7, <1>8, <1>9, <1>10 DEF Next, Begin, Progress

-----------------------------------------------------------------------------
(* Phases.                                                                 *)

(* A request that ends or stays in its kind of steps, in a state where     *)
(* nothing else about the phases changes.                                  *)
StaysInKind(v) ==
    \/ req'[v] = Idle
    \/ req[v].pc \in StartSteps /\ req'[v].pc \in StartSteps /\ req'[v].pick = req[v].pick
    \/ req[v].pc \in VoteSteps /\ req'[v].pc \in VoteSteps
    \/ req[v].pc \in RerollSteps /\ req'[v].pc \in RerollSteps /\ req'[v].pick = req[v].pick
    \/ req'[v] = req[v]

LEMMA PhaseKept ==
    ASSUME PhaseInv, announced' = announced, timer' \in {timer, "unset"},
           \/ status' = status
           \/ status = "none" /\ status' = "active" /\ ~announced
           \/ announced /\ status' \in Decided,
           \A v \in Workers : StaysInKind(v)
    PROVE  PhaseInv'
<1>1. /\ announced' => status' # "none"
      /\ ~announced' => status' \in {"none", "active"} /\ timer' = "unset"
  BY DEF PhaseInv, Decided
<1>2. ASSUME NEW w \in Workers
      PROVE  /\ req'[w].pc \in StartSteps => ~announced'
             /\ req'[w].pc \in VoteSteps \cup RerollSteps => announced'
             /\ req'[w].pick # NoMovie => req'[w].pc \in VoteSteps
  BY DEF PhaseInv, StaysInKind, Idle, StartSteps, VoteSteps, Flushed, Deleting, RerollSteps
<1>3. ASSUME NEW w \in Workers, req'[w].pc \in StartSteps PROVE req[w].pc \in StartSteps
  BY <1>3 DEF StaysInKind, Idle, StartSteps, VoteSteps, Flushed, Deleting, RerollSteps
<1> QED BY <1>1, <1>2, <1>3 DEF PhaseInv

LEMMA PhaseNext == ASSUME TypeOK, PhaseInv, [Next]_vars PROVE PhaseInv'
<1> USE DEF sessionRow
<1>0. req \in [Workers -> Request]
  BY DEF TypeOK
<1>1. ASSUME NEW w \in Workers, NEW u \in Users, BeginStart(w, u) PROVE PhaseInv'
  <2>1. /\ status = "none" /\ ~announced /\ UNCHANGED <<status, announced, timer>>
        /\ \A v \in Workers : req[v].pc \notin StartSteps
        /\ req[w].pc = "idle" /\ req'[w].pc = "start_ai" /\ req'[w].pick = req[w].pick
        /\ \A v \in Workers \ {w} : req'[v] = req[v]
    BY <1>0, <1>1 DEF BeginStart, Starting, PhaseInv, StartSteps, Request
  <2> QED BY <2>1 DEF PhaseInv, StartSteps, VoteSteps, Flushed, Deleting, RerollSteps
<1>2. ASSUME NEW w \in Workers, NEW u \in Users, NEW m \in Movies, NEW c \in Choices,
             BeginVote(w, u, m, c)
      PROVE  PhaseInv'
  <2>1. /\ announced /\ UNCHANGED <<status, announced, timer>>
        /\ req'[w].pc = "vote_read"
        /\ \A v \in Workers \ {w} : req'[v] = req[v]
    BY <1>0, <1>2 DEF BeginVote, Idle
  <2> QED BY <2>1 DEF PhaseInv, StartSteps, VoteSteps, Flushed, Deleting, RerollSteps
<1>3. ASSUME NEW w \in Workers, NEW u \in Users, BeginReroll(w, u) PROVE PhaseInv'
  <2>1. /\ announced /\ UNCHANGED <<status, announced, timer>>
        /\ req[w].pc = "idle" /\ req'[w].pc = "reroll_ai" /\ req'[w].pick = req[w].pick
        /\ \A v \in Workers \ {w} : req'[v] = req[v]
    BY <1>0, <1>3 DEF BeginReroll, Request
  <2> QED BY <2>1 DEF PhaseInv, StartSteps, VoteSteps, Flushed, Deleting, RerollSteps
<1>4. ASSUME NEW w \in Workers, Start(w) PROVE PhaseInv'
  <2>1. CASE StartMovieSaved(w)
    BY <1>0, <2>1, PhaseKept DEF StartMovieSaved, StaysInKind, PhaseInv, StartSteps
  <2>2. CASE StartCandidates(w)
    BY <1>0, <2>2, PhaseKept DEF StartCandidates, StaysInKind, Request, StartSteps, VoteSteps, Flushed, Deleting, RerollSteps
  <2>3. CASE StartFails(w)
    BY <1>0, <2>3, PhaseKept DEF StartFails, StaysInKind
  <2>4. CASE StartCommit(w)
    <3>1. /\ req[w].pc \in StartSteps /\ req'[w] = Idle
          /\ status' = "active" /\ announced'
          /\ \A v \in Workers \ {w} : req'[v] = req[v]
      BY <1>0, <2>4 DEF StartCommit, StartSteps
    <3>2. \A v \in Workers \ {w} : req[v].pc \notin StartSteps
      BY <3>1 DEF PhaseInv
    <3> QED BY <3>1, <3>2 DEF PhaseInv, Idle, StartSteps, VoteSteps, Flushed, Deleting, RerollSteps
  <2> QED BY <1>4, <2>1, <2>2, <2>3, <2>4 DEF Start
<1>5. ASSUME NEW w \in Workers, Vote(w) PROVE PhaseInv'
  <2>1. CASE VoteRead(w)
    BY <1>0, <2>1, PhaseKept DEF VoteRead, StaysInKind, Request, StartSteps, VoteSteps, Flushed, Deleting, RerollSteps
  <2>2. CASE VoteInsert(w)
    BY <1>0, <2>2, PhaseKept DEF VoteInsert, StaysInKind, Request, StartSteps, VoteSteps, Flushed, Deleting, RerollSteps
  <2>3. CASE VoteUpdate(w)
    BY <1>0, <2>3, PhaseKept DEF VoteUpdate, StaysInKind, Request, StartSteps, VoteSteps, Flushed, Deleting, RerollSteps
  <2>4. CASE VoteStale(w)
    BY <1>0, <2>4, PhaseKept DEF VoteStale, StaysInKind
  <2>5. CASE VoteExpected(w)
    BY <1>0, <2>5, PhaseKept DEF VoteExpected, StaysInKind, Request, StartSteps, VoteSteps, Flushed, Deleting, RerollSteps
  <2>6. CASE VoteTally(w)
    BY <1>0, <2>6, PhaseKept DEF VoteTally, StaysInKind, Request, StartSteps, VoteSteps, Flushed, Deleting, RerollSteps
  <2>7. CASE VoteResolve(w)
    BY <1>0, <2>7, PhaseKept DEF VoteResolve, StaysInKind, Request, StartSteps, VoteSteps, Flushed, Deleting, RerollSteps
  <2>8. CASE VoteCommit(w)
    <3>1. announced
      BY <2>8 DEF VoteCommit, PhaseInv, VoteSteps, Flushed, Deleting
    <3>2. status' = status \/ status' \in Decided
      BY <2>8 DEF VoteCommit, Decided
    <3> QED BY <1>0, <2>8, <3>1, <3>2, PhaseKept DEF VoteCommit, StaysInKind
  <2> QED BY <1>5, <2>1, <2>2, <2>3, <2>4, <2>5, <2>6, <2>7, <2>8 DEF Vote
<1>6. ASSUME NEW w \in Workers, Reroll(w) PROVE PhaseInv'
  <2>1. CASE DeleteStep(w)
    <3>1. /\ UNCHANGED <<status, announced, timer>>
          /\ req[w].pc \in RerollSteps /\ req'[w].pc \in RerollSteps /\ req'[w].pick = req[w].pick
          /\ \A v \in Workers \ {w} : req'[v] = req[v]
      BY <2>1, DeleteEffect DEF RerollSteps, Deleting
    <3> QED BY <3>1, PhaseKept DEF StaysInKind
  <2>2. CASE RerollFails(w)
    BY <1>0, <2>2, PhaseKept DEF RerollFails, StaysInKind
  <2>3. CASE RerollCache(w)
    BY <1>0, <2>3, PhaseKept DEF RerollCache, StaysInKind, Request, StartSteps, VoteSteps, Flushed, Deleting, RerollSteps
  <2>4. CASE RerollCommit(w)
    <3>1. \A v \in Workers : StaysInKind(v)
      <4> SUFFICES ASSUME NEW v \in Workers PROVE StaysInKind(v)
        OBVIOUS
      <4>1. CASE req'[v] = Idle \/ req'[v] = req[v]
        BY <4>1 DEF StaysInKind
      <4>2. CASE req'[v] = [req[v] EXCEPT !.prior = "wiped"] /\ LosesRow(v, req[w].wipe)
        BY <1>0, <4>2 DEF StaysInKind, LosesRow, VoteSteps, Request
      <4>3. CASE /\ req'[v] = [req[v] EXCEPT !.todo = @ \ {KeyOf(r) : r \in req[w].wipe}]
                 /\ req[v].pc = "reroll_delete"
        BY <1>0, <4>3 DEF StaysInKind, RerollSteps, Deleting, Request
      <4> QED BY <2>4, <4>1, <4>2, <4>3 DEF RerollCommit
    <3> QED BY <2>4, <3>1, PhaseKept DEF RerollCommit
  <2> QED BY <1>6, <2>1, <2>2, <2>3, <2>4 DEF Reroll, DeleteStep
<1>7. CASE Timer
  <2>1. timer # "unset" => announced
    BY DEF PhaseInv
  <2>2. UNCHANGED <<announced, req>>
    BY <1>7 DEF Timer, TimerFires, TimerResolves, TimerCommits
  <2>3. announced /\ (status' = status \/ status' \in Decided)
    BY <1>7, <2>1 DEF Timer, TimerFires, TimerResolves, TimerCommits, Decided
  <2> QED BY <2>2, <2>3 DEF PhaseInv, Decided
<1>8. ASSUME NEW u \in Movers, Join(u) \/ Leave(u) PROVE PhaseInv'
  BY <1>8, PhaseKept DEF Join, Leave, StaysInKind
<1>9. CASE Fault
  <2>1. /\ UNCHANGED <<status, announced>>
        /\ timer' \in {timer, "unset"}
        /\ \A v \in Workers : StaysInKind(v)
    BY <1>0, <1>9 DEF Fault, Crash, RequestError, TimerError, RedisLoss, StaysInKind
  <2> QED BY <2>1, PhaseKept
<1>10. CASE UNCHANGED vars
  BY <1>10, PhaseKept DEF vars, StaysInKind
<1> QED
  BY <1>1, <1>2, <1>3, <1>4, <1>5, <1>6, <1>7, <1>8, <1>9, <1>10 DEF Next, Begin, Progress

-----------------------------------------------------------------------------
(* The timeout task.                                                       *)

LEMMA GuardNext ==
    ASSUME TypeOK, PhaseInv, TimerGuardsSession, [Next]_vars PROVE TimerGuardsSession'
<1> USE DEF sessionRow, TimerGuardsSession
<1>1. ASSUME NEW w \in Workers, Begin(w) PROVE TimerGuardsSession'
  BY <1>1 DEF Begin, BeginStart, BeginVote, BeginReroll
<1>2. ASSUME NEW w \in Workers, Start(w) PROVE TimerGuardsSession'
  <2>1. ~announced
    BY <1>2 DEF Start, StartMovieSaved, StartCandidates, StartFails, StartCommit,
                PhaseInv, StartSteps
  <2> QED BY <1>2, <2>1 DEF Start, StartMovieSaved, StartCandidates, StartFails, StartCommit
<1>3. ASSUME NEW w \in Workers, Vote(w) PROVE TimerGuardsSession'
  BY <1>3 DEF Vote, VoteRead, VoteInsert, VoteUpdate, VoteStale, VoteExpected,
              VoteTally, VoteResolve, VoteCommit
<1>4. ASSUME NEW w \in Workers, Reroll(w) PROVE TimerGuardsSession'
  BY <1>4 DEF Reroll, RerollPicks, RerollLocks, RerollDeleted, RerollFails, RerollCache, RerollCommit
<1>5. CASE Timer
  BY <1>5 DEF Timer, TimerFires, TimerResolves, TimerCommits
<1>6. ASSUME NEW u \in Movers, Join(u) \/ Leave(u) PROVE TimerGuardsSession'
  BY <1>6 DEF Join, Leave
<1>7. CASE Fault
  <2>1. faults' # 0
    BY <1>7 DEF Fault, TypeOK
  <2> QED BY <2>1
<1>8. CASE UNCHANGED vars
  BY <1>8 DEF vars
<1> QED BY <1>1, <1>2, <1>3, <1>4, <1>5, <1>6, <1>7, <1>8 DEF Next, Progress

-----------------------------------------------------------------------------
(* The invariant and what follows from it.                                 *)

LEMMA InitInv == Init => IInv
<1> SUFFICES ASSUME Init PROVE IInv
  OBVIOUS
<1>1. TypeOK
  BY IdleType DEF Init, TypeOK
<1>2. LockInv
  BY DEF Init, LockInv, OwnLocks, Exclusive, FreshInserts, UniqueVotes, Idle, VoteSteps, Flushed, Deleting
<1>3. OfferInv
  BY NoRowAssumption DEF Init, OfferInv, WinnerWasPutToVote, VotedOn, Idle
<1>4. PhaseInv
  BY DEF Init, PhaseInv, Idle, StartSteps, VoteSteps, Flushed, Deleting, RerollSteps
<1>5. TimerGuardsSession
  BY DEF Init, TimerGuardsSession
<1> QED BY <1>1, <1>2, <1>3, <1>4, <1>5 DEF IInv

LEMMA NextInv == IInv /\ [Next]_vars => IInv'
BY TypeNext, LockNext, OfferNext, PhaseNext, GuardNext DEF IInv, LockInv

THEOREM Invariant == Spec => []IInv
BY InitInv, NextInv, PTL DEF Spec

(* Every variable keeps its type, whatever the interleaving and faults.    *)
THEOREM TypeCorrect == Spec => []TypeOK
<1>1. IInv => TypeOK
  BY DEF IInv
<1> QED BY <1>1, Invariant, PTL

(* No member is counted twice on a movie: the unique index and the row     *)
(* locks are enough, although cast_vote checks first and writes later.     *)
THEOREM VotesUnique == Spec => []UniqueVotes
<1>1. IInv => UniqueVotes
  BY DEF IInv, LockInv
<1> QED BY <1>1, Invariant, PTL

(* The winner is always a movie that was offered to this group or that one *)
(* of its members has voted on.                                            *)
THEOREM WinnerPutToVote == Spec => []WinnerWasPutToVote
<1>1. IInv => WinnerWasPutToVote
  BY DEF IInv, OfferInv
<1> QED BY <1>1, Invariant, PTL

(* Without faults a known, active session always has its timeout task.     *)
THEOREM TimerGuards == Spec => []TimerGuardsSession
<1>1. IInv => TimerGuardsSession
  BY DEF IInv
<1> QED BY <1>1, Invariant, PTL

-----------------------------------------------------------------------------
(* Committed votes.                                                        *)

(* The steps that write the session_votes table.                           *)
LEMMA VotesWriters ==
    ASSUME [Next]_vars, votes' # votes
    PROVE  \E w \in Workers : VoteCommit(w) \/ RerollCommit(w)
<1> USE DEF sessionRow
<1>1. ~ (\E w \in Workers : Begin(w) \/ Start(w))
  BY DEF Begin, BeginStart, BeginVote, BeginReroll,
         Start, StartMovieSaved, StartCandidates, StartFails, StartCommit
<1>2. ~ Timer
  BY DEF Timer, TimerFires, TimerResolves, TimerCommits
<1>3. ~ (\E u \in Movers : Join(u) \/ Leave(u))
  BY DEF Join, Leave
<1>4. ~ Fault
  BY DEF Fault, Crash, RequestError, TimerError, RedisLoss
<1>5. ~ UNCHANGED vars
  BY DEF vars
<1>6. PICK w \in Workers : Vote(w) \/ Reroll(w)
  BY <1>1, <1>2, <1>3, <1>4, <1>5 DEF Next, Progress
<1>7. VoteCommit(w) \/ RerollCommit(w)
  BY <1>6 DEF Vote, VoteRead, VoteInsert, VoteUpdate, VoteStale, VoteExpected, VoteTally,
              VoteResolve, Reroll, RerollPicks, RerollLocks, RerollDeleted, RerollFails, RerollCache
<1> QED BY <1>7

-----------------------------------------------------------------------------
(* Refinement: every step of the service is a step of SessionLifecycle, or *)
(* changes nothing that SessionLifecycle knows.                            *)

LEMMA StepRefines == ASSUME IInv, [Next]_vars PROVE [Lifecycle!Next]_(Lifecycle!vars)
<1> USE DEF sessionRow
<1> DEFINE Same == UNCHANGED <<status, winner, shown, foreign>>
<1>0. Same => UNCHANGED Lifecycle!vars
  BY DEF Phase, PutToVote, Lifecycle!vars
<1>1. ASSUME NEW u \in Users, NEW m \in Movies, NEW c \in Choices, NEW w \in Workers,
             BeginVote(w, u, m, c)
      PROVE  Lifecycle!Next
  <2>1. PutToVote' = PutToVote \cup {m} /\ {m} \in SUBSET Movies
    BY <1>1 DEF BeginVote, PutToVote
  <2>2. status = "active"
    BY <1>1 DEF BeginVote
  <2>3. Lifecycle!Offer
    BY <1>1, <2>1, <2>2 DEF BeginVote, Phase, Lifecycle!Offer
  <2> QED BY <2>3 DEF Lifecycle!Next
<1>2. ASSUME NEW w \in Workers, Begin(w) PROVE Same \/ Lifecycle!Next
  BY <1>1, <1>2 DEF Begin, BeginStart, BeginReroll
<1>3. ASSUME NEW w \in Workers, Start(w) PROVE [Lifecycle!Next]_(Lifecycle!vars)
  <2>1. CASE StartMovieSaved(w)
    <3>1. PutToVote' = PutToVote \cup {} /\ {} \in SUBSET Movies
      BY <2>1 DEF StartMovieSaved, PutToVote
    <3> QED BY <2>1, <3>1 DEF StartMovieSaved, Phase, Lifecycle!Next, Lifecycle!Open
  <2>2. CASE StartCandidates(w)
    BY <1>0, <2>2 DEF StartCandidates
  <2>3. CASE StartFails(w)
    BY <1>0, <2>3 DEF StartFails
  <2>4. CASE StartCommit(w)
    <3>1. status \in {"none", "active"}
      BY <2>4 DEF StartCommit, IInv, PhaseInv, StartSteps
    <3>2. PutToVote' = PutToVote \cup req[w].batch /\ req[w].batch \in SUBSET Movies
      BY <2>4 DEF StartCommit, PutToVote, IInv, TypeOK, Request
    <3>3. CASE status = "none"
      BY <2>4, <3>2, <3>3 DEF StartCommit, Phase, Lifecycle!Next, Lifecycle!Open
    <3>4. CASE status = "active"
      BY <2>4, <3>2, <3>4 DEF StartCommit, Phase, Lifecycle!Next, Lifecycle!Offer
    <3> QED BY <3>1, <3>3, <3>4
  <2> QED BY <1>3, <2>1, <2>2, <2>3, <2>4 DEF Start
<1>4. ASSUME NEW w \in Workers, Vote(w) PROVE [Lifecycle!Next]_(Lifecycle!vars)
  <2>1. CASE VoteCommit(w) /\ req[w].pick # NoMovie
    <3>1. announced /\ status # "none" /\ req[w].pick \in PutToVote
      BY <2>1 DEF VoteCommit, IInv, PhaseInv, OfferInv, WinnerWasPutToVote, VoteSteps, Flushed, Deleting
    <3>2. Phase \in {"open", "closed"} /\ Phase' = "closed"
      BY <2>1, <3>1 DEF VoteCommit, Phase
    <3>3. PutToVote' = PutToVote
      BY <2>1 DEF VoteCommit, PutToVote
    <3> QED BY <2>1, <3>1, <3>2, <3>3 DEF VoteCommit, Lifecycle!Next, Lifecycle!CloseWith
  <2>2. CASE ~(VoteCommit(w) /\ req[w].pick # NoMovie)
    <3>1. Same
      BY <1>4, <2>2 DEF Vote, VoteRead, VoteInsert, VoteUpdate, VoteStale, VoteExpected,
                        VoteTally, VoteResolve, VoteCommit
    <3> QED BY <1>0, <3>1
  <2> QED BY <2>1, <2>2
<1>5. ASSUME NEW w \in Workers, Reroll(w) PROVE [Lifecycle!Next]_(Lifecycle!vars)
  <2>1. CASE RerollCache(w)
    <3>1. PutToVote' = PutToVote \cup req[w].batch /\ req[w].batch \in SUBSET Movies
      BY <2>1 DEF RerollCache, PutToVote, IInv, TypeOK, Request
    <3>2. status # "none"
      BY <2>1 DEF RerollCache, IInv, PhaseInv, RerollSteps, Deleting
    <3>3. Lifecycle!Offer
      BY <2>1, <3>1, <3>2 DEF RerollCache, Phase, Lifecycle!Offer
    <3> QED BY <3>3 DEF Lifecycle!Next
  <2>2. CASE ~RerollCache(w)
    <3>1. Same
      BY <1>5, <2>2 DEF Reroll, RerollPicks, RerollLocks, RerollDeleted, RerollFails, RerollCommit
    <3> QED BY <1>0, <3>1
  <2> QED BY <2>1, <2>2
<1>6. CASE Timer
  <2>1. CASE TimerFires \/ TimerResolves
    BY <1>0, <2>1 DEF TimerFires, TimerResolves
  <2>2. CASE TimerCommits
    <3>1. status # "none"
      BY <2>2 DEF TimerCommits, IInv, PhaseInv
    <3>2. CASE verdict # NoMovie
      <4>1. verdict \in PutToVote /\ PutToVote' = PutToVote
        BY <2>2, <3>2 DEF TimerCommits, PutToVote, IInv, OfferInv, WinnerWasPutToVote
      <4>2. Phase \in {"open", "closed"} /\ Phase' = "closed"
        BY <2>2, <3>1, <3>2 DEF TimerCommits, Phase
      <4> QED BY <2>2, <3>2, <4>1, <4>2 DEF TimerCommits, Lifecycle!Next, Lifecycle!CloseWith
    <3>3. CASE verdict = NoMovie
      <4>1. Phase \in {"open", "closed"} /\ Phase' = "closed"
        BY <2>2, <3>1, <3>3 DEF TimerCommits, Phase
      <4>2. PutToVote' = PutToVote
        BY <2>2 DEF TimerCommits, PutToVote
      <4> QED BY <2>2, <3>3, <4>1, <4>2
              DEF TimerCommits, Lifecycle!Next, Lifecycle!CloseEmpty, Lifecycle!vars
    <3> QED BY <3>2, <3>3
  <2> QED BY <1>6, <2>1, <2>2 DEF Timer
<1>7. ASSUME NEW u \in Movers, Join(u) \/ Leave(u) PROVE Same
  BY <1>7 DEF Join, Leave
<1>8. CASE Fault
  BY <1>0, <1>8 DEF Fault, Crash, RequestError, TimerError, RedisLoss
<1>9. CASE UNCHANGED vars
  BY <1>0, <1>9 DEF vars
<1> QED
  BY <1>0, <1>2, <1>3, <1>4, <1>5, <1>6, <1>7, <1>8, <1>9 DEF Next, Progress

(* A session opens once, ends with a movie put to the vote or with none, never *)
(* reopens and never withdraws a published result.                         *)
THEOREM Refinement == Spec => LifecycleSpec
<1>1. Init => Lifecycle!Init
  BY DEF Init, Phase, PutToVote, Lifecycle!Init
<1>2. IInv /\ [Next]_vars => [Lifecycle!Next]_(Lifecycle!vars)
  BY StepRefines
<1> QED BY <1>1, <1>2, Invariant, PTL DEF Spec, LifecycleSpec, Lifecycle!Spec

-----------------------------------------------------------------------------
(* The rest needs to know which steps of a request it still has to answer  *)
(* for: a winner has been picked only where the next step writes it.       *)
PickInv == \A w \in Workers : req[w].pick # NoMovie => req[w].pc = "vote_commit"

Counting == {"vote_tally", "vote_resolve"}

(* A request that has neither counted nor picked, or that stands still.    *)
Carries(v) ==
    \/ req'[v] = req[v]
    \/ req'[v].pick = NoMovie /\ req'[v].pc \notin Counting

CountStep(w) == VoteExpected(w) \/ VoteTally(w) \/ VoteResolve(w)

LEMMA VoteCarries ==
    ASSUME TypeOK, PickInv, NEW w \in Workers, Vote(w), ~CountStep(w)
    PROVE  \A v \in Workers : Carries(v)
<1>0. req \in [Workers -> Request]
  BY DEF TypeOK
<1>1. CASE VoteRead(w)
  BY <1>0, <1>1 DEF VoteRead, Carries, PickInv, Counting, Request
<1>2. CASE VoteInsert(w)
  BY <1>0, <1>2 DEF VoteInsert, Carries, PickInv, Counting, Request, Idle
<1>3. CASE VoteUpdate(w)
  BY <1>0, <1>3 DEF VoteUpdate, Carries, PickInv, Counting, Request
<1>4. CASE VoteStale(w)
  BY <1>0, <1>4 DEF VoteStale, Carries, Counting, Idle
<1>5. CASE VoteCommit(w)
  BY <1>0, <1>5 DEF VoteCommit, Carries, Counting, Idle
<1> QED BY <1>1, <1>2, <1>3, <1>4, <1>5 DEF Vote, CountStep

LEMMA RerollCarries ==
    ASSUME TypeOK, PickInv, NEW w \in Workers, Reroll(w)
    PROVE  \A v \in Workers : Carries(v)
<1>0. req \in [Workers -> Request]
  BY DEF TypeOK
<1>1. CASE DeleteStep(w)
  BY <1>1, DeleteEffect DEF Carries, PickInv, Counting
<1>2. CASE RerollFails(w)
  BY <1>0, <1>2 DEF RerollFails, Carries, Counting, Idle
<1>3. CASE RerollCache(w)
  BY <1>0, <1>3 DEF RerollCache, Carries, PickInv, Counting, Request
<1>4. CASE RerollCommit(w)
  <2> SUFFICES ASSUME NEW v \in Workers PROVE Carries(v)
    OBVIOUS
  <2>1. CASE req'[v] = Idle \/ req'[v] = req[v]
    BY <2>1 DEF Carries, Counting, Idle
  <2>2. CASE req'[v] = [req[v] EXCEPT !.prior = "wiped"] /\ LosesRow(v, req[w].wipe)
    BY <1>0, <2>2 DEF Carries, PickInv, Counting, LosesRow, Request
  <2>3. CASE /\ req'[v] = [req[v] EXCEPT !.todo = @ \ {KeyOf(r) : r \in req[w].wipe}]
             /\ req[v].pc = "reroll_delete"
    BY <1>0, <2>3 DEF Carries, PickInv, Counting, Request
  <2> QED BY <1>4, <2>1, <2>2, <2>3 DEF RerollCommit
<1> QED BY <1>1, <1>2, <1>3, <1>4 DEF Reroll, DeleteStep

LEMMA StartCarries ==
    ASSUME TypeOK, PickInv, NEW w \in Workers, Begin(w) \/ Start(w)
    PROVE  \A v \in Workers : Carries(v)
<1>0. req \in [Workers -> Request]
  BY DEF TypeOK
<1>1. ASSUME NEW u \in Users, BeginStart(w, u) PROVE \A v \in Workers : Carries(v)
  BY <1>0, <1>1 DEF BeginStart, Carries, PickInv, Counting, Request
<1>2. ASSUME NEW u \in Users, BeginReroll(w, u) PROVE \A v \in Workers : Carries(v)
  BY <1>0, <1>2 DEF BeginReroll, Carries, PickInv, Counting, Request
<1>3. ASSUME NEW u \in Users, NEW m \in Movies, NEW c \in Choices, BeginVote(w, u, m, c)
      PROVE  \A v \in Workers : Carries(v)
  BY <1>0, <1>3 DEF BeginVote, Carries, Counting, Idle
<1>4. CASE StartMovieSaved(w) \/ StartFails(w) \/ StartCommit(w)
  BY <1>0, <1>4 DEF StartMovieSaved, StartFails, StartCommit, Carries, Counting, Idle
<1>5. CASE StartCandidates(w)
  BY <1>0, <1>5 DEF StartCandidates, Carries, PickInv, Counting, Request
<1> QED BY <1>1, <1>2, <1>3, <1>4, <1>5 DEF Begin, Start

LEMMA AllCarry ==
    ASSUME TypeOK, PickInv, [Next]_vars
    PROVE  (\A v \in Workers : Carries(v)) \/ \E w \in Workers : CountStep(w)
<1>1. ASSUME NEW w \in Workers, Begin(w) \/ Progress(w), ~CountStep(w)
      PROVE  \A v \in Workers : Carries(v)
  BY <1>1, VoteCarries, RerollCarries, StartCarries DEF Progress
<1>2. CASE Timer
  BY <1>2 DEF Timer, TimerFires, TimerResolves, TimerCommits, Carries
<1>3. CASE \E u \in Movers : Join(u) \/ Leave(u)
  BY <1>3 DEF Join, Leave, Carries
<1>4. CASE Fault
  BY <1>4 DEF Fault, Crash, RequestError, TimerError, RedisLoss, Carries, Idle, TypeOK, Counting
<1>5. CASE UNCHANGED vars
  BY <1>5 DEF vars, Carries
<1> QED BY <1>1, <1>2, <1>3, <1>4, <1>5 DEF Next

(* What a step of the count does.                                          *)
LEMMA CountEffect ==
    ASSUME TypeOK, NEW w \in Workers, CountStep(w)
    PROVE  /\ UNCHANGED <<status, winner, votes, role, cands, shown, announced, timer,
                          verdict, faults>>
           /\ req'[w].row = req[w].row /\ req'[w].write = req[w].write
           /\ \A v \in Workers \ {w} : req'[v] = req[v]
           /\ \/ /\ req[w].pc = "vote_count" /\ req'[w].pc = "vote_tally"
                 /\ req'[w].pick = req[w].pick /\ req'[w].expected = Expected
              \/ /\ req[w].pc = "vote_tally" /\ req'[w].pick = req[w].pick
                 /\ \/ req'[w].pc = "vote_resolve" /\ AllVotesIn(w)
                    \/ req'[w].pc = "vote_commit"
              \/ /\ req[w].pc = "vote_resolve" /\ req'[w].pc = "vote_commit"
                 /\ \/ req'[w].pick = req[w].pick
                    \/ req'[w].pick \in Leaders(View(w))
<1>0. req \in [Workers -> Request]
  BY DEF TypeOK
<1>1. CASE VoteExpected(w)
  BY <1>0, <1>1 DEF VoteExpected, sessionRow, Request
<1>2. CASE VoteTally(w)
  BY <1>0, <1>2 DEF VoteTally, sessionRow, Request
<1>3. CASE VoteResolve(w)
  BY <1>0, <1>3 DEF VoteResolve, sessionRow, Request
<1> QED BY <1>1, <1>2, <1>3 DEF CountStep

LEMMA PickNext == ASSUME TypeOK, PickInv, [Next]_vars PROVE PickInv'
<1>1. ASSUME \A v \in Workers : Carries(v) PROVE PickInv'
  BY <1>1 DEF PickInv, Carries
<1>2. ASSUME NEW w \in Workers, CountStep(w) PROVE PickInv'
  BY <1>2, CountEffect DEF PickInv
<1> QED BY <1>1, <1>2, AllCarry

(* The keys that are voted on, as a transaction sees them: those of the    *)
(* committed rows and its own.                                             *)
Keyed(rows, u, m) == \E r \in rows : r.user = u /\ r.movie = m

LEMMA KeysSeen ==
    ASSUME NEW w \in Workers, NEW u, NEW m
    PROVE  Keyed(View(w), u, m) <=>
              \/ Keyed(votes, u, m)
              \/ req[w].write # "none" /\ req[w].row.user = u /\ req[w].row.movie = m
BY DEF Keyed, View, Replaced, Written, SameKey

-----------------------------------------------------------------------------
(* The candidates while nothing has failed.  They are those of the start   *)
(* until a reroll caches others, and from then on some movie that a screen *)
(* has shown is none of them: a reroll picks outside the ones it has read. *)
CandInv ==
    faults = 0 =>
        /\ ~announced => shown = {}
        /\ announced => cands # {} /\ cands \subseteq shown
        /\ \A w \in Workers :
            /\ req[w].pc = "start_commit" => req[w].batch = cands /\ cands # {}
            /\ req[w].pc = "reroll_ai" => req[w].batch # {} /\ req[w].batch \subseteq shown
            /\ req[w].pc \in {"reroll_delete", "reroll_cache"} =>
                  req[w].batch # {} /\ ~(shown \subseteq req[w].batch)
            /\ req[w].pc = "reroll_commit" => cands # shown

Batched == {"start_commit", "reroll_ai", "reroll_delete", "reroll_cache", "reroll_commit"}

KeepsBatch(v) ==
    \/ req'[v].pc \notin Batched
    \/ req'[v].pc = req[v].pc /\ req'[v].batch = req[v].batch

LEMMA CandKept ==
    ASSUME CandInv, UNCHANGED <<cands, shown, announced, faults>>,
           \A v \in Workers : KeepsBatch(v)
    PROVE  CandInv'
BY DEF CandInv, KeepsBatch, Batched

LEMMA CandReroll ==
    ASSUME TypeOK, PhaseInv, CandInv, NEW w \in Workers, Reroll(w) PROVE CandInv'
<1> SUFFICES ASSUME faults = 0 PROVE CandInv'
  BY DEF Reroll, RerollPicks, RerollLocks, RerollDeleted, RerollFails, RerollCache, RerollCommit, CandInv
<1>0. req \in [Workers -> Request]
  BY DEF TypeOK
<1>1. CASE RerollPicks(w)
  <2>1. PICK picks \in (SUBSET (Movies \ req[w].batch)) \ {{}} :
            req' = [req EXCEPT ![w].pc = "reroll_delete", ![w].batch = picks,
                               ![w].todo = {KeyOf(r) : r \in votes}]
    BY <1>1 DEF RerollPicks
  <2>2. /\ UNCHANGED <<cands, shown, announced, faults>>
        /\ req[w].pc = "reroll_ai" /\ req'[w].pc = "reroll_delete" /\ req'[w].batch = picks
        /\ \A v \in Workers \ {w} : req'[v] = req[v]
    BY <1>0, <1>1, <2>1 DEF RerollPicks, Request
  <2>3. picks # {} /\ ~(shown \subseteq picks)
    BY <2>2 DEF CandInv
  <2> QED BY <2>2, <2>3 DEF CandInv
<1>5. CASE RerollLocks(w)
  BY <1>0, <1>5, CandKept DEF RerollLocks, KeepsBatch, Request
<1>6. CASE RerollDeleted(w)
  <2>1. /\ UNCHANGED <<cands, shown, announced, faults>>
        /\ req[w].pc = "reroll_delete" /\ req'[w].pc = "reroll_cache"
        /\ req'[w].batch = req[w].batch
        /\ \A v \in Workers \ {w} : req'[v] = req[v]
    BY <1>0, <1>6 DEF RerollDeleted, Request
  <2> QED BY <2>1 DEF CandInv
<1>2. CASE RerollFails(w)
  BY <1>0, <1>2, CandKept DEF RerollFails, KeepsBatch, Batched, Idle
<1>3. CASE RerollCache(w)
  <2>1. /\ cands' = req[w].batch /\ shown' = shown \cup req[w].batch
        /\ UNCHANGED <<announced, faults>> /\ announced
        /\ req[w].pc = "reroll_cache" /\ req'[w].pc = "reroll_commit"
        /\ \A v \in Workers \ {w} : req'[v] = req[v]
    BY <1>0, <1>3 DEF RerollCache, PhaseInv, RerollSteps, Deleting, Request
  <2>2. cands' # {} /\ cands' \subseteq shown' /\ cands' # shown'
    BY <2>1 DEF CandInv
  <2>3. \A v \in Workers : req[v].pc # "start_commit"
    BY <2>1 DEF PhaseInv, StartSteps
  <2> QED BY <2>1, <2>2, <2>3 DEF CandInv
<1>4. CASE RerollCommit(w)
  <2>1. \A v \in Workers : KeepsBatch(v)
    <3> SUFFICES ASSUME NEW v \in Workers PROVE KeepsBatch(v)
      OBVIOUS
    <3>1. CASE req'[v] = Idle \/ req'[v] = req[v]
      BY <3>1 DEF KeepsBatch, Batched, Idle
    <3>2. CASE req'[v] = [req[v] EXCEPT !.prior = "wiped"]
      BY <1>0, <3>2 DEF KeepsBatch, Request
    <3>3. CASE req'[v] = [req[v] EXCEPT !.todo = @ \ {KeyOf(r) : r \in req[w].wipe}]
      BY <1>0, <3>3 DEF KeepsBatch, Request
    <3> QED BY <1>4, <3>1, <3>2, <3>3 DEF RerollCommit
  <2> QED BY <1>4, <2>1, CandKept DEF RerollCommit
<1> QED BY <1>1, <1>2, <1>3, <1>4, <1>5, <1>6 DEF Reroll

LEMMA CandStart ==
    ASSUME TypeOK, PhaseInv, CandInv, NEW w \in Workers, Begin(w) \/ Start(w) PROVE CandInv'
<1>0. req \in [Workers -> Request]
  BY DEF TypeOK
<1>1. ASSUME NEW u \in Users, BeginStart(w, u) PROVE CandInv'
  <2>1. /\ ~announced /\ UNCHANGED <<shown, announced, faults>>
        /\ req'[w].pc = "start_ai"
        /\ \A v \in Workers \ {w} : req'[v] = req[v]
    BY <1>0, <1>1 DEF BeginStart, PhaseInv, Request
  <2>2. \A v \in Workers : req'[v].pc \notin Batched
    BY <1>1, <2>1 DEF BeginStart, Starting, Batched, PhaseInv, RerollSteps, Deleting
  <2> QED BY <2>1, <2>2 DEF CandInv, Batched
<1>2. ASSUME NEW u \in Users, BeginReroll(w, u) PROVE CandInv'
  <2>1. /\ announced /\ UNCHANGED <<cands, shown, announced, faults>>
        /\ req'[w].pc = "reroll_ai" /\ req'[w].batch = cands
        /\ \A v \in Workers \ {w} : req'[v] = req[v]
    BY <1>0, <1>2 DEF BeginReroll, Request
  <2> QED BY <2>1 DEF CandInv
<1>3. ASSUME NEW u \in Users, NEW m \in Movies, NEW c \in Choices, BeginVote(w, u, m, c)
      PROVE  CandInv'
  BY <1>0, <1>3, CandKept DEF BeginVote, KeepsBatch, Batched, Idle
<1>4. CASE StartMovieSaved(w)
  BY <1>4, CandKept DEF StartMovieSaved, KeepsBatch
<1>5. CASE StartCandidates(w)
  <2>1. /\ ~announced /\ UNCHANGED <<shown, announced, faults>> /\ cands' # {}
        /\ req[w].pc \in StartSteps
        /\ req'[w].pc = "start_commit" /\ req'[w].batch = cands'
        /\ \A v \in Workers \ {w} : req'[v] = req[v]
    BY <1>0, <1>5 DEF StartCandidates, PhaseInv, StartSteps, Request
  <2>2. \A v \in Workers \ {w} : req[v].pc \notin Batched
    BY <2>1 DEF PhaseInv, StartSteps, RerollSteps, Deleting, Batched
  <2> QED BY <2>1, <2>2 DEF CandInv, Batched
<1>6. CASE StartFails(w)
  BY <1>0, <1>6, CandKept DEF StartFails, KeepsBatch, Batched, Idle
<1>7. CASE StartCommit(w)
  <2>1. /\ ~announced /\ announced' /\ UNCHANGED <<cands, faults>>
        /\ req[w].pc = "start_commit"
        /\ shown' = shown \cup req[w].batch
        /\ req'[w].pc = "idle"
        /\ \A v \in Workers \ {w} : req'[v] = req[v]
    BY <1>0, <1>7 DEF StartCommit, PhaseInv, StartSteps, Idle
  <2>2. \A v \in Workers \ {w} : req[v].pc \notin Batched
    BY <2>1 DEF PhaseInv, StartSteps, RerollSteps, Deleting, Batched
  <2> QED BY <2>1, <2>2 DEF CandInv, Batched
<1> QED BY <1>1, <1>2, <1>3, <1>4, <1>5, <1>6, <1>7 DEF Begin, Start

LEMMA CandNext ==
    ASSUME TypeOK, PhaseInv, CandInv, [Next]_vars PROVE CandInv'
<1>0. req \in [Workers -> Request]
  BY DEF TypeOK
<1>1. ASSUME NEW w \in Workers, Vote(w) PROVE CandInv'
  <2>1. CASE CountStep(w)
    BY <2>1, CountEffect, CandKept DEF KeepsBatch, Batched
  <2>2. CASE VoteRead(w) \/ VoteInsert(w) \/ VoteUpdate(w) \/ VoteStale(w) \/ VoteCommit(w)
    <3>1. UNCHANGED <<cands, shown, announced, faults>>
      BY <2>2 DEF VoteRead, VoteInsert, VoteUpdate, VoteStale, VoteCommit
    <3>2. \A v \in Workers : KeepsBatch(v)
      BY <1>0, <2>2
         DEF VoteRead, VoteInsert, VoteUpdate, VoteStale, VoteCommit, KeepsBatch, Batched,
             Idle, Request
    <3> QED BY <3>1, <3>2, CandKept
  <2> QED BY <1>1, <2>1, <2>2 DEF Vote, CountStep
<1>2. CASE Timer
  BY <1>2, CandKept DEF Timer, TimerFires, TimerResolves, TimerCommits, KeepsBatch
<1>3. ASSUME NEW u \in Movers, Join(u) \/ Leave(u) PROVE CandInv'
  BY <1>3, CandKept DEF Join, Leave, KeepsBatch
<1>4. CASE Fault
  <2>1. faults' # 0
    BY <1>4 DEF Fault, TypeOK
  <2> QED BY <2>1 DEF CandInv
<1>5. CASE UNCHANGED vars
  BY <1>5, CandKept DEF vars, KeepsBatch
<1> QED
  BY <1>1, <1>2, <1>3, <1>4, <1>5, CandStart, CandReroll DEF Next, Progress

-----------------------------------------------------------------------------
(* Counting votes.  While nobody joins or leaves, every vote is a          *)
(* member's; so as many votes as members times candidates are, when all of *)
(* them are on candidates, everybody's votes.                              *)
VoterInv ==
    /\ \A r \in votes : r.user \in Members
    /\ \A w \in Workers : req[w].row \in Row => req[w].row.user \in Members

Covers(rows) ==
    VotedOn(rows) \subseteq cands => \A u \in Members, m \in cands : Keyed(rows, u, m)

CoverInv ==
    faults = 0 /\ announced /\ cands = shown =>
        /\ \A w \in Workers :
            /\ req[w].pc = "vote_tally" => req[w].expected = Expected
            /\ req[w].pc = "vote_resolve" \/ req[w].pick # NoMovie => Covers(View(w))
        /\ status = "completed" /\ timer = "armed" => Covers(votes)

LEMMA VoterNext ==
    ASSUME Movers = {}, TypeOK, OwnLocks, VoterInv, [Next]_vars
    PROVE  VoterInv' /\ Members' = Members
<1>0. req \in [Workers -> Request]
  BY DEF TypeOK
<1>1. role' = role
  <2>1. ASSUME NEW w \in Workers, Begin(w) PROVE role' = role
    BY <2>1 DEF Begin, BeginStart, BeginReroll, BeginVote
  <2>2. ASSUME NEW w \in Workers, Progress(w) PROVE role' = role
    BY <2>2
       DEF Progress, Start, StartMovieSaved, StartCandidates, StartFails, StartCommit,
           Vote, VoteRead, VoteInsert, VoteUpdate, VoteStale, VoteExpected, VoteTally,
           VoteResolve, VoteCommit, Reroll, RerollPicks, RerollLocks, RerollDeleted, RerollFails, RerollCache, RerollCommit
  <2>3. CASE Timer
    BY <2>3 DEF Timer, TimerFires, TimerResolves, TimerCommits
  <2>4. CASE Fault
    BY <2>4 DEF Fault, Crash, RequestError, TimerError, RedisLoss
  <2> QED BY <2>1, <2>2, <2>3, <2>4 DEF Next, vars
<1>2. Members' = Members
  BY <1>1 DEF Members
<1>3. ASSUME NEW r \in votes' PROVE r.user \in Members
  <2>1. CASE votes' = votes
    BY <1>3, <2>1 DEF VoterInv
  <2>2. CASE votes' # votes
    <3>1. PICK w \in Workers : VoteCommit(w) \/ RerollCommit(w)
      BY <2>2, VotesWriters
    <3>2. CASE RerollCommit(w)
      BY <1>3, <3>2 DEF RerollCommit, VoterInv
    <3>3. CASE VoteCommit(w)
      BY <1>3, <3>3 DEF VoteCommit, View, Written, VoterInv, OwnLocks, VoteSteps
    <3> QED BY <3>1, <3>2, <3>3
  <2> QED BY <2>1, <2>2
<1>4. ASSUME NEW w \in Workers, req'[w].row \in Row PROVE req'[w].row.user \in Members
  <2>1. CASE req'[w].row = req[w].row
    BY <1>4, <2>1 DEF VoterInv
  <2>2. CASE req'[w].row # req[w].row
    <3>1. req'[w] # Idle
      BY <1>4, NoRowAssumption DEF Idle
    <3>2. ASSUME NEW v \in Workers, Start(v) \/ Vote(v) \/ Reroll(v) PROVE FALSE
      <4>1. CASE Start(v)
        BY <1>0, <2>2, <3>1, <4>1
           DEF Start, StartMovieSaved, StartCandidates, StartFails, StartCommit, Request
      <4>2. CASE Vote(v)
        <5>1. CASE CountStep(v)
          BY <2>2, <5>1, CountEffect
        <5>2. CASE VoteRead(v) \/ VoteStale(v) \/ VoteCommit(v)
          BY <1>0, <2>2, <3>1, <5>2 DEF VoteRead, VoteStale, VoteCommit, Request
        <5>3. CASE VoteInsert(v) \/ VoteUpdate(v)
          BY <1>0, <2>2, <3>1, <5>3 DEF VoteInsert, VoteUpdate, Request
        <5> QED BY <4>2, <5>1, <5>2, <5>3 DEF Vote, CountStep
      <4>3. CASE DeleteStep(v)
        BY <2>2, <4>3, DeleteEffect
      <4>4. CASE RerollFails(v) \/ RerollCache(v)
        BY <1>0, <2>2, <3>1, <4>4 DEF RerollFails, RerollCache, Request
      <4>5. CASE RerollCommit(v)
        <5>1. \/ req'[w] = req[w] \/ req'[w] = [req[w] EXCEPT !.prior = "wiped"]
              \/ req'[w] = [req[w] EXCEPT !.todo = @ \ {KeyOf(r) : r \in req[v].wipe}]
          BY <3>1, <4>5 DEF RerollCommit
        <5> QED BY <1>0, <2>2, <5>1 DEF Request
      <4> QED BY <3>2, <4>1, <4>2, <4>3, <4>4, <4>5 DEF Reroll, DeleteStep
    <3>3. ~Timer /\ ~UNCHANGED vars /\ ~Fault
      BY <1>0, <2>2, <3>1
         DEF Timer, TimerFires, TimerResolves, TimerCommits, vars,
             Fault, Crash, RequestError, TimerError, RedisLoss
    <3>4. PICK v \in Workers, u \in Users :
            \/ BeginStart(v, u)
            \/ BeginReroll(v, u)
            \/ \E m \in Movies, c \in Choices : BeginVote(v, u, m, c)
      BY <3>2, <3>3 DEF Next, Progress, Begin
    <3>5. ~BeginStart(v, u) /\ ~BeginReroll(v, u)
      BY <1>0, <2>2 DEF BeginStart, BeginReroll, Request
    <3>6. PICK m \in Movies, c \in Choices : BeginVote(v, u, m, c)
      BY <3>4, <3>5
    <3> DEFINE row == [user |-> u, movie |-> m, vote |-> c]
    <3>7. u \in Members /\ req' = [req EXCEPT ![v] = [Idle EXCEPT !.pc = "vote_read", !.row = row]]
      BY <3>6 DEF BeginVote
    <3>8. w = v /\ req'[w].row = row
      BY <1>0, <2>2, <3>7 DEF Idle
    <3> QED BY <3>7, <3>8
  <2> QED BY <2>1, <2>2
<1> QED BY <1>2, <1>3, <1>4 DEF VoterInv

(* A set of rows with one row per key, of members and candidates only, has *)
(* all the keys when it has as many rows as there are keys.                *)
LEMMA FullTable ==
    ASSUME NEW rows, rows \subseteq Row, IsFiniteSet(Members), IsFiniteSet(cands),
           \A r \in rows : r.user \in Members /\ r.movie \in cands,
           \A r, s \in rows : SameKey(r, s) => r = s,
           Cardinality(rows) >= Expected
    PROVE  Covers(rows)
<1> DEFINE Keys == Members \X cands
           key == [r \in rows |-> <<r.user, r.movie>>]
<1>1. IsFiniteSet(Keys) /\ Cardinality(Keys) = Expected /\ Expected \in Nat
  <2>1. IsFiniteSet(Keys) /\ Cardinality(Keys) = Cardinality(Members) * Cardinality(cands)
    BY FS_Product
  <2>2. Cardinality(Keys) \in Nat
    BY <2>1, FS_CardinalityType
  <2> QED BY <2>1, <2>2 DEF Expected
<1>2. key \in Injection(rows, Keys)
  <2>1. key \in [rows -> Keys]
    OBVIOUS
  <2>2. \A r, s \in rows : key[r] = key[s] => r = s
    BY DEF SameKey
  <2> QED BY <2>1, <2>2 DEF Injection, IsInjective
<1>3. IsFiniteSet(rows) /\ Cardinality(rows) <= Cardinality(Keys)
  BY <1>1, <1>2, FS_Injection
<1>4. Cardinality(rows) \in Nat
  BY <1>3, FS_CardinalityType
<1>5. Cardinality(rows) = Cardinality(Keys)
  BY <1>1, <1>3, <1>4
<1>6. key \in Surjection(rows, Keys)
  BY <1>1, <1>2, <1>5, FS_Injection
<1>7. ASSUME NEW u \in Members, NEW m \in cands PROVE Keyed(rows, u, m)
  <2>1. PICK r \in rows : key[r] = <<u, m>>
    BY <1>6 DEF Surjection
  <2> QED BY <2>1 DEF Keyed
<1> QED BY <1>7 DEF Covers

LEMMA ViewUnique ==
    ASSUME TypeOK, LockInv, NEW w \in Workers
    PROVE  \A r, s \in View(w) : SameKey(r, s) => r = s
<1>1. req[w].write \in {"none", "insert", "update"}
  BY DEF TypeOK, Request
<1> QED BY <1>1 DEF LockInv, UniqueVotes, FreshInserts, View, Replaced, Written, SameKey

(* The comparison of two numbers says what it is meant to say.             *)
LEMMA CountedInFull ==
    ASSUME TypeOK, LockInv, VoterInv,
           NEW w \in Workers, AllVotesIn(w), req[w].expected = Expected
    PROVE  Covers(View(w))
<1> SUFFICES ASSUME VotedOn(View(w)) \subseteq cands PROVE Covers(View(w))
  BY DEF Covers
<1>1. IsFiniteSet(Members) /\ IsFiniteSet(cands)
  <2>1. Members \subseteq Users /\ cands \subseteq Movies
    BY DEF Members, TypeOK
  <2> QED BY <2>1, FS_Subset, UsersAssumption, MoviesAssumption
<1>2. View(w) \subseteq Row
  BY ViewType DEF LockInv
<1>3. \A r \in View(w) : r.user \in Members /\ r.movie \in cands
  <2>1. req[w].write # "none" => req[w].row \in Row
    BY DEF LockInv, OwnLocks, VoteSteps
  <2>2. \A r \in View(w) : r.user \in Members
    BY <2>1 DEF VoterInv, View, Written
  <2> QED BY <2>2 DEF VotedOn
<1>4. Cardinality(View(w)) >= Expected
  BY DEF AllVotesIn
<1> QED BY <1>1, <1>2, <1>3, <1>4, ViewUnique, FullTable

(* A view that has all the keys keeps them while no committed key is lost. *)
KeysKept == \A u, m : Keyed(votes, u, m) => Keyed(votes', u, m)

LEMMA CoverStays ==
    ASSUME NEW w \in Workers, Covers(View(w)), KeysKept,
           Members' = Members, cands' = cands,
           req'[w].row = req[w].row, req'[w].write = req[w].write
    PROVE  Covers(View(w))'
<1>1. ASSUME NEW u, NEW m, Keyed(View(w), u, m) PROVE Keyed(View(w), u, m)'
  <2>1. Keyed(View(w), u, m)' <=>
            \/ Keyed(votes', u, m)
            \/ req'[w].write # "none" /\ req'[w].row.user = u /\ req'[w].row.movie = m
    BY DEF Keyed, View, Replaced, Written, SameKey
  <2> QED BY <1>1, <2>1, KeysSeen DEF KeysKept
<1>2. VotedOn(View(w)) \subseteq VotedOn(View(w))'
  BY <1>1 DEF VotedOn, Keyed
<1> QED BY <1>1, <1>2 DEF Covers

LEMMA CoverKept ==
    ASSUME PhaseInv, CoverInv, Members' = Members,
           KeysKept, UNCHANGED <<cands, shown, faults>>,
           announced' => announced,
           status' = "completed" /\ timer' = "armed" =>
                \/ status = "completed" /\ timer = "armed"
                \/ faults = 0 /\ announced /\ cands = shown => Covers(votes)',
           \A v \in Workers : Carries(v)
    PROVE  CoverInv'
<1> SUFFICES ASSUME (faults = 0 /\ announced /\ cands = shown)'
             PROVE  (/\ \A w \in Workers :
                          /\ req[w].pc = "vote_tally" => req[w].expected = Expected
                          /\ req[w].pc = "vote_resolve" \/ req[w].pick # NoMovie => Covers(View(w))
                     /\ status = "completed" /\ timer = "armed" => Covers(votes))'
  BY DEF CoverInv
<1>1. faults = 0 /\ announced /\ cands = shown
  OBVIOUS
<1>2. Expected' = Expected
  BY DEF Expected
<1>3. ASSUME NEW w \in Workers, req'[w].pc = "vote_tally"
      PROVE  req'[w].expected = Expected'
  BY <1>1, <1>2, <1>3 DEF CoverInv, Carries, Counting
<1>4. ASSUME NEW w \in Workers, req'[w].pc = "vote_resolve" \/ req'[w].pick # NoMovie
      PROVE  Covers(View(w))'
  <2>1. req'[w] = req[w]
    BY <1>4 DEF Carries, Counting
  <2>2. Covers(View(w))
    BY <1>1, <1>4, <2>1 DEF CoverInv
  <2> QED BY <2>1, <2>2, CoverStays
<1>5. ASSUME status' = "completed", timer' = "armed" PROVE Covers(votes)'
  <2>1. CASE Covers(votes)
    <3>1. VotedOn(votes) \subseteq VotedOn(votes)'
      BY DEF VotedOn, Keyed, KeysKept
    <3> QED BY <2>1, <3>1 DEF Covers, KeysKept
  <2> QED BY <1>1, <1>5, <2>1 DEF CoverInv
<1> QED BY <1>3, <1>4, <1>5

LEMMA CoverCount ==
    ASSUME TypeOK, LockInv, VoterInv, PickInv, CoverInv, Members' = Members,
           NEW w \in Workers, CountStep(w)
    PROVE  CoverInv'
<1> SUFFICES ASSUME faults = 0, announced, cands = shown
             PROVE  (/\ \A v \in Workers :
                          /\ req[v].pc = "vote_tally" => req[v].expected = Expected
                          /\ req[v].pc = "vote_resolve" \/ req[v].pick # NoMovie => Covers(View(v))
                     /\ status = "completed" /\ timer = "armed" => Covers(votes))'
  BY CountEffect DEF CoverInv
<1>1. Expected' = Expected /\ KeysKept /\ cands' = cands /\ votes' = votes
  BY CountEffect DEF Expected, KeysKept
<1>2. ASSUME NEW v \in Workers, req'[v].pc = "vote_tally" PROVE req'[v].expected = Expected'
  BY <1>1, <1>2, CountEffect DEF CoverInv
<1>3. ASSUME NEW v \in Workers, req'[v].pc = "vote_resolve" \/ req'[v].pick # NoMovie
      PROVE  Covers(View(v))'
  <2>1. req'[v].row = req[v].row /\ req'[v].write = req[v].write
    BY CountEffect
  <2>2. Covers(View(v))
    <3>1. CASE v # w \/ req[v].pick # NoMovie \/ req[v].pc = "vote_resolve"
      BY <1>3, <3>1, CountEffect DEF CoverInv
    <3>2. CASE v = w /\ req[v].pick = NoMovie /\ req[v].pc # "vote_resolve"
      <4>1. req[w].pc = "vote_tally" /\ AllVotesIn(w)
        BY <1>3, <3>2, CountEffect
      <4>2. req[w].expected = Expected
        BY <4>1 DEF CoverInv
      <4> QED BY <3>2, <4>1, <4>2, CountedInFull
    <3> QED BY <3>1, <3>2
  <2> QED BY <1>1, <2>1, <2>2, CoverStays
<1>4. ASSUME status' = "completed", timer' = "armed" PROVE Covers(votes)'
  BY <1>1, <1>4, CountEffect DEF CoverInv, Covers, VotedOn
<1> QED BY <1>2, <1>3, <1>4

LEMMA CoverCommit ==
    ASSUME TypeOK, PhaseInv, PickInv, CandInv, CoverInv, Members' = Members,
           NEW w \in Workers, VoteCommit(w)
    PROVE  CoverInv'
<1>1. \A v \in Workers : Carries(v)
  BY VoteCarries DEF Vote, VoteCommit, CountStep, VoteExpected, VoteTally, VoteResolve
<1>2. votes' = View(w) /\ UNCHANGED <<cands, shown, announced, timer, faults>>
  BY DEF VoteCommit
<1>3. KeysKept
  BY <1>2, KeysSeen DEF KeysKept
<1>4. ASSUME status' = "completed", faults = 0, announced, cands = shown
      PROVE  status = "completed" \/ Covers(votes)'
  <2>1. CASE req[w].pick = NoMovie
    BY <1>4, <2>1 DEF VoteCommit, sessionRow
  <2>2. CASE req[w].pick # NoMovie
    <3>1. Covers(View(w))
      BY <1>4, <2>2 DEF CoverInv
    <3> QED BY <1>2, <3>1 DEF Covers, VotedOn
  <2> QED BY <2>1, <2>2
<1> QED BY <1>1, <1>2, <1>3, <1>4, CoverKept

LEMMA CoverStart ==
    ASSUME TypeOK, PhaseInv, PickInv, CoverInv, Members' = Members,
           NEW w \in Workers, Begin(w) \/ Start(w)
    PROVE  CoverInv'
<1>0. req \in [Workers -> Request]
  BY DEF TypeOK
<1>1. \A v \in Workers : Carries(v)
  BY StartCarries
<1>2. ASSUME ~announced' PROVE CoverInv'
  BY <1>2 DEF CoverInv
<1>3. CASE StartCommit(w)
  <2>1. ~announced /\ req[w].pc \in StartSteps /\ status' = "active"
    BY <1>3 DEF StartCommit, PhaseInv, StartSteps
  <2>2. \A v \in Workers : req'[v].pc \notin Counting /\ req'[v].pick = NoMovie
    BY <1>1, <2>1 DEF Carries, PhaseInv, VoteSteps, Flushed, Deleting, Counting
  <2> QED BY <2>1, <2>2 DEF CoverInv, Counting
<1>4. CASE StartMovieSaved(w) \/ StartCandidates(w) \/ StartFails(w)
  BY <1>2, <1>4 DEF StartMovieSaved, StartCandidates, StartFails, PhaseInv, StartSteps
<1>5. ASSUME NEW u \in Users, BeginStart(w, u) PROVE CoverInv'
  BY <1>2, <1>5 DEF BeginStart, PhaseInv
<1>6. ASSUME NEW u \in Users,
             \/ BeginReroll(w, u)
             \/ \E m \in Movies, c \in Choices : BeginVote(w, u, m, c)
      PROVE  CoverInv'
  <2>1. UNCHANGED <<status, votes, cands, shown, announced, timer, faults>>
    BY <1>6 DEF BeginReroll, BeginVote, sessionRow
  <2> QED BY <1>1, <2>1, CoverKept DEF KeysKept
<1> QED BY <1>3, <1>4, <1>5, <1>6 DEF Begin, Start

LEMMA CoverNext ==
    ASSUME Movers = {}, TypeOK, LockInv, PhaseInv, PickInv, CandInv, VoterInv,
           CoverInv, [Next]_vars
    PROVE  CoverInv'
<1>0. Members' = Members
  BY VoterNext DEF LockInv
<1>1. CandInv' /\ ((\A v \in Workers : Carries(v)) \/ \E w \in Workers : CountStep(w))
  BY CandNext, AllCarry
<1>2. ASSUME NEW w \in Workers, Vote(w) PROVE CoverInv'
  <2>1. CASE CountStep(w)
    BY <1>0, <2>1, CoverCount
  <2>2. CASE VoteRead(w) \/ VoteInsert(w) \/ VoteUpdate(w) \/ VoteStale(w)
    <3>1. UNCHANGED <<status, votes, cands, shown, announced, timer, faults>>
      BY <2>2 DEF VoteRead, VoteInsert, VoteUpdate, VoteStale, sessionRow
    <3>2. CASE \E v \in Workers : CountStep(v)
      BY <1>0, <3>2, CoverCount
    <3> QED BY <1>0, <1>1, <3>1, <3>2, CoverKept DEF KeysKept
  <2>3. CASE VoteCommit(w)
    BY <1>0, <2>3, CoverCommit
  <2> QED BY <1>2, <2>1, <2>2, <2>3 DEF Vote, CountStep
<1>3. ASSUME NEW w \in Workers, Reroll(w) PROVE CoverInv'
  <2>1. CASE RerollPicks(w) \/ RerollLocks(w) \/ RerollDeleted(w) \/ RerollFails(w)
    <3>1. UNCHANGED <<status, votes, cands, shown, announced, timer, faults>>
      BY <2>1 DEF RerollPicks, RerollLocks, RerollDeleted, RerollFails, sessionRow
    <3>2. \A v \in Workers : Carries(v)
      BY <1>3, RerollCarries
    <3> QED BY <1>0, <3>1, <3>2, CoverKept DEF KeysKept
  <2>2. CASE RerollCache(w)
    <3>1. req'[w].pc = "reroll_commit"
      BY <2>2 DEF RerollCache, TypeOK, Request
    <3> QED BY <1>1, <3>1 DEF CandInv, CoverInv
  <2>3. CASE RerollCommit(w)
    BY <2>3 DEF RerollCommit, CandInv, CoverInv
  <2> QED BY <1>3, <2>1, <2>2, <2>3 DEF Reroll
<1>4. CASE Timer
  BY <1>0, <1>4, CoverKept
     DEF Timer, TimerFires, TimerResolves, TimerCommits, sessionRow, Carries, KeysKept
<1>5. CASE Fault
  <2>1. faults' # 0
    BY <1>5 DEF Fault, TypeOK
  <2> QED BY <2>1 DEF CoverInv
<1>6. CASE UNCHANGED vars
  BY <1>0, <1>6, CoverKept DEF vars, Carries, KeysKept
<1> QED BY <1>0, <1>2, <1>3, <1>4, <1>5, <1>6, CoverStart DEF Next, Progress

-----------------------------------------------------------------------------
FullInv == IInv /\ PickInv /\ CandInv /\ VoterInv /\ CoverInv

(* Until the first fault, while nobody joins or leaves, no reroll has      *)
(* replaced the candidates and no vote names another movie, a session that *)
(* its votes have completed has a vote of every member on every candidate: *)
(* maybe_finalize_session never counts a vote twice, or one it will not    *)
(* find again.                                                             *)
THEOREM FullVoteFinalizes ==
    ASSUME Movers = {} PROVE Spec => [](faults = 0 => FinalizedByFullVote)
<1>1. Init => FullInv
  <2> SUFFICES ASSUME Init PROVE FullInv
    OBVIOUS
  <2>1. PickInv /\ CandInv
    BY DEF Init, PickInv, CandInv, Idle
  <2>2. VoterInv /\ CoverInv
    BY NoRowAssumption DEF Init, VoterInv, CoverInv, Idle
  <2> QED BY <2>1, <2>2, InitInv DEF FullInv
<1>2. FullInv /\ [Next]_vars => FullInv'
  <2> SUFFICES ASSUME FullInv, [Next]_vars PROVE FullInv'
    OBVIOUS
  <2>1. IInv' /\ TypeOK /\ LockInv /\ OwnLocks /\ OfferInv /\ PhaseInv
    BY NextInv DEF FullInv, IInv, LockInv
  <2>2. PickInv' /\ CandInv' /\ VoterInv'
    BY <2>1, PickNext, CandNext, VoterNext DEF FullInv
  <2>3. CoverInv'
    BY <2>1, CoverNext DEF FullInv
  <2> QED BY <2>1, <2>2, <2>3 DEF FullInv
<1>3. FullInv => (faults = 0 => FinalizedByFullVote)
  <2> SUFFICES ASSUME FullInv, faults = 0, status = "completed", timer = "armed", cands = shown,
                      VotedOn(votes) \subseteq cands
               PROVE  EveryoneVoted
    BY DEF FinalizedByFullVote
  <2>1. announced
    BY DEF FullInv, IInv, PhaseInv
  <2>2. Covers(votes)
    BY <2>1 DEF FullInv, CoverInv
  <2> QED BY <2>2 DEF Covers, Keyed, EveryoneVoted
<1> QED BY <1>1, <1>2, <1>3, PTL DEF Spec

-----------------------------------------------------------------------------
(* The score of the winner.  When requests do not overlap, nothing changes *)
(* the table between the read of the winner and the commit, and once the   *)
(* session is completed no vote begins: the winner keeps leading.          *)
LeadInv ==
    /\ \A w \in Workers : req[w].pick # NoMovie => req[w].pick \in Leaders(View(w))
    /\ status = "completed" /\ timer = "armed" => Quiet /\ winner \in Leaders(votes)

LEMMA LeadKept ==
    ASSUME LeadInv, votes' = votes,
           status' = "completed" /\ timer' = "armed" =>
               /\ status = "completed" /\ timer = "armed" /\ winner' = winner
               /\ \A v \in Workers : req'[v].pc = "idle",
           \A v \in Workers : Carries(v)
    PROVE  LeadInv'
<1>1. ASSUME NEW w \in Workers, req'[w].pick # NoMovie
      PROVE  req'[w].pick \in Leaders(View(w))'
  <2>1. req'[w] = req[w]
    BY <1>1 DEF Carries
  <2>2. View(w)' = View(w)
    BY <2>1 DEF View, Replaced, Written
  <2>3. Leaders(View(w))' = Leaders(View(w))
    BY <2>2 DEF Leaders, VotedOn, Score, Count
  <2> QED BY <1>1, <2>1, <2>3 DEF LeadInv
<1>2. Leaders(votes)' = Leaders(votes)
  BY DEF Leaders, VotedOn, Score, Count
<1> QED BY <1>1, <1>2 DEF LeadInv, Quiet

(* A step of a request that is under way: the session is not decided, or   *)
(* the timeout task has been at it.                                        *)
LEMMA LeadVote ==
    ASSUME TypeOK, PickInv, LeadInv, \A v, w \in Workers : v = w,
           NEW w \in Workers, Vote(w)
    PROVE  LeadInv'
<1>0. req \in [Workers -> Request]
  BY DEF TypeOK
<1>1. ~(status = "completed" /\ timer = "armed")
  BY DEF LeadInv, Quiet, Vote, VoteRead, VoteInsert, VoteUpdate, VoteStale, VoteExpected,
         VoteTally, VoteResolve, VoteCommit
<1>2. CASE CountStep(w)
  <2>1. UNCHANGED <<status, winner, votes, timer>>
    BY <1>2, CountEffect
  <2>2. View(w)' = View(w)
    BY <1>2, CountEffect DEF View, Replaced, Written
  <2>3. Leaders(View(w))' = Leaders(View(w))
    BY <2>2 DEF Leaders, VotedOn, Score, Count
  <2>4. req'[w].pick = req[w].pick \/ req'[w].pick \in Leaders(View(w))
    BY <1>2, CountEffect
  <2> QED BY <1>1, <2>1, <2>3, <2>4 DEF LeadInv
<1>3. CASE VoteRead(w) \/ VoteInsert(w) \/ VoteUpdate(w) \/ VoteStale(w)
  <2>1. UNCHANGED <<status, winner, votes, timer>>
    BY <1>3 DEF VoteRead, VoteInsert, VoteUpdate, VoteStale, sessionRow
  <2>2. CASE ~CountStep(w)
    BY <1>1, <2>1, <2>2, VoteCarries, LeadKept
  <2> QED BY <1>2, <2>2
<1>4. CASE VoteCommit(w)
  <2>1. votes' = View(w) /\ req'[w].pc = "idle" /\ req'[w].pick = NoMovie /\ timer' = timer
    BY <1>0, <1>4 DEF VoteCommit, Idle
  <2>2. Quiet' /\ \A v \in Workers : req'[v].pick = NoMovie
    BY <2>1 DEF Quiet
  <2>3. Leaders(votes)' = Leaders(View(w))
    BY <2>1 DEF Leaders, VotedOn, Score, Count
  <2>4. CASE req[w].pick # NoMovie
    <3>1. winner' = req[w].pick
      BY <1>4, <2>4 DEF VoteCommit
    <3> QED BY <2>2, <2>3, <2>4, <3>1 DEF LeadInv
  <2>5. CASE req[w].pick = NoMovie
    <3>1. status' = status
      BY <1>4, <2>5 DEF VoteCommit, sessionRow
    <3> QED BY <1>1, <2>1, <2>2, <3>1 DEF LeadInv
  <2> QED BY <2>4, <2>5
<1> QED BY <1>2, <1>3, <1>4 DEF Vote, CountStep

LEMMA LeadReroll ==
    ASSUME TypeOK, PickInv, LeadInv, \A v, w \in Workers : v = w,
           NEW w \in Workers, Reroll(w)
    PROVE  LeadInv'
<1>1. ~(status = "completed" /\ timer = "armed")
  BY DEF LeadInv, Quiet, Reroll, RerollPicks, RerollLocks, RerollDeleted, RerollFails,
         InCircle, RerollCache, RerollCommit
<1>2. status' = status /\ timer' = timer
  BY DEF Reroll, RerollPicks, RerollLocks, RerollDeleted, RerollFails, RerollCache, RerollCommit, sessionRow
<1>3. CASE ~RerollCommit(w)
  <2>1. UNCHANGED <<winner, votes>>
    BY <1>3 DEF Reroll, RerollPicks, RerollLocks, RerollDeleted, RerollFails, RerollCache, sessionRow
  <2> QED BY <1>1, <1>2, <2>1, RerollCarries, LeadKept
<1>4. CASE RerollCommit(w)
  <2>1. \A v \in Workers : req'[v].pick = NoMovie
    BY <1>4 DEF RerollCommit, Idle
  <2> QED BY <1>1, <1>2, <2>1 DEF LeadInv
<1> QED BY <1>3, <1>4 DEF Reroll

LEMMA LeadNext ==
    ASSUME TypeOK, PhaseInv, PickInv, LeadInv, \A v, w \in Workers : v = w, [Next]_vars
    PROVE  LeadInv'
<1> USE DEF sessionRow
<1>1. ASSUME NEW w \in Workers, Begin(w) PROVE LeadInv'
  <2>1. UNCHANGED <<status, winner, votes, timer>> /\ status # "completed"
    BY <1>1 DEF Begin, BeginStart, BeginReroll, BeginVote
  <2> QED BY <1>1, <2>1, StartCarries, LeadKept
<1>2. ASSUME NEW w \in Workers, Start(w) PROVE LeadInv'
  <2>1. UNCHANGED <<winner, votes>>
    BY <1>2 DEF Start, StartMovieSaved, StartCandidates, StartFails, StartCommit
  <2>2. status' # "completed"
    BY <1>2 DEF Start, StartMovieSaved, StartCandidates, StartFails, StartCommit,
                PhaseInv, StartSteps
  <2> QED BY <1>2, <2>1, <2>2, StartCarries, LeadKept
<1>3. CASE Timer
  BY <1>3, LeadKept DEF Timer, TimerFires, TimerResolves, TimerCommits, Carries, LeadInv, Quiet
<1>4. ASSUME NEW u \in Movers, Join(u) \/ Leave(u) PROVE LeadInv'
  BY <1>4, LeadKept DEF Join, Leave, Carries, LeadInv, Quiet
<1>5. CASE Fault
  <2>1. UNCHANGED <<status, winner, votes>> /\ timer' \in {timer, "unset"}
    BY <1>5 DEF Fault, Crash, RequestError, TimerError, RedisLoss
  <2>2. \A v \in Workers : req'[v] = req[v] \/ req'[v] = Idle
    BY <1>5 DEF Fault, Crash, RequestError, TimerError, RedisLoss, TypeOK
  <2> QED BY <2>1, <2>2, LeadKept DEF Carries, LeadInv, Quiet, Idle, Counting
<1>6. CASE UNCHANGED vars
  BY <1>6, LeadKept DEF vars, Carries, LeadInv, Quiet
<1> QED BY <1>1, <1>2, <1>3, <1>4, <1>5, <1>6, LeadVote, LeadReroll DEF Next, Progress

(* When requests do not overlap, no movie has a higher score than the      *)
(* winner a full vote decided, whatever the timeout task, members who join *)
(* and leave, and faults do in between.                                    *)
THEOREM WinnerLeadsAlone ==
    ASSUME \A v, w \in Workers : v = w PROVE Spec => []WinnerLeads
<1>1. Init => IInv /\ PickInv /\ LeadInv
  <2>1. Init => PickInv /\ LeadInv
    BY DEF Init, PickInv, LeadInv, Idle
  <2> QED BY <2>1, InitInv
<1>2. IInv /\ PickInv /\ LeadInv /\ [Next]_vars => (IInv /\ PickInv /\ LeadInv)'
  BY NextInv, PickNext, LeadNext DEF IInv
<1>3. LeadInv => WinnerLeads
  BY DEF LeadInv, WinnerLeads, Leaders
<1> QED BY <1>1, <1>2, <1>3, PTL DEF Spec

-----------------------------------------------------------------------------
(* Whom a request waits for: the INSERT or UPDATE of a vote for the holder *)
(* of its key, the DELETE of a reroll for a holder of a vote it has yet to *)
(* reach (the guards with Locked in VoteInsert, VoteUpdate, RerollLocks).  *)
WaitsFor(w, v) ==
    \/ /\ w # v /\ req[w].pc = "vote_flush" /\ req[w].prior # "wiped"
       /\ req[w].prior # req[w].row.vote /\ HoldsKey(v, req[w].row)
    \/ DeleteWaitsFor(w, v)

(* Whoever is waited for and waits is a reroll in the middle of its        *)
(* DELETE, and has deleted a vote.  cast_vote takes its one lock with its  *)
(* last write, so votes cannot deadlock, with each other or with a reroll; *)
(* two rerolls of one session can.                                         *)
THEOREM OnlyRerollsDeadlock ==
    Spec => [](\A u, v, w \in Workers :
                  WaitsFor(u, v) /\ WaitsFor(v, w) => DeleteWaitsFor(v, w) /\ req[v].wipe # {})
<1>1. ASSUME IInv, NEW u \in Workers, NEW v \in Workers, NEW w \in Workers,
             WaitsFor(u, v), WaitsFor(v, w)
      PROVE  DeleteWaitsFor(v, w) /\ req[v].wipe # {}
  <2>1. req[v].write # "none" \/ req[v].wipe # {}
    BY <1>1 DEF WaitsFor, DeleteWaitsFor, HoldsKey
  <2>2. req[v].pc \in {"vote_flush", "reroll_delete"}
    BY <1>1 DEF WaitsFor, DeleteWaitsFor
  <2>3. /\ req[v].write # "none" => req[v].pc \in Flushed
        /\ req[v].wipe # {} => req[v].pc \in Deleting
    BY <1>1 DEF IInv, LockInv, OwnLocks
  <2>4. req[v].pc # "vote_flush" /\ req[v].write = "none"
    BY <2>1, <2>2, <2>3 DEF Flushed, Deleting
  <2> QED BY <1>1, <2>1, <2>4 DEF WaitsFor
<1>2. IInv => \A u, v, w \in Workers :
                  WaitsFor(u, v) /\ WaitsFor(v, w) => DeleteWaitsFor(v, w) /\ req[v].wipe # {}
  BY <1>1
<1> QED BY <1>2, Invariant, PTL

(* NobodyStuck, from its half that is about a single request (FreeGoesOn): *)
(* if no holder of a lock could go on, each would be a reroll that waits   *)
(* for another one, which is the circle that the database finds.           *)
THEOREM HoldersGoOn == Spec => [](FreeGoesOn => NobodyStuck)
<1>1. ASSUME IInv, FreeGoesOn PROVE NobodyStuck
  <2> SUFFICES ASSUME NEW w \in Workers, Waits(w), ~CanGoOn(w),
                      \A v \in Workers \ {w} : Holds(v) => ~CanGoOn(v)
               PROVE  FALSE
    BY <1>1 DEF NobodyStuck
  <2> DEFINE C == {v \in Workers : Holds(v)}
  <2>1. \A v \in C : ~CanGoOn(v)
    OBVIOUS
  <2>2. ASSUME NEW v \in C PROVE \E u \in C : DeleteWaitsFor(v, u)
    <3>1. req[v].pc # "idle"
      BY <1>1, <2>2 DEF Holds, IInv, LockInv, OwnLocks, Idle
    <3>2. Waits(v)
      BY <1>1, <2>1, <2>2, <3>1 DEF FreeGoesOn
    <3>3. req[v].pc # "vote_flush"
      BY <1>1, <2>2 DEF Holds, IInv, LockInv, OwnLocks, Flushed, Deleting
    <3>4. PICK k \in req[v].todo : Locked(v, k)
      BY <3>2, <3>3 DEF Waits
    <3>5. PICK u \in Workers \ {v} : HoldsKey(u, k)
      BY <3>4 DEF Locked
    <3>6. u \in C
      BY <3>5 DEF HoldsKey, Holds
    <3> QED BY <3>2, <3>3, <3>4, <3>5, <3>6 DEF DeleteWaitsFor, Waits
  <2>3. PICK v \in Workers : Holds(v)
    BY DEF Waits, Locked, HoldsKey, Holds
  <2>4. InCircle(v)
    <3>1. Circle(C) /\ v \in C /\ C \in SUBSET Workers
      BY <2>2, <2>3 DEF Circle
    <3>2. req[v].pc = "reroll_delete"
      BY <2>2, <3>1 DEF DeleteWaitsFor
    <3> QED BY <3>1, <3>2 DEF InCircle
  <2>5. CanGoOn(v)
    BY <1>1, <2>4 DEF FreeGoesOn
  <2> QED BY <2>1, <2>3, <2>5
<1> QED BY <1>1, Invariant, PTL

=============================================================================
