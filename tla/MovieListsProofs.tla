-------------------------- MODULE MovieListsProofs --------------------------
(* Theorems of Recommendations and of Watchlist, the lists of movies of a  *)
(* user, for every set of movies, requests, tabs and row ids.              *)
EXTENDS Watchlist, Recommendations, TLAPS, FiniteSetTheorems, SequenceTheorems

(* The item of the list a tab is told.                                     *)
Told == Item \cup {NoRow, Unknown}

Fetch == [phase : {"none", "asked"}] \cup [phase : {"read"}, got : Told]

(* TypeOK with the answers that are on their way to a tab.                 *)
Types ==
    /\ TypeOK
    /\ query \in [Tabs -> Fetch]
    /\ \A c \in Calls : call[c].phase = "read" /\ call[c].kind = "patch" => call[c].found # NoRow

-----------------------------------------------------------------------------
(* What the expressions of the model return.                               *)

LEMMA AnswerType == ASSUME Types PROVE Answer \in Item \cup {NoRow}
<1>1. CASE Listed = {}
  BY <1>1 DEF Answer
<1>2. CASE Listed # {}
  <2> DEFINE i == CHOOSE i \in Listed : TRUE
  <2>1. i \in Listed
    BY <1>2
  <2>2. i \in Ids /\ rows[i] \in Row
    BY <2>1 DEF Listed, Types, TypeOK
  <2>3. Answer = [id |-> i, watched |-> rows[i].watched]
    BY <1>2 DEF Answer
  <2>4. [id |-> i, watched |-> rows[i].watched] \in Item
    BY <2>2 DEF Item, Row
  <2> QED BY <2>3, <2>4
<1> QED BY <1>1, <1>2

LEMMA MountedType ==
    ASSUME Types, NEW t \in Tabs, NEW d \in Told PROVE Mounted(t, d) \in Tile \cup {NoRow}
<1>1. CASE d \in {NoRow, Unknown}
  BY <1>1 DEF Mounted
<1>2. CASE d \notin {NoRow, Unknown}
  <2>1. d \in Item
    BY <1>2 DEF Told
  <2>2. [id |-> d.id, watched |-> d.watched, waits |-> NoCall] \in Tile
    BY <2>1 DEF Item, Tile
  <2> QED BY <1>2, <2>2 DEF Mounted, Types, TypeOK, Tile
<1> QED BY <1>1, <1>2

LEMMA BusyCall ==
    ASSUME Types, NEW c \in Calls, call[c].phase # "free"
    PROVE  call[c] \in Call
BY DEF Types, TypeOK, Blank

LEMMA PhaseType == \A c \in Call : c.phase # "free"
BY DEF Call

-----------------------------------------------------------------------------
LEMMA FetchType ==
    /\ \A f \in Fetch : f.phase \in {"none", "asked", "read"}
    /\ \A f \in Fetch : f.phase = "read" => f.got \in Told
    /\ [phase |-> "none"] \in Fetch /\ Asked \in Fetch
    /\ \A d \in Told : [phase |-> "read", got |-> d] \in Fetch
BY DEF Fetch, Asked

LEMMA InitTypes == Init => Types
<1> SUFFICES ASSUME Init PROVE Types
  OBVIOUS
<1>1. TypeOK
  BY DEF Init, TypeOK
<1>2. query \in [Tabs -> Fetch]
  BY FetchType DEF Init
<1> QED BY <1>1, <1>2 DEF Init, Types, Blank

LEMMA SendTypes ==
    ASSUME Types, NEW c \in Calls, NEW t \in Tabs, NEW kind \in {"add", "patch", "delete"},
           NEW id \in Ids, NEW next \in BOOLEAN, Send(c, t, kind, id, next)
    PROVE  /\ call' \in [Calls -> Call \cup {Blank}] /\ overlap' \in BOOLEAN
           /\ \A d \in Calls : call'[d].phase = "read" /\ call'[d].kind = "patch"
                => call'[d].found # NoRow
<1> DEFINE new == [phase |-> "sent", kind |-> kind, tab |-> t, id |-> id, next |-> next,
                   found |-> NoRow]
<1>1. new \in Call
  BY DEF Call
<1>2. call' = [call EXCEPT ![c] = new]
  BY DEF Send
<1>3. overlap' \in BOOLEAN
  BY DEF Send, Types, TypeOK
<1> QED BY <1>1, <1>2, <1>3 DEF Types, TypeOK

LEMMA PagesTypes ==
    ASSUME Types, NEW t \in Tabs, Show(t) \/ Hide(t) PROVE Types'
<1>1. CASE Show(t)
  <2>1. Mounted(t, data[t]) \in Tile \cup {NoRow}
    BY MountedType DEF Types, TypeOK, Told
  <2>2. tile' \in [Tabs -> Tile \cup {NoRow}]
    BY <1>1, <2>1 DEF Show, Types, TypeOK, Tile
  <2>3. query' \in [Tabs -> Fetch] /\ stale' \in [Tabs -> BOOLEAN]
    BY <1>1, FetchType DEF Show, Types, TypeOK
  <2>4. \A u \in Tabs : query'[u].phase \in {"none", "asked", "read"}
    BY <2>3, FetchType
  <2> QED BY <1>1, <2>2, <2>3, <2>4 DEF Show, Types, TypeOK, Tile, server, history
<1>2. CASE Hide(t)
  BY <1>2 DEF Hide, Types, TypeOK, server, cache
<1> QED BY <1>1, <1>2

LEMMA ButtonTypes ==
    ASSUME Types, NEW c \in Calls, NEW t \in Tabs, Toggle(c, t) \/ Remove(c, t) \/ Add(c, t)
    PROVE  Types'
<1>1. CASE Toggle(c, t)
  <2>1. tile[t] \in Tile
    BY <1>1 DEF Toggle, Types, TypeOK, Tile
  <2>2. Send(c, t, "patch", tile[t].id, ~tile[t].watched)
    BY <1>1 DEF Toggle
  <2>3. tile' = [tile EXCEPT ![t] = [tile[t] EXCEPT !.watched = ~tile[t].watched, !.waits = c]]
    BY <1>1 DEF Toggle
  <2>4. [tile[t] EXCEPT !.watched = ~tile[t].watched, !.waits = c] \in Tile
    BY <2>1 DEF Tile
  <2> QED BY <1>1, <2>1, <2>2, <2>3, <2>4, SendTypes DEF Toggle, Types, TypeOK, Tile, server, cache
<1>2. CASE Remove(c, t)
  <2>1. tile[t] \in Tile
    BY <1>2 DEF Remove, Types, TypeOK, Tile
  <2>2. tile' = [tile EXCEPT ![t] = [tile[t] EXCEPT !.waits = c]]
    BY <1>2 DEF Remove
  <2>3. [tile[t] EXCEPT !.waits = c] \in Tile
    BY <2>1 DEF Tile
  <2> QED BY <1>2, <2>1, <2>2, <2>3, SendTypes DEF Remove, Types, TypeOK, Tile, server, cache
<1>3. CASE Add(c, t)
  <2>1. PICK i \in Ids : Send(c, t, "add", i, FALSE)
    BY <1>3 DEF Add
  <2>2. call'[c].id = i
    BY <2>1 DEF Send, Types, TypeOK
  <2> QED BY <1>3, <2>1, <2>2, SendTypes DEF Add, Types, TypeOK, cache
<1> QED BY <1>1, <1>2, <1>3

(* The requests.                                                           *)
LEMMA EndedTypes ==
    ASSUME Types, NEW c \in Calls, call[c] \in Call, NEW how \in {"done", "refused"},
           Ended(c, how)
    PROVE  /\ call' \in [Calls -> Call \cup {Blank}]
           /\ \A d \in Calls : call'[d].phase = "read" /\ call'[d].kind = "patch"
                => call'[d].found # NoRow
<1>1. [call[c] EXCEPT !.phase = how] \in Call
  BY DEF Call
<1>2. call' = [call EXCEPT ![c] = [call[c] EXCEPT !.phase = how]]
  BY DEF Ended
<1> QED BY <1>1, <1>2 DEF Types, TypeOK, Call

LEMMA ServerTypes ==
    ASSUME Types, NEW c \in Calls,
           Begin(c) \/ AddCommit(c) \/ PatchCommit(c) \/ DeleteCommit(c) \/ Fails(c)
    PROVE  Types'
<1>1. call[c] \in Call
  BY BusyCall DEF Begin, AddCommit, PatchCommit, DeleteCommit, Fails
<1>2. CASE Begin(c)
  <2> DEFINE found == IF call[c].kind = "add" THEN Answer ELSE rows[call[c].id]
             phase == IF call[c].kind # "add" /\ found = NoRow THEN "refused" ELSE "read"
             new == [call[c] EXCEPT !.found = found, !.phase = phase]
  <2>1. Answer \in Item \cup {NoRow}
    BY AnswerType
  <2>2. found \in Row \cup Item \cup {NoRow}
    BY <1>1, <2>1 DEF Call, Types, TypeOK
  <2>3. new \in Call
    BY <1>1, <2>2 DEF Call
  <2>4. call' = [call EXCEPT ![c] = new]
    BY <1>2 DEF Begin
  <2>5. new.phase = "read" /\ new.kind = "patch" => new.found # NoRow
    BY <1>1 DEF Call
  <2>6. call' \in [Calls -> Call \cup {Blank}]
    BY <2>3, <2>4 DEF Types, TypeOK
  <2>7. \A d \in Calls : call'[d].phase = "read" /\ call'[d].kind = "patch"
            => call'[d].found # NoRow
    BY <2>4, <2>5 DEF Types, TypeOK
  <2> QED BY <1>2, <2>6, <2>7 DEF Begin, Types, TypeOK, server, cache, history
<1>3. CASE AddCommit(c)
  <2>1. rows' \in [Ids -> Row \cup {NoRow}]
    BY <1>1, <1>3 DEF AddCommit, New, Row, Types, TypeOK
  <2> QED BY <1>1, <1>3, <2>1, EndedTypes DEF AddCommit, Types, TypeOK, cache, history
<1>4. CASE PatchCommit(c)
  <2>1. \A old \in Row : Updated(old, call[c].found, call[c].next) \in Row
    BY <1>1 DEF Updated, Row, Call
  <2>2. rows' \in [Ids -> Row \cup {NoRow}]
    BY <1>1, <1>4, <2>1 DEF PatchCommit, Call, Types, TypeOK
  <2> QED BY <1>1, <1>4, <2>2, EndedTypes DEF PatchCommit, Types, TypeOK, cache, history
<1>5. CASE DeleteCommit(c)
  <2>1. rows' \in [Ids -> Row \cup {NoRow}]
    BY <1>5 DEF DeleteCommit, Types, TypeOK
  <2> QED BY <1>1, <1>5, <2>1, EndedTypes DEF DeleteCommit, Types, TypeOK, cache, history
<1>6. CASE Fails(c)
  BY <1>1, <1>6, EndedTypes DEF Fails, Types, TypeOK, server, cache, history
<1> QED BY <1>2, <1>3, <1>4, <1>5, <1>6

LEMMA BlankTypes ==
    ASSUME Types, NEW c \in Calls, call' = [call EXCEPT ![c] = Blank]
    PROVE  /\ call' \in [Calls -> Call \cup {Blank}]
           /\ \A d \in Calls : call'[d].phase = "read" /\ call'[d].kind = "patch"
                => call'[d].found # NoRow
BY DEF Types, TypeOK, Blank

LEMMA FailedTypes ==
    ASSUME Types, NEW c \in Calls, call[c] \in Call, Failed(c),
           overlap' \in BOOLEAN, hurried' \subseteq Tabs
    PROVE  Types'
<1>1. tile' \in [Tabs -> {NoRow} \cup Tile]
  <2>1. CASE Waiting(c)
    <3>1. call[c].tab \in Tabs /\ tile[call[c].tab] \in Tile /\ call[c].next \in BOOLEAN
      BY <2>1 DEF Waiting, Call, Types, TypeOK, Tile
    <3>2. Reverted(c) \in Tile
      BY <3>1 DEF Reverted, Tile
    <3> QED BY <2>1, <3>2 DEF Failed, Types, TypeOK, Tile
  <2>2. CASE ~Waiting(c)
    BY <2>2 DEF Failed, Types, TypeOK, Tile
  <2> QED BY <2>1, <2>2
<1>2. call' = [call EXCEPT ![c] = Blank]
  BY DEF Failed
<1> QED BY <1>1, <1>2, BlankTypes DEF Failed, Types, TypeOK, Tile, server, cache

LEMMA AnswerTypes ==
    ASSUME Types, NEW c \in Calls, Answered(c) \/ Refused(c) \/ AnswerLost(c) PROVE Types'
<1>1. call[c] \in Call
  BY BusyCall DEF Answered, Refused, AnswerLost
<1>2. CASE Answered(c)
  <2> DEFINE t == call[c].tab
  <2>1. t \in Tabs
    BY <1>1 DEF Call
  <2>2. tile' \in [Tabs -> {NoRow} \cup Tile]
    <3>1. CASE Waiting(c)
      <4>1. [tile[t] EXCEPT !.waits = NoCall] \in Tile
        BY <2>1, <3>1 DEF Waiting, Types, TypeOK, Tile
      <4>2. tile' = [tile EXCEPT ![t] = [tile[t] EXCEPT !.waits = NoCall]]
        BY <1>2, <3>1 DEF Answered
      <4> QED BY <4>1, <4>2 DEF Types, TypeOK, Tile
    <3>2. CASE ~Waiting(c)
      BY <1>2, <3>2 DEF Answered, Types, TypeOK, Tile
    <3> QED BY <3>1, <3>2
  <2>3. query' \in [Tabs -> Fetch] /\ stale' \in [Tabs -> BOOLEAN] /\ data' = data
    BY <1>2, FetchType DEF Answered, Types, TypeOK, cache
  <2>4. \A u \in Tabs : query'[u].phase \in {"none", "asked", "read"}
    BY <2>3, FetchType
  <2>5. call' = [call EXCEPT ![c] = Blank] /\ UNCHANGED <<server, history>>
    BY <1>2 DEF Answered
  <2> QED BY <2>2, <2>3, <2>4, <2>5, BlankTypes DEF Types, TypeOK, Tile, server, history
<1>3. CASE Refused(c)
  BY <1>1, <1>3, FailedTypes DEF Refused, history, Types, TypeOK
<1>4. CASE AnswerLost(c)
  <2>1. hurried' \subseteq Tabs /\ overlap' \in BOOLEAN /\ Failed(c)
    BY <1>1, <1>4 DEF AnswerLost, Call, Types, TypeOK
  <2> QED BY <1>1, <2>1, FailedTypes
<1> QED BY <1>2, <1>3, <1>4

(* The query of the list.                                                  *)
LEMMA QueryTypes ==
    ASSUME Types, NEW t \in Tabs, QueryRead(t) \/ QueryAnswered(t) \/ QueryFails(t)
    PROVE  Types'
<1>1. query' \in [Tabs -> Fetch]
  <2>1. [phase |-> "read", got |-> Answer] \in Fetch
    BY AnswerType, FetchType DEF Told
  <2> QED BY <2>1, FetchType DEF QueryRead, QueryAnswered, QueryFails, Types
<1>2. \A u \in Tabs : query'[u].phase \in {"none", "asked", "read"}
  BY <1>1, FetchType
<1>3. CASE QueryRead(t)
  BY <1>1, <1>2, <1>3 DEF QueryRead, Types, TypeOK, server, history
<1>4. CASE QueryAnswered(t)
  <2>1. query[t].got \in Told
    BY <1>4, FetchType DEF QueryAnswered, Types
  <2>2. data' \in [Tabs -> Told]
    BY <1>4, <2>1 DEF QueryAnswered, Types, TypeOK, Told
  <2>3. tile' \in [Tabs -> {NoRow} \cup Tile]
    BY <1>4, <2>1, MountedType DEF QueryAnswered, Types, TypeOK, Tile
  <2> QED BY <1>1, <1>2, <1>4, <2>2, <2>3
          DEF QueryAnswered, Types, TypeOK, Tile, Told, server, history
<1>5. CASE QueryFails(t)
  BY <1>1, <1>2, <1>5 DEF QueryFails, Types, TypeOK, server
<1> QED BY <1>3, <1>4, <1>5

LEMMA NextTypes == ASSUME Types, [Next]_vars PROVE Types'
<1>1. CASE UNCHANGED vars
  BY <1>1 DEF vars, Types, TypeOK
<1> QED BY <1>1, PagesTypes, ButtonTypes, ServerTypes, AnswerTypes, QueryTypes DEF Next, Handler

LEMMA Typed == Spec => []Types
BY InitTypes, NextTypes, PTL DEF Spec

(* Every variable keeps its type, whatever overlaps and fails.             *)
THEOREM TypeCorrect == Spec => []TypeOK
<1>1. Types => TypeOK
  BY DEF Types
<1> QED BY Typed, <1>1, PTL

-----------------------------------------------------------------------------
(* A movie is at most once on the list: an addition that was refused by    *)
(* the unique constraint changes nothing, and no update makes a row        *)
(* (add_to_watchlist, patch_watchlist_item, delete_watchlist_item).        *)

OneListed == \A i, j \in Listed : i = j

LEMMA RowsChange ==
    ASSUME Types, [Next]_vars
    PROVE  \/ rows' = rows
           \/ \E c \in Calls :
                /\ AddCommit(c) /\ call[c].id \in Ids /\ Listed = {}
                /\ rows' = [rows EXCEPT ![call[c].id] = New]
           \/ \E c \in Calls :
                /\ PatchCommit(c) /\ call[c].id \in Listed
                /\ rows' = [rows EXCEPT ![call[c].id] =
                               Updated(rows[call[c].id], call[c].found, call[c].next)]
           \/ \E c \in Calls :
                /\ DeleteCommit(c) /\ call[c].id \in Ids
                /\ rows' = [rows EXCEPT ![call[c].id] = NoRow]
<1>1. ASSUME NEW c \in Calls, AddCommit(c) \/ PatchCommit(c) \/ DeleteCommit(c)
      PROVE  call[c].id \in Ids
  BY <1>1, BusyCall DEF AddCommit, PatchCommit, DeleteCommit, Call
<1>2. ASSUME NEW c \in Calls, AddCommit(c), rows' # rows
      PROVE  Listed = {} /\ rows' = [rows EXCEPT ![call[c].id] = New]
  BY <1>2 DEF AddCommit
<1>3. ASSUME NEW c \in Calls, PatchCommit(c), rows' # rows
      PROVE  /\ call[c].id \in Listed
             /\ rows' = [rows EXCEPT ![call[c].id] =
                            Updated(rows[call[c].id], call[c].found, call[c].next)]
  BY <1>1, <1>3 DEF PatchCommit, Listed
<1>4. ASSUME NEW c \in Calls, DeleteCommit(c)
      PROVE  rows' = [rows EXCEPT ![call[c].id] = NoRow]
  BY <1>4 DEF DeleteCommit
<1>5. ASSUME NEW c \in Calls, Begin(c) \/ Fails(c) \/ Answered(c) \/ Refused(c) \/ AnswerLost(c)
      PROVE  rows' = rows
  BY <1>5 DEF Begin, Fails, Answered, Refused, AnswerLost, Failed, server
<1>6. ASSUME NEW t \in Tabs, NEW c \in Calls, Toggle(c, t) \/ Remove(c, t) \/ Add(c, t)
      PROVE  rows' = rows
  BY <1>6 DEF Toggle, Remove, Add, server
<1>7. ASSUME NEW t \in Tabs, Show(t) \/ Hide(t) \/ QueryRead(t) \/ QueryAnswered(t) \/ QueryFails(t)
      PROVE  rows' = rows
  BY <1>7 DEF Show, Hide, QueryRead, QueryAnswered, QueryFails, server
<1>8. CASE UNCHANGED vars
  BY <1>8 DEF vars
<1> QED BY <1>1, <1>2, <1>3, <1>4, <1>5, <1>6, <1>7, <1>8 DEF Next, Handler

LEMMA OneListedNext == ASSUME Types, OneListed, [Next]_vars PROVE OneListed'
<1>1. rows \in [Ids -> Row \cup {NoRow}]
  BY DEF Types, TypeOK
<1> QED BY <1>1, RowsChange DEF OneListed, Listed

LEMMA AtMostOne == ASSUME OneListed PROVE Cardinality(Listed) <= 1
<1>1. CASE Listed = {}
  BY <1>1, FS_EmptySet
<1>2. CASE Listed # {}
  <2>1. PICK i \in Listed : TRUE
    BY <1>2
  <2>2. Listed = {i}
    BY <2>1 DEF OneListed
  <2> QED BY <2>2, FS_Singleton
<1> QED BY <1>1, <1>2

THEOREM ListedOnce == Spec => []OneItem
<1>1. Init => OneListed
  BY DEF Init, OneListed, Listed
<1>2. OneListed => OneItem
  BY AtMostOne DEF OneItem
<1> QED BY Typed, <1>1, OneListedNext, <1>2, PTL DEF Spec

(* A row that is gone comes back by an addition only: an update or a       *)
(* removal that read it before does not bring it back.                     *)
THEOREM NoRevival == Spec => RemovedStaysAway
<1> DEFINE Stays == \A i \in Ids : rows[i] = NoRow /\ rows'[i] # NoRow
                       => \E c \in Calls : call[c].id = i /\ call[c].kind = "add"
<1>1. ASSUME Types, [Next]_vars PROVE Stays
  <2>1. rows \in [Ids -> Row \cup {NoRow}]
    BY <1>1 DEF Types, TypeOK
  <2> QED BY <1>1, <2>1, RowsChange DEF Listed, AddCommit
<1>2. Types /\ [Next]_vars => [Stays]_vars
  BY <1>1
<1> QED BY Typed, <1>2, PTL DEF Spec, RemovedStaysAway

-----------------------------------------------------------------------------
(* What becomes of the requests.                                           *)

LEMMA CallsChange ==
    ASSUME Types, [Next]_vars
    PROVE  \/ call' = call /\ overlap' = overlap /\ rows' = rows
           \/ \E c \in Calls, t \in Tabs :
                /\ ~InFlight(c) /\ rows' = rows
                /\ \A d \in Calls \ {c} : call'[d] = call[d]
                /\ call'[c].phase = "sent" /\ call'[c].tab = t
                /\ overlap' = (overlap \/ (call'[c].kind # "add" /\ Changing # {}))
           \/ \E c \in Calls :
                /\ Begin(c) /\ InFlight(c) /\ rows' = rows /\ overlap' = overlap
                /\ \A d \in Calls \ {c} : call'[d] = call[d]
                /\ call'[c].kind = call[c].kind /\ call'[c].id = call[c].id
                /\ call'[c].kind = "patch" => call'[c].found = rows[call[c].id]
           \/ \E c \in Calls :
                /\ InFlight(c) /\ overlap' = overlap
                /\ rows' = rows \/ AddCommit(c) \/ PatchCommit(c) \/ DeleteCommit(c)
                /\ \A d \in Calls \ {c} : call'[d] = call[d]
                /\ call'[c].phase # "read"
                /\ call'[c] = Blank \/ call'[c].kind = call[c].kind
<1>1. ASSUME NEW c \in Calls, call[c].phase # "free" PROVE InFlight(c)
  BY <1>1 DEF InFlight, Blank
<1>2. call \in [Calls -> Call \cup {Blank}]
  BY DEF Types, TypeOK
<1>3. ASSUME NEW c \in Calls, Begin(c) PROVE
                /\ InFlight(c) /\ rows' = rows /\ overlap' = overlap
                /\ \A d \in Calls \ {c} : call'[d] = call[d]
                /\ call'[c].kind = call[c].kind /\ call'[c].id = call[c].id
                /\ call'[c].kind = "patch" => call'[c].found = rows[call[c].id]
  <2>1. call[c] \in Call
    BY <1>3, BusyCall DEF Begin
  <2>2. InFlight(c) /\ rows' = rows /\ overlap' = overlap
    BY <1>1, <1>3 DEF Begin, server, history
  <2> QED BY <1>2, <1>3, <2>1, <2>2 DEF Begin, Call
<1>4. ASSUME NEW c \in Calls,
             AddCommit(c) \/ PatchCommit(c) \/ DeleteCommit(c) \/ Fails(c)
      PROVE  /\ InFlight(c) /\ overlap' = overlap
             /\ rows' = rows \/ AddCommit(c) \/ PatchCommit(c) \/ DeleteCommit(c)
             /\ \A d \in Calls \ {c} : call'[d] = call[d]
             /\ call'[c].phase # "read" /\ call'[c].kind = call[c].kind
  <2>1. call[c] \in Call /\ InFlight(c)
    BY <1>1, <1>4, BusyCall DEF AddCommit, PatchCommit, DeleteCommit, Fails
  <2>2. overlap' = overlap
    BY <1>4 DEF AddCommit, PatchCommit, DeleteCommit, Fails, history
  <2>3. Ended(c, "done") \/ Ended(c, "refused")
    BY <1>4 DEF AddCommit, PatchCommit, DeleteCommit, Fails
  <2>4. rows' = rows \/ AddCommit(c) \/ PatchCommit(c) \/ DeleteCommit(c)
    BY <1>4 DEF Fails, server
  <2> QED BY <1>2, <2>1, <2>2, <2>3, <2>4 DEF Ended, Call
<1>5. ASSUME NEW c \in Calls, Answered(c) \/ Refused(c) \/ AnswerLost(c)
      PROVE  /\ InFlight(c) /\ overlap' = overlap /\ rows' = rows
             /\ \A d \in Calls \ {c} : call'[d] = call[d]
             /\ call'[c].phase # "read" /\ call'[c] = Blank
  <2>1. call' = [call EXCEPT ![c] = Blank] /\ overlap' = overlap /\ rows' = rows
    BY <1>5 DEF Answered, Refused, AnswerLost, Failed, server, history
  <2> QED BY <1>1, <1>2, <1>5, <2>1 DEF Answered, Refused, AnswerLost, Blank
<1>6. ASSUME NEW c \in Calls, NEW t \in Tabs, Toggle(c, t) \/ Remove(c, t) \/ Add(c, t)
      PROVE  /\ ~InFlight(c) /\ rows' = rows
             /\ \A d \in Calls \ {c} : call'[d] = call[d]
             /\ call'[c].phase = "sent" /\ call'[c].tab = t
             /\ overlap' = (overlap \/ (call'[c].kind # "add" /\ Changing # {}))
  BY <1>2, <1>6 DEF Toggle, Remove, Add, Send, server
<1>7. ASSUME NEW t \in Tabs, Show(t) \/ Hide(t) \/ QueryRead(t) \/ QueryAnswered(t) \/ QueryFails(t)
      PROVE  call' = call /\ overlap' = overlap /\ rows' = rows
  BY <1>7 DEF Show, Hide, QueryRead, QueryAnswered, QueryFails, server, history
<1>8. CASE UNCHANGED vars
  BY <1>8 DEF vars
<1> QED BY <1>3, <1>4, <1>5, <1>6, <1>7, <1>8 DEF Next, Handler

(* As long as changes do not overlap, an update writes to the row it read. *)
AloneInv ==
    ~overlap =>
        /\ \A c, d \in Changing : c = d
        /\ \A c \in Calls : call[c].phase = "read" /\ call[c].kind = "patch"
                => rows[call[c].id] = call[c].found
        /\ WatchedHasTime

LEMMA AloneNext == ASSUME Types, AloneInv, [Next]_vars PROVE AloneInv'
<1> SUFFICES ASSUME ~overlap' PROVE AloneInv'
  BY DEF AloneInv
<1>1. ~overlap
  BY CallsChange
<1>2. Blank.kind = "none" /\ Blank.phase = "free"
  BY DEF Blank
<1>3. \A c, d \in Changing' : c = d
  <2>1. \A c, d \in Changing : c = d
    BY <1>1 DEF AloneInv
  <2>2. \/ Changing' \subseteq Changing
        \/ \E c \in Calls : Changing' \subseteq {c}
    <3>1. CASE call' = call
      BY <3>1 DEF Changing, InFlight
    <3>2. ASSUME NEW c \in Calls, \A d \in Calls \ {c} : call'[d] = call[d],
                 call'[c].kind = "add" \/ Changing = {}
          PROVE  Changing' \subseteq Changing \/ Changing' \subseteq {c}
      BY <3>2 DEF Changing, InFlight
    <3>3. ASSUME NEW c \in Calls, \A d \in Calls \ {c} : call'[d] = call[d], InFlight(c),
                 call'[c] = Blank \/ call'[c].kind = call[c].kind
          PROVE  Changing' \subseteq Changing
      BY <3>3 DEF Changing, InFlight
    <3> QED BY <3>1, <3>2, <3>3, CallsChange
  <2> QED BY <2>1, <2>2
<1>4. ASSUME NEW c \in Calls, call[c].phase = "read", call[c].kind = "patch"
      PROVE  c \in Changing /\ call[c].id \in Listed
  <2>1. call[c] \in Call /\ call[c].found # NoRow
    BY <1>4, BusyCall DEF Types
  <2> QED BY <1>1, <1>2, <1>4, <2>1 DEF Changing, InFlight, Listed, Call, AloneInv
<1>5. ASSUME NEW c \in Calls, call'[c].phase = "read", call'[c].kind = "patch"
      PROVE  rows'[call'[c].id] = call'[c].found
  <2>1. CASE Begin(c) /\ rows' = rows /\ call'[c].id = call[c].id
             /\ call'[c].found = rows[call[c].id]
    BY <2>1
  <2>2. CASE call'[c] = call[c]
    <3>1. c \in Changing /\ call[c].id \in Listed /\ rows[call[c].id] = call[c].found
      BY <1>1, <1>4, <1>5, <2>2 DEF AloneInv
    <3>2. ASSUME NEW d \in Calls, d # c, InFlight(d) PROVE call[d].kind = "add"
      BY <1>1, <3>1, <3>2 DEF AloneInv, Changing
    <3>3. rows' = rows \/ AddCommit(c) \/ PatchCommit(c) \/ DeleteCommit(c)
            \/ \E d \in Calls : d # c /\ InFlight(d)
                                 /\ (AddCommit(d) \/ PatchCommit(d) \/ DeleteCommit(d))
      BY CallsChange
    <3>4. ~AddCommit(c) /\ ~PatchCommit(c) /\ ~DeleteCommit(c)
      <4>1. ASSUME AddCommit(c) \/ PatchCommit(c) \/ DeleteCommit(c) PROVE FALSE
        <5>1. Ended(c, "done") \/ Ended(c, "refused")
          BY <4>1 DEF AddCommit, PatchCommit, DeleteCommit
        <5>2. call'[c].phase # "read"
          BY <5>1, <3>1, BusyCall, <1>5, <2>2 DEF Ended, Types, TypeOK, Call
        <5> QED BY <5>2, <1>5
      <4> QED BY <4>1
    <3>5. rows' = rows
      BY <3>1, <3>2, <3>3, <3>4 DEF AddCommit, PatchCommit, DeleteCommit
    <3> QED BY <2>2, <3>1, <3>5
  <2> QED BY <1>5, <2>1, <2>2, CallsChange
<1>6. WatchedHasTime'
  <2>1. rows \in [Ids -> Row \cup {NoRow}] /\ WatchedHasTime
    BY <1>1 DEF Types, TypeOK, AloneInv
  <2>2. CASE rows' = rows
    BY <1>1, <2>1, <2>2 DEF WatchedHasTime, Listed
  <2>3. ASSUME NEW c \in Calls, rows' = [rows EXCEPT ![call[c].id] = New] PROVE WatchedHasTime'
    BY <1>1, <2>1, <2>3 DEF WatchedHasTime, Listed, New
  <2>4. ASSUME NEW c \in Calls, PatchCommit(c), call[c].id \in Listed,
               rows' = [rows EXCEPT ![call[c].id] =
                          Updated(rows[call[c].id], call[c].found, call[c].next)]
        PROVE  WatchedHasTime'
    <3> DEFINE old == rows[call[c].id]
    <3>1. call[c] \in Call /\ call[c].found = old /\ old \in Row /\ old.watched = old.at
      BY <1>1, <2>1, <2>4, BusyCall DEF PatchCommit, AloneInv, WatchedHasTime, Listed
    <3>2. old.watched \in BOOLEAN /\ old.at \in BOOLEAN /\ call[c].next \in BOOLEAN
      BY <3>1 DEF Row, Call
    <3>3. Updated(old, old, call[c].next).watched = Updated(old, old, call[c].next).at
      BY <3>1, <3>2 DEF Updated
    <3> QED BY <1>1, <2>1, <2>4, <3>1, <3>3 DEF WatchedHasTime, Listed
  <2>5. ASSUME NEW c \in Calls, rows' = [rows EXCEPT ![call[c].id] = NoRow]
        PROVE  WatchedHasTime'
    BY <1>1, <2>1, <2>5 DEF WatchedHasTime, Listed
  <2> QED BY RowsChange, <2>2, <2>3, <2>4, <2>5
<1> QED BY <1>3, <1>5, <1>6 DEF AloneInv

(* An item has a time of watching exactly if it is watched, as long as no  *)
(* two changes overlap (patch_watchlist_item writes changed columns only). *)
THEOREM TimedWhenWatched == Spec => []WatchedHasTime
<1>1. Init => AloneInv
  BY DEF Init, AloneInv, WatchedHasTime, Changing, InFlight, Listed, Blank
<1>2. AloneInv => WatchedHasTime
  BY DEF AloneInv, WatchedHasTime
<1> QED BY Typed, <1>1, AloneNext, <1>2, PTL DEF Spec

-----------------------------------------------------------------------------
(* The buttons of a tile wait for a request that will be answered.         *)

LEMMA WaitsNext == ASSUME Types, WaitsForItsOwn, [Next]_vars PROVE WaitsForItsOwn'
<1> SUFFICES ASSUME NEW t \in Tabs, tile'[t] # NoRow, tile'[t].waits # NoCall
             PROVE  LET c == tile'[t].waits
                    IN  call'[c] # Blank /\ call'[c].tab = t /\ call'[c].kind # "add"
  BY DEF WaitsForItsOwn, InFlight
<1> DEFINE c == tile'[t].waits
           Good == call'[c] # Blank /\ call'[c].tab = t /\ call'[c].kind # "add"
<1>0. tile \in [Tabs -> Tile \cup {NoRow}] /\ call \in [Calls -> Call \cup {Blank}]
  BY DEF Types, TypeOK, Tile
<1>1. ASSUME tile[t] # NoRow, tile[t].waits = c
      PROVE  c \in Calls /\ call[c] # Blank /\ call[c].tab = t /\ call[c].kind # "add"
  BY <1>0, <1>1 DEF WaitsForItsOwn, InFlight, Tile
<1>2. ASSUME tile[t] # NoRow, tile[t].waits = c, call' = call PROVE Good
  BY <1>1, <1>2
<1>3. ASSUME NEW u \in Tabs, Show(u) \/ Hide(u) \/ QueryRead(u) \/ QueryAnswered(u) \/ QueryFails(u)
      PROVE  Good
  <2>1. call' = call
    BY <1>3 DEF Show, Hide, QueryRead, QueryAnswered, QueryFails, server
  <2>2. tile[t] # NoRow /\ tile[t].waits = c
    <3>1. ASSUME NEW d, tile' = [tile EXCEPT ![u] = Mounted(u, d)]
          PROVE  tile[t] # NoRow /\ tile[t].waits = c
      BY <1>0, <3>1 DEF Mounted
    <3>2. CASE tile' = tile
      BY <3>2
    <3>3. CASE Hide(u)
      BY <1>0, <3>3 DEF Hide
    <3> QED BY <1>3, <3>1, <3>2, <3>3 DEF Show, QueryRead, QueryAnswered, QueryFails
  <2> QED BY <1>2, <2>1, <2>2
<1>4. ASSUME NEW u \in Tabs, NEW d \in Calls, Toggle(d, u) \/ Remove(d, u) PROVE Good
  <2>1. /\ \A e \in Calls \ {d} : call'[e] = call[e]
        /\ call'[d] # Blank /\ call'[d].tab = u /\ call'[d].kind # "add" /\ call[d] = Blank
    BY <1>0, <1>4 DEF Toggle, Remove, Send, InFlight, Blank
  <2>2. CASE t = u
    <3>1. c = d
      BY <1>0, <1>4, <2>2 DEF Toggle, Remove, Tile
    <3> QED BY <2>1, <2>2, <3>1
  <2>3. CASE t # u
    <3>1. tile'[t] = tile[t]
      BY <1>0, <1>4, <2>3 DEF Toggle, Remove
    <3> QED BY <1>1, <2>1, <3>1
  <2> QED BY <2>2, <2>3
<1>5. ASSUME NEW u \in Tabs, NEW d \in Calls, Add(d, u) PROVE Good
  <2>1. tile' = tile /\ call[d] = Blank /\ \A e \in Calls \ {d} : call'[e] = call[e]
    BY <1>0, <1>5 DEF Add, Send, InFlight
  <2> QED BY <1>1, <2>1
<1>6. ASSUME NEW d \in Calls,
             Begin(d) \/ AddCommit(d) \/ PatchCommit(d) \/ DeleteCommit(d) \/ Fails(d)
      PROVE  Good
  <2>1. call[d] \in Call /\ tile' = tile
    BY <1>6, BusyCall DEF Begin, AddCommit, PatchCommit, DeleteCommit, Fails
  <2>2. /\ \A e \in Calls \ {d} : call'[e] = call[e]
        /\ call'[d].tab = call[d].tab /\ call'[d].kind = call[d].kind
        /\ call'[d].phase \in {"read", "refused", "done"}
    BY <1>0, <1>6, <2>1
       DEF Begin, AddCommit, PatchCommit, DeleteCommit, Fails, Ended, Call
  <2>3. call'[d] # Blank
    BY <2>2 DEF Blank
  <2> QED BY <1>1, <2>1, <2>2, <2>3
<1>7. ASSUME NEW d \in Calls, Answered(d) \/ Refused(d) \/ AnswerLost(d) PROVE Good
  <2> DEFINE u == call[d].tab
  <2>1. u \in Tabs /\ \A e \in Calls \ {d} : call'[e] = call[e]
    BY <1>0, <1>7, BusyCall DEF Answered, Refused, AnswerLost, Failed, Call
  <2>2. CASE Waiting(d)
    <3>1. tile[u] \in Tile
      BY <1>0, <2>1, <2>2 DEF Waiting
    <3>2. tile'[u].waits = NoCall /\ \A v \in Tabs \ {u} : tile'[v] = tile[v]
      <4>1. ASSUME NEW w, tile' = [tile EXCEPT ![u] = w], w.waits = NoCall
            PROVE  tile'[u].waits = NoCall /\ \A v \in Tabs \ {u} : tile'[v] = tile[v]
        BY <1>0, <2>1, <4>1
      <4>2. CASE Answered(d)
        <5>1. tile' = [tile EXCEPT ![u] = [tile[u] EXCEPT !.waits = NoCall]]
          BY <2>2, <4>2 DEF Answered
        <5>2. [tile[u] EXCEPT !.waits = NoCall].waits = NoCall
          BY <3>1 DEF Tile
        <5> QED BY <4>1, <5>1, <5>2
      <4>3. CASE Refused(d) \/ AnswerLost(d)
        <5>1. tile' = [tile EXCEPT ![u] = Reverted(d)]
          BY <2>2, <4>3 DEF Refused, AnswerLost, Failed
        <5>2. Reverted(d).waits = NoCall
          BY <3>1 DEF Reverted, Tile
        <5> QED BY <4>1, <5>1, <5>2
      <4> QED BY <1>7, <4>2, <4>3
    <3>3. t # u
      BY <3>2
    <3> QED BY <1>1, <2>1, <3>2, <3>3
  <2>3. CASE ~Waiting(d)
    <3>1. tile' = tile
      BY <1>7, <2>3 DEF Answered, Refused, AnswerLost, Failed
    <3>2. c # d
      BY <1>1, <2>1, <2>3, <3>1 DEF Waiting
    <3> QED BY <1>1, <2>1, <3>1, <3>2
  <2> QED BY <2>2, <2>3
<1>8. CASE UNCHANGED vars
  BY <1>2, <1>8 DEF vars
<1> QED BY <1>3, <1>4, <1>5, <1>6, <1>7, <1>8 DEF Next, Handler

(* Buttons that wait, wait for a request of their own tab that is under    *)
(* way (the finally of toggleWatched and remove in watchlist-tile.tsx).    *)
THEOREM ButtonsAreFreed == Spec => []WaitsForItsOwn
<1>1. Init => WaitsForItsOwn
  BY DEF Init, WaitsForItsOwn
<1> QED BY Typed, <1>1, WaitsNext, PTL DEF Spec

-----------------------------------------------------------------------------
(* What a tile shows.                                                      *)

(* An addition that may still insert its row, and an id none will insert.  *)
Pending(c) == call[c].kind = "add" /\ call[c].phase \in {"sent", "read"}
Settled(i) == i \in used /\ \A c \in Calls : Pending(c) => call[c].id # i

(* Ids are drawn once, so that a row that is gone stays away.              *)
IdInv ==
    /\ \A c \in Calls : Pending(c) => call[c].id \in used
    /\ \A c, d \in Calls : Pending(c) /\ Pending(d) /\ call[c].id = call[d].id => c = d
    /\ \A i \in Listed : Settled(i)

Change(c) == call[c].kind \in {"patch", "delete"}
Waits(t, c) == tile[t] # NoRow /\ tile[t].waits = c

(* A tile at rest shows what is stored; one whose row is gone has a query  *)
(* under way that will tell it so, or a request that has just removed it.  *)
RestInv(t) ==
    tile[t] # NoRow =>
        /\ Settled(tile[t].id)
        /\ tile[t].waits = NoCall /\ tile[t].id \in Listed
            => rows[tile[t].id].watched = tile[t].watched
        /\ tile[t].id \notin Listed =>
            \/ query[t].phase = "asked"
            \/ query[t].phase = "read" /\ (query[t].got \in Item => query[t].got.id # tile[t].id)
            \/ \E c \in Calls : Waits(t, c) /\ call[c].phase = "done"

(* A tile that waits shows what its request asks for, and knows what is    *)
(* stored if the request is refused.                                       *)
AskInv(t) ==
    \A c \in Calls : Waits(t, c) =>
        /\ Change(c) /\ call[c].id = tile[t].id
        /\ call[c].kind = "patch" => call[c].next = tile[t].watched
        /\ call[c].phase = "read" => tile[t].id \in Listed /\ call[c].found = rows[tile[t].id]
        /\ tile[t].id \in Listed /\ call[c].phase # "done" =>
            rows[tile[t].id].watched =
                (IF call[c].kind = "patch" THEN ~tile[t].watched ELSE tile[t].watched)
        /\ tile[t].id \in Listed /\ call[c].phase = "done" =>
            rows[tile[t].id].watched = tile[t].watched

(* A request no tile waits for any more is about a row that is gone.       *)
OthersInv(t) ==
    \A c \in Calls : Change(c) /\ ~Waits(t, c) =>
        call[c].phase # "read" /\ Settled(call[c].id) /\ call[c].id \notin Listed

(* What a tab has been told, or is being told, is stored, unless a request *)
(* that has been carried out will make it ask again.                       *)
Current(d) == d.id \in Listed /\ rows[d.id].watched = d.watched
Overtaken(t, d) ==
    \E c \in Calls : Waits(t, c) /\ tile[t].id = d.id /\ call[c].phase = "done"

CacheInv(t) ==
    /\ query[t].phase = "read" =>
        /\ query[t].got \in Item => Current(query[t].got) \/ Overtaken(t, query[t].got)
        /\ query[t].got \notin Item =>
            /\ tile[t] = NoRow => data[t] \notin Item
            /\ tile[t] # NoRow => tile[t].id \notin Listed
    /\ data[t] \in Item =>
        \/ Current(data[t])
        \/ Overtaken(t, data[t])
        \/ tile[t] # NoRow /\ query[t].phase # "none"

ShowsInv(t) == t \notin hurried => RestInv(t) /\ AskInv(t) /\ OthersInv(t) /\ CacheInv(t)

-----------------------------------------------------------------------------
(* Ids stay settled when nothing is added.                                 *)
LEMMA IdKept ==
    ASSUME Types, IdInv, used' = used, Listed' \subseteq Listed,
           \A c \in Calls : Pending(c)' => Pending(c) /\ call'[c].id = call[c].id
    PROVE  IdInv' /\ \A i \in Ids : Settled(i) => Settled(i)'
<1>1. \A i \in Ids : Settled(i) => Settled(i)'
  BY DEF Settled
<1>2. (\A i \in Listed : Settled(i))'
  BY <1>1 DEF IdInv, Listed
<1> QED BY <1>1, <1>2 DEF IdInv

(* What the steps of the service do to a request.                          *)
LEMMA ServerEffect ==
    ASSUME Types, NEW c \in Calls,
           Begin(c) \/ AddCommit(c) \/ PatchCommit(c) \/ DeleteCommit(c) \/ Fails(c)
    PROVE  /\ UNCHANGED <<used, data, query, tile, hurried>>
           /\ call[c] \in Call /\ call'[c] \in Call
           /\ \A d \in Calls \ {c} : call'[d] = call[d]
           /\ call'[c].kind = call[c].kind /\ call'[c].id = call[c].id
           /\ call'[c].next = call[c].next /\ call'[c].tab = call[c].tab
<1>1. call[c] \in Call
  BY BusyCall DEF Begin, AddCommit, PatchCommit, DeleteCommit, Fails
<1>2. call'[c] \in Call /\ call \in [Calls -> Call \cup {Blank}]
  <2>1. call' \in [Calls -> Call \cup {Blank}] /\ call \in [Calls -> Call \cup {Blank}]
    BY ServerTypes DEF Types, TypeOK
  <2>2. call'[c].phase # "free"
    BY <1>1, <2>1 DEF Begin, AddCommit, PatchCommit, DeleteCommit, Fails, Ended, Call
  <2> QED BY <2>1, <2>2 DEF Blank
<1>3. UNCHANGED <<used, data, query, tile, hurried>>
  BY DEF Begin, AddCommit, PatchCommit, DeleteCommit, Fails, server, cache, history
<1> QED
  BY <1>1, <1>2, <1>3
     DEF Begin, AddCommit, PatchCommit, DeleteCommit, Fails, Ended, Call

LEMMA PhaseEffect ==
    ASSUME Types, NEW c \in Calls
    PROVE  /\ Begin(c) => /\ rows' = rows /\ call[c].phase = "sent"
                          /\ call[c].kind # "add" =>
                               /\ call'[c].phase = "refused" <=> rows[call[c].id] = NoRow
                               /\ call'[c].phase \in {"refused", "read"}
                               /\ call'[c].found = rows[call[c].id]
           /\ AddCommit(c) \/ PatchCommit(c) \/ DeleteCommit(c) =>
                /\ call[c].phase = "read" /\ call'[c].phase \in {"refused", "done"}
           /\ Fails(c) => rows' = rows /\ call'[c].phase = "refused"
<1>1. call \in [Calls -> Call \cup {Blank}]
  BY DEF Types, TypeOK
<1> QED
  BY <1>1, BusyCall
     DEF Begin, AddCommit, PatchCommit, DeleteCommit, Fails, Ended, Call, server

LEMMA IdNext ==
    ASSUME Types, IdInv, [Next]_vars
    PROVE  IdInv' /\ \A i \in Ids : Settled(i) => Settled(i)'
<1>0. rows \in [Ids -> Row \cup {NoRow}] /\ call \in [Calls -> Call \cup {Blank}]
  BY DEF Types, TypeOK
<1>1. ASSUME UNCHANGED <<call, used, rows>> PROVE IdInv' /\ \A i \in Ids : Settled(i) => Settled(i)'
  BY <1>1, IdKept DEF Pending, Listed
<1>2. ASSUME NEW t \in Tabs, Show(t) \/ Hide(t) \/ QueryRead(t) \/ QueryAnswered(t) \/ QueryFails(t)
      PROVE  UNCHANGED <<call, used, rows>>
  BY <1>2 DEF Show, Hide, QueryRead, QueryAnswered, QueryFails, server
<1>3. ASSUME NEW t \in Tabs, NEW c \in Calls, Toggle(c, t) \/ Remove(c, t)
      PROVE  IdInv' /\ \A i \in Ids : Settled(i) => Settled(i)'
  <2>1. UNCHANGED <<used, rows>> /\ \A d \in Calls : Pending(d)' => Pending(d) /\ call'[d] = call[d]
    BY <1>0, <1>3 DEF Toggle, Remove, Send, Pending, server
  <2> QED BY <2>1, IdKept DEF Listed
<1>4. ASSUME NEW t \in Tabs, NEW c \in Calls, Add(c, t)
      PROVE  IdInv' /\ \A i \in Ids : Settled(i) => Settled(i)'
  <2>1. PICK i \in Ids \ used : Send(c, t, "add", i, FALSE)
    BY <1>4 DEF Add
  <2>2. /\ call'[c].id = i /\ \A d \in Calls \ {c} : call'[d] = call[d]
        /\ ~Pending(c) /\ used' = used \cup {i} /\ rows' = rows
    BY <1>0, <1>4, <2>1 DEF Add, Send, InFlight, Blank, Pending
  <2>3. \A j \in used : Settled(j) => Settled(j)'
    BY <2>2 DEF Settled, Pending
  <2>4. IdInv'
    BY <2>2, <2>3 DEF IdInv, Settled, Pending, Listed
  <2> QED BY <2>3, <2>4 DEF Settled
<1>5. ASSUME NEW c \in Calls, Begin(c) \/ PatchCommit(c) \/ DeleteCommit(c) \/ Fails(c)
      PROVE  IdInv' /\ \A i \in Ids : Settled(i) => Settled(i)'
  <2>1. Listed' \subseteq Listed
    <3>1. CASE Begin(c) \/ Fails(c)
      BY <3>1 DEF Begin, Fails, server, Listed
    <3>2. CASE PatchCommit(c)
      BY <1>0, <3>2 DEF PatchCommit, Listed
    <3>3. CASE DeleteCommit(c)
      BY <1>0, <3>3 DEF DeleteCommit, Listed
    <3> QED BY <1>5, <3>1, <3>2, <3>3
  <2>2. call[c].phase \in {"sent", "read"}
    BY <1>5 DEF Begin, PatchCommit, DeleteCommit, Fails
  <2> QED BY <1>5, <2>1, <2>2, ServerEffect, IdKept DEF Pending
<1>6. ASSUME NEW c \in Calls, AddCommit(c)
      PROVE  IdInv' /\ \A i \in Ids : Settled(i) => Settled(i)'
  <2>1. Pending(c) /\ ~Pending(c)'
    BY <1>6, PhaseEffect DEF AddCommit, Pending
  <2>2. \A i \in Ids : Settled(i) => Settled(i)'
    BY <1>6, <2>1, ServerEffect DEF Settled, Pending
  <2>3. rows' = rows \/ rows' = [rows EXCEPT ![call[c].id] = New]
    BY <1>6 DEF AddCommit
  <2>4. Settled(call[c].id)'
    BY <1>6, <2>1, ServerEffect DEF Settled, Pending, IdInv
  <2>5. ASSUME NEW i \in Listed' PROVE Settled(i)'
    <3>1. call'[c].id = call[c].id /\ i \in Ids
      BY <1>6, <2>5, ServerEffect DEF Listed
    <3>2. CASE i = call[c].id
      BY <2>4, <3>1, <3>2
    <3>3. CASE i # call[c].id
      <4>1. i \in Listed
        BY <1>0, <2>3, <2>5, <3>1, <3>3 DEF Listed
      <4> QED BY <2>2, <3>1, <4>1 DEF IdInv
    <3> QED BY <3>2, <3>3
  <2>6. /\ \A d \in Calls : Pending(d)' => Pending(d) /\ call'[d].id = call[d].id
        /\ used' = used
    BY <1>6, <2>1, ServerEffect DEF Pending
  <2> QED BY <2>2, <2>5, <2>6 DEF IdInv
<1>7. ASSUME NEW c \in Calls, Answered(c) \/ Refused(c) \/ AnswerLost(c)
      PROVE  IdInv' /\ \A i \in Ids : Settled(i) => Settled(i)'
  <2>1. UNCHANGED <<used, rows>> /\ \A d \in Calls : Pending(d)' => Pending(d) /\ call'[d] = call[d]
    BY <1>0, <1>7 DEF Answered, Refused, AnswerLost, Failed, Pending, Blank, server
  <2> QED BY <2>1, IdKept DEF Listed
<1>8. CASE UNCHANGED vars
  BY <1>1, <1>8 DEF vars
<1> QED BY <1>1, <1>2, <1>3, <1>4, <1>5, <1>6, <1>7, <1>8 DEF Next, Handler

ShownInv(t) == RestInv(t) /\ AskInv(t) /\ OthersInv(t) /\ CacheInv(t)

LEMMA MountedShape ==
    ASSUME Types, NEW t \in Tabs, NEW d \in Told
    PROVE  /\ d \notin Item => Mounted(t, d) = NoRow
           /\ d \in Item /\ tile[t] # NoRow /\ tile[t].id = d.id => Mounted(t, d) = tile[t]
           /\ d \in Item /\ ~(tile[t] # NoRow /\ tile[t].id = d.id) =>
                /\ Mounted(t, d) # NoRow
                /\ Mounted(t, d).id = d.id
                /\ Mounted(t, d).watched = d.watched
                /\ Mounted(t, d).waits = NoCall
<1>1. CASE d \notin Item
  BY <1>1 DEF Told, Mounted
<1>2. CASE d \in Item
  <2> DEFINE fresh == [id |-> d.id, watched |-> d.watched, waits |-> NoCall]
  <2>1. d \notin {NoRow, Unknown}
    BY <1>2, MarkersAssumption
  <2>2. fresh \in Tile /\ fresh # NoRow
    BY <1>2, MarkersAssumption DEF Item, Tile
  <2> QED BY <1>2, <2>1, <2>2 DEF Mounted
<1> QED BY <1>1, <1>2

(* Pages: nothing that is stored or under way changes.                     *)
LEMMA PagesShow ==
    ASSUME Types, IdInv, NEW t \in Tabs, ShownInv(t), Show(t) \/ Hide(t), t \notin hurried'
    PROVE  ShownInv(t)'
<1> USE DEF ShownInv
<1>0. /\ UNCHANGED <<rows, used, call, data>> /\ Listed' = Listed
      /\ tile \in [Tabs -> {NoRow} \cup Tile] /\ query \in [Tabs -> Fetch]
      /\ data[t] \in Told
      /\ \A i : Settled(i)' = Settled(i)
  BY DEF Show, Hide, server, cache, Listed, Types, TypeOK, Told, Settled, Pending
<1>1. CASE Show(t)
  <2>1. /\ tile[t] = NoRow /\ tile'[t] = Mounted(t, data[t])
        /\ query'[t] = query[t] \/ query'[t].phase = "asked"
    BY <1>0, <1>1 DEF Show, Asked
  <2>2. OthersInv(t)'
    BY <1>0, <2>1 DEF OthersInv, Waits, Change
  <2>3. CASE data[t] \in Item
    <3>1. Current(data[t]) /\ data[t].id \in Listed
      BY <2>1, <2>3 DEF CacheInv, Overtaken, Waits, Current
    <3>2. /\ tile'[t] # NoRow /\ tile'[t].id = data[t].id
          /\ tile'[t].watched = data[t].watched /\ tile'[t].waits = NoCall
      BY <1>0, <2>1, <2>3, MountedShape
    <3>3. RestInv(t)'
      BY <1>0, <3>1, <3>2 DEF RestInv, Current, IdInv
    <3>4. AskInv(t)'
      BY <3>2, WatchlistAssumption DEF AskInv, Waits
    <3>5. CacheInv(t)'
      BY <1>0, <2>1, <2>3, <3>1 DEF CacheInv, Current, Overtaken, Waits
    <3> QED BY <2>2, <3>3, <3>4, <3>5
  <2>4. CASE data[t] \notin Item
    <3>1. tile'[t] = NoRow
      BY <1>0, <2>1, <2>4, MountedShape
    <3>2. CacheInv(t)'
      BY <1>0, <2>1, <2>4, <3>1 DEF CacheInv, Current, Overtaken, Waits
    <3> QED BY <2>2, <3>1, <3>2 DEF RestInv, AskInv, Waits
  <2> QED BY <2>3, <2>4
<1>2. CASE Hide(t)
  <2>1. /\ tile[t] # NoRow /\ tile[t].waits = NoCall /\ query[t].phase = "none"
        /\ tile'[t] = NoRow /\ query' = query
    BY <1>0, <1>2 DEF Hide, cache
  <2>2. \A c \in Calls : ~Waits(t, c)
    BY <2>1, WatchlistAssumption DEF Waits
  <2>3. OthersInv(t)'
    BY <1>0, <2>2 DEF OthersInv, Change
  <2>4. CacheInv(t)'
    BY <1>0, <2>1, <2>2 DEF CacheInv, Current, Overtaken
  <2> QED BY <2>1, <2>3, <2>4 DEF RestInv, AskInv, Waits
<1> QED BY <1>1, <1>2

LEMMA AnswerShape ==
    ASSUME Types
    PROVE  /\ Answer \notin Item => Listed = {}
           /\ Answer \in Item => Current(Answer)
<1>1. CASE Listed = {}
  BY <1>1, MarkersAssumption DEF Answer
<1>2. CASE Listed # {}
  <2> DEFINE i == CHOOSE i \in Listed : TRUE
  <2>1. i \in Listed /\ i \in Ids
    BY <1>2 DEF Listed
  <2>2. rows[i] \in Row
    BY <2>1 DEF Listed, Types, TypeOK
  <2>3. Answer = [id |-> i, watched |-> rows[i].watched]
    BY <1>2 DEF Answer
  <2>4. [id |-> i, watched |-> rows[i].watched] \in Item
    BY <2>1, <2>2 DEF Item, Row
  <2> QED BY <1>2, <2>1, <2>3, <2>4 DEF Current
<1> QED BY <1>1, <1>2

LEMMA QueryShow ==
    ASSUME Types, IdInv, OneListed, NEW t \in Tabs, ShownInv(t),
           QueryRead(t) \/ QueryAnswered(t) \/ QueryFails(t), t \notin hurried'
    PROVE  ShownInv(t)'
<1> USE DEF ShownInv
<1>0. /\ UNCHANGED <<rows, used, call>> /\ Listed' = Listed
      /\ tile \in [Tabs -> {NoRow} \cup Tile] /\ query \in [Tabs -> Fetch]
      /\ data \in [Tabs -> Told]
      /\ \A i : Settled(i)' = Settled(i)
  BY DEF QueryRead, QueryAnswered, QueryFails, server, Listed, Types, TypeOK, Told,
         Settled, Pending
<1>1. CASE QueryRead(t)
  <2>1. /\ UNCHANGED <<tile, data>> /\ query[t].phase = "asked"
        /\ query'[t].phase = "read" /\ query'[t].got = Answer
    BY <1>0, <1>1 DEF QueryRead
  <2>2. OthersInv(t)' /\ AskInv(t)'
    BY <1>0, <2>1 DEF OthersInv, AskInv, Waits, Change
  <2>3. RestInv(t)'
    <3>1. Answer \in Item /\ tile[t].id \notin Listed => Answer.id # tile[t].id
      BY AnswerShape DEF Current
    <3> QED BY <1>0, <2>1, <3>1 DEF RestInv, Waits
  <2>4. CacheInv(t)'
    <3>1. Answer \notin Item /\ tile[t] = NoRow => data[t] \notin Item
      BY AnswerShape DEF CacheInv, Current, Overtaken, Waits
    <3>2. Answer \notin Item => tile[t].id \notin Listed
      BY AnswerShape
    <3> QED BY <1>0, <2>1, <3>1, <3>2, AnswerShape DEF CacheInv, Current, Overtaken, Waits
  <2> QED BY <2>2, <2>3, <2>4
<1>2. CASE QueryAnswered(t)
  <2> DEFINE got == query[t].got
  <2>1. /\ query[t].phase = "read" /\ query'[t].phase = "none" /\ data'[t] = got
        /\ tile'[t] = (IF tile[t] = NoRow THEN NoRow ELSE Mounted(t, got))
    BY <1>0, <1>2 DEF QueryAnswered
  <2>2. got \in Told
    BY <1>0, <2>1, FetchType
  <2>3. CASE tile[t] = NoRow
    <3>1. tile'[t] = NoRow
      BY <2>1, <2>3
    <3>2. got \in Item => Current(got)
      BY <2>1, <2>3 DEF CacheInv, Overtaken, Waits
    <3>3. CacheInv(t)'
      BY <1>0, <2>1, <3>2 DEF CacheInv, Current
    <3>4. OthersInv(t)'
      BY <1>0, <2>3, <3>1 DEF OthersInv, Waits, Change
    <3> QED BY <3>1, <3>3, <3>4 DEF RestInv, AskInv, Waits
  <2>4. CASE tile[t] # NoRow /\ got \in Item /\ tile[t].id = got.id
    <3>1. tile'[t] = tile[t]
      BY <2>1, <2>2, <2>4, MountedShape
    <3>2. OthersInv(t)' /\ AskInv(t)'
      BY <1>0, <3>1 DEF OthersInv, AskInv, Waits, Change
    <3>3. RestInv(t)'
      BY <1>0, <2>1, <2>4, <3>1 DEF RestInv, Waits
    <3>4. CacheInv(t)'
      BY <1>0, <2>1, <2>4, <3>1 DEF CacheInv, Current, Overtaken, Waits
    <3> QED BY <3>2, <3>3, <3>4
  <2>5. CASE tile[t] # NoRow /\ ~(got \in Item /\ tile[t].id = got.id)
    <3>1. tile[t].id \notin Listed
      BY <2>1, <2>5 DEF CacheInv, Overtaken, Current, OneListed
    <3>2. got \in Item => Current(got)
      BY <2>1, <2>5 DEF CacheInv, Overtaken
    <3>3. \A c \in Calls : ~Waits(t, c)'
      BY <2>1, <2>2, <2>5, MountedShape, WatchlistAssumption DEF Waits
    <3>4. OthersInv(t)'
      <4>1. \A c \in Calls : Waits(t, c) =>
                call[c].phase # "read" /\ call[c].id = tile[t].id /\ Settled(tile[t].id)
        BY <2>5, <3>1 DEF AskInv, RestInv
      <4> QED BY <1>0, <3>1, <4>1 DEF OthersInv, Change
    <3>5. RestInv(t)'
      <4>1. tile'[t] # NoRow =>
              /\ tile'[t].id \in Listed /\ Settled(tile'[t].id)
              /\ rows[tile'[t].id].watched = tile'[t].watched
        BY <2>1, <2>2, <2>5, <3>2, MountedShape DEF Current, IdInv
      <4> QED BY <1>0, <4>1 DEF RestInv
    <3>6. CacheInv(t)'
      BY <1>0, <2>1, <3>2 DEF CacheInv, Current
    <3> QED BY <3>3, <3>4, <3>5, <3>6 DEF AskInv
  <2> QED BY <2>3, <2>4, <2>5
<1>3. CASE QueryFails(t)
  BY <1>3 DEF QueryFails
<1> QED BY <1>1, <1>2, <1>3

(* The buttons.                                                            *)
LEMMA ButtonShow ==
    ASSUME Types, IdInv, IdInv', NEW t \in Tabs, ShownInv(t), NEW c \in Calls,
           Toggle(c, t) \/ Remove(c, t) \/ Add(c, t),
           \A i \in Ids : Settled(i) => Settled(i)'
    PROVE  ShownInv(t)'
<1> USE DEF ShownInv
<1>0. /\ UNCHANGED <<rows, data, query>> /\ Listed' = Listed
      /\ tile \in [Tabs -> {NoRow} \cup Tile] /\ call \in [Calls -> Call \cup {Blank}]
      /\ call[c] = Blank /\ \A d \in Calls \ {c} : call'[d] = call[d]
      /\ call'[c].phase = "sent"
  BY DEF Toggle, Remove, Add, Send, InFlight, server, cache, Listed, Types, TypeOK
<1>1. CASE Add(c, t)
  <2>1. tile' = tile /\ tile[t] = NoRow /\ call'[c].kind = "add"
    BY <1>0, <1>1 DEF Add, Send
  <2>2. OthersInv(t)'
    <3> SUFFICES ASSUME NEW d \in Calls, Change(d)'
                 PROVE  (call[d].phase # "read" /\ Settled(call[d].id) /\ call[d].id \notin Listed)'
      BY DEF OthersInv
    <3>1. d # c /\ call'[d] = call[d] /\ Change(d)
      BY <1>0, <2>1 DEF Change
    <3>2. call[d].id \in Ids
      BY <1>0, <3>1 DEF Change, Blank, Call
    <3>3. call[d].phase # "read" /\ Settled(call[d].id) /\ call[d].id \notin Listed
      BY <2>1, <3>1 DEF OthersInv, Waits
    <3> QED BY <1>0, <3>1, <3>2, <3>3
  <2>3. CacheInv(t)'
    BY <1>0, <2>1 DEF CacheInv, Current, Overtaken, Waits
  <2> QED BY <2>1, <2>2, <2>3 DEF RestInv, AskInv, Waits
<1>2. CASE Toggle(c, t) \/ Remove(c, t)
  <2>1. /\ tile[t] \in Tile /\ tile[t] # NoRow /\ tile[t].waits = NoCall
        /\ tile'[t] \in Tile /\ tile'[t] # NoRow
        /\ tile'[t].id = tile[t].id /\ tile'[t].waits = c
        /\ call'[c].id = tile[t].id
        /\ \/ call'[c].kind = "patch" /\ call'[c].next = tile'[t].watched
                                      /\ tile'[t].watched = ~tile[t].watched
           \/ call'[c].kind = "delete" /\ tile'[t].watched = tile[t].watched
    <3>1. tile[t] \in Tile /\ tile[t] # NoRow /\ tile[t].waits = NoCall
      BY <1>0, <1>2 DEF Toggle, Remove
    <3>2. CASE Toggle(c, t)
      <4>1. tile'[t] = [tile[t] EXCEPT !.watched = ~tile[t].watched, !.waits = c]
        BY <1>0, <3>2 DEF Toggle
      <4>2. call' = [call EXCEPT ![c] = [phase |-> "sent", kind |-> "patch", tab |-> t,
                        id |-> tile[t].id, next |-> ~tile[t].watched, found |-> NoRow]]
        BY <3>2 DEF Toggle, Send
      <4>3. [tile[t] EXCEPT !.watched = ~tile[t].watched, !.waits = c] \in Tile
        BY <3>1 DEF Tile
      <4> QED BY <1>0, <3>1, <4>1, <4>2, <4>3, MarkersAssumption DEF Tile
    <3>3. CASE Remove(c, t)
      <4>1. tile'[t] = [tile[t] EXCEPT !.waits = c]
        BY <1>0, <3>3 DEF Remove
      <4>2. call' = [call EXCEPT ![c] = [phase |-> "sent", kind |-> "delete", tab |-> t,
                        id |-> tile[t].id, next |-> FALSE, found |-> NoRow]]
        BY <3>3 DEF Remove, Send
      <4>3. [tile[t] EXCEPT !.waits = c] \in Tile
        BY <3>1 DEF Tile
      <4> QED BY <1>0, <3>1, <4>1, <4>2, <4>3, MarkersAssumption DEF Tile
    <3> QED BY <1>2, <3>2, <3>3
  <2>2. \A d \in Calls : ~Waits(t, d) /\ (Waits(t, d)' <=> d = c)
    BY <2>1, WatchlistAssumption DEF Waits
  <2>3. tile[t].id \in Ids /\ tile[t].watched \in BOOLEAN /\ c # NoCall
    BY <2>1, WatchlistAssumption DEF Tile
  <2>4. RestInv(t)'
    BY <1>0, <2>1, <2>2, <2>3 DEF RestInv
  <2>5. AskInv(t)'
    <3>1. tile[t].id \in Listed => rows[tile[t].id].watched = tile[t].watched
      BY <2>1 DEF RestInv
    <3>2. Change(c)'
      BY <2>1 DEF Change
    <3> QED BY <1>0, <2>1, <2>2, <2>3, <3>1, <3>2 DEF AskInv
  <2>6. OthersInv(t)'
    <3> SUFFICES ASSUME NEW d \in Calls, Change(d)', d # c
                 PROVE  (call[d].phase # "read" /\ Settled(call[d].id) /\ call[d].id \notin Listed)'
      BY <2>2 DEF OthersInv
    <3>1. call'[d] = call[d] /\ Change(d)
      BY <1>0 DEF Change
    <3>2. call[d].id \in Ids
      BY <1>0, <3>1 DEF Change, Blank, Call
    <3>3. call[d].phase # "read" /\ Settled(call[d].id) /\ call[d].id \notin Listed
      BY <2>2, <3>1 DEF OthersInv
    <3> QED BY <1>0, <3>1, <3>2, <3>3
  <2>7. CacheInv(t)'
    BY <1>0, <2>1, <2>2 DEF CacheInv, Current, Overtaken
  <2> QED BY <2>4, <2>5, <2>6, <2>7
<1> QED BY <1>1, <1>2

(* The service.  A step of an addition changes nothing a tab has heard of. *)
LEMMA AddShow ==
    ASSUME Types, IdInv, NEW t \in Tabs, ShownInv(t), NEW c \in Calls,
           call[c].kind = "add",
           Begin(c) \/ AddCommit(c) \/ PatchCommit(c) \/ DeleteCommit(c) \/ Fails(c),
           \A i \in Ids : Settled(i) => Settled(i)'
    PROVE  ShownInv(t)'
<1> USE DEF ShownInv
<1>0. /\ UNCHANGED <<data, query, tile>>
      /\ tile \in [Tabs -> {NoRow} \cup Tile] /\ call \in [Calls -> Call \cup {Blank}]
      /\ rows \in [Ids -> Row \cup {NoRow}]
      /\ call'[c].kind = "add" /\ \A d \in Calls \ {c} : call'[d] = call[d]
  BY ServerEffect DEF Types, TypeOK
<1>1. \A i \in Ids : Settled(i) => rows'[i] = rows[i]
  <2>1. CASE rows' = rows
    BY <2>1
  <2>2. CASE rows' # rows
    <3>1. AddCommit(c) /\ rows' = [rows EXCEPT ![call[c].id] = New]
      BY <2>2, PhaseEffect DEF AddCommit, PatchCommit, DeleteCommit
    <3>2. Pending(c)
      BY <3>1, PhaseEffect DEF Pending
    <3> QED BY <1>0, <3>1, <3>2 DEF Settled
  <2> QED BY <2>1, <2>2
<1>2. \A i \in Listed : rows'[i] = rows[i] /\ i \in Listed'
  BY <1>1 DEF IdInv, Listed
<1>3. \A i \in Ids : Settled(i) => (i \in Listed' <=> i \in Listed)
  BY <1>1 DEF Listed
<1>4. ~Waits(t, c)
  BY DEF AskInv, Change
<1>5. \A d \in Calls : /\ Waits(t, d)' = Waits(t, d)
                       /\ Change(d) => call[d].id \in Ids
                       /\ Waits(t, d) => call'[d] = call[d]
                       /\ Change(d)' => Change(d) /\ call'[d] = call[d]
  BY <1>0, <1>4 DEF Waits, Change, Blank, Call
<1>6. tile[t] # NoRow => tile[t].id \in Ids /\ Settled(tile[t].id)
  BY <1>0 DEF RestInv, Tile
<1>7. RestInv(t)'
  BY <1>0, <1>1, <1>3, <1>5, <1>6 DEF RestInv
<1>8. AskInv(t)'
  <2> SUFFICES ASSUME NEW d \in Calls, Waits(t, d)
               PROVE  (/\ Change(d) /\ call[d].id = tile[t].id
                       /\ call[d].kind = "patch" => call[d].next = tile[t].watched
                       /\ call[d].phase = "read" =>
                            tile[t].id \in Listed /\ call[d].found = rows[tile[t].id]
                       /\ tile[t].id \in Listed /\ call[d].phase # "done" =>
                            rows[tile[t].id].watched =
                              (IF call[d].kind = "patch" THEN ~tile[t].watched ELSE tile[t].watched)
                       /\ tile[t].id \in Listed /\ call[d].phase = "done" =>
                            rows[tile[t].id].watched = tile[t].watched)'
    BY <1>5 DEF AskInv
  <2>1. tile'[t] = tile[t] /\ call'[d] = call[d] /\ rows'[tile[t].id] = rows[tile[t].id]
    BY <1>0, <1>1, <1>5, <1>6 DEF Waits
  <2>2. tile[t].id \in Listed' <=> tile[t].id \in Listed
    BY <1>3, <1>6 DEF Waits
  <2> QED BY <2>1, <2>2 DEF AskInv, Change
<1>9. OthersInv(t)'
  BY <1>0, <1>3, <1>5 DEF OthersInv
<1>10. CacheInv(t)'
  <2>1. \A d : Current(d) => Current(d)'
    BY <1>2 DEF Current
  <2>2. \A d : Overtaken(t, d) => Overtaken(t, d)'
    BY <1>0, <1>5 DEF Overtaken
  <2> QED BY <1>0, <1>3, <1>6, <2>1, <2>2 DEF CacheInv
<1> QED BY <1>7, <1>8, <1>9, <1>10

(* A request that no tile waits for can only be refused.                   *)
LEMMA OtherShow ==
    ASSUME Types, IdInv, NEW t \in Tabs, ShownInv(t), NEW c \in Calls,
           Change(c), ~Waits(t, c),
           Begin(c) \/ AddCommit(c) \/ PatchCommit(c) \/ DeleteCommit(c) \/ Fails(c),
           \A i \in Ids : Settled(i) => Settled(i)'
    PROVE  ShownInv(t)'
<1> USE DEF ShownInv
<1>0. /\ UNCHANGED <<data, query, tile>>
      /\ tile \in [Tabs -> {NoRow} \cup Tile] /\ call \in [Calls -> Call \cup {Blank}]
      /\ call'[c].kind = call[c].kind /\ call'[c].id = call[c].id
      /\ \A d \in Calls \ {c} : call'[d] = call[d]
  BY ServerEffect DEF Types, TypeOK
<1>1. /\ call[c].phase # "read" /\ Settled(call[c].id) /\ call[c].id \notin Listed
      /\ call[c].id \in Ids
  BY <1>0 DEF OthersInv, Change, Blank, Call
<1>2. rows' = rows /\ Listed' = Listed /\ call'[c].phase = "refused"
  <2>1. Begin(c) \/ Fails(c)
    BY <1>1 DEF AddCommit, PatchCommit, DeleteCommit
  <2> QED BY <1>1, <2>1, PhaseEffect DEF Change, Listed
<1>3. \A d \in Calls : /\ Waits(t, d)' = Waits(t, d)
                       /\ Waits(t, d) => d # c /\ call'[d] = call[d]
                       /\ Change(d)' = Change(d)
                       /\ Change(d) => call[d].id \in Ids
  BY <1>0 DEF Waits, Change, Blank, Call
<1>4. RestInv(t)'
  <2>1. tile[t] # NoRow => tile[t].id \in Ids
    BY <1>0 DEF Tile
  <2> QED BY <1>0, <1>2, <1>3, <2>1 DEF RestInv
<1>5. AskInv(t)'
  BY <1>0, <1>2, <1>3 DEF AskInv
<1>6. OthersInv(t)'
  <2> SUFFICES ASSUME NEW d \in Calls, Change(d)', ~Waits(t, d)'
               PROVE  (call[d].phase # "read" /\ Settled(call[d].id) /\ call[d].id \notin Listed)'
    BY DEF OthersInv
  <2>1. CASE d = c
    BY <1>0, <1>1, <1>2, <2>1
  <2>2. CASE d # c
    <3>1. call[d].phase # "read" /\ Settled(call[d].id) /\ call[d].id \notin Listed
          /\ call[d].id \in Ids
      BY <1>3 DEF OthersInv
    <3> QED BY <1>0, <1>2, <2>2, <3>1
  <2> QED BY <2>1, <2>2
<1>7. CacheInv(t)'
  BY <1>0, <1>2, <1>3 DEF CacheInv, Current, Overtaken
<1> QED BY <1>4, <1>5, <1>6, <1>7

(* What the request a tile waits for does to the row of the tile.          *)
LEMMA WaitedEffect ==
    ASSUME Types, NEW t \in Tabs, AskInv(t), NEW c \in Calls, Waits(t, c),
           Begin(c) \/ AddCommit(c) \/ PatchCommit(c) \/ DeleteCommit(c) \/ Fails(c)
    PROVE  /\ call[c].phase # "done" /\ tile[t].id \in Ids
           /\ \/ rows' = rows /\ call'[c].phase = "refused"
              \/ /\ rows' = rows /\ call'[c].phase = "read"
                 /\ tile[t].id \in Listed /\ call'[c].found = rows[tile[t].id]
              \/ /\ call'[c].phase = "done" /\ tile[t].id \in Listed
                 /\ \A i \in Ids \ {tile[t].id} : rows'[i] = rows[i]
                 /\ tile[t].id \in Listed' => rows'[tile[t].id].watched = tile[t].watched
<1>0. /\ Change(c) /\ call[c].id = tile[t].id
      /\ tile \in [Tabs -> {NoRow} \cup Tile] /\ rows \in [Ids -> Row \cup {NoRow}]
  BY DEF AskInv, Types, TypeOK
<1>1. tile[t].id \in Ids /\ tile[t].watched \in BOOLEAN
  BY <1>0 DEF Waits, Tile
<1>2. call[c].phase # "done"
  BY DEF Begin, AddCommit, PatchCommit, DeleteCommit, Fails
<1>3. CASE Begin(c)
  BY <1>0, <1>1, <1>2, <1>3, PhaseEffect DEF Change, Listed
<1>4. CASE Fails(c)
  BY <1>1, <1>2, <1>4, PhaseEffect
<1>5. CASE PatchCommit(c)
  <2>1. /\ call[c].kind = "patch" /\ call[c].next = tile[t].watched
        /\ tile[t].id \in Listed /\ call[c].found = rows[tile[t].id]
        /\ rows[tile[t].id].watched = ~tile[t].watched
        /\ rows[tile[t].id] \in Row /\ rows[tile[t].id] # NoRow
    BY <1>0, <1>5 DEF PatchCommit, AskInv, Listed
  <2>2. /\ rows' = [rows EXCEPT ![tile[t].id] =
                        Updated(rows[tile[t].id], rows[tile[t].id], tile[t].watched)]
        /\ Ended(c, "done")
    BY <1>0, <1>1, <1>5, <2>1 DEF PatchCommit
  <2>3. Updated(rows[tile[t].id], rows[tile[t].id], tile[t].watched).watched = tile[t].watched
    BY <1>1, <2>1 DEF Updated
  <2>4. call'[c].phase = "done"
    BY <1>5, <2>2 DEF Ended, Types, TypeOK
  <2> QED BY <1>0, <1>1, <1>2, <2>1, <2>2, <2>3, <2>4
<1>6. CASE DeleteCommit(c)
  <2>1. tile[t].id \in Listed
    BY <1>6 DEF DeleteCommit, AskInv
  <2>2. rows' = [rows EXCEPT ![tile[t].id] = NoRow] /\ Ended(c, "done")
    BY <1>0, <1>6 DEF DeleteCommit
  <2>3. call'[c].phase = "done"
    BY <1>6, <2>2 DEF Ended, Types, TypeOK
  <2>4. tile[t].id \notin Listed'
    BY <1>0, <1>1, <2>2 DEF Listed
  <2> QED BY <1>0, <1>1, <1>2, <2>1, <2>2, <2>3, <2>4
<1>7. CASE AddCommit(c)
  BY <1>0, <1>7 DEF AddCommit, Change
<1> QED BY <1>3, <1>4, <1>5, <1>6, <1>7

LEMMA WaitedShow ==
    ASSUME Types, IdInv, NEW t \in Tabs, ShownInv(t), NEW c \in Calls, Waits(t, c),
           Begin(c) \/ AddCommit(c) \/ PatchCommit(c) \/ DeleteCommit(c) \/ Fails(c),
           \A i \in Ids : Settled(i) => Settled(i)'
    PROVE  ShownInv(t)'
<1> USE DEF ShownInv
<1> DEFINE i == tile[t].id
           Unchanged == /\ rows' = rows
                        /\ \/ call'[c].phase = "refused"
                           \/ /\ call'[c].phase = "read"
                              /\ i \in Listed /\ call'[c].found = rows[i]
           Changed == /\ call'[c].phase = "done" /\ i \in Listed
                      /\ \A j \in Ids \ {i} : rows'[j] = rows[j]
                      /\ i \in Listed' => rows'[i].watched = tile[t].watched
<1>0. /\ UNCHANGED <<data, query, tile>>
      /\ call \in [Calls -> Call \cup {Blank}]
      /\ call'[c].kind = call[c].kind /\ call'[c].id = call[c].id /\ call'[c].next = call[c].next
      /\ \A d \in Calls \ {c} : call'[d] = call[d]
  BY ServerEffect DEF Types, TypeOK
<1>1. /\ tile[t] # NoRow /\ tile[t].waits = c /\ c # NoCall /\ i \in Ids
      /\ Change(c) /\ call[c].id = i /\ Settled(i) /\ call[c].phase # "done"
      /\ tile'[t] = tile[t]
  BY <1>0, WatchlistAssumption, WaitedEffect DEF Waits, AskInv, RestInv
<1>2. \A d \in Calls : (Waits(t, d) <=> d = c) /\ (Waits(t, d)' <=> d = c)
  BY <1>0, <1>1 DEF Waits
<1>3. \A d : ~Overtaken(t, d)
  BY <1>1, <1>2 DEF Overtaken
<1>4. CASE Unchanged
  <2>0. Listed' = Listed
    BY <1>4 DEF Listed
  <2>1. RestInv(t)'
    BY <1>0, <1>1, <1>2, <1>4, <2>0 DEF RestInv
  <2>2. AskInv(t)'
    BY <1>0, <1>1, <1>2, <1>4, <2>0 DEF AskInv, Change
  <2>3. CacheInv(t)'
    BY <1>0, <1>1, <1>3, <1>4, <2>0 DEF CacheInv, Current
  <2>4. OthersInv(t)'
    <3> SUFFICES ASSUME NEW d \in Calls, Change(d)', d # c
                 PROVE  (call[d].phase # "read" /\ Settled(call[d].id) /\ call[d].id \notin Listed)'
      BY <1>2 DEF OthersInv
    <3>1. call'[d] = call[d] /\ Change(d) /\ call[d].id \in Ids
      BY <1>0 DEF Change, Blank, Call
    <3>2. call[d].phase # "read" /\ Settled(call[d].id) /\ call[d].id \notin Listed
      BY <1>2, <3>1 DEF OthersInv
    <3> QED BY <2>0, <3>1, <3>2
  <2> QED BY <2>1, <2>2, <2>3, <2>4
<1>5. CASE Changed
  <2>0. \A d : d.id = i => Overtaken(t, d)'
    BY <1>1, <1>2, <1>5 DEF Overtaken
  <2>1. RestInv(t)'
    BY <1>0, <1>1, <1>2, <1>5 DEF RestInv
  <2>2. AskInv(t)'
    BY <1>0, <1>1, <1>2, <1>5 DEF AskInv, Change
  <2>3. \A d : Current(d) => Current(d)' \/ Overtaken(t, d)'
    <3> SUFFICES ASSUME NEW d, Current(d), d.id # i PROVE Current(d)'
      BY <2>0
    <3> QED BY <1>5 DEF Current, Listed
  <2>4. CacheInv(t)'
    BY <1>0, <1>1, <1>3, <1>5, <2>3 DEF CacheInv
  <2>5. OthersInv(t)'
    <3> SUFFICES ASSUME NEW d \in Calls, Change(d)', d # c
                 PROVE  (call[d].phase # "read" /\ Settled(call[d].id) /\ call[d].id \notin Listed)'
      BY <1>2 DEF OthersInv
    <3>1. call'[d] = call[d] /\ Change(d) /\ call[d].id \in Ids
      BY <1>0 DEF Change, Blank, Call
    <3>2. call[d].phase # "read" /\ Settled(call[d].id) /\ call[d].id \notin Listed
      BY <1>2, <3>1 DEF OthersInv
    <3>3. call[d].id \notin Listed'
      BY <1>5, <3>1, <3>2 DEF Listed
    <3> QED BY <3>1, <3>2, <3>3
  <2> QED BY <2>1, <2>2, <2>4, <2>5
<1>6. Unchanged \/ Changed
  <2>1. AskInv(t)
    OBVIOUS
  <2>2. \/ rows' = rows /\ call'[c].phase = "refused"
        \/ /\ rows' = rows /\ call'[c].phase = "read"
           /\ tile[t].id \in Listed /\ call'[c].found = rows[tile[t].id]
        \/ /\ call'[c].phase = "done" /\ tile[t].id \in Listed
           /\ \A j \in Ids \ {tile[t].id} : rows'[j] = rows[j]
           /\ tile[t].id \in Listed' => rows'[tile[t].id].watched = tile[t].watched
    BY <2>1, WaitedEffect
  <2> QED BY <2>2
<1> HIDE DEF Unchanged, Changed
<1> QED BY <1>4, <1>5, <1>6

(* The answers, in a tab that is alone: a tile that waited is at rest now, *)
(* and has been told so, or the list is asked for again.                   *)
LEMMA AnsweredShow ==
    ASSUME Types, IdInv, NEW t \in Tabs, Tabs = {t}, ShownInv(t), NEW c \in Calls,
           Answered(c) \/ Refused(c) \/ AnswerLost(c), t \notin hurried',
           \A i \in Ids : Settled(i) => Settled(i)'
    PROVE  ShownInv(t)'
<1> USE DEF ShownInv
<1>0. /\ tile \in [Tabs -> {NoRow} \cup Tile] /\ call \in [Calls -> Call \cup {Blank}]
      /\ query \in [Tabs -> Fetch] /\ call[c] \in Call /\ call[c].tab = t
  <2>1. call[c] \in Call
    BY BusyCall DEF Answered, Refused, AnswerLost
  <2> QED BY <2>1 DEF Types, TypeOK, Call
<1>1. ~AnswerLost(c)
  BY <1>0 DEF AnswerLost
<1>2. /\ UNCHANGED <<rows, data>> /\ Listed' = Listed
      /\ call'[c] = Blank /\ \A d \in Calls \ {c} : call'[d] = call[d]
      /\ query'[t] = query[t] \/ query'[t].phase = "asked"
  BY <1>0, <1>1 DEF Answered, Refused, Failed, server, cache, Listed, Asked
<1>3. \A d \in Calls : /\ Change(d)' => d # c /\ Change(d) /\ call'[d] = call[d]
                       /\ Change(d) => call[d].id \in Ids
  BY <1>0, <1>2 DEF Change, Blank, Call
<1>4. CASE ~Waits(t, c)
  <2>1. tile' = tile
    BY <1>0, <1>1, <1>4 DEF Answered, Refused, Failed, Waiting, Waits
  <2>2. \A d \in Calls : (Waits(t, d)' <=> Waits(t, d)) /\ (Waits(t, d) => call'[d] = call[d])
    BY <1>2, <1>4, <2>1 DEF Waits
  <2>3. tile[t] # NoRow => tile[t].id \in Ids
    BY <1>0 DEF Tile
  <2>4. RestInv(t)'
    BY <1>2, <2>1, <2>2, <2>3 DEF RestInv
  <2>5. AskInv(t)'
    BY <1>2, <2>1, <2>2 DEF AskInv, Change
  <2>6. OthersInv(t)'
    BY <1>2, <1>3, <2>2 DEF OthersInv
  <2>7. CacheInv(t)'
    BY <1>2, <2>1, <2>2 DEF CacheInv, Current, Overtaken
  <2> QED BY <2>4, <2>5, <2>6, <2>7
<1>5. CASE Waits(t, c)
  <2>1. /\ tile[t] # NoRow /\ tile[t].waits = c /\ tile[t] \in Tile /\ c # NoCall
        /\ tile[t].id \in Ids /\ Waiting(c)
        /\ Change(c) /\ call[c].id = tile[t].id
    BY <1>0, <1>5, WatchlistAssumption DEF Waits, AskInv, Tile, Waiting
  <2>2. \A d \in Calls : Waits(t, d) <=> d = c
    BY <2>1 DEF Waits
  <2>3. /\ tile'[t] # NoRow /\ tile'[t].id = tile[t].id /\ tile'[t].waits = NoCall
        /\ Refused(c) => tile'[t].watched =
                           (IF call[c].kind = "patch" THEN ~call[c].next ELSE tile[t].watched)
        /\ Answered(c) => tile'[t].watched = tile[t].watched /\ query'[t].phase = "asked"
    <3>1. CASE Refused(c)
      <4>1. tile'[t] = Reverted(c)
        BY <1>0, <2>1, <3>1 DEF Refused, Failed
      <4>2. Reverted(c) \in Tile
        BY <1>0, <2>1 DEF Reverted, Tile, Call
      <4>3. ~Answered(c)
        BY <3>1 DEF Refused, Answered
      <4> QED BY <1>0, <2>1, <4>1, <4>2, <4>3, MarkersAssumption DEF Reverted, Tile
    <3>2. CASE Answered(c)
      <4>1. tile'[t] = [tile[t] EXCEPT !.waits = NoCall]
        BY <1>0, <2>1, <3>2 DEF Answered
      <4>2. [tile[t] EXCEPT !.waits = NoCall] \in Tile
        BY <2>1 DEF Tile
      <4>3. query' = [query EXCEPT ![t] = Asked]
        BY <1>0, <2>1, <3>2 DEF Answered, Change
      <4>4. ~Refused(c)
        BY <3>2 DEF Refused, Answered
      <4> QED BY <1>0, <2>1, <4>1, <4>2, <4>3, <4>4, MarkersAssumption DEF Asked, Tile
    <3> QED BY <1>1, <3>1, <3>2
  <2>4. \A d \in Calls : ~Waits(t, d)'
    BY <2>1, <2>3, WatchlistAssumption DEF Waits
  <2>5. OthersInv(t)'
    BY <1>2, <1>3, <2>2 DEF OthersInv
  <2>6. RestInv(t)'
    <3>1. Settled(tile[t].id)'
      <4>1. Settled(tile[t].id)
        BY <2>1 DEF RestInv
      <4> QED BY <2>1, <2>3, <4>1 DEF Settled
    <3>2. tile[t].id \in Listed => rows[tile[t].id].watched = tile'[t].watched
      <4>1. CASE Refused(c)
        BY <1>5, <2>3, <4>1 DEF AskInv, Refused
      <4>2. CASE Answered(c)
        BY <1>5, <2>3, <4>2 DEF AskInv, Answered
      <4> QED BY <1>1, <4>1, <4>2
    <3>3. tile[t].id \notin Listed =>
            \/ query'[t].phase = "asked"
            \/ query'[t].phase = "read" /\ (query'[t].got \in Item => query'[t].got.id # tile[t].id)
      BY <1>1, <1>2, <2>1, <2>2, <2>3 DEF RestInv, Refused
    <3> QED BY <1>2, <2>3, <3>1, <3>2, <3>3 DEF RestInv
  <2>7. CacheInv(t)'
    <3>1. CASE Answered(c)
      BY <1>2, <2>3, <3>1 DEF CacheInv
    <3>2. CASE Refused(c)
      <4>1. \A d : ~Overtaken(t, d)
        BY <2>2, <3>2 DEF Overtaken, Refused
      <4> QED BY <1>2, <2>1, <2>3, <4>1 DEF CacheInv, Current
    <3> QED BY <1>1, <3>1, <3>2
  <2> QED BY <2>4, <2>5, <2>6, <2>7 DEF AskInv
<1> QED BY <1>4, <1>5

LEMMA ShowsNext ==
    ASSUME Types, OneListed, IdInv, NEW t \in Tabs, Tabs = {t}, ShowsInv(t), [Next]_vars
    PROVE  ShowsInv(t)'
<1> SUFFICES ASSUME t \notin hurried' PROVE ShownInv(t)'
  BY DEF ShowsInv, ShownInv
<1>1. hurried \subseteq hurried'
  BY DEF Next, Handler, vars, Show, Hide, QueryRead, QueryAnswered, QueryFails, Toggle, Remove,
         Add, Begin, AddCommit, PatchCommit, DeleteCommit, Fails, Answered, Refused,
         AnswerLost, history
<1>2. ShownInv(t)
  BY <1>1 DEF ShowsInv, ShownInv
<1>3. IdInv' /\ \A i \in Ids : Settled(i) => Settled(i)'
  BY IdNext
<1>4. CASE Show(t) \/ Hide(t)
  BY <1>2, <1>4, PagesShow
<1>5. CASE QueryRead(t) \/ QueryAnswered(t) \/ QueryFails(t)
  BY <1>2, <1>5, QueryShow
<1>6. ASSUME NEW c \in Calls, Toggle(c, t) \/ Remove(c, t) \/ Add(c, t)
      PROVE  ShownInv(t)'
  BY <1>2, <1>3, <1>6, ButtonShow
<1>7. ASSUME NEW c \in Calls,
             Begin(c) \/ AddCommit(c) \/ PatchCommit(c) \/ DeleteCommit(c) \/ Fails(c)
      PROVE  ShownInv(t)'
  <2>1. CASE Waits(t, c)
    BY <1>2, <1>3, <1>7, <2>1, WaitedShow
  <2>2. CASE Change(c) /\ ~Waits(t, c)
    BY <1>2, <1>3, <1>7, <2>2, OtherShow
  <2>3. call[c].kind = "add" \/ Change(c)
    BY <1>7, ServerEffect DEF Change, Call
  <2>4. CASE call[c].kind = "add"
    BY <1>2, <1>3, <1>7, <2>4, AddShow
  <2> QED BY <2>1, <2>2, <2>3, <2>4
<1>8. ASSUME NEW c \in Calls, Answered(c) \/ Refused(c) \/ AnswerLost(c)
      PROVE  ShownInv(t)'
  BY <1>2, <1>3, <1>8, AnsweredShow
<1>9. CASE UNCHANGED vars
  <2>1. ShownInv(t)' <=> ShownInv(t)
    BY <1>9 DEF ShownInv, RestInv, AskInv, OthersInv, CacheInv, Settled, Pending, Listed, Waits,
                Change, Current, Overtaken, vars
  <2> QED BY <1>2, <2>1
<1> QED BY <1>4, <1>5, <1>6, <1>7, <1>8, <1>9 DEF Next, Handler

(* The tile of a tab that is alone shows what is stored once its answer    *)
(* and the query that follows have arrived, whatever failed before the     *)
(* commit, unless the list was left or an answer lost while it waited:     *)
(* the optimistic flag of watchlist-tile.tsx, its revert on an error and   *)
(* the query asked again together never leave a tile that is at rest with  *)
(* a flag, or an item, that the table does not have.                       *)
THEOREM RestedTileIsStored == Spec => []TileShowsStored
<1>1. CASE \E t \in Tabs : Tabs = {t}
  <2> PICK t \in Tabs : Tabs = {t}
    BY <1>1
  <2> DEFINE Inv == OneListed /\ IdInv /\ ShowsInv(t)
  <2>1. Init => Inv
    <3> SUFFICES ASSUME Init PROVE Inv
      OBVIOUS
    <3>1. Listed = {} /\ \A c \in Calls : ~Pending(c) /\ ~Change(c)
      BY DEF Init, Listed, Pending, Change, Blank
    <3>2. tile[t] = NoRow /\ query[t].phase = "none" /\ data[t] \notin Item
      BY MarkersAssumption DEF Init
    <3>3. ShowsInv(t)
      BY <3>1, <3>2 DEF ShowsInv, RestInv, AskInv, OthersInv, CacheInv, Waits
    <3> QED BY <3>1, <3>3 DEF OneListed, IdInv
  <2>2. Types /\ Inv /\ [Next]_vars => Inv'
    BY OneListedNext, IdNext, ShowsNext
  <2>3. Inv => TileShowsStored
    <3> SUFFICES ASSUME Inv, tile[t] # NoRow, tile[t].waits = NoCall, query[t].phase = "none",
                        hurried = {}
                 PROVE  tile[t].id \in Listed /\ rows[tile[t].id].watched = tile[t].watched
      BY DEF TileShowsStored
    <3>1. RestInv(t)
      BY DEF ShowsInv
    <3>2. \A c \in Calls : ~Waits(t, c)
      BY WatchlistAssumption DEF Waits
    <3> QED BY <3>1, <3>2 DEF RestInv
  <2> HIDE DEF Inv
  <2> QED BY Typed, <2>1, <2>2, <2>3, PTL DEF Spec
<1>2. CASE ~(\E t \in Tabs : Tabs = {t})
  <2>1. TileShowsStored
    BY <1>2 DEF TileShowsStored
  <2> QED BY <2>1, PTL
<1> QED BY <1>1, <1>2

-----------------------------------------------------------------------------
(* Recommendations.                                                        *)

Resolving == {"row", "detail", "fetch", "store", "flush", "commit"}
Fetching == {"detail", "fetch", "store", "flush", "commit"}
Writing == {"flush", "commit"}

(* A request that resolves a title has one, and room for it in its list.   *)
Shape(q) ==
    /\ q.pc \in Resolving => q.at \in 1 .. Len(q.picks) /\ Len(q.out) < MaxResults
    /\ q.pc \in Fetching => q.picks[q.at] \in Movies
    /\ q.pc \notin Resolving \cup {"finish"} => q.out = <<>>
    /\ q.pc = "finish" => q.out # <<>>

(* f places the movies of out among the first n titles, in their order and *)
(* each once.                                                              *)
Places(f, out, picks, n) ==
    /\ f \in [1 .. Len(out) -> 1 .. Len(picks)]
    /\ \A i, j \in 1 .. Len(out) : i < j => f[i] < f[j] /\ out[i] # out[j]
    /\ \A i \in 1 .. Len(out) : out[i] = picks[f[i]] /\ f[i] <= n

(* The movies resolved so far are among the titles before this one.        *)
Reached(q) == IF q.pc \in Resolving THEN q.at - 1 ELSE Len(q.picks)

Sound(q) == q \in Request /\ Shape(q) /\ \E f : Places(f, q.out, q.picks, Reached(q))

LEMMA Limits ==
    /\ MaxPicks \in Nat /\ MaxPicks >= 1 /\ MaxResults \in Nat /\ MaxResults >= 1
    /\ Attempts \in Nat /\ Attempts >= 1 /\ Day \in Nat /\ Day >= 1 /\ MaxFaults \in Nat
    /\ NoMovie \notin Movies /\ NoList # <<>>
  BY RecommendationsAssumption

LEMMA UpTo ==
    ASSUME NEW S, NEW n \in Nat
    PROVE  /\ \A s \in SeqsUpTo(S, n) : s \in Seq(S) /\ Len(s) \in 0 .. n
           /\ \A s \in Seq(S) : Len(s) <= n => s \in SeqsUpTo(S, n)
<1>1. ASSUME NEW s \in SeqsUpTo(S, n) PROVE s \in Seq(S) /\ Len(s) \in 0 .. n
  <2>1. PICK k \in 0 .. n : s \in [1 .. k -> S]
    BY DEF SeqsUpTo
  <2>2. k \in Nat
    BY <2>1
  <2>3. s \in Seq(S)
    BY <2>1, <2>2, IsASeq
  <2>4. DOMAIN s = 1 .. k
    BY <2>1
  <2>5. Len(s) \in Nat /\ DOMAIN s = 1 .. Len(s)
    BY <2>3, LenProperties
  <2>6. Len(s) = k
    BY <2>2, <2>4, <2>5
  <2> QED BY <2>1, <2>3, <2>6
<1>2. ASSUME NEW s \in Seq(S), Len(s) <= n PROVE s \in SeqsUpTo(S, n)
  <2>1. Len(s) \in 0 .. n /\ s \in [1 .. Len(s) -> S]
    BY <1>2, LenProperties
  <2> QED BY <2>1 DEF SeqsUpTo
<1> QED BY <1>1, <1>2

LEMMA EmptyList ==
    <<>> \in SeqsUpTo(Movies, MaxResults) /\ Len(<<>>) = 0
<1>1. <<>> \in Seq(Movies) /\ Len(<<>>) = 0
  BY EmptySeq
<1>2. MaxResults \in Nat /\ Len(<<>>) <= MaxResults
  BY <1>1, Limits
<1> QED BY <1>1, <1>2, UpTo

LEMMA NothingToPlace ==
    ASSUME NEW picks, NEW n
    PROVE  \E f : Places(f, <<>>, picks, n)
<1>1. Len(<<>>) = 0
  BY EmptySeq
<1>2. Places([i \in 1 .. 0 |-> 1], <<>>, picks, n)
  BY <1>1 DEF Places
<1> QED BY <1>2

LEMMA IdleSound ==
    Idle \in Request /\ Sound(Idle)
<1>1. Idle \in Request
  BY EmptyList, Limits DEF Idle, Request
<1>2. Shape(Idle)
  BY DEF Shape, Idle, Resolving, Fetching
<1>3. \E f : Places(f, Idle.out, Idle.picks, Reached(Idle))
  BY NothingToPlace DEF Idle
<1> QED BY <1>1, <1>2, <1>3 DEF Sound

LEMMA Titles ==
    ASSUME NEW q \in Request
    PROVE  /\ q.out \in Seq(Movies) /\ Len(q.out) \in 0 .. MaxResults
           /\ q.picks \in Seq(Movies \cup {NoMovie}) /\ Len(q.picks) \in 0 .. MaxPicks
<1>1. q.out \in SeqsUpTo(Movies, MaxResults)
  BY DEF Request
<1>2. q.picks \in SeqsUpTo(Movies \cup {NoMovie}, MaxPicks) \/ q.picks = <<>>
  BY DEF Request, Picks
<1>3. q.out \in Seq(Movies) /\ Len(q.out) \in 0 .. MaxResults
  BY <1>1, UpTo, Limits
<1>4. CASE q.picks = <<>>
  <2>1. <<>> \in Seq(Movies \cup {NoMovie}) /\ Len(<<>>) = 0
    BY EmptySeq
  <2> QED BY <1>3, <1>4, <2>1, Limits
<1>5. CASE q.picks \in SeqsUpTo(Movies \cup {NoMovie}, MaxPicks)
  <2>1. q.picks \in Seq(Movies \cup {NoMovie}) /\ Len(q.picks) \in 0 .. MaxPicks
    BY <1>5, UpTo, Limits
  <2> QED BY <1>3, <2>1
<1> QED BY <1>2, <1>4, <1>5


(* The title being resolved, and what may follow it.                       *)
Title(q) == q.picks[q.at]

LEMMA TitleIsPick ==
    ASSUME NEW q, Sound(q), q.pc \in Resolving
    PROVE  /\ q \in Request /\ q.at \in 1 .. Len(q.picks) /\ Len(q.out) < MaxResults
           /\ Len(q.picks) \in 0 .. MaxPicks /\ Len(q.out) \in Nat
           /\ Title(q) \in Movies \cup {NoMovie}
           /\ \E f : Places(f, q.out, q.picks, q.at - 1)
<1>1. q \in Request /\ q.at \in 1 .. Len(q.picks) /\ Len(q.out) < MaxResults
  BY DEF Sound, Shape
<1>2. /\ Len(q.picks) \in 0 .. MaxPicks /\ Len(q.out) \in Nat
      /\ q.picks \in Seq(Movies \cup {NoMovie})
  BY <1>1, Titles
<1>3. Title(q) \in Movies \cup {NoMovie}
  BY <1>1, <1>2, ElementOfSeq DEF Title
<1>4. \E f : Places(f, q.out, q.picks, q.at - 1)
  BY DEF Sound, Reached
<1> QED BY <1>1, <1>2, <1>3, <1>4

(* The movies stay placed when more titles are allowed.                    *)
LEMMA PlacesFurther ==
    ASSUME NEW f, NEW out, NEW picks \in Seq(Movies \cup {NoMovie}),
           NEW n \in Int, NEW k \in Int, n <= k, Places(f, out, picks, n)
    PROVE  Places(f, out, picks, k)
<1>1. Len(picks) \in Nat
  BY LenProperties
<1>2. \A i \in 1 .. Len(out) : f[i] \in Int /\ f[i] <= n
  BY <1>1 DEF Places
<1>3. \A i \in 1 .. Len(out) : f[i] <= k
  BY <1>2
<1> QED BY <1>3 DEF Places

(* The next title goes behind the movies that come before it.              *)
LEMMA PlacesNext ==
    ASSUME NEW out \in Seq(Movies), NEW picks \in Seq(Movies \cup {NoMovie}),
           NEW f, NEW at \in 1 .. Len(picks), Places(f, out, picks, at - 1),
           ~InList(picks[at], out)
    PROVE  \E g : Places(g, Append(out, picks[at]), picks, at)
<1> DEFINE n == Len(out)
           g == [i \in 1 .. n + 1 |-> IF i = n + 1 THEN at ELSE f[i]]
           more == Append(out, picks[at])
<1>1. n \in Nat /\ Len(picks) \in Nat /\ at \in Nat
  BY LenProperties
<1>2. /\ Len(more) = n + 1 /\ more[n + 1] = picks[at]
      /\ \A i \in 1 .. n : more[i] = out[i]
  BY AppendProperties
<1>3. \A i \in 1 .. n : f[i] \in 1 .. Len(picks) /\ f[i] <= at - 1 /\ out[i] = picks[f[i]]
  BY DEF Places
<1>4. \A i \in 1 .. n : out[i] # picks[at]
  BY DEF InList
<1>5. g \in [1 .. Len(more) -> 1 .. Len(picks)]
  BY <1>1, <1>2, <1>3
<1>6. ASSUME NEW i \in 1 .. Len(more), NEW j \in 1 .. Len(more), i < j
      PROVE  g[i] < g[j] /\ more[i] # more[j]
  <2>1. i \in 1 .. n /\ g[i] = f[i] /\ more[i] = out[i]
    BY <1>1, <1>2, <1>6
  <2>2. CASE j = n + 1
    <3>1. g[j] = at /\ more[j] = picks[at]
      BY <1>1, <1>2, <2>2
    <3> QED BY <1>1, <1>3, <1>4, <2>1, <3>1
  <2>3. CASE j # n + 1
    <3>1. j \in 1 .. n /\ g[j] = f[j] /\ more[j] = out[j]
      BY <1>1, <1>2, <2>3
    <3> QED BY <1>6, <2>1, <3>1 DEF Places
  <2> QED BY <2>2, <2>3
<1>7. ASSUME NEW i \in 1 .. Len(more) PROVE more[i] = picks[g[i]] /\ g[i] <= at
  <2>1. CASE i = n + 1
    BY <1>1, <1>2, <2>1
  <2>2. CASE i # n + 1
    <3>1. i \in 1 .. n /\ g[i] = f[i] /\ more[i] = out[i]
      BY <1>1, <1>2, <2>2
    <3> QED BY <1>1, <1>3, <3>1
  <2> QED BY <2>1, <2>2
<1>8. Places(g, more, picks, at)
  BY <1>5, <1>6, <1>7 DEF Places
<1> QED BY <1>8

(* What a request is once its title is resolved: through, at the next      *)
(* title or at the end.                                                    *)
After(q, out) ==
    /\ Sound(q) /\ q.pc \in {"idle", "row", "finish"} /\ q.data = 0 /\ q.out \in {<<>>, out}

LEMMA ThenSound ==
    ASSUME NEW r, Sound(req[r]), req[r].pc \in Resolving,
           NEW out \in SeqsUpTo(Movies, MaxResults), NEW broken \in BOOLEAN,
           \E f : Places(f, out, req[r].picks, req[r].at)
    PROVE  After(Then(r, out, broken), out)
<1> DEFINE q == req[r]
           next == [pc |-> "row", kind |-> q.kind, picks |-> q.picks, at |-> q.at + 1, out |-> out,
                    found |-> "none", data |-> 0, tries |-> 0, asked |-> FALSE,
                    broken |-> broken]
           last == [pc |-> "finish", kind |-> q.kind, picks |-> q.picks, at |-> 0, out |-> out,
                    found |-> "none", data |-> 0, tries |-> 0, asked |-> FALSE,
                    broken |-> FALSE]
<1>1. /\ q \in Request /\ q.at \in 1 .. Len(q.picks) /\ Len(q.picks) \in 0 .. MaxPicks
      /\ MaxPicks \in Nat /\ q.at \in Nat
  BY TitleIsPick, Limits
<1>2. \/ Then(r, out, broken) = Idle
      \/ Then(r, out, broken) = next /\ Len(out) < MaxResults /\ q.at < Len(q.picks)
      \/ Then(r, out, broken) = last /\ out # <<>>
  BY DEF Then, Idle
<1>3. After(Idle, out)
  BY IdleSound DEF After, Idle
<1>4. CASE Then(r, out, broken) = next /\ Len(out) < MaxResults /\ q.at < Len(q.picks)
  <2>1. next \in Request
    BY <1>1, <1>4, Limits DEF Request
  <2>2. Shape(next)
    BY <1>1, <1>4 DEF Shape, Resolving, Fetching
  <2>3. Reached(next) = q.at
    BY <1>1 DEF Reached, Resolving
  <2>4. Sound(next)
    BY <2>1, <2>2, <2>3 DEF Sound
  <2> QED BY <1>4, <2>4 DEF After
<1>5. CASE Then(r, out, broken) = last /\ out # <<>>
  <2>1. last \in Request
    BY <1>1, Limits DEF Request
  <2>2. Shape(last)
    BY <1>5 DEF Shape, Resolving, Fetching
  <2>3. PICK f : Places(f, out, q.picks, q.at)
    OBVIOUS
  <2>4. Places(f, out, q.picks, Len(q.picks))
    BY <1>1, <2>3, Titles, PlacesFurther
  <2>5. Reached(last) = Len(q.picks)
    BY DEF Reached, Resolving
  <2>6. Sound(last)
    BY <2>1, <2>2, <2>4, <2>5 DEF Sound
  <2> QED BY <1>5, <2>6 DEF After
<1> QED BY <1>2, <1>3, <1>4, <1>5

LEMMA SkipSound ==
    ASSUME NEW r, Sound(req[r]), req[r].pc \in Resolving, NEW broken \in BOOLEAN
    PROVE  /\ After(Then(r, req[r].out, broken), req[r].out)
           /\ After(Skip(r), req[r].out)
<1>1. PICK f : Places(f, req[r].out, req[r].picks, req[r].at - 1)
  BY TitleIsPick
<1>2. /\ req[r] \in Request /\ req[r].at \in 1 .. Len(req[r].picks)
      /\ req[r].picks \in Seq(Movies \cup {NoMovie})
  BY TitleIsPick, Titles
<1>3. req[r].at \in Int /\ req[r].at - 1 \in Int /\ req[r].at - 1 <= req[r].at
  BY <1>2, LenProperties
<1>4. Places(f, req[r].out, req[r].picks, req[r].at)
  BY <1>1, <1>2, <1>3, PlacesFurther
<1>5. req[r].out \in SeqsUpTo(Movies, MaxResults) /\ req[r].broken \in BOOLEAN
  BY <1>2 DEF Request
<1> QED BY <1>4, <1>5, ThenSound DEF Skip

LEMMA TakeSound ==
    ASSUME NEW r, Sound(req[r]), req[r].pc \in Resolving, Title(req[r]) \in Movies
    PROVE  \/ After(Take(r), req[r].out)
           \/ After(Take(r), Append(req[r].out, Title(req[r])))
<1> DEFINE q == req[r]
           more == Append(q.out, Title(q))
<1>1. CASE InList(Movie(r), q.out)
  BY <1>1, SkipSound, TitleIsPick DEF Take, Sound, Request
<1>2. CASE ~InList(Movie(r), q.out)
  <2>1. PICK f : Places(f, q.out, q.picks, q.at - 1)
    BY TitleIsPick
  <2>2. /\ q \in Request /\ q.at \in 1 .. Len(q.picks) /\ Len(q.out) < MaxResults
        /\ q.out \in Seq(Movies) /\ q.picks \in Seq(Movies \cup {NoMovie})
    BY TitleIsPick, Titles
  <2>3. \E g : Places(g, more, q.picks, q.at)
    BY <1>2, <2>1, <2>2, PlacesNext DEF Title, Movie
  <2>4. more \in Seq(Movies) /\ Len(more) = Len(q.out) + 1 /\ Len(q.out) \in Nat
    BY <2>2, AppendProperties, LenProperties
  <2>5. Len(more) <= MaxResults
    BY <2>2, <2>4, Limits
  <2>6. more \in SeqsUpTo(Movies, MaxResults)
    BY <2>4, <2>5, UpTo, Limits
  <2>7. Take(r) = Then(r, more, q.broken) /\ q.broken \in BOOLEAN
    BY <1>2, <2>2 DEF Take, Title, Movie, Request
  <2> QED BY <2>3, <2>6, <2>7, ThenSound
<1> QED BY <1>1, <1>2

-----------------------------------------------------------------------------
(* The invariant of the lists.                                             *)

Kept ==
    /\ row \in [Movies -> MovieRow \cup {Absent}]
    /\ detail \in [Movies -> {None} \cup 0 .. Day - 1]
    /\ faults \in 0 .. MaxFaults

Cached == personal = NoList \/ personal \in SeqsUpTo(Movies, MaxResults) \ {<<>>}

Heard == req \in [Requests -> Request] /\ \A r \in Requests : Sound(req[r])

ListsInvariant == Kept /\ Cached /\ Heard /\ ListsAreStored

(* What a step makes of the movies of a request: it forgets them, keeps    *)
(* them, or adds the title, which is stored by then.                       *)
Grows(p, q) ==
    \/ q.out \in {<<>>, p.out}
    \/ /\ p.pc \in Resolving /\ Title(p) \in Stored'
       /\ q.out = Append(p.out, Title(p))

Turns(r, q) == req' = [req EXCEPT ![r] = q] /\ Sound(q) /\ Grows(req[r], q)

(* A request that stays at its title remains sound.                        *)
LEMMA SameTitle ==
    ASSUME NEW p, NEW q \in Request, Sound(p),
           q.picks = p.picks, q.at = p.at, q.out = p.out,
           q.pc = p.pc \/ {p.pc, q.pc} \subseteq Resolving,
           q.pc \in Fetching => Title(p) \in Movies
    PROVE  Sound(q) /\ Grows(p, q)
<1>1. Shape(q)
  BY DEF Sound, Shape, Title, Resolving, Fetching
<1>2. Reached(q) = Reached(p)
  BY DEF Reached
<1>3. \E f : Places(f, q.out, q.picks, Reached(q))
  BY <1>2 DEF Sound
<1> QED BY <1>1, <1>3 DEF Sound, Grows

LEMMA BackToIdle ==
    ASSUME NEW p
    PROVE  Sound(Idle) /\ Grows(p, Idle)
  BY IdleSound DEF Idle, Grows

LEMMA AfterGrows ==
    ASSUME NEW p, NEW q, After(q, p.out)
    PROVE  Sound(q) /\ Grows(p, q)
  BY DEF After, Grows

LEMMA TakeGrows ==
    ASSUME NEW r, Sound(req[r]), req[r].pc \in Resolving, Title(req[r]) \in Movies,
           Title(req[r]) \in Stored'
    PROVE  Sound(Take(r)) /\ Grows(req[r], Take(r))
  BY TakeSound DEF After, Grows

LEMMA SkipGrows ==
    ASSUME NEW r, Sound(req[r]), req[r].pc \in Resolving, NEW broken \in BOOLEAN
    PROVE  /\ Sound(Skip(r)) /\ Grows(req[r], Skip(r))
           /\ Sound(Then(r, req[r].out, broken)) /\ Grows(req[r], Then(r, req[r].out, broken))
  BY SkipSound, AfterGrows

-----------------------------------------------------------------------------
(* Every step of a request turns it into a sound one.                      *)

(* A request at a title, and one that asks again.                          *)
At(kind, picks, at) == [Idle EXCEPT !.pc = "row", !.kind = kind, !.picks = picks, !.at = at]
Again(p) == [p EXCEPT !.asked = TRUE, !.tries = 0]

LEMMA Opened ==
    ASSUME NEW kind \in {"none", "personal", "mood", "view"}, NEW at \in 0 .. MaxPicks,
           NEW picks \in Picks \cup {<<>>}
    PROVE  LET q == At(kind, picks, at)
           IN  /\ q \in Request /\ q.pc = "row" /\ q.picks = picks /\ q.at = at
               /\ q.out = <<>> /\ q.data = 0
<1>1. Idle \in Request /\ Idle.out = <<>> /\ Idle.data = 0
  BY IdleSound DEF Idle
<1>2. ASSUME NEW q \in Request
      PROVE  [q EXCEPT !.pc = "row", !.kind = kind, !.picks = picks, !.at = at] \in Request
  BY DEF Request
<1>3. At(kind, picks, at) \in Request
  BY <1>1, <1>2 DEF At
<1> QED BY <1>1, <1>3 DEF Request, At

LEMMA AskedAgain ==
    ASSUME NEW p \in Request
    PROVE  LET q == Again(p)
           IN  /\ q \in Request /\ q.pc = p.pc /\ q.picks = p.picks /\ q.at = p.at
               /\ q.out = p.out /\ q.data = p.data
<1>1. PICK none \in 0 .. Attempts - 1 : none = 0
  BY Limits
<1>2. [p EXCEPT !.asked = TRUE, !.tries = none] \in Request
  BY DEF Request
<1>3. Again(p) \in Request
  BY <1>1, <1>2 DEF Again
<1> QED BY <1>3 DEF Request, Again

LEMMA FirstTitle ==
    ASSUME NEW picks \in Picks, NEW kind \in {"none", "personal", "mood", "view"}, NEW p
    PROVE  LET q == At(kind, picks, 1)
           IN  Sound(q) /\ Grows(p, q) /\ q.pc = "row" /\ q.data = 0
<1> DEFINE q == At(kind, picks, 1)
<1>1. 1 \in 0 .. MaxPicks /\ picks \in Picks \cup {<<>>}
  BY Limits
<1>2. /\ q \in Request /\ q.pc = "row" /\ q.picks = picks /\ q.at = 1
      /\ q.out = <<>> /\ q.data = 0
  BY <1>1, Opened
<1>3. picks \in Seq(Movies \cup {NoMovie}) /\ picks # <<>> /\ Len(picks) \in 0 .. MaxPicks
  BY UpTo, Limits DEF Picks
<1>4. Len(picks) >= 1
  BY <1>3, EmptySeq, Limits
<1>5. Shape(q)
  BY <1>2, <1>3, <1>4, EmptyList, Limits DEF Shape, Resolving, Fetching
<1>6. \E f : Places(f, q.out, q.picks, Reached(q))
  BY <1>2, NothingToPlace
<1>7. Sound(q)
  BY <1>2, <1>5, <1>6 DEF Sound
<1> QED BY <1>2, <1>7 DEF Grows

LEMMA BeginTurns ==
    ASSUME Heard, NEW r \in Requests, Start(r)
    PROVE  \E q : Turns(r, q) /\ q.pc \notin Fetching /\ q.data = 0
<1>1. CASE BeginPersonal(r)
  <2> DEFINE q == [Idle EXCEPT !.pc = "history", !.kind = "personal"]
  <2>1. q \in Request /\ q.out = <<>> /\ q.picks = <<>> /\ q.pc = "history" /\ q.data = 0
    BY IdleSound DEF Request, Idle
  <2>2. Shape(q)
    BY <2>1 DEF Shape, Resolving, Fetching
  <2>3. Sound(q)
    BY <2>1, <2>2, NothingToPlace DEF Sound
  <2> QED BY <1>1, <2>1, <2>3 DEF BeginPersonal, Turns, Grows, Fetching
<1>2. CASE BeginMood(r)
  <2> DEFINE q == [Idle EXCEPT !.pc = "ask", !.kind = "mood"]
  <2>1. q \in Request /\ q.out = <<>> /\ q.picks = <<>> /\ q.pc = "ask" /\ q.data = 0
    BY IdleSound DEF Request, Idle
  <2>2. Shape(q)
    BY <2>1 DEF Shape, Resolving, Fetching
  <2>3. Sound(q)
    BY <2>1, <2>2, NothingToPlace DEF Sound
  <2> QED BY <1>2, <2>1, <2>3 DEF BeginMood, Turns, Grows, Fetching
<1>3. ASSUME NEW m \in Movies, BeginView(r, m)
      PROVE  \E q : Turns(r, q) /\ q.pc \notin Fetching /\ q.data = 0
  <2> DEFINE q == At("view", <<m>>, 1)
  <2>1. <<m>> \in Seq(Movies \cup {NoMovie}) /\ Len(<<m>>) = 1 /\ <<m>> # <<>>
    OBVIOUS
  <2>2. <<m>> \in Picks
    BY <2>1, UpTo, Limits DEF Picks
  <2>3. Sound(q) /\ Grows(req[r], q) /\ q.pc = "row" /\ q.data = 0
    BY <2>2, FirstTitle
  <2>4. req' = [req EXCEPT ![r] = q]
    BY <1>3 DEF BeginView, At
  <2> QED BY <2>3, <2>4 DEF Turns, Fetching
<1> QED BY <1>1, <1>2, <1>3 DEF Start

LEMMA AskTurns ==
    ASSUME Heard, NEW r \in Requests,
           History(r) \/ AskFails(r) \/ AskRejected(r) \/ AskGarbled(r) \/ AskAnswered(r)
    PROVE  \E q : Turns(r, q) /\ q.pc \notin Fetching /\ q.data \in {0, req[r].data}
<1> DEFINE p == req[r]
<1>1. Sound(p) /\ p \in Request
  BY DEF Heard, Sound
<1>2. CASE req' = [req EXCEPT ![r] = Idle]
  <2>1. Idle.pc = "idle" /\ Idle.data = 0
    BY DEF Idle
  <2> QED BY <1>2, <2>1, BackToIdle DEF Turns, Fetching
<1>3. CASE History(r) /\ req' # [req EXCEPT ![r] = Idle]
  <2> DEFINE q == [p EXCEPT !.pc = "ask"]
  <2>1. p.pc = "history" /\ req' = [req EXCEPT ![r] = q]
    BY <1>3 DEF History
  <2>2. /\ q \in Request /\ q.pc = "ask" /\ q.picks = p.picks /\ q.out = p.out
        /\ q.data = p.data
    BY <1>1 DEF Request
  <2>3. Shape(q)
    BY <1>1, <2>1, <2>2 DEF Sound, Shape, Resolving, Fetching
  <2>4. Reached(q) = Reached(p)
    BY <2>1, <2>2 DEF Reached, Resolving
  <2>5. Sound(q)
    BY <1>1, <2>2, <2>3, <2>4 DEF Sound
  <2> QED BY <2>1, <2>2, <2>5 DEF Turns, Grows, Fetching
<1>4. CASE AskFails(r) /\ req' # [req EXCEPT ![r] = Idle]
  <2> DEFINE q == [p EXCEPT !.tries = p.tries + 1]
  <2>1. p.pc = "ask" /\ req' = [req EXCEPT ![r] = q] /\ p.tries + 1 < Attempts
    BY <1>4 DEF AskFails, FailedCall
  <2>3. p.tries + 1 \in 0 .. Attempts - 1
    BY <1>1, <2>1, Limits DEF Request
  <2>2. /\ q \in Request /\ q.pc = p.pc /\ q.picks = p.picks /\ q.at = p.at /\ q.out = p.out
        /\ q.data = p.data
    BY <1>1, <2>3 DEF Request
  <2> QED BY <1>1, <2>1, <2>2, SameTitle DEF Turns, Fetching
<1>5. CASE AskGarbled(r) /\ req' # [req EXCEPT ![r] = Idle]
  <2> DEFINE q == Again(p)
  <2>1. p.pc = "ask" /\ req' = [req EXCEPT ![r] = q]
    BY <1>5 DEF AskGarbled, Again
  <2>3. q \in Request
    BY <1>1, AskedAgain
  <2>2. /\ q.pc = p.pc /\ q.picks = p.picks /\ q.at = p.at /\ q.out = p.out
        /\ q.data = p.data
    BY <1>1, AskedAgain
  <2> QED BY <1>1, <2>1, <2>2, <2>3, SameTitle DEF Turns, Fetching
<1>6. CASE AskAnswered(r)
  <2>1. PICK picks \in Picks :
           req' = [req EXCEPT ![r] = [Idle EXCEPT !.pc = "row", !.kind = req[r].kind,
                                                  !.picks = picks, !.at = 1]]
    BY <1>6 DEF AskAnswered
  <2>2. p.kind \in {"none", "personal", "mood", "view"}
    BY <1>1 DEF Request
  <2> DEFINE q == At(p.kind, picks, 1)
  <2>3. Sound(q) /\ Grows(p, q) /\ q.pc = "row" /\ q.data = 0
    BY <2>2, FirstTitle
  <2>4. req' = [req EXCEPT ![r] = q]
    BY <2>1 DEF At
  <2> QED BY <2>3, <2>4 DEF Turns, Fetching
<1>7. CASE AskRejected(r)
  BY <1>2, <1>7 DEF AskRejected
<1> QED BY <1>2, <1>3, <1>4, <1>5, <1>6, <1>7

-----------------------------------------------------------------------------
(* A request that goes on with its title.                                  *)
Proceeds(p, pc) == [p EXCEPT !.pc = pc]
Looks(p, found) == [p EXCEPT !.pc = "detail", !.found = found]
Reuses(p, age) == [p EXCEPT !.pc = "flush", !.data = age]
HasAnswer(p) == [p EXCEPT !.pc = "store", !.tries = 0]
Retries(p) == [p EXCEPT !.tries = p.tries + 1]

LEMMA GoesOn ==
    ASSUME NEW p \in Request
    PROVE  /\ \A pc \in Fetching :
                LET q == Proceeds(p, pc)
                IN  /\ q \in Request /\ q.pc = pc /\ q.picks = p.picks /\ q.at = p.at
                    /\ q.out = p.out /\ q.found = p.found /\ q.data = p.data
           /\ \A found \in {"absent", "stale"} :
                LET q == Looks(p, found)
                IN  /\ q \in Request /\ q.pc = "detail" /\ q.picks = p.picks /\ q.at = p.at
                    /\ q.out = p.out /\ q.found = found /\ q.data = p.data
           /\ LET q == HasAnswer(p)
              IN  /\ q \in Request /\ q.pc = "store" /\ q.picks = p.picks /\ q.at = p.at
                  /\ q.out = p.out /\ q.found = p.found /\ q.data = p.data
           /\ p.tries + 1 < Attempts =>
                LET q == Retries(p)
                IN  /\ q \in Request /\ q.pc = p.pc /\ q.picks = p.picks /\ q.at = p.at
                    /\ q.out = p.out /\ q.found = p.found /\ q.data = p.data
<1>1. ASSUME NEW pc \in Fetching
      PROVE  LET q == Proceeds(p, pc)
             IN  /\ q \in Request /\ q.pc = pc /\ q.picks = p.picks /\ q.at = p.at
                 /\ q.out = p.out /\ q.found = p.found /\ q.data = p.data
  <2>1. Proceeds(p, pc) \in Request
    BY DEF Fetching, Proceeds, Request
  <2> QED BY <2>1 DEF Proceeds, Request
<1>2. ASSUME NEW found \in {"absent", "stale"}
      PROVE  LET q == Looks(p, found)
             IN  /\ q \in Request /\ q.pc = "detail" /\ q.picks = p.picks /\ q.at = p.at
                 /\ q.out = p.out /\ q.found = found /\ q.data = p.data
  <2>1. Looks(p, found) \in Request
    BY DEF Looks, Request
  <2> QED BY <2>1 DEF Looks, Request
<1>3. LET q == HasAnswer(p)
      IN  /\ q \in Request /\ q.pc = "store" /\ q.picks = p.picks /\ q.at = p.at
          /\ q.out = p.out /\ q.found = p.found /\ q.data = p.data
  <2>1. PICK none \in 0 .. Attempts - 1 : none = 0
    BY Limits
  <2>2. [p EXCEPT !.pc = "store", !.tries = none] \in Request
    BY DEF Request
  <2>3. HasAnswer(p) \in Request
    BY <2>1, <2>2 DEF HasAnswer
  <2> QED BY <2>3 DEF HasAnswer, Request
<1>4. ASSUME p.tries + 1 < Attempts
      PROVE  LET q == Retries(p)
             IN  /\ q \in Request /\ q.pc = p.pc /\ q.picks = p.picks /\ q.at = p.at
                 /\ q.out = p.out /\ q.found = p.found /\ q.data = p.data
  <2>1. p.tries + 1 \in 0 .. Attempts - 1
    BY <1>4, Limits DEF Request
  <2>2. Retries(p) \in Request
    BY <2>1 DEF Retries, Request
  <2> QED BY <2>2 DEF Retries, Request
<1> QED BY <1>1, <1>2, <1>3, <1>4

LEMMA ReusesAnswer ==
    ASSUME NEW p \in Request, NEW age \in 0 .. 2 * Day
    PROVE  LET q == Reuses(p, age)
           IN  /\ q \in Request /\ q.pc = "flush" /\ q.picks = p.picks /\ q.at = p.at
               /\ q.out = p.out /\ q.found = p.found /\ q.data = age
<1>1. Reuses(p, age) \in Request
  BY DEF Reuses, Request
<1> QED BY <1>1 DEF Reuses, Request

-----------------------------------------------------------------------------
(* The kinds of step of a request p that becomes q: it is at no movie      *)
(* afterwards, finds no fresh row, goes on with its movie, has the answer  *)
(* of TMDB stored or not, is overtaken by another insert, commits the row, *)
(* or answers.                                                             *)

Leaves(p, q) == q.pc \notin Fetching /\ q.data \in {0, p.data}
SameMovie(p, q) == q.pc \in Fetching /\ Title(q) = Title(p) /\ Title(p) \in Movies

Passes(p, q) == p.pc \notin Writing /\ Leaves(p, q) /\ UNCHANGED Caches

Misses(p, q) ==
    /\ SameMovie(p, q) /\ p.pc = "row" /\ q.pc = "detail" /\ q.data = p.data
    /\ ~Fresh(Title(p)) /\ (q.found = "absent" => Title(p) \notin Stored)
    /\ UNCHANGED Caches

GoesOnWith(p, q) ==
    /\ SameMovie(p, q) /\ p.pc \in Fetching /\ (p.pc \in Writing => q.pc \in Writing)
    /\ q.found = p.found
    /\ \/ q.data = p.data
       \/ detail[Title(p)] # None /\ q.data = detail[Title(p)]
    /\ UNCHANGED Caches

Keeps(p, q) ==
    /\ SameMovie(p, q) /\ p.pc = "store" /\ q.pc = "flush"
    /\ q.found = p.found /\ q.data = p.data
    /\ detail' \in {detail, [detail EXCEPT ![Title(p)] = 0]}
    /\ UNCHANGED <<row, personal, faults>>

Loses(p, q) ==
    /\ p.pc = "flush" /\ Leaves(p, q) /\ p.found = "absent" /\ Title(p) \in Stored
    /\ UNCHANGED Caches

Writes(p, q) ==
    /\ p.pc = "commit" /\ Leaves(p, q)
    /\ row' = [row EXCEPT ![Title(p)] = [data |-> p.data, cached |-> 0]]
    /\ UNCHANGED <<detail, personal, faults>>

Answers(p, q) ==
    /\ p.pc = "finish" /\ Leaves(p, q) /\ personal' \in {personal, p.out}
    /\ UNCHANGED <<row, detail, faults>>

Kinds(p, q) ==
    \/ Passes(p, q) \/ Misses(p, q) \/ GoesOnWith(p, q) \/ Keeps(p, q)
    \/ Loses(p, q) \/ Writes(p, q) \/ Answers(p, q)

LEMMA ListTurns ==
    ASSUME Heard, NEW r \in Requests,
           \/ Start(r) \/ History(r) \/ AskFails(r) \/ AskRejected(r) \/ AskGarbled(r)
           \/ AskAnswered(r)
    PROVE  \E q : Turns(r, q) /\ Passes(req[r], q)
<1>1. req[r].pc \notin Writing /\ UNCHANGED Caches
  BY DEF Start, BeginPersonal, BeginMood, BeginView, History, AskFails, AskRejected, AskGarbled,
         AskAnswered, Writing
<1> QED BY <1>1, BeginTurns, AskTurns DEF Passes, Leaves

(* The end of a title, one way or another.                                 *)
LEMMA LeavesTitle ==
    ASSUME NEW p, NEW q, NEW out, After(q, out)
    PROVE  Leaves(p, q)
  BY DEF After, Leaves, Fetching

LEMMA SkipTurns ==
    ASSUME Heard, NEW r \in Requests, req[r].pc \in Resolving, req' = [req EXCEPT ![r] = Skip(r)]
    PROVE  Turns(r, Skip(r)) /\ Leaves(req[r], Skip(r))
<1>1. Sound(req[r]) /\ req[r].broken \in BOOLEAN
  BY DEF Heard, Sound, Request
<1> QED BY <1>1, SkipSound, SkipGrows, LeavesTitle DEF Turns

LEMMA TakeTurns ==
    ASSUME Heard, NEW r \in Requests, req[r].pc \in Resolving, Title(req[r]) \in Movies,
           Title(req[r]) \in Stored', req' = [req EXCEPT ![r] = Take(r)]
    PROVE  Turns(r, Take(r)) /\ Leaves(req[r], Take(r))
<1>1. Sound(req[r])
  BY DEF Heard
<1>2. Leaves(req[r], Take(r))
  BY <1>1, TakeSound, LeavesTitle
<1> QED BY <1>1, <1>2, TakeGrows DEF Turns

LEMMA StaysTurns ==
    ASSUME Heard, NEW r \in Requests, NEW q \in Request, req' = [req EXCEPT ![r] = q],
           req[r].pc \in Resolving, q.pc \in Fetching, Title(req[r]) \in Movies,
           q.picks = req[r].picks, q.at = req[r].at, q.out = req[r].out
    PROVE  Turns(r, q) /\ SameMovie(req[r], q)
<1>1. Sound(req[r]) /\ q.pc \in Resolving
  BY DEF Heard, Fetching, Resolving
<1>2. Sound(q) /\ Grows(req[r], q)
  BY <1>1, SameTitle
<1> QED BY <1>2 DEF Turns, SameMovie, Title

LEMMA SameRows ==
    ASSUME UNCHANGED row
    PROVE  Stored' = Stored
  BY DEF Stored

LEMMA MovieIsTitle ==
    ASSUME Heard, NEW r \in Requests
    PROVE  /\ Movie(r) = Title(req[r]) /\ req[r] \in Request /\ Sound(req[r])
           /\ req[r].pc \in Resolving => Title(req[r]) \in Movies \cup {NoMovie}
           /\ req[r].pc \in Fetching => Title(req[r]) \in Movies
           /\ Fetching \subseteq Resolving /\ Writing \subseteq Fetching
<1>1. req[r] \in Request /\ Sound(req[r])
  BY DEF Heard
<1>2. req[r].pc \in Fetching => Title(req[r]) \in Movies
  BY <1>1 DEF Sound, Shape, Title
<1>3. req[r].pc \in Resolving => Title(req[r]) \in Movies \cup {NoMovie}
  BY <1>1, TitleIsPick
<1> QED BY <1>1, <1>2, <1>3 DEF Movie, Title, Fetching, Resolving, Writing

LEMMA RowTurns ==
    ASSUME Heard, NEW r \in Requests, NoMatch(r) \/ FindRow(r)
    PROVE  \E q : Turns(r, q) /\ (Passes(req[r], q) \/ Misses(req[r], q))
<1> DEFINE p == req[r]
<1>1. p.pc = "row" /\ p.pc \in Resolving /\ p.pc \notin Writing /\ UNCHANGED Caches
  BY DEF NoMatch, FindRow, Resolving, Writing
<1>2. CASE req' = [req EXCEPT ![r] = Skip(r)]
  BY <1>1, <1>2, SkipTurns DEF Passes
<1>3. CASE req' = [req EXCEPT ![r] = Take(r)] /\ FindRow(r) /\ Fresh(Movie(r))
  <2>1. Title(p) \in Movies /\ Title(p) = Movie(r)
    BY <1>1, <1>3, MovieIsTitle DEF FindRow
  <2>2. Title(p) \in Stored'
    BY <1>1, <1>3, <2>1, SameRows DEF Caches, Stored, Fresh
  <2> QED BY <1>1, <1>3, <2>1, <2>2, TakeTurns DEF Passes
<1>4. CASE /\ FindRow(r) /\ ~Fresh(Movie(r))
           /\ req' = [req EXCEPT ![r] = Looks(p, IF Movie(r) \in Stored THEN "stale" ELSE "absent")]
  <2> DEFINE found == IF Movie(r) \in Stored THEN "stale" ELSE "absent"
             q == Looks(p, found)
  <2>1. Title(p) \in Movies /\ Title(p) = Movie(r) /\ p \in Request
    BY <1>1, <1>4, MovieIsTitle DEF FindRow
  <2>2. /\ q \in Request /\ q.pc = "detail" /\ q.picks = p.picks /\ q.at = p.at
        /\ q.out = p.out /\ q.found = found /\ q.data = p.data
    BY <2>1, GoesOn
  <2>3. Turns(r, q) /\ SameMovie(p, q)
    BY <1>1, <1>4, <2>1, <2>2, StaysTurns DEF Fetching
  <2>4. Misses(p, q)
    BY <1>1, <1>4, <2>1, <2>2, <2>3 DEF Misses
  <2> QED BY <2>3, <2>4
<1>5. NoMatch(r) => req' = [req EXCEPT ![r] = Skip(r)]
  BY DEF NoMatch
<1>6. CASE FindRow(r)
  <2>1. CASE p.broken
    BY <1>2, <1>6, <2>1 DEF FindRow
  <2>2. CASE ~p.broken /\ Fresh(Movie(r))
    BY <1>3, <1>6, <2>2 DEF FindRow
  <2>3. CASE ~p.broken /\ ~Fresh(Movie(r))
    BY <1>4, <1>6, <2>3 DEF FindRow, Looks
  <2> QED BY <2>1, <2>2, <2>3
<1> QED BY <1>2, <1>5, <1>6

LEMMA DetailTurns ==
    ASSUME Heard, Kept, NEW r \in Requests, FindDetail(r)
    PROVE  \E q : Turns(r, q) /\ GoesOnWith(req[r], q)
<1> DEFINE p == req[r]
           m == Movie(r)
<1>1. /\ p.pc = "detail" /\ p.pc \in Resolving /\ p.pc \in Fetching /\ p.pc \notin Writing
      /\ UNCHANGED Caches /\ m = Title(p) /\ m \in Movies /\ p \in Request
  BY MovieIsTitle DEF FindDetail, Resolving, Fetching, Writing
<1>2. CASE detail[m] = None
  <2> DEFINE q == Proceeds(p, "fetch")
  <2>1. req' = [req EXCEPT ![r] = q]
    BY <1>2 DEF FindDetail, Proceeds
  <2>2. /\ q \in Request /\ q.pc = "fetch" /\ q.picks = p.picks /\ q.at = p.at
        /\ q.out = p.out /\ q.found = p.found /\ q.data = p.data /\ q.pc \in Fetching
    BY <1>1, GoesOn DEF Fetching
  <2>3. Turns(r, q) /\ SameMovie(p, q)
    BY <1>1, <2>1, <2>2, StaysTurns
  <2>9. GoesOnWith(p, q)
    BY <1>1, <2>2, <2>3 DEF GoesOnWith
  <2> QED BY <2>3, <2>9
<1>3. CASE detail[m] # None
  <2>2. PICK age \in 0 .. 2 * Day : age = detail[m]
    BY <1>1, <1>3, Limits DEF Kept
  <2> DEFINE q == Reuses(p, age)
  <2>1. req' = [req EXCEPT ![r] = q]
    BY <1>3, <2>2 DEF FindDetail, Reuses
  <2>3. /\ q \in Request /\ q.pc = "flush" /\ q.picks = p.picks /\ q.at = p.at
        /\ q.out = p.out /\ q.found = p.found /\ q.data = age
    BY <1>1, ReusesAnswer
  <2>4. Turns(r, q) /\ SameMovie(p, q)
    BY <1>1, <2>1, <2>3, StaysTurns DEF Fetching
  <2>9. GoesOnWith(p, q)
    BY <1>1, <1>3, <2>2, <2>3, <2>4 DEF GoesOnWith
  <2> QED BY <2>4, <2>9
<1> QED BY <1>2, <1>3

LEMMA FetchTurns ==
    ASSUME Heard, NEW r \in Requests, FetchFails(r) \/ FetchRejected(r) \/ Fetched(r)
    PROVE  \E q : Turns(r, q) /\ (Passes(req[r], q) \/ GoesOnWith(req[r], q))
<1> DEFINE p == req[r]
<1>1. /\ p.pc \in {"detail", "fetch"} /\ p.pc \in Resolving /\ p.pc \in Fetching
      /\ p.pc \notin Writing /\ UNCHANGED Caches /\ Title(p) \in Movies /\ p \in Request
  BY MovieIsTitle DEF FetchFails, FetchRejected, Fetched, Resolving, Fetching, Writing
<1>2. CASE req' = [req EXCEPT ![r] = Skip(r)]
  BY <1>1, <1>2, SkipTurns DEF Passes
<1>3. CASE p.tries + 1 < Attempts /\ req' = [req EXCEPT ![r] = Retries(p)]
  <2> DEFINE q == Retries(p)
  <2>1. /\ q \in Request /\ q.pc = p.pc /\ q.picks = p.picks /\ q.at = p.at
        /\ q.out = p.out /\ q.found = p.found /\ q.data = p.data
    BY <1>1, <1>3, GoesOn
  <2>2. Turns(r, q) /\ SameMovie(p, q)
    BY <1>1, <1>3, <2>1, StaysTurns
  <2>9. GoesOnWith(p, q)
    BY <1>1, <2>1, <2>2 DEF GoesOnWith
  <2> QED BY <2>2, <2>9
<1>4. CASE req' = [req EXCEPT ![r] = HasAnswer(p)]
  <2> DEFINE q == HasAnswer(p)
  <2>1. /\ q \in Request /\ q.pc = "store" /\ q.picks = p.picks /\ q.at = p.at
        /\ q.out = p.out /\ q.found = p.found /\ q.data = p.data /\ q.pc \in Fetching
    BY <1>1, GoesOn DEF Fetching
  <2>2. Turns(r, q) /\ SameMovie(p, q)
    BY <1>1, <1>4, <2>1, StaysTurns
  <2>9. GoesOnWith(p, q)
    BY <1>1, <2>1, <2>2 DEF GoesOnWith
  <2> QED BY <2>2, <2>9
<1>5. FetchFails(r) => \/ req' = [req EXCEPT ![r] = Skip(r)]
                       \/ p.tries + 1 < Attempts /\ req' = [req EXCEPT ![r] = Retries(p)]
  BY DEF FetchFails, FailedCall, Retries
<1>6. FetchRejected(r) => req' = [req EXCEPT ![r] = Skip(r)]
  BY DEF FetchRejected
<1>7. Fetched(r) => req' = [req EXCEPT ![r] = HasAnswer(p)]
  BY DEF Fetched, HasAnswer
<1> QED BY <1>2, <1>3, <1>4, <1>5, <1>6, <1>7

LEMMA StoreTurns ==
    ASSUME Heard, NEW r \in Requests, Store(r)
    PROVE  \E q : Turns(r, q) /\ Keeps(req[r], q)
<1> DEFINE p == req[r]
           q == Proceeds(p, "flush")
<1>1. /\ p.pc = "store" /\ p.pc \in Resolving /\ p.pc \in Fetching /\ Movie(r) = Title(p)
      /\ Title(p) \in Movies /\ p \in Request
  BY MovieIsTitle DEF Store, Resolving, Fetching
<1>2. req' = [req EXCEPT ![r] = q]
  BY DEF Store, Proceeds
<1>3. /\ q \in Request /\ q.pc = "flush" /\ q.picks = p.picks /\ q.at = p.at
      /\ q.out = p.out /\ q.found = p.found /\ q.data = p.data /\ q.pc \in Fetching
  BY <1>1, GoesOn DEF Fetching
<1>4. Turns(r, q) /\ SameMovie(p, q)
  BY <1>1, <1>2, <1>3, StaysTurns
<1>5. /\ detail' \in {detail, [detail EXCEPT ![Title(p)] = 0]}
      /\ UNCHANGED <<row, personal, faults>>
  BY <1>1 DEF Store
<1> QED BY <1>1, <1>3, <1>4, <1>5 DEF Keeps

LEMMA FlushTurns ==
    ASSUME Heard, NEW r \in Requests, Flush(r)
    PROVE  \E q : Turns(r, q) /\ (Loses(req[r], q) \/ GoesOnWith(req[r], q))
<1> DEFINE p == req[r]
<1>1. /\ p.pc = "flush" /\ p.pc \in Resolving /\ p.pc \in Fetching /\ UNCHANGED Caches
      /\ Movie(r) = Title(p) /\ Title(p) \in Movies /\ p \in Request /\ Sound(p)
  BY MovieIsTitle DEF Flush, Resolving, Fetching
<1>2. CASE p.found = "absent" /\ Movie(r) \in Stored
  <2> DEFINE q == Then(r, p.out, TRUE)
  <2>1. req' = [req EXCEPT ![r] = q]
    BY <1>2 DEF Flush
  <2>2. After(q, p.out) /\ Sound(q) /\ Grows(p, q)
    BY <1>1, SkipSound, SkipGrows
  <2>3. Leaves(p, q)
    BY <2>2, LeavesTitle
  <2> QED BY <1>1, <1>2, <2>1, <2>2, <2>3 DEF Turns, Loses
<1>3. CASE ~(p.found = "absent" /\ Movie(r) \in Stored)
  <2> DEFINE q == Proceeds(p, "commit")
  <2>1. req' = [req EXCEPT ![r] = q]
    BY <1>3 DEF Flush, Proceeds
  <2>2. /\ q \in Request /\ q.pc = "commit" /\ q.picks = p.picks /\ q.at = p.at
        /\ q.out = p.out /\ q.found = p.found /\ q.data = p.data
        /\ q.pc \in Fetching /\ q.pc \in Writing
    BY <1>1, GoesOn DEF Fetching, Writing
  <2>3. Turns(r, q) /\ SameMovie(p, q)
    BY <1>1, <2>1, <2>2, StaysTurns
  <2>9. GoesOnWith(p, q)
    BY <1>1, <2>2, <2>3 DEF GoesOnWith
  <2> QED BY <2>3, <2>9
<1> QED BY <1>2, <1>3

LEMMA CommitTurns ==
    ASSUME Heard, Kept, NEW r \in Requests, CommitRow(r)
    PROVE  \E q : Turns(r, q) /\ Writes(req[r], q)
<1> DEFINE p == req[r]
<1>1. /\ p.pc = "commit" /\ p.pc \in Resolving /\ p.pc \in Fetching
      /\ Movie(r) = Title(p) /\ Title(p) \in Movies
  BY MovieIsTitle DEF CommitRow, Resolving, Fetching
<1>2. /\ row' = [row EXCEPT ![Title(p)] = [data |-> p.data, cached |-> 0]]
      /\ req' = [req EXCEPT ![r] = Take(r)] /\ UNCHANGED <<detail, personal, faults>>
  BY <1>1 DEF CommitRow
<1>3. row'[Title(p)].cached = 0 /\ Absent.cached # 0
  BY <1>1, <1>2 DEF Kept, Absent, None
<1>4. Title(p) \in Stored'
  BY <1>1, <1>3 DEF Stored
<1>5. Turns(r, Take(r)) /\ Leaves(p, Take(r))
  BY <1>1, <1>2, <1>4, TakeTurns
<1> QED BY <1>1, <1>2, <1>5 DEF Writes

LEMMA FinishTurns ==
    ASSUME Heard, NEW r \in Requests, Finish(r)
    PROVE  Turns(r, Idle) /\ Answers(req[r], Idle)
<1>1. Idle.pc = "idle" /\ Idle.data = 0
  BY DEF Idle
<1>2. Leaves(req[r], Idle)
  BY <1>1 DEF Leaves, Fetching
<1>3. req' = [req EXCEPT ![r] = Idle] /\ req[r].pc = "finish"
  BY DEF Finish
<1>4. personal' \in {personal, req[r].out} /\ UNCHANGED <<row, detail, faults>>
  BY DEF Finish
<1> QED BY <1>2, <1>3, <1>4, BackToIdle DEF Turns, Answers

LEMMA StepTurns ==
    ASSUME Heard, Kept, NEW r \in Requests, Start(r) \/ Step(r)
    PROVE  \E q : Turns(r, q) /\ Kinds(req[r], q)
  BY ListTurns, RowTurns, DetailTurns, FetchTurns, StoreTurns, FlushTurns, CommitTurns,
     FinishTurns DEF Step, Kinds

-----------------------------------------------------------------------------
(* The rows of the table, and what the kinds have in common.               *)

LEMMA StoredRow ==
    ASSUME Kept, NEW m \in Movies
    PROVE  /\ m \in Stored => row[m].data \in 0 .. 2 * Day /\ row[m].cached \in 0 .. Day
           /\ Fresh(m) <=> m \in Stored /\ row[m].cached < Day
           /\ m \notin Stored <=> row[m] = Absent
<1>1. row[m] \in MovieRow \cup {Absent}
  BY DEF Kept
<1>2. row[m] # Absent => row[m].data \in 0 .. 2 * Day /\ row[m].cached \in 0 .. Day
  BY <1>1 DEF MovieRow
<1> QED BY <1>2 DEF Stored, Fresh

LEMMA TurnsOne ==
    ASSUME Heard, NEW r \in Requests, NEW q, Turns(r, q)
    PROVE  /\ req'[r] = q /\ Sound(q) /\ q \in Request
           /\ \A s \in Requests : s # r => req'[s] = req[s]
           /\ Heard'
<1>1. Sound(q) /\ q \in Request /\ req' = [req EXCEPT ![r] = q]
  BY DEF Turns, Sound
<1>2. req \in [Requests -> Request]
  BY DEF Heard
<1>3. req'[r] = q /\ \A s \in Requests : s # r => req'[s] = req[s]
  BY <1>1, <1>2
<1>4. req' \in [Requests -> Request]
  BY <1>1, <1>2
<1>5. \A s \in Requests : Sound(req'[s])
  BY <1>1, <1>3 DEF Heard
<1> QED BY <1>1, <1>3, <1>4, <1>5 DEF Heard

LEMMA DataType ==
    ASSUME Heard, NEW r \in Requests
    PROVE  req[r].data \in 0 .. 2 * Day /\ req[r].out \in SeqsUpTo(Movies, MaxResults)
  BY DEF Heard, Request

(* A row that is written.                                                  *)
LEMMA RowWritten ==
    ASSUME Kept, NEW m \in Movies, NEW age \in 0 .. 2 * Day,
           row' = [row EXCEPT ![m] = [data |-> age, cached |-> 0]]
    PROVE  /\ row' \in [Movies -> MovieRow \cup {Absent}]
           /\ row'[m].data = age /\ row'[m].cached = 0 /\ m \in Stored'
           /\ \A n \in Movies : n # m => row'[n] = row[n] /\ (n \in Stored' <=> n \in Stored)
           /\ Stored \subseteq Stored'
<1>1. row \in [Movies -> MovieRow \cup {Absent}]
  BY DEF Kept
<1>2. [data |-> age, cached |-> 0] \in MovieRow
  BY Limits DEF MovieRow
<1>3. row'[m] = [data |-> age, cached |-> 0] /\ \A n \in Movies : n # m => row'[n] = row[n]
  BY <1>1
<1>4. row' \in [Movies -> MovieRow \cup {Absent}]
  BY <1>1, <1>2
<1>5. row'[m].data = age /\ row'[m].cached = 0 /\ row'[m] # Absent
  BY <1>3 DEF Absent, None
<1> QED BY <1>3, <1>4, <1>5 DEF Stored

LEMMA KindsKept ==
    ASSUME Kept, Heard, NEW r \in Requests, NEW q, Turns(r, q), Kinds(req[r], q)
    PROVE  Kept' /\ Stored \subseteq Stored' /\ faults' = faults
<1> DEFINE p == req[r]
<1>1. CASE UNCHANGED <<row, detail, faults>>
  BY <1>1 DEF Kept, Stored
<1>2. CASE Keeps(p, q)
  <2>1. UNCHANGED <<row, faults>> /\ detail' \in {detail, [detail EXCEPT ![Title(p)] = 0]}
    BY <1>2 DEF Keeps
  <2>2. detail' \in [Movies -> {None} \cup 0 .. Day - 1]
    BY <2>1, Limits DEF Kept
  <2> QED BY <2>1, <2>2 DEF Kept, Stored
<1>3. CASE Writes(p, q)
  <2>1. p.pc \in Fetching /\ Title(p) \in Movies /\ p.data \in 0 .. 2 * Day
    BY <1>3, MovieIsTitle, DataType DEF Writes, Fetching
  <2>2. /\ row' = [row EXCEPT ![Title(p)] = [data |-> p.data, cached |-> 0]]
        /\ UNCHANGED <<detail, faults>>
    BY <1>3 DEF Writes
  <2>3. row' \in [Movies -> MovieRow \cup {Absent}] /\ Stored \subseteq Stored'
    BY <2>1, <2>2, RowWritten
  <2> QED BY <2>2, <2>3 DEF Kept
<1> QED BY <1>1, <1>2, <1>3 DEF Kinds, Passes, Misses, GoesOnWith, Loses, Answers, Caches

-----------------------------------------------------------------------------
(* What is in a list is stored.                                            *)

Held(s) == \A i \in 1 .. Len(s) : s[i] \in Stored

LEMMA GrowsHeld ==
    ASSUME NEW p, NEW q, p \in Request, Held(p.out), Grows(p, q), Stored \subseteq Stored'
    PROVE  Held(q.out)'
<1>1. CASE q.out = <<>>
  <2>1. Len(q.out) = 0
    BY <1>1, EmptySeq
  <2> QED BY <2>1 DEF Held
<1>2. CASE q.out = p.out
  BY <1>2 DEF Held
<1>3. CASE q.out = Append(p.out, Title(p)) /\ Title(p) \in Stored'
  <2>1. p.out \in Seq(Movies) /\ Title(p) \in Movies
    BY <1>3, Titles DEF Stored
  <2>2. /\ Len(q.out) = Len(p.out) + 1 /\ Len(p.out) \in Nat
        /\ \A i \in 1 .. Len(p.out) : q.out[i] = p.out[i]
        /\ q.out[Len(p.out) + 1] = Title(p)
    BY <1>3, <2>1, AppendProperties, LenProperties
  <2>3. ASSUME NEW i \in 1 .. Len(q.out) PROVE q.out[i] \in Stored'
    <3>1. i \in 1 .. Len(p.out) \/ i = Len(p.out) + 1
      BY <2>2
    <3> QED BY <1>3, <2>2, <3>1 DEF Held
  <2> QED BY <2>3 DEF Held
<1> QED BY <1>1, <1>2, <1>3 DEF Grows

LEMMA HeldLists ==
    ListsAreStored <=> /\ \A r \in Requests : Held(req[r].out)
                       /\ personal # NoList => Held(personal)
  BY DEF ListsAreStored, Held

LEMMA StaysHeld ==
    ASSUME NEW s, Held(s), Stored \subseteq Stored'
    PROVE  Held(s)'
  BY DEF Held

LEMMA RequestKeepsLists ==
    ASSUME ListsInvariant, NEW r \in Requests, NEW q, Turns(r, q), Kinds(req[r], q)
    PROVE  ListsInvariant'
<1> DEFINE p == req[r]
<1>1. Kept /\ Cached /\ Heard /\ ListsAreStored
  BY DEF ListsInvariant
<1>2. Kept' /\ Stored \subseteq Stored' /\ Heard'
  BY <1>1, KindsKept, TurnsOne
<1>3. p \in Request /\ req'[r] = q /\ \A s \in Requests : s # r => req'[s] = req[s]
  BY <1>1, TurnsOne DEF Heard
<1>4. \A s \in Requests : Held(req[s].out)
  BY <1>1, HeldLists
<1>5. Held(q.out)'
  BY <1>2, <1>3, <1>4, GrowsHeld DEF Turns
<1>6. ASSUME NEW s \in Requests PROVE (Held(req[s].out))'
  <2>1. CASE s = r
    BY <1>3, <1>5, <2>1 DEF Held
  <2>2. CASE s # r
    <3>1. Held(req[s].out)'
      BY <1>2, <1>4, <1>3, <2>2 DEF Held
    <3> QED BY <3>1
  <2> QED BY <2>1, <2>2
<1>7. personal' = personal \/ (p.pc = "finish" /\ personal' = p.out)
  BY DEF Kinds, Passes, Misses, GoesOnWith, Keeps, Loses, Writes, Answers, Caches
<1>8. p.pc = "finish" => p.out # <<>> /\ p.out \in SeqsUpTo(Movies, MaxResults)
  BY <1>1, <1>3, DataType DEF Heard, Sound, Shape
<1>9. Cached'
  BY <1>1, <1>7, <1>8 DEF Cached
<1>10. (personal # NoList => Held(personal))'
  BY <1>1, <1>2, <1>4, <1>7, HeldLists DEF Held
<1>11. ListsAreStored'
  BY <1>6, <1>10 DEF ListsAreStored, Held
<1> QED BY <1>2, <1>9, <1>11 DEF ListsInvariant

LEMMA CrashTurns ==
    ASSUME NEW r \in Requests, Crash(r)
    PROVE  /\ Turns(r, Idle) /\ faults' = faults + 1 /\ faults < MaxFaults
           /\ UNCHANGED <<row, detail, personal>>
  BY BackToIdle DEF Crash, Turns

LEMMA CrashKeepsLists ==
    ASSUME ListsInvariant, NEW r \in Requests, Crash(r)
    PROVE  ListsInvariant'
<1>1. /\ Turns(r, Idle) /\ faults' = faults + 1 /\ faults < MaxFaults
      /\ UNCHANGED <<row, detail, personal>>
  BY CrashTurns
<1>2. Kept /\ Cached /\ Heard /\ ListsAreStored
  BY DEF ListsInvariant
<1>3. Heard' /\ req'[r] = Idle /\ \A s \in Requests : s # r => req'[s] = req[s]
  BY <1>1, <1>2, TurnsOne
<1>4. Kept'
  BY <1>1, <1>2, Limits DEF Kept
<1>5. Cached'
  BY <1>1, <1>2 DEF Cached
<1>6. Stored' = Stored
  BY <1>1 DEF Stored
<1>7. Idle.out = <<>> /\ Len(<<>>) = 0
  BY EmptySeq DEF Idle
<1>8. ASSUME NEW s \in Requests, NEW i \in 1 .. Len(req'[s].out) PROVE req'[s].out[i] \in Stored'
  BY <1>2, <1>3, <1>6, <1>7 DEF ListsAreStored
<1>9. ListsAreStored'
  BY <1>1, <1>2, <1>6, <1>8 DEF ListsAreStored
<1> QED BY <1>3, <1>4, <1>5, <1>9 DEF ListsInvariant

(* A row and an answer that grow older.                                    *)
LEMMA Ageing ==
    ASSUME Kept, Tick, NEW m \in Movies
    PROVE  /\ detail[m] = None \/ detail[m] + 1 >= Day => detail'[m] = None
           /\ detail[m] # None /\ detail[m] + 1 < Day => detail'[m] = detail[m] + 1
           /\ m \in Stored' <=> m \in Stored
           /\ row[m] = Absent => row'[m] = Absent
           /\ m \in Stored =>
                /\ row'[m] \in MovieRow
                /\ row'[m].data = (IF row[m].data < 2 * Day THEN row[m].data + 1
                                   ELSE row[m].data)
                /\ row'[m].cached = (IF row[m].cached < Day THEN row[m].cached + 1
                                     ELSE row[m].cached)
<1>1. detail'[m] = DetailAge(detail[m])
  BY DEF Tick
<1>2. row'[m] = IF row[m] = Absent THEN Absent
                ELSE [data |-> Older(row[m].data, 2 * Day), cached |-> Older(row[m].cached, Day)]
  BY DEF Tick
<1>5. /\ detail[m] = None \/ detail[m] + 1 >= Day => detail'[m] = None
      /\ detail[m] # None /\ detail[m] + 1 < Day => detail'[m] = detail[m] + 1
  <2>1. detail[m] \in {None} \cup 0 .. Day - 1 /\ Day \in Nat
    BY Limits DEF Kept
  <2> QED BY <1>1, <2>1 DEF DetailAge, None
<1>3. CASE row[m] = Absent
  <2>1. row'[m] = Absent
    BY <1>2, <1>3
  <2>2. m \notin Stored /\ m \notin Stored'
    BY <1>3, <2>1 DEF Stored
  <2> QED BY <1>5, <2>1, <2>2
<1>4. CASE row[m] # Absent
  <2>1. row[m].data \in 0 .. 2 * Day /\ row[m].cached \in 0 .. Day
    BY <1>4, StoredRow DEF Stored
  <2>2. row'[m] = [data   |-> IF row[m].data < 2 * Day THEN row[m].data + 1 ELSE row[m].data,
                   cached |-> IF row[m].cached < Day THEN row[m].cached + 1 ELSE row[m].cached]
    BY <1>2, <1>4 DEF Older
  <2>3. row'[m] \in MovieRow
    BY <2>1, <2>2, Limits DEF MovieRow
  <2>4. row'[m].data >= 0
    BY <2>3, Limits DEF MovieRow
  <2>5. row'[m] # Absent
    BY <2>4 DEF Absent, None
  <2>6. m \in Stored /\ m \in Stored'
    BY <1>4, <2>5 DEF Stored
  <2> QED BY <1>4, <1>5, <2>2, <2>3, <2>6
<1> QED BY <1>3, <1>4

LEMMA TickKeepsLists ==
    ASSUME ListsInvariant, Tick
    PROVE  ListsInvariant'
<1>1. Kept /\ Cached /\ Heard /\ ListsAreStored /\ UNCHANGED <<personal, req, faults>>
  BY DEF ListsInvariant, Tick
<1>2. ASSUME NEW m \in Movies
      PROVE  row'[m] \in MovieRow \cup {Absent} /\ detail'[m] \in {None} \cup 0 .. Day - 1
  <2>1. row'[m] \in MovieRow \cup {Absent}
    BY <1>1, Ageing, StoredRow
  <2>2. detail[m] \in {None} \cup 0 .. Day - 1 /\ Day \in Nat
    BY <1>1, Limits DEF Kept
  <2>3. detail'[m] \in {None} \cup 0 .. Day - 1
    BY <1>1, <2>2, Ageing DEF None
  <2> QED BY <2>1, <2>3
<1>3. row' = [m \in Movies |-> row'[m]] /\ detail' = [m \in Movies |-> detail'[m]]
  BY DEF Tick
<1>4. /\ row' \in [Movies -> MovieRow \cup {Absent}]
      /\ detail' \in [Movies -> {None} \cup 0 .. Day - 1]
  BY <1>2, <1>3
<1>5. Kept'
  BY <1>1, <1>4 DEF Kept
<1>6. Stored' = Stored
  BY <1>1, Ageing DEF Stored
<1>7. Cached' /\ Heard'
  BY <1>1 DEF Cached, Heard
<1>8. ListsAreStored'
  BY <1>1, <1>6 DEF ListsAreStored
<1> QED BY <1>5, <1>7, <1>8 DEF ListsInvariant

LEMMA ExpiryKeepsLists ==
    ASSUME ListsInvariant, ListExpires \/ UNCHANGED listVars
    PROVE  ListsInvariant'
<1>1. Kept /\ Cached /\ Heard /\ ListsAreStored /\ UNCHANGED <<row, detail, req, faults>>
  BY DEF ListsInvariant, ListExpires, listVars
<1>2. personal' \in {personal, NoList}
  BY DEF ListExpires, listVars
<1>3. Stored' = Stored
  BY <1>1 DEF Stored
<1>4. Kept' /\ Cached' /\ Heard'
  BY <1>1, <1>2 DEF Kept, Cached, Heard
<1>5. ListsAreStored'
  BY <1>1, <1>2, <1>3 DEF ListsAreStored
<1> QED BY <1>4, <1>5 DEF ListsInvariant

LEMMA FirstLists ==
    ASSUME ListsInit
    PROVE  ListsInvariant
<1>1. Kept
  BY Limits DEF ListsInit, Kept
<1>2. Cached
  BY DEF ListsInit, Cached
<1>3. \A r \in Requests : req[r] = Idle
  BY DEF ListsInit
<1>4. Heard
  BY <1>3, IdleSound DEF ListsInit, Heard
<1>5. Idle.out = <<>> /\ Len(<<>>) = 0
  BY EmptySeq DEF Idle
<1>6. ListsAreStored
  BY <1>3, <1>5 DEF ListsInit, ListsAreStored
<1> QED BY <1>1, <1>2, <1>4, <1>6 DEF ListsInvariant

(* The invariant holds from start to end.                                  *)
THEOREM ListsInductive == ListsSpec => []ListsInvariant
<1>1. ASSUME ListsInvariant, [ListsNext]_listVars PROVE ListsInvariant'
  <2>1. ASSUME NEW r \in Requests, Start(r) \/ Step(r) PROVE ListsInvariant'
    <3>1. \E q : Turns(r, q) /\ Kinds(req[r], q)
      BY <1>1, <2>1, StepTurns DEF ListsInvariant
    <3> QED BY <1>1, <3>1, RequestKeepsLists
  <2>2. ASSUME NEW r \in Requests, Crash(r) PROVE ListsInvariant'
    BY <1>1, <2>2, CrashKeepsLists
  <2>3. CASE ListExpires \/ UNCHANGED listVars
    BY <1>1, <2>3, ExpiryKeepsLists
  <2>4. CASE Tick
    BY <1>1, <2>4, TickKeepsLists
  <2> QED BY <1>1, <2>1, <2>2, <2>3, <2>4 DEF ListsNext
<1> QED BY <1>1, FirstLists, PTL DEF ListsSpec

(* Whatever a list shows, on its way or cached, has a committed row, even  *)
(* when inserts collide, calls fail and requests crash in                  *)
(* _materialize_recommendations: a rating or a vote on it finds its movie. *)
THEOREM ListsStored == ListsSpec => []ListsAreStored
<1>1. ListsInvariant => ListsAreStored
  BY DEF ListsInvariant
<1> QED BY <1>1, ListsInductive, PTL

(* No list of _materialize_recommendations is longer than MAX_RESULTS, and *)
(* no call of the clients is tried more often than they allow.             *)
THEOREM ListsTypeCorrect == ListsSpec => []ListsTypeOK
<1>1. ListsInvariant => ListsTypeOK
  <2> SUFFICES ASSUME ListsInvariant PROVE ListsTypeOK
    OBVIOUS
  <2>1. {None} \cup 0 .. Day - 1 \subseteq {None} \cup 0 .. 2 * Day
    BY Limits
  <2>2. detail \in [Movies -> {None} \cup 0 .. 2 * Day]
    BY <2>1 DEF ListsInvariant, Kept
  <2> QED BY <2>2 DEF ListsInvariant, Kept, Cached, Heard, ListsTypeOK
<1> QED BY <1>1, ListsInductive, PTL

(* A list keeps the order in which the model named the movies and shows    *)
(* none twice, for every number of titles and whatever fails on the way;   *)
(* an empty list is never cached.                                          *)
THEOREM ListsInOrder == ListsSpec => []ListsFollowPicks
<1>1. ListsInvariant => ListsFollowPicks
  <2> SUFFICES ASSUME ListsInvariant PROVE ListsFollowPicks
    OBVIOUS
  <2>1. ASSUME NEW r \in Requests PROVE Within(req[r].out, req[r].picks)
    <3>1. PICK f : Places(f, req[r].out, req[r].picks, Reached(req[r]))
      BY DEF ListsInvariant, Heard, Sound
    <3> QED BY <3>1 DEF Places, Within
  <2>2. personal # <<>>
    BY Limits DEF ListsInvariant, Cached
  <2> QED BY <2>1, <2>2 DEF ListsFollowPicks
<1> QED BY <1>1, ListsInductive, PTL

-----------------------------------------------------------------------------
(* The ages.  In general the data of a fresh row are younger than a day    *)
(* when it is written.                                                     *)
Dated(m) == Fresh(m) => row[m].data <= row[m].cached + Day - 1
Ages == /\ \A m \in Movies : Dated(m)
        /\ \A r \in Requests : req[r].data < Day

(* As long as nothing has crashed, an answer in Redis has a row that is    *)
(* not older, or a request that is about to write one.                     *)
Backed(m) ==
    detail[m] # None =>
        \/ m \in Stored /\ row[m].cached <= detail[m]
        \/ /\ detail[m] = 0
           /\ \E r \in Requests : req[r].pc \in Writing /\ Title(req[r]) = m
Exact(m) == Fresh(m) => row[m].data = row[m].cached

(* What such a request has read is of this very moment.                    *)
InTime(q) ==
    /\ q.data = 0
    /\ q.pc \in Fetching => /\ detail[Title(q)] \in {None, 0}
                            /\ q.found = "absent" /\ Title(q) \in Stored
                                  => row[Title(q)].cached = 0
Timely == /\ \A m \in Movies : Backed(m) /\ Exact(m)
          /\ \A r \in Requests : InTime(req[r])

AgesInvariant == ListsInvariant /\ Ages /\ (faults = 0 => Timely)

LEMMA RequestKeepsAges ==
    ASSUME ListsInvariant, Ages, NEW r \in Requests, NEW q, Turns(r, q), Kinds(req[r], q)
    PROVE  Ages'
<1> DEFINE p == req[r]
<1>1. Kept /\ Heard /\ Day \in Nat /\ Day >= 1
  BY Limits DEF ListsInvariant
<1>2. req'[r] = q /\ \A s \in Requests : s # r => req'[s] = req[s]
  BY <1>1, TurnsOne
<1>3. q.data < Day
  <2>1. p.data < Day
    BY DEF Ages
  <2>2. CASE GoesOnWith(p, q)
    <3>1. Title(p) \in Movies /\ (q.data = p.data \/ (q.data = detail[Title(p)] /\ q.data # None))
      BY <2>2 DEF GoesOnWith, SameMovie
    <3> QED BY <1>1, <2>1, <3>1 DEF Kept
  <2>3. CASE ~GoesOnWith(p, q)
    <3>1. q.data \in {0, p.data}
      BY <2>3 DEF Kinds, Passes, Misses, Keeps, Loses, Writes, Answers, Leaves
    <3> QED BY <1>1, <2>1, <3>1
  <2> QED BY <2>2, <2>3
<1>4. \A s \in Requests : req'[s].data < Day
  BY <1>2, <1>3 DEF Ages
<1>5. ASSUME NEW m \in Movies PROVE Dated(m)'
  <2>1. CASE UNCHANGED row
    BY <2>1 DEF Ages, Dated, Fresh
  <2>2. CASE Writes(p, q)
    <3>1. p.pc \in Fetching /\ Title(p) \in Movies /\ p.data \in 0 .. 2 * Day /\ p.data < Day
      BY <1>1, <2>2, MovieIsTitle, DataType DEF Writes, Fetching, Ages
    <3>2. row' = [row EXCEPT ![Title(p)] = [data |-> p.data, cached |-> 0]]
      BY <2>2 DEF Writes
    <3>3. CASE m = Title(p)
      <4>1. row'[m].data = p.data /\ row'[m].cached = 0
        BY <1>1, <3>1, <3>2, <3>3, RowWritten
      <4> QED BY <1>1, <3>1, <4>1 DEF Dated
    <3>4. CASE m # Title(p)
      <4>1. row'[m] = row[m]
        BY <1>1, <3>1, <3>2, <3>4, RowWritten
      <4> QED BY <4>1 DEF Ages, Dated, Fresh
    <3> QED BY <3>3, <3>4
  <2> QED BY <2>1, <2>2 DEF Kinds, Passes, Misses, GoesOnWith, Keeps, Loses, Answers, Caches
<1> QED BY <1>4, <1>5 DEF Ages

LEMMA CrashKeepsAges ==
    ASSUME ListsInvariant, Ages, NEW r \in Requests, Crash(r)
    PROVE  Ages'
<1>1. Turns(r, Idle) /\ UNCHANGED <<row, detail, personal>> /\ Heard /\ Day >= 1
  BY CrashTurns, Limits DEF ListsInvariant
<1>2. req'[r] = Idle /\ \A s \in Requests : s # r => req'[s] = req[s]
  BY <1>1, TurnsOne
<1>3. Idle.data = 0
  BY DEF Idle
<1>4. \A s \in Requests : req'[s].data < Day
  BY <1>1, <1>2, <1>3, Limits DEF Ages
<1> QED BY <1>1, <1>4 DEF Ages, Dated, Fresh

LEMMA TickKeepsAges ==
    ASSUME ListsInvariant, Ages, Tick
    PROVE  Ages'
<1>1. Kept /\ UNCHANGED req /\ Day \in Nat /\ Day >= 1
  BY Limits DEF ListsInvariant, Tick
<1>2. ASSUME NEW m \in Movies, Fresh(m)' PROVE row'[m].data <= row'[m].cached + Day - 1
  <2>1. m \in Stored' /\ row'[m].cached < Day
    BY <1>2 DEF Fresh, Stored
  <2>2. /\ m \in Stored /\ row[m].data \in 0 .. 2 * Day /\ row[m].cached \in 0 .. Day
        /\ row'[m].data = (IF row[m].data < 2 * Day THEN row[m].data + 1 ELSE row[m].data)
        /\ row'[m].cached = (IF row[m].cached < Day THEN row[m].cached + 1 ELSE row[m].cached)
    BY <1>1, <2>1, Ageing, StoredRow
  <2>3. row[m].cached < Day
    BY <1>1, <2>1, <2>2
  <2>4. row[m].data <= row[m].cached + Day - 1
    BY <1>1, <2>2, <2>3, StoredRow DEF Ages, Dated
  <2> QED BY <1>1, <2>2, <2>3, <2>4
<1>3. \A m \in Movies : Dated(m)'
  BY <1>2 DEF Dated
<1> QED BY <1>1, <1>3 DEF Ages

-----------------------------------------------------------------------------
(* The same without a crash: how a request changes what others rely on.    *)

LEMMA PassKeepsTimely ==
    ASSUME ListsInvariant, Timely, NEW r \in Requests, NEW q, Turns(r, q),
           Passes(req[r], q) \/ Loses(req[r], q) \/ Answers(req[r], q)
    PROVE  Timely'
<1> DEFINE p == req[r]
<1>1. Heard /\ UNCHANGED <<row, detail>> /\ Leaves(p, q)
  BY DEF ListsInvariant, Passes, Loses, Answers, Caches
<1>2. req'[r] = q /\ \A s \in Requests : s # r => req'[s] = req[s]
  BY <1>1, TurnsOne
<1>3. Stored' = Stored /\ \A m : Fresh(m)' = Fresh(m)
  BY <1>1 DEF Stored, Fresh
<1>4. InTime(q)'
  BY <1>1, <1>2 DEF Timely, InTime, Leaves
<1>5. ASSUME NEW s \in Requests PROVE InTime(req[s])'
  <2>1. CASE s = r
    BY <1>2, <1>4, <2>1 DEF InTime
  <2>2. CASE s # r
    BY <1>1, <1>2, <1>3, <2>2 DEF Timely, InTime
  <2> QED BY <2>1, <2>2
<1>6. ASSUME NEW m \in Movies PROVE Exact(m)'
  BY <1>1, <1>3 DEF Timely, Exact
<1>7. ASSUME NEW m \in Movies PROVE Backed(m)'
  <2>1. CASE detail[m] = None
    BY <1>1, <2>1 DEF Backed
  <2>2. CASE m \in Stored /\ row[m].cached <= detail[m]
    BY <1>1, <1>3, <2>2 DEF Backed
  <2>3. CASE detail[m] = 0 /\ \E s \in Requests : req[s].pc \in Writing /\ Title(req[s]) = m
    <3>1. PICK s \in Requests : req[s].pc \in Writing /\ Title(req[s]) = m
      BY <2>3
    <3>2. CASE s # r
      BY <1>1, <1>2, <2>3, <3>1, <3>2 DEF Backed
    <3>3. CASE s = r
      <4>1. Loses(p, q)
        BY <3>1, <3>3 DEF Passes, Answers, Writing
      <4>2. m \in Stored /\ row[m].cached = 0
        BY <3>1, <3>3, <4>1 DEF Loses, Timely, InTime, Fetching
      <4> QED BY <1>1, <1>3, <2>3, <4>2 DEF Backed
    <3> QED BY <3>2, <3>3
  <2> QED BY <2>1, <2>2, <2>3 DEF Timely, Backed
<1> QED BY <1>5, <1>6, <1>7 DEF Timely

(* Neither the rows nor the answers change, and a request that is about to *)
(* write still is.                                                         *)
LEMMA WorkKeepsTimely ==
    ASSUME ListsInvariant, Timely, NEW r \in Requests, NEW q, Turns(r, q),
           Misses(req[r], q) \/ GoesOnWith(req[r], q)
    PROVE  Timely'
<1> DEFINE p == req[r]
           n == Title(p)
<1>1. /\ Kept /\ Heard /\ UNCHANGED <<row, detail>> /\ n \in Movies /\ Title(q) = n
      /\ q.pc \in Fetching /\ (p.pc \in Writing => q.pc \in Writing)
  BY DEF ListsInvariant, Misses, GoesOnWith, SameMovie, Caches, Writing
<1>2. req'[r] = q /\ \A s \in Requests : s # r => req'[s] = req[s]
  BY <1>1, TurnsOne
<1>3. Stored' = Stored /\ \A m : Fresh(m)' = Fresh(m)
  BY <1>1 DEF Stored, Fresh
<1>4. InTime(q)
  <2>1. CASE Misses(p, q)
    <3>1. q.data = 0 /\ ~Fresh(n) /\ (q.found = "absent" => n \notin Stored)
      BY <2>1 DEF Misses, Timely, InTime
    <3>2. detail[n] \in {None} \cup 0 .. Day - 1 /\ Day \in Nat
      BY <1>1, Limits DEF Kept
    <3>3. ~(n \in Stored /\ row[n].cached <= detail[n] /\ detail[n] # None)
      BY <1>1, <3>1, <3>2, StoredRow DEF None
    <3>4. Backed(n)
      BY <1>1 DEF Timely
    <3>5. detail[n] \in {None, 0}
      BY <3>3, <3>4 DEF Backed
    <3> QED BY <1>1, <3>1, <3>5 DEF InTime
  <2>2. CASE GoesOnWith(p, q)
    <3>1. p.data = 0 /\ detail[n] \in {None, 0}
      BY <2>2 DEF GoesOnWith, Timely, InTime
    <3>2. q.data = 0 /\ q.found = p.found
      BY <2>2, <3>1 DEF GoesOnWith
    <3>3. p.found = "absent" /\ n \in Stored => row[n].cached = 0
      BY <2>2 DEF GoesOnWith, Timely, InTime
    <3> QED BY <1>1, <3>1, <3>2, <3>3 DEF InTime
  <2> QED BY <2>1, <2>2
<1>5. ASSUME NEW s \in Requests PROVE InTime(req[s])'
  <2>1. CASE s = r
    BY <1>1, <1>2, <1>3, <1>4, <2>1 DEF InTime
  <2>2. CASE s # r
    BY <1>1, <1>2, <1>3, <2>2 DEF Timely, InTime
  <2> QED BY <2>1, <2>2
<1>6. ASSUME NEW m \in Movies PROVE Exact(m)'
  BY <1>1, <1>3 DEF Timely, Exact
<1>7. ASSUME NEW m \in Movies PROVE Backed(m)'
  <2>1. CASE \E s \in Requests : req[s].pc \in Writing /\ Title(req[s]) = m
    <3>1. PICK s \in Requests : req[s].pc \in Writing /\ Title(req[s]) = m
      BY <2>1
    <3>2. req'[s].pc \in Writing /\ Title(req'[s]) = m
      BY <1>1, <1>2, <3>1
    <3> QED BY <1>1, <1>3, <3>2 DEF Timely, Backed
  <2>2. CASE ~\E s \in Requests : req[s].pc \in Writing /\ Title(req[s]) = m
    BY <1>1, <1>3, <2>2 DEF Timely, Backed
  <2> QED BY <2>1, <2>2
<1> QED BY <1>5, <1>6, <1>7 DEF Timely

(* TMDB's answer of this moment, with the request about to write it.       *)
LEMMA AnswerKeepsTimely ==
    ASSUME ListsInvariant, Timely, NEW r \in Requests, NEW q, Turns(r, q), Keeps(req[r], q)
    PROVE  Timely'
<1> DEFINE p == req[r]
           n == Title(p)
<1>1. /\ Kept /\ Heard /\ UNCHANGED row /\ n \in Movies /\ Title(q) = n
      /\ p.pc = "store" /\ p.pc \in Fetching /\ p.pc \notin Writing
      /\ q.pc \in Fetching /\ q.pc \in Writing /\ q.data = p.data /\ q.found = p.found
      /\ detail' \in {detail, [detail EXCEPT ![n] = 0]}
  BY DEF ListsInvariant, Keeps, SameMovie, Writing, Fetching
<1>2. req'[r] = q /\ \A s \in Requests : s # r => req'[s] = req[s]
  BY <1>1, TurnsOne
<1>3. Stored' = Stored /\ \A m : Fresh(m)' = Fresh(m)
  BY <1>1 DEF Stored, Fresh
<1>4. /\ \A m \in Movies : m # n => detail'[m] = detail[m]
      /\ detail'[n] \in {detail[n], 0}
  BY <1>1 DEF Kept
<1>5. ASSUME NEW s \in Requests PROVE InTime(req[s])'
  <2>1. InTime(req[s])
    BY DEF Timely
  <2>2. CASE s = r
    <3>1. q.data = 0 /\ detail'[Title(q)] \in {None, 0}
      BY <1>1, <1>4, <2>1, <2>2 DEF InTime
    <3>2. q.found = "absent" /\ Title(q) \in Stored => row[Title(q)].cached = 0
      BY <1>1, <2>1, <2>2 DEF InTime
    <3> QED BY <1>1, <1>2, <1>3, <2>2, <3>1, <3>2 DEF InTime
  <2>3. CASE s # r
    <3>1. req[s].pc \in Fetching => Title(req[s]) \in Movies
      BY <1>1, MovieIsTitle
    <3>2. req[s].pc \in Fetching => detail'[Title(req[s])] \in {None, 0}
      BY <1>4, <2>1, <3>1 DEF InTime
    <3> QED BY <1>1, <1>2, <1>3, <2>1, <2>3, <3>2 DEF InTime
  <2> QED BY <2>2, <2>3
<1>6. ASSUME NEW m \in Movies PROVE Exact(m)'
  BY <1>1, <1>3 DEF Timely, Exact
<1>7. ASSUME NEW m \in Movies PROVE Backed(m)'
  <2>1. CASE m = n
    <3>1. Backed(n)
      BY <2>1 DEF Timely
    <3>2. detail'[n] # None => detail'[n] = 0 \/ (n \in Stored /\ row[n].cached <= detail'[n])
      BY <1>4, <3>1 DEF Backed
    <3>3. req'[r].pc \in Writing /\ Title(req'[r]) = n
      BY <1>1, <1>2
    <3> QED BY <1>1, <1>3, <2>1, <3>2, <3>3 DEF Backed
  <2>2. CASE m # n
    <3>1. Backed(m) /\ detail'[m] = detail[m]
      BY <1>4, <2>2 DEF Timely
    <3>2. CASE \E s \in Requests : req[s].pc \in Writing /\ Title(req[s]) = m
      <4>1. PICK s \in Requests : req[s].pc \in Writing /\ Title(req[s]) = m
        BY <3>2
      <4>2. req'[s].pc \in Writing /\ Title(req'[s]) = m
        BY <1>1, <1>2, <4>1
      <4> QED BY <1>1, <1>3, <3>1, <4>2 DEF Backed
    <3>3. CASE ~\E s \in Requests : req[s].pc \in Writing /\ Title(req[s]) = m
      BY <1>1, <1>3, <3>1, <3>3 DEF Backed
    <3> QED BY <3>2, <3>3
  <2> QED BY <2>1, <2>2
<1> QED BY <1>5, <1>6, <1>7 DEF Timely

(* A row with data of this moment.                                         *)
LEMMA WriteKeepsTimely ==
    ASSUME ListsInvariant, Timely, NEW r \in Requests, NEW q, Turns(r, q), Writes(req[r], q)
    PROVE  Timely'
<1> DEFINE p == req[r]
           n == Title(p)
<1>1. /\ Kept /\ Heard /\ UNCHANGED detail /\ p.pc = "commit" /\ Leaves(p, q)
      /\ row' = [row EXCEPT ![n] = [data |-> p.data, cached |-> 0]]
  BY DEF ListsInvariant, Writes
<1>2. req'[r] = q /\ \A s \in Requests : s # r => req'[s] = req[s]
  BY <1>1, TurnsOne
<1>3. n \in Movies /\ p.data \in 0 .. 2 * Day /\ p.data = 0
  BY <1>1, MovieIsTitle, DataType DEF Fetching, Timely, InTime
<1>4. /\ row'[n].data = 0 /\ row'[n].cached = 0 /\ n \in Stored'
      /\ \A m \in Movies : m # n => row'[m] = row[m] /\ (m \in Stored' <=> m \in Stored)
  BY <1>1, <1>3, RowWritten
<1>5. ASSUME NEW s \in Requests PROVE InTime(req[s])'
  <2>1. CASE s = r
    BY <1>1, <1>2, <1>3, <2>1 DEF InTime, Leaves
  <2>2. CASE s # r
    <3>1. InTime(req[s]) /\ req'[s] = req[s]
      BY <1>2, <2>2 DEF Timely
    <3>2. req[s].pc \in Fetching => Title(req[s]) \in Movies
      BY <1>1, MovieIsTitle
    <3>3. req[s].pc \in Fetching /\ req[s].found = "absent" /\ Title(req[s]) \in Stored'
             => row'[Title(req[s])].cached = 0
      BY <1>4, <3>1, <3>2 DEF InTime
    <3> QED BY <1>1, <3>1, <3>3 DEF InTime
  <2> QED BY <2>1, <2>2
<1>6. ASSUME NEW m \in Movies PROVE Exact(m)'
  <2>1. CASE m = n
    BY <1>4, <2>1 DEF Exact
  <2>2. CASE m # n
    BY <1>4, <2>2 DEF Timely, Exact, Fresh
  <2> QED BY <2>1, <2>2
<1>7. ASSUME NEW m \in Movies PROVE Backed(m)'
  <2>1. CASE m = n
    <3>1. detail[n] # None => 0 <= detail[n]
      BY <1>1, <1>3, Limits DEF Kept
    <3> QED BY <1>1, <1>4, <2>1, <3>1 DEF Backed
  <2>2. CASE m # n
    <3>1. Backed(m) /\ row'[m] = row[m] /\ (m \in Stored' <=> m \in Stored)
      BY <1>4, <2>2 DEF Timely
    <3>2. CASE \E s \in Requests : req[s].pc \in Writing /\ Title(req[s]) = m
      <4>1. PICK s \in Requests : req[s].pc \in Writing /\ Title(req[s]) = m
        BY <3>2
      <4>2. req'[s].pc \in Writing /\ Title(req'[s]) = m
        BY <1>2, <2>2, <4>1
      <4> QED BY <1>1, <3>1, <4>2 DEF Backed
    <3>3. CASE ~\E s \in Requests : req[s].pc \in Writing /\ Title(req[s]) = m
      BY <1>1, <3>1, <3>3 DEF Backed
    <3> QED BY <3>2, <3>3
  <2> QED BY <2>1, <2>2
<1> QED BY <1>5, <1>6, <1>7 DEF Timely

(* A tick finds every request idle, so an answer has its row and both grow *)
(* older together.                                                         *)
LEMMA TickKeepsTimely ==
    ASSUME ListsInvariant, Timely, Tick
    PROVE  Timely'
<1>1. /\ Kept /\ UNCHANGED req /\ Day \in Nat /\ Day >= 1
      /\ \A r \in Requests : req[r].pc = "idle"
  BY Limits DEF ListsInvariant, Tick
<1>2. \A r \in Requests : req[r].pc \notin Fetching /\ req[r].pc \notin Writing
  BY <1>1 DEF Fetching, Writing
<1>3. \A r \in Requests : InTime(req[r])'
  BY <1>1, <1>2 DEF Timely, InTime
<1>4. ASSUME NEW m \in Movies, Fresh(m)' PROVE row'[m].data = row'[m].cached
  <2>1. m \in Stored' /\ row'[m].cached < Day
    BY <1>4 DEF Fresh, Stored
  <2>2. /\ m \in Stored /\ row[m].data \in 0 .. 2 * Day /\ row[m].cached \in 0 .. Day
        /\ row'[m].data = (IF row[m].data < 2 * Day THEN row[m].data + 1 ELSE row[m].data)
        /\ row'[m].cached = (IF row[m].cached < Day THEN row[m].cached + 1 ELSE row[m].cached)
    BY <1>1, <2>1, Ageing, StoredRow
  <2>3. row[m].cached < Day
    BY <1>1, <2>1, <2>2
  <2>4. row[m].data = row[m].cached
    BY <1>1, <2>2, <2>3, StoredRow DEF Timely, Exact
  <2> QED BY <1>1, <2>2, <2>3, <2>4
<1>5. ASSUME NEW m \in Movies, detail'[m] # None
      PROVE  m \in Stored' /\ row'[m].cached <= detail'[m]
  <2>1. detail[m] # None /\ detail[m] + 1 < Day /\ detail'[m] = detail[m] + 1
    <3>1. detail[m] \in {None} \cup 0 .. Day - 1
      BY <1>1 DEF Kept
    <3> QED BY <1>1, <1>5, <3>1, Ageing DEF None
  <2>2. m \in Stored /\ row[m].cached <= detail[m]
    BY <1>2, <2>1 DEF Timely, Backed
  <2>3. /\ row[m].cached \in 0 .. Day /\ m \in Stored'
        /\ row'[m].cached = (IF row[m].cached < Day THEN row[m].cached + 1 ELSE row[m].cached)
    BY <1>1, <2>2, Ageing, StoredRow
  <2>4. detail[m] \in 0 .. Day - 1
    BY <1>1, <2>1 DEF Kept
  <2> QED BY <1>1, <2>1, <2>2, <2>3, <2>4
<1>6. \A m \in Movies : Backed(m)' /\ Exact(m)'
  BY <1>4, <1>5 DEF Backed, Exact
<1> QED BY <1>3, <1>6 DEF Timely

LEMMA FirstAges ==
    ASSUME ListsInit
    PROVE  AgesInvariant
<1>1. ListsInvariant /\ Day >= 1
  BY FirstLists, Limits
<1>2. \A r \in Requests : req[r].data = 0 /\ req[r].pc = "idle"
  BY DEF ListsInit, Idle
<1>3. \A m \in Movies : ~Fresh(m) /\ detail[m] = None
  BY DEF ListsInit, Fresh
<1>4. Ages
  BY <1>1, <1>2, <1>3, Limits DEF Ages, Dated
<1>5. Timely
  BY <1>2, <1>3 DEF Timely, Backed, Exact, InTime, Fetching
<1> QED BY <1>1, <1>4, <1>5 DEF AgesInvariant

LEMMA RequestKeepsTimely ==
    ASSUME ListsInvariant, Timely, NEW r \in Requests, NEW q, Turns(r, q), Kinds(req[r], q)
    PROVE  Timely'
  BY PassKeepsTimely, WorkKeepsTimely, AnswerKeepsTimely, WriteKeepsTimely DEF Kinds

(* The ages of both caches hang together from start to end.                *)
THEOREM AgesInductive == ListsSpec => []AgesInvariant
<1>1. ASSUME AgesInvariant, [ListsNext]_listVars PROVE AgesInvariant'
  <2>1. ListsInvariant /\ Ages /\ (faults = 0 => Timely) /\ faults \in Nat
    BY <1>1, Limits DEF AgesInvariant, ListsInvariant, Kept
  <2>2. ASSUME NEW r \in Requests, Start(r) \/ Step(r) PROVE AgesInvariant'
    <3>1. PICK q : Turns(r, q) /\ Kinds(req[r], q)
      BY <2>1, <2>2, StepTurns DEF ListsInvariant
    <3>2. ListsInvariant' /\ Ages'
      BY <2>1, <3>1, RequestKeepsLists, RequestKeepsAges
    <3>3. faults' = faults
      BY <2>1, <3>1, KindsKept DEF ListsInvariant
    <3>4. faults' = 0 => Timely'
      BY <2>1, <3>1, <3>3, RequestKeepsTimely
    <3> QED BY <3>2, <3>4 DEF AgesInvariant
  <2>3. ASSUME NEW r \in Requests, Crash(r) PROVE AgesInvariant'
    <3>1. faults' = faults + 1
      BY <2>3, CrashTurns
    <3>2. faults' # 0
      BY <2>1, <3>1
    <3> QED BY <2>1, <2>3, <3>2, CrashKeepsLists, CrashKeepsAges DEF AgesInvariant
  <2>4. CASE ListExpires \/ UNCHANGED listVars
    <3>1. UNCHANGED <<row, detail, req, faults>>
      BY <2>4 DEF ListExpires, listVars
    <3>2. Ages'
      BY <2>1, <3>1 DEF Ages, Dated, Fresh
    <3>3. faults' = 0 => Timely'
      BY <2>1, <3>1 DEF Timely, Backed, Exact, InTime, Fresh, Stored
    <3> QED BY <2>1, <2>4, <3>2, <3>3, ExpiryKeepsLists DEF AgesInvariant
  <2>5. CASE Tick
    <3>1. faults' = faults
      BY <2>5 DEF Tick
    <3> QED BY <2>1, <2>5, <3>1, TickKeepsLists, TickKeepsAges, TickKeepsTimely DEF AgesInvariant
  <2> QED BY <1>1, <2>2, <2>3, <2>4, <2>5 DEF ListsNext
<1> QED BY <1>1, FirstAges, PTL DEF ListsSpec

(* What fetch_and_cache_movie takes for fresh is data of the last day,     *)
(* although it passes two caches of a day each; only a crash between the   *)
(* answer of TMDB and the commit of its row lets the two add up.           *)
THEOREM MetadataIsRecent == ListsSpec => []MetadataAge
<1>1. AgesInvariant => MetadataAge
  <2> SUFFICES ASSUME AgesInvariant, NEW m \in Movies, Fresh(m)
               PROVE  row[m].data < (IF faults = 0 THEN Day ELSE 2 * Day)
    BY DEF MetadataAge
  <2>1. /\ row[m].data \in 0 .. 2 * Day /\ row[m].cached \in 0 .. Day
        /\ row[m].cached < Day /\ Day \in Nat
    BY StoredRow, Limits DEF AgesInvariant, ListsInvariant
  <2>2. CASE faults = 0
    BY <2>1, <2>2 DEF AgesInvariant, Timely, Exact
  <2>3. CASE faults # 0
    <3>1. row[m].data <= row[m].cached + Day - 1
      BY DEF AgesInvariant, Ages, Dated
    <3> QED BY <2>1, <2>3, <3>1
  <2> QED BY <2>2, <2>3
<1> QED BY <1>1, AgesInductive, PTL

=============================================================================
