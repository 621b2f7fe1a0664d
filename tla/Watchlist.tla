----------------------------- MODULE Watchlist -----------------------------
(***************************************************************************)
(* The watchlist of one user, for one movie: the endpoints of              *)
(* backend/app/routers/watchlist.py with the table of                      *)
(* models/watchlist.py, and the pages that call them: the tile of          *)
(* frontend/src/components/watchlist-tile.tsx on the profile page and the  *)
(* button of app/movies/[id]/page.tsx.  Several browser tabs are open.     *)
(*                                                                         *)
(*   rows     the rows of watchlist_items: whether watched is set, and     *)
(*            whether watched_at is                                        *)
(*   used     the ids that were drawn for a row                            *)
(*   call     the requests: what they are, and how far they have come      *)
(*   data     what the query cache of each tab holds for my-watchlist      *)
(*   query    the fetch of that query: none, asked, or read (with what)    *)
(*   stale    whether the cache entry has been invalidated                 *)
(*   tile     the mounted tile of each tab, with its own watched flag and  *)
(*            the request its buttons wait for                             *)
(*   overlap  (history) whether two updates or removals overlapped         *)
(*   hurried  (history) tabs that left the list while something of theirs  *)
(*            was under way, or that lost an answer                        *)
(* A cache entry is good for 30 seconds; that they have passed is a choice *)
(* whenever the list is shown.  The button of the movie page goes by a     *)
(* lookup of its own that may be as old, so it can be pressed at any time. *)
(***************************************************************************)
EXTENDS Integers, FiniteSets

CONSTANTS
    Tabs,
    Ids,        \* ids for rows, a bound on the additions
    Calls,      \* the requests there can be at one time
    NoRow, NoCall, Unknown

ASSUME WatchlistAssumption == NoCall \notin Calls /\ NoRow # Unknown

VARIABLES rows, used, call, data, query, stale, tile, overlap, hurried

server == <<rows, used>>
cache == <<data, query, stale>>
history == <<overlap, hurried>>
vars == <<rows, used, call, data, query, stale, tile, overlap, hurried>>

Row == [watched : BOOLEAN, at : BOOLEAN]
Listed == {i \in Ids : rows[i] # NoRow}

(* What list_my_watchlist answers: the item of the movie, or none.         *)
Answer == IF Listed = {} THEN NoRow
          ELSE LET i == CHOOSE i \in Listed : TRUE IN [id |-> i, watched |-> rows[i].watched]
Item == [id : Ids, watched : BOOLEAN]
Tile == [id : Ids, watched : BOOLEAN, waits : Calls \cup {NoCall}]

ASSUME MarkersAssumption ==
    NoRow \notin Row /\ NoRow \notin Item /\ NoRow \notin Tile /\ Unknown \notin Item

Blank == [phase |-> "free", kind |-> "none", tab |-> NoRow, id |-> NoRow, next |-> FALSE,
          found |-> NoRow]
Call == [phase : {"sent", "read", "refused", "done"}, kind : {"add", "patch", "delete"},
         tab : Tabs, id : Ids, next : BOOLEAN, found : Row \cup Item \cup {NoRow}]

InFlight(c) == call[c] # Blank
Changing == {c \in Calls : InFlight(c) /\ call[c].kind # "add"}

Init ==
    /\ rows = [i \in Ids |-> NoRow] /\ used = {}
    /\ call = [c \in Calls |-> Blank]
    /\ data = [t \in Tabs |-> Unknown]
    /\ query = [t \in Tabs |-> [phase |-> "none"]]
    /\ stale = [t \in Tabs |-> FALSE]
    /\ tile = [t \in Tabs |-> NoRow]
    /\ overlap = FALSE /\ hurried = {}

-----------------------------------------------------------------------------
(* The pages.  A tile keeps the flag it was mounted with: useState takes   *)
(* its argument once, and tiles are keyed by the id of the item.  (Show is *)
(* also the answer of the query that brings the first tile.)               *)
Mounted(t, d) ==
    IF d \in {NoRow, Unknown} THEN NoRow
    ELSE IF tile[t] # NoRow /\ tile[t].id = d.id THEN tile[t]
    ELSE [id |-> d.id, watched |-> d.watched, waits |-> NoCall]

Asked == [phase |-> "asked"]

Show(t) ==
    /\ tile[t] = NoRow
    /\ tile' = [tile EXCEPT ![t] = Mounted(t, data[t])]
    /\ \E old \in BOOLEAN :
        LET ask == data[t] = Unknown \/ stale[t] \/ old
        IN  /\ query' = [query EXCEPT ![t] = IF ask /\ @.phase = "none" THEN Asked ELSE @]
            /\ stale' = [stale EXCEPT ![t] = @ /\ ~ask]
    /\ UNCHANGED <<server, call, data, history>>

Hide(t) ==
    /\ tile[t] # NoRow
    /\ tile' = [tile EXCEPT ![t] = NoRow]
    /\ hurried' = IF tile[t].waits # NoCall \/ query[t].phase # "none"
                  THEN hurried \cup {t} ELSE hurried
    /\ UNCHANGED <<server, call, cache, overlap>>

Send(c, t, kind, id, next) ==
    /\ ~InFlight(c)
    /\ call' = [call EXCEPT ![c] = [phase |-> "sent", kind |-> kind, tab |-> t, id |-> id,
                                   next |-> next, found |-> NoRow]]
    /\ overlap' = (overlap \/ (kind # "add" /\ Changing # {}))

(* toggleWatched and remove; the buttons of the tile wait for the answer.  *)
Toggle(c, t) ==
    /\ tile[t] # NoRow /\ tile[t].waits = NoCall
    /\ Send(c, t, "patch", tile[t].id, ~tile[t].watched)
    /\ tile' = [tile EXCEPT ![t].watched = ~@, ![t].waits = c]
    /\ UNCHANGED <<server, cache, hurried>>
Remove(c, t) ==
    /\ tile[t] # NoRow /\ tile[t].waits = NoCall
    /\ Send(c, t, "delete", tile[t].id, FALSE)
    /\ tile' = [tile EXCEPT ![t].waits = c]
    /\ UNCHANGED <<server, cache, hurried>>

(* addToWatchlist, on the page of the movie.                               *)
Add(c, t) ==
    /\ tile[t] = NoRow
    /\ \E i \in Ids \ used : Send(c, t, "add", i, FALSE)
    /\ used' = used \cup {call'[c].id}
    /\ UNCHANGED <<rows, cache, tile, hurried>>

-----------------------------------------------------------------------------
(* The requests: read the row, change it and commit, answer.               *)

Begin(c) ==
    /\ call[c].phase = "sent"
    /\ LET found == IF call[c].kind = "add" THEN Answer ELSE rows[call[c].id]
       IN  call' = [call EXCEPT ![c].found = found,
                ![c].phase = IF call[c].kind # "add" /\ found = NoRow THEN "refused" ELSE "read"]
    /\ UNCHANGED <<server, cache, tile, history>>

Ended(c, how) == call' = [call EXCEPT ![c].phase = how]

New == [watched |-> FALSE, at |-> FALSE]

(* An addition that found no row inserts one; the unique constraint        *)
(* refuses a second one.                                                   *)
AddCommitTwice(c) ==                                           \* mutant of AddCommit
    /\ call[c].phase = "read" /\ call[c].kind = "add"
    /\ rows' = IF call[c].found = NoRow
               THEN [rows EXCEPT ![call[c].id] = New] ELSE rows
    /\ Ended(c, "done")
    /\ UNCHANGED <<used, cache, tile, history>>
AddCommit(c) ==
    /\ call[c].phase = "read" /\ call[c].kind = "add"
    /\ rows' = IF call[c].found = NoRow /\ Listed = {}
               THEN [rows EXCEPT ![call[c].id] = New] ELSE rows
    /\ Ended(c, IF call[c].found = NoRow /\ Listed # {} THEN "refused" ELSE "done")
    /\ UNCHANGED <<used, cache, tile, history>>

(* The columns that differ from what was read are written, watched_at with *)
(* a new time; an update that finds no row any more is an error.           *)
Updated(old, found, next) ==
    [watched |-> IF next = found.watched THEN old.watched ELSE next,
     at |-> IF next = found.at /\ ~next THEN old.at ELSE next]

PatchCommitUpserts(c) ==                                       \* mutant of PatchCommit
    /\ call[c].phase = "read" /\ call[c].kind = "patch"
    /\ rows' = [rows EXCEPT ![call[c].id] =
                    [watched |-> call[c].next, at |-> call[c].next]]
    /\ Ended(c, "done")
    /\ UNCHANGED <<used, cache, tile, history>>
PatchCommit(c) ==
    /\ call[c].phase = "read" /\ call[c].kind = "patch"
    /\ LET found == call[c].found
           same == ~call[c].next /\ ~found.watched /\ ~found.at
           gone == rows[call[c].id] = NoRow
       IN  /\ rows' = IF same \/ gone THEN rows
                      ELSE [rows EXCEPT ![call[c].id] = Updated(@, found, call[c].next)]
           /\ Ended(c, IF gone /\ ~same THEN "refused" ELSE "done")
    /\ UNCHANGED <<used, cache, tile, history>>

(* A row that is gone already is no error for a DELETE.                    *)
DeleteCommit(c) ==
    /\ call[c].phase = "read" /\ call[c].kind = "delete"
    /\ rows' = [rows EXCEPT ![call[c].id] = NoRow]
    /\ Ended(c, "done")
    /\ UNCHANGED <<used, cache, tile, history>>

(* A request fails before its commit.                                      *)
Fails(c) ==
    /\ call[c].phase \in {"sent", "read"}
    /\ Ended(c, "refused")
    /\ UNCHANGED <<server, cache, tile, history>>

-----------------------------------------------------------------------------
(* The answers.                                                            *)

(* The tile that asked, if it is still mounted, ...                        *)
Waiting(c) == tile[call[c].tab] # NoRow /\ tile[call[c].tab].waits = c

(* ... takes its flag back when the answer is an error.                    *)
RevertedKept(c) == [tile[call[c].tab] EXCEPT !.waits = NoCall] \* mutant of Reverted
Reverted(c) ==
    [tile[call[c].tab] EXCEPT !.waits = NoCall,
                              !.watched = IF call[c].kind = "patch" THEN ~call[c].next ELSE @]

Failed(c) ==
    /\ call' = [call EXCEPT ![c] = Blank]
    /\ tile' = IF Waiting(c) THEN [tile EXCEPT ![call[c].tab] = Reverted(c)] ELSE tile
    /\ UNCHANGED <<server, cache>>

(* invalidateQueries asks again when a page shows the query, and marks the *)
(* cache entry otherwise; the profile page may show it without the tiles.  *)
Answered(c) ==
    /\ call[c].phase = "done"
    /\ call' = [call EXCEPT ![c] = Blank]
    /\ tile' = IF Waiting(c) THEN [tile EXCEPT ![call[c].tab].waits = NoCall] ELSE tile
    /\ LET t == call[c].tab
       IN  IF call[c].kind = "add" THEN UNCHANGED cache
           ELSE \E active \in BOOLEAN :
                /\ tile[t] # NoRow => active
                /\ query' = IF active THEN [query EXCEPT ![t] = Asked] ELSE query
                /\ stale' = IF active THEN stale ELSE [stale EXCEPT ![t] = TRUE]
                /\ UNCHANGED data
    /\ UNCHANGED <<server, history>>

(* A refusal, or the answer to a committed request that is lost.           *)
Refused(c) ==
    /\ call[c].phase = "refused"
    /\ Failed(c)
    /\ UNCHANGED history

AnswerLost(c) ==
    /\ call[c].phase = "done"
    /\ Failed(c)
    /\ hurried' = hurried \cup {call[c].tab}
    /\ UNCHANGED overlap

QueryRead(t) ==
    /\ query[t].phase = "asked"
    /\ query' = [query EXCEPT ![t] = [phase |-> "read", got |-> Answer]]
    /\ UNCHANGED <<server, call, data, stale, tile, history>>

QueryAnswered(t) ==
    /\ query[t].phase = "read"
    /\ query' = [query EXCEPT ![t] = [phase |-> "none"]]
    /\ data' = [data EXCEPT ![t] = query[t].got]
    /\ tile' = IF tile[t] = NoRow THEN tile
               ELSE [tile EXCEPT ![t] = Mounted(t, query[t].got)]
    /\ UNCHANGED <<server, call, stale, history>>

(* A query that fails, its second attempt included, leaves the cache.      *)
QueryFails(t) ==
    /\ query[t].phase # "none"
    /\ query' = [query EXCEPT ![t] = [phase |-> "none"]]
    /\ hurried' = hurried \cup {t}
    /\ UNCHANGED <<server, call, data, stale, tile, overlap>>

-----------------------------------------------------------------------------
Handler(c) ==
    \/ Begin(c) \/ AddCommit(c) \/ PatchCommit(c) \/ DeleteCommit(c) \/ Fails(c)
    \/ Answered(c) \/ Refused(c) \/ AnswerLost(c)

Next ==
    \/ \E t \in Tabs : Show(t) \/ Hide(t) \/ QueryRead(t) \/ QueryAnswered(t) \/ QueryFails(t)
    \/ \E c \in Calls, t \in Tabs : Toggle(c, t) \/ Remove(c, t) \/ Add(c, t)
    \/ \E c \in Calls : Handler(c)

Spec == Init /\ [][Next]_vars

-----------------------------------------------------------------------------
(* Properties.                                                             *)

TypeOK ==
    /\ rows \in [Ids -> Row \cup {NoRow}] /\ used \subseteq Ids
    /\ call \in [Calls -> Call \cup {Blank}]
    /\ data \in [Tabs -> Item \cup {NoRow, Unknown}]
    /\ stale \in [Tabs -> BOOLEAN]
    /\ \A t \in Tabs : query[t].phase \in {"none", "asked", "read"}
    /\ tile \in [Tabs -> {NoRow} \cup Tile]
    /\ overlap \in BOOLEAN /\ hurried \subseteq Tabs

(* A movie is at most once on the list, however additions interleave.      *)
OneItem == Cardinality(Listed) <= 1

(* An item has a time of watching exactly if it is watched, unless changes *)
(* of it have overlapped: each writes only the columns it saw differ.      *)
WatchedHasTime == ~overlap => \A i \in Listed : rows[i].watched = rows[i].at

(* A removed item does not come back by an update that was under way.      *)
RemovedStaysAway ==
    [][\A i \in Ids : rows[i] = NoRow /\ rows'[i] # NoRow
            => \E c \in Calls : call[c].id = i /\ call[c].kind = "add"]_vars

(* A tile whose buttons wait, waits for a request of its own tab that is   *)
(* under way, so that no answer that is late, or lost, or meant for an     *)
(* earlier tile leaves it without its buttons.                             *)
WaitsForItsOwn ==
    \A t \in Tabs :
        tile[t] # NoRow /\ tile[t].waits # NoCall
            => LET c == tile[t].waits
               IN  InFlight(c) /\ call[c].tab = t /\ call[c].kind # "add"

(* The tile of a tab that is alone shows what is stored once its answer    *)
(* and the query that follows have arrived, whatever failed before the     *)
(* commit, unless the list was left or an answer lost while it waited.     *)
TileShowsStored ==
    \A t \in Tabs :
        /\ tile[t] # NoRow /\ tile[t].waits = NoCall /\ query[t].phase = "none"
        /\ hurried \cup {u \in Tabs : u # t} = {}
        => tile[t].id \in Listed /\ rows[tile[t].id].watched = tile[t].watched

(* Expected, and not so: a tile shows what the query has answered.  One    *)
(* that is mounted again while its change is under way starts from the     *)
(* older cache entry, and does not follow when the query is answered.      *)
TileFollows ==
    [][\A t \in Tabs :
        QueryAnswered(t) /\ tile[t] # NoRow /\ tile[t].waits = NoCall /\ tile'[t] # NoRow
            => tile'[t].watched = data'[t].watched]_vars

(* Expected, and not so: watched and watched_at always agree.              *)
AlwaysTimed == \A i \in Listed : rows[i].watched = rows[i].at

=============================================================================
