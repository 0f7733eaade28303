----------------------------- MODULE PollCache -----------------------------
(***************************************************************************)
(* The listings a client polls (db.list_videos, list_documents,             *)
(* list_source_titles, list_sources) and their copies in Redis              *)
(* (cache.get_json, set_json).  list_sources caches what it builds from two *)
(* lists that are cached themselves; every call of Redis or Postgres is a   *)
(* step, and several requests may be at it at once.                         *)
(*                                                                         *)
(* A listing is reduced to how far behind its tables it is.                 *)
(***************************************************************************)
EXTENDS Integers

CONSTANTS
    Readers,          \* requests under way
    Asked,            \* the views they ask for
    POLL_CACHE_TTL_S, \* in ticks of the clock
    MaxDelay,         \* assumed: ticks a request takes at most
    MaxTicks,         \* bounds: ticks, and writes to the tenant's rows
    MaxWrites

ASSUME PollShapes ==
    /\ Asked \subseteq {"videos", "documents", "titles", "sources"}
    /\ POLL_CACHE_TTL_S \in Nat \ {0}
    /\ {MaxDelay, MaxTicks, MaxWrites} \subseteq Nat

VARIABLES
    polled,    \* Redis: each view's copy and the ticks it has left
    listing,   \* per request: the view it lists and how far it is
    pollLeft   \* what remains of each bound

pollVars == <<polled, listing, pollLeft>>

Tables == {"videos", "documents"}
Views  == {"videos", "documents", "titles", "sources"}

(* The tables a listing is made of. *)
TablesOf(view) == IF view \in {"titles", "sources"} THEN Tables ELSE {view}

(* A listing is the tables it is made of, each as it is or as it was so many   *)
(* ticks ago.                                                                 *)
UpToDate  == -1
Nothing  == <<>>
Of(shows, tables) == [t \in tables |-> shows[t]]

NoCopy  == [ttl |-> 0, shows |-> Nothing]
Resting == [pc |-> "idle", view |-> "sources", key |-> "sources", held |-> Nothing, spent |-> 0]

PollInit ==
    /\ polled = [v \in Views |-> NoCopy]
    /\ listing = [r \in Readers |-> Resting]
    /\ pollLeft = [tick |-> MaxTicks, write |-> MaxWrites]

SpendPoll(b) == pollLeft[b] > 0 /\ pollLeft' = [pollLeft EXCEPT ![b] = @ - 1]

BeginListing(r, view) ==
    /\ listing[r].pc = "idle"
    /\ listing' = [listing EXCEPT ![r] = [Resting EXCEPT !.pc = "get", !.view = view, !.key = view]]
    /\ UNCHANGED <<polled, pollLeft>>

(* dict.update the other way round: what is held already stays. *)
Overlaid(held, shows) ==
    [t \in DOMAIN held \cup DOMAIN shows |-> IF t \in DOMAIN held THEN held[t] ELSE shows[t]]

(* What a request does with the list it got for its key: it is the answer, or *)
(* a part of list_sources.                                                    *)
Got(q, shows) ==
    IF q.key = q.view THEN Resting
    ELSE IF q.key = "videos" THEN [q EXCEPT !.pc = "get", !.key = "documents", !.held = shows]
    ELSE [q EXCEPT !.pc = "set", !.key = "sources", !.held = Overlaid(q.held, shows)]

(* A query reads its tables as they are. *)
Queried(view) == [t \in TablesOf(view) |-> UpToDate]

(* Without a copy list_sources asks for its parts, and the others query.      *)
Missed(q) ==
    IF q.key = "sources" THEN [q EXCEPT !.key = "videos"]
    ELSE [q EXCEPT !.pc = "set", !.held = Overlaid(q.held, Queried(q.key))]

(* Mutant: a hit gives the copy its whole time again. *)
GetCopy_Slides(r) ==
    LET q == listing[r] IN
    /\ q.pc = "get"
    /\ \/ /\ polled[q.key].ttl > 0
          /\ listing' = [listing EXCEPT ![r] = Got(q, polled[q.key].shows)]
          /\ polled' = [polled EXCEPT ![q.key].ttl = POLL_CACHE_TTL_S + 1]
       \/ /\ listing' = [listing EXCEPT ![r] = Missed(q)]
          /\ UNCHANGED polled
    /\ UNCHANGED pollLeft

(* cache.get_json: Redis that cannot be reached is a miss.  A miss may come at  *)
(* any time, so the query that follows it is of the same step.                *)
GetCopy(r) ==
    LET q == listing[r] IN
    /\ q.pc = "get"
    /\ \/ /\ polled[q.key].ttl > 0
          /\ listing' = [listing EXCEPT ![r] = Got(q, polled[q.key].shows)]
       \/ listing' = [listing EXCEPT ![r] = Missed(q)]
    /\ UNCHANGED <<polled, pollLeft>>

QueryRaises(r) ==
    /\ listing[r].pc = "get" /\ listing[r].key # "sources"
    /\ listing' = [listing EXCEPT ![r] = Resting]
    /\ UNCHANGED <<polled, pollLeft>>

(* A copy that is taken between two ticks may be read after POLL_CACHE_TTL_S of *)
(* them.                                                                        *)
Copy(shows) == [ttl |-> POLL_CACHE_TTL_S + 1, shows |-> shows]

(* cache.set_json: the last to write wins, and Redis that cannot be reached is *)
(* ignored.                                                                    *)
SetCopy(r) ==
    LET q    == listing[r]
        rows == Of(q.held, TablesOf(q.key))
    IN
    /\ q.pc = "set"
    /\ polled' \in {[polled EXCEPT ![q.key] = Copy(rows)], polled}
    /\ listing' = [listing EXCEPT ![r] = Got(q, rows)]
    /\ UNCHANGED pollLeft

-----------------------------------------------------------------------------
(* A status, a title or a row of one table changes. *)
Behind(shows, t) == [u \in DOMAIN shows |-> IF u = t /\ shows[u] = UpToDate THEN 0 ELSE shows[u]]

WriteRows(t) ==
    /\ SpendPoll("write")
    /\ polled' = [v \in Views |-> [polled[v] EXCEPT !.shows = Behind(@, t)]]
    /\ listing' = [r \in Readers |-> [listing[r] EXCEPT !.held = Behind(@, t)]]

Older(shows) == [t \in DOMAIN shows |-> IF shows[t] = UpToDate THEN UpToDate ELSE shows[t] + 1]

Idle(r) == listing[r].pc = "idle"

PollTick ==
    /\ SpendPoll("tick")
    /\ \A r \in Readers : Idle(r) \/ listing[r].spent < MaxDelay
    /\ polled' = [v \in Views |-> IF polled[v].ttl <= 1 THEN NoCopy
                                  ELSE [ttl |-> polled[v].ttl - 1, shows |-> Older(polled[v].shows)]]
    /\ listing' = [r \in Readers |->
          IF Idle(r) THEN listing[r] ELSE [listing[r] EXCEPT !.spent = @ + 1, !.held = Older(@)]]

PollNext ==
    \/ \E r \in Readers : \/ \E view \in Asked : BeginListing(r, view)
                          \/ GetCopy(r) \/ QueryRaises(r) \/ SetCopy(r)
    \/ \E t \in Tables : WriteRows(t)
    \/ PollTick

PollSpec == PollInit /\ [][PollNext]_pollVars

-----------------------------------------------------------------------------
(* Properties.                                                             *)

(* How far behind a listing may be: a lifetime of a copy and the request that *)
(* made it, twice for a copy that is made of copies.                          *)
Freshness(view) == (IF view = "sources" THEN 2 ELSE 1) * (POLL_CACHE_TTL_S + MaxDelay)

(* A copy, or a list that a request is about to store and answer with, is      *)
(* never further behind its tables than its freshness, although slow requests *)
(* overwrite newer copies, Redis is out of reach now and then, and             *)
(* list_sources keeps what it made of other copies (db.list_sources).         *)
ListingsFresh ==
    /\ \A v \in Views : \A t \in DOMAIN polled[v].shows : polled[v].shows[t] <= Freshness(v)
    /\ \A r \in Readers : listing[r].pc = "set" =>
          \A t \in TablesOf(listing[r].key) : listing[r].held[t] <= Freshness(listing[r].key)

=============================================================================
