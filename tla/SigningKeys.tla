---------------------------- MODULE SigningKeys ----------------------------
(***************************************************************************)
(* The cache of the identity provider's signing keys (auth0.py).  Tokens    *)
(* are verified by the event loop and by pool threads at the same time: a   *)
(* key that is not in the cache triggers one refetch, at most one per       *)
(* cooldown, outside the lock.  Auth0 is configured.                        *)
(*                                                                         *)
(* Left out: what jwt.decode checks of a token whose key was found.         *)
(***************************************************************************)
EXTENDS Naturals

CONSTANTS
    Threads,
    Kids,         \* key ids the provider ever publishes
    NoKeys,       \* _jwks_cache is None
    MaxRotations, \* bound: times the provider changes its keys
    MaxOutages,   \* bound: fetches that fail
    MaxTokens     \* bound: tokens verified

ASSUME KeyShapes == NoKeys \notin Kids /\ {MaxRotations, MaxOutages, MaxTokens} \subseteq Nat

VARIABLES
    jwks,      \* _jwks_cache: the key ids in it, or {NoKeys}
    cooling,   \* less than _REFRESH_COOLDOWN_S since _last_refresh
    published, \* keys the provider publishes
    call,      \* per thread: the token it verifies and how far it is
    refetched, \* history: refetches begun since the cooldown last ended
    keysLeft   \* what remains of each bound

keyVars == <<jwks, cooling, published, call, refetched, keysLeft>>

Idling == [pc |-> "idle", kid |-> NoKeys, refresh |-> FALSE, got |-> {}, excuse |-> FALSE]

SpendKeys(b) == keysLeft[b] > 0 /\ keysLeft' = [keysLeft EXCEPT ![b] = @ - 1]

KeysInit ==
    /\ jwks = {NoKeys}
    /\ cooling = FALSE
    /\ published \in {{k} : k \in Kids}
    /\ call = [t \in Threads |-> Idling]
    /\ refetched = 0
    /\ keysLeft = [rotation |-> MaxRotations, outage |-> MaxOutages, token |-> MaxTokens]

(* A token signed with a key that is published; it may be withdrawn later. *)
VerifyToken(t) ==
    /\ call[t].pc \in {"idle", "accepted", "refused"}
    /\ SpendKeys("token")
    /\ \E k \in published : call' = [call EXCEPT ![t] = [Idling EXCEPT !.pc = "read", !.kid = k]]
    /\ UNCHANGED <<jwks, cooling, published, refetched>>

(* Mutant: a cache miss is final. *)
Lookup_Once(c, got) ==
    [c EXCEPT !.pc = IF c.kid \in got THEN "accepted" ELSE "refused"]

(* _signing_key, once a key set is at hand: found, try again with a refetch, or give up. *)
Lookup(c, got) ==
    IF c.kid \in got THEN [c EXCEPT !.pc = "accepted"]
    ELSE IF c.refresh \/ got = {NoKeys} THEN [c EXCEPT !.pc = "refused"]
    ELSE [c EXCEPT !.pc = "read", !.refresh = TRUE]

(* _jwks under the lock: the cache serves, or the refetch comes too early. *)
ReadCache(t) ==
    LET c == call[t] IN
    /\ c.pc = "read"
    /\ \/ ~c.refresh /\ jwks # {NoKeys} /\ call' = [call EXCEPT ![t] = Lookup(c, jwks)]
       \/ c.refresh /\ cooling
          /\ call' = [call EXCEPT ![t] = [Lookup(c, jwks) EXCEPT !.excuse = TRUE]]
    /\ UNCHANGED <<jwks, cooling, published, refetched, keysLeft>>

(* Mutant: _last_refresh is set when the answer is stored. *)
BeginFetch_StampLater(t) ==
    LET c == call[t] IN
    /\ c.pc = "read"
    /\ IF c.refresh THEN ~cooling ELSE jwks = {NoKeys}
    /\ refetched' = IF c.refresh THEN refetched + 1 ELSE refetched
    /\ call' = [call EXCEPT ![t].pc = "fetch"]
    /\ UNCHANGED <<jwks, cooling, published, keysLeft>>

(* The same critical section otherwise: it stamps the time and goes to fetch. *)
BeginFetch(t) ==
    LET c == call[t] IN
    /\ c.pc = "read"
    /\ IF c.refresh THEN ~cooling ELSE jwks = {NoKeys}
    /\ cooling' = TRUE
    /\ refetched' = IF c.refresh THEN refetched + 1 ELSE refetched
    /\ call' = [call EXCEPT ![t].pc = "fetch"]
    /\ UNCHANGED <<jwks, published, keysLeft>>

Fetch(t) ==
    /\ call[t].pc = "fetch"
    /\ call' = [call EXCEPT ![t].pc = "store", ![t].got = published,
                            ![t].excuse = @ \/ call[t].kid \notin published]
    /\ UNCHANGED <<jwks, cooling, published, refetched, keysLeft>>

(* The cached set stays, and this token is refused. *)
FetchFails(t) ==
    /\ call[t].pc = "fetch"
    /\ SpendKeys("outage")
    /\ call' = [call EXCEPT ![t].pc = "refused", ![t].excuse = TRUE]
    /\ UNCHANGED <<jwks, cooling, published, refetched>>

(* An answer that took longer overwrites one that is newer. *)
StoreKeys(t) ==
    /\ call[t].pc = "store"
    /\ jwks' = call[t].got
    /\ call' = [call EXCEPT ![t] = Lookup(@, @.got)]
    /\ UNCHANGED <<cooling, published, refetched, keysLeft>>

(* The provider adds a key, or withdraws one and keeps another. *)
Rotate ==
    /\ SpendKeys("rotation")
    /\ \E k \in Kids : \/ published' = published \cup {k}
                       \/ published' = published \ {k}
    /\ published' \notin {published, {}}
    /\ UNCHANGED <<jwks, cooling, call, refetched>>

CooldownEnds ==
    /\ cooling
    /\ cooling' = FALSE
    /\ refetched' = 0
    /\ UNCHANGED <<jwks, published, call, keysLeft>>

KeysNext ==
    \/ \E t \in Threads : \/ VerifyToken(t) \/ ReadCache(t) \/ BeginFetch(t)
                          \/ Fetch(t) \/ FetchFails(t) \/ StoreKeys(t)
    \/ Rotate
    \/ CooldownEnds

KeysSpec == KeysInit /\ [][KeysNext]_keyVars

-----------------------------------------------------------------------------
(* Properties.                                                             *)

(* However many threads miss at once, one refetch goes out per cooldown      *)
(* ("at most once per cooldown", auth0.py:52).                               *)
RefetchedOnce == refetched <= 1 /\ (refetched = 1 => cooling)

(* A token whose key is published is refused only when the fetch failed or    *)
(* the cooldown forbade one: "a stale cache must not lock every user out      *)
(* until a restart" (_signing_key), also when a slow answer brought an older  *)
(* key set back.                                                              *)
NoLockout ==
    \A t \in Threads : call[t].pc = "refused" => call[t].excuse \/ call[t].kid \notin published

=============================================================================
