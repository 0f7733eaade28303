------------------------------- MODULE Guard -------------------------------
(***************************************************************************)
(* What every request passes before its handler: authentication, then       *)
(* admission control with counters in Redis (app._auth_middleware,          *)
(* security.py, cache.incr_with_expiry).  The middleware runs on the event  *)
(* loop and does not yield, and Redis executes the counter's pipeline as    *)
(* one, so a request is one step.                                           *)
(*                                                                         *)
(* Left out: which bytes make a valid token (module SigningKeys for its     *)
(* key), CORS, and the timing that the metrics middleware adds.             *)
(***************************************************************************)
EXTENDS Integers, FiniteSets

CONSTANTS
    Clients,          \* callers, each with an address of its own
    Proxy,            \* the address every request seems to come from; NoAddress without one
    ProxySets,        \* the headers that proxy overwrites with the caller's address
    Named,            \* what a request may carry in a header that nobody overwrites
    NoAddress,
    Credentials,      \* what a caller may send: "none", "admin", "user", "invalid"
    HasAdminToken,    \* ADMIN_TOKEN is set
    DevEnv,           \* ENV is one of the development names
    TRUST_PROXY_HEADERS,
    RATE_LIMIT_ASK_MAX, RATE_LIMIT_MAX,
    RATE_LIMIT_WINDOW_S, \* in ticks of the clock
    MaxHits,          \* bound: requests counted by one counter
    MaxRedisOutages   \* bound: times Redis goes down or restarts

ASSUME GuardShapes ==
    /\ IsFiniteSet(Clients) /\ NoAddress \notin Clients \cup Named /\ Proxy \notin Clients
    /\ ProxySets \subseteq {"fly", "xff"} /\ (Proxy = NoAddress => ProxySets = {})
    /\ {RATE_LIMIT_ASK_MAX, RATE_LIMIT_MAX, MaxHits, MaxRedisOutages} \subseteq Nat
    /\ RATE_LIMIT_WINDOW_S \in Nat \ {0}
    /\ TRUST_PROXY_HEADERS \in BOOLEAN

VARIABLES
    counters,   \* Redis: rl:<bucket>:<ip> -> its count and the time it has left
    redisUp,
    outages,    \* what remains of that bound
    verdict,    \* the last request and what became of it
    admitted,   \* history: counted requests let through since the window began, per client
    age         \* history: how long each counter has existed

guardVars == <<counters, redisUp, outages, verdict, admitted, age>>

Paths  == {"/api/ask", "/ask_stream", "/api/videos", "/metrics"}
Groups == {"ask", "gen"}
Group(path) == IF path \in {"/api/ask", "/ask_stream"} THEN "ask" ELSE "gen"

Addresses == Clients \cup Named \cup {Proxy}
Buckets   == {"ask", "gen", "stream"}
Keys      == Buckets \X Addresses
NoCounter == [n |-> 0, ttl |-> 0]

GuardInit ==
    /\ counters = [k \in Keys |-> NoCounter]
    /\ redisUp = TRUE
    /\ outages = MaxRedisOutages
    /\ verdict = [client |-> NoAddress, group |-> "ask", status |-> "none"]
    /\ admitted = [c \in Clients |-> [g \in Groups |-> 0]]
    /\ age = [k \in Keys |-> 0]

-----------------------------------------------------------------------------
(* Mutations and the operator's reads ask for a credential, /api/ask does not. *)
RequiresAuth(write, path) == path = "/metrics" \/ (write /\ path = "/api/videos")

AdminOnly(path) == path = "/metrics"

(* security.auth_failure: the status of a refusal, "none" to go on. *)
AuthFailure(write, path, cred) ==
    IF \/ ~RequiresAuth(write, path)
       \/ cred = "user" /\ ~AdminOnly(path)
       \/ HasAdminToken /\ cred = "admin"
       \/ ~HasAdminToken /\ DevEnv THEN "none"
    ELSE IF HasAdminToken THEN "401" ELSE "503"

(* The requests for a path that are let through. *)
Passing(path) == {r \in BOOLEAN \X Credentials : AuthFailure(r[1], path, r[2]) = "none"}

(* Mutant: one budget per path. *)
Bucket_PerPath(path) ==
    IF path = "/ask_stream" THEN [name |-> "stream", limit |-> RATE_LIMIT_ASK_MAX]
    ELSE IF path = "/api/ask" THEN [name |-> "ask", limit |-> RATE_LIMIT_ASK_MAX]
    ELSE [name |-> "gen", limit |-> RATE_LIMIT_MAX]

Bucket(path) ==
    IF Group(path) = "ask" THEN [name |-> "ask", limit |-> RATE_LIMIT_ASK_MAX]
    ELSE [name |-> "gen", limit |-> RATE_LIMIT_MAX]

(* The headers a request of c arrives with: Fly-Client-IP and the left-most    *)
(* entry of X-Forwarded-For.  A proxy vouches for those it sets, the others are *)
(* whatever the request carried.                                               *)
Headers(c) ==
    LET values(name) == IF name \in ProxySets THEN {c} ELSE Named \cup {NoAddress}
    IN  [fly: values("fly"), xff: values("xff")]

Peer(c) == IF Proxy = NoAddress THEN c ELSE Proxy

(* Mutant: request.client.host. *)
ClientIp_Peer(c, h) == Peer(c)

ClientIp(c, h) ==
    IF TRUST_PROXY_HEADERS /\ h.fly # NoAddress THEN h.fly
    ELSE IF TRUST_PROXY_HEADERS /\ h.xff # NoAddress THEN h.xff
    ELSE Peer(c)

(* The addresses c can be counted under. *)
KnownBy(c) == {ClientIp(c, h) : h \in Headers(c)}

(* The deployments that can tell callers apart: fly.toml's, where the trusted   *)
(* header that decides is set by the proxy, and one without a proxy that trusts *)
(* no header.  Anywhere else callers name themselves, or share the proxy's      *)
(* address (.env.example, DEPLOYMENT.md).                                      *)
Vouched == IF TRUST_PROXY_HEADERS THEN "fly" \in ProxySets ELSE Proxy = NoAddress

(* Mutant: EXPIRE without NX. *)
Incremented_Slides(k) == [n |-> k.n + 1, ttl |-> RATE_LIMIT_WINDOW_S]

(* INCR and EXPIRE NX in one transaction. *)
Incremented(k) == [n |-> k.n + 1, ttl |-> IF k.ttl = 0 THEN RATE_LIMIT_WINDOW_S ELSE k.ttl]

Verdict(c, path, status) ==
    verdict' = [client |-> c, group |-> Group(path), status |-> status]

(* _auth_middleware: refused for want of a credential before anything is counted. *)
RejectRequest(c, path, write, cred) ==
    /\ AuthFailure(write, path, cred) # "none"
    /\ Verdict(c, path, AuthFailure(write, path, cred))
    /\ UNCHANGED <<counters, redisUp, outages, admitted, age>>

CountRequest(c, path, h) ==
    LET key == <<Bucket(path).name, ClientIp(c, h)>> IN
    /\ Passing(path) # {}
    /\ redisUp /\ counters[key].n < MaxHits
    /\ counters' = [counters EXCEPT ![key] = Incremented(@)]
    /\ IF counters'[key].n > Bucket(path).limit
       THEN Verdict(c, path, "429") /\ UNCHANGED admitted
       ELSE /\ Verdict(c, path, "forwarded")
            /\ admitted' = [admitted EXCEPT ![c][Group(path)] = @ + 1]
    /\ UNCHANGED <<redisUp, outages, age>>

(* It could not be counted, so it is not limited. *)
PassUncounted(c, path) ==
    /\ Passing(path) # {}
    /\ ~redisUp
    /\ Verdict(c, path, "forwarded")
    /\ UNCHANGED <<counters, redisUp, outages, admitted, age>>

Live == {k \in Keys : counters[k].n > 0}

(* Counters that are gone take their window with them, and a caller's window is *)
(* over with the last counter that counts it; the others grow older.            *)
Forget(gone, tick) ==
    /\ counters' = [k \in Keys |-> IF k \in gone THEN NoCounter
                                   ELSE [counters[k] EXCEPT !.ttl = @ - IF k \in Live THEN tick ELSE 0]]
    /\ age' = [k \in Keys |-> IF k \in Live \ gone THEN age[k] + tick ELSE 0]
    /\ admitted' = [c \in Clients |-> [g \in Groups |->
                      IF \E a \in KnownBy(c) : <<g, a>> \in Live \ gone THEN admitted[c][g] ELSE 0]]

(* Time passes, for every counter at once. *)
Clock ==
    /\ Live # {}
    /\ Forget({k \in Live : counters[k].ttl = 1}, 1)
    /\ UNCHANGED <<redisUp, outages, verdict>>

(* Redis cannot be reached for a while, or restarts and has forgotten everything. *)
RedisGoes ==
    /\ redisUp /\ outages > 0
    /\ redisUp' = FALSE /\ outages' = outages - 1
    /\ \E gone \in {{}, Keys} : Forget(gone, 0)
    /\ UNCHANGED verdict

RedisReturns ==
    /\ ~redisUp
    /\ redisUp' = TRUE
    /\ UNCHANGED <<counters, outages, verdict, admitted, age>>

GuardNext ==
    \/ \E c \in Clients, path \in Paths :
          \/ \E write \in BOOLEAN, cred \in Credentials : RejectRequest(c, path, write, cred)
          \/ \E h \in Headers(c) : CountRequest(c, path, h)
          \/ PassUncounted(c, path)
    \/ Clock \/ RedisGoes \/ RedisReturns

GuardSpec == GuardInit /\ [][GuardNext]_guardVars

-----------------------------------------------------------------------------
(* Properties.                                                             *)

LimitOf(g) == IF g = "ask" THEN RATE_LIMIT_ASK_MAX ELSE RATE_LIMIT_MAX

(* Where the address of a caller is vouched for (Vouched), the caller gets at *)
(* most the budget of a window through while Redis counts, whichever of the   *)
(* two ask endpoints it alternates between (_ASK_PATHS) and whatever it writes *)
(* into its own headers.                                                      *)
BudgetKept == \A c \in Clients, g \in Groups : admitted[c][g] <= LimitOf(g)

(* Where the address of a caller is vouched for, the caller is told to slow    *)
(* down only for what it was itself let through in this window: not for its   *)
(* neighbours behind the proxy (client_ip), and not for requests that were    *)
(* refused for want of a credential.                                          *)
Throttles ==
    verdict' # verdict /\ verdict'.status = "429"
        => admitted[verdict'.client][verdict'.group] = LimitOf(verdict'.group)

ThrottledForOwn == [][Throttles]_guardVars

(* No counter outlives its window, however busy the caller is                *)
(* (incr_with_expiry: NX, and never a counter without a deadline).           *)
WindowEnds == \A k \in Keys : counters[k].n > 0 => counters[k].ttl > 0 /\ age[k] < RATE_LIMIT_WINDOW_S

=============================================================================
