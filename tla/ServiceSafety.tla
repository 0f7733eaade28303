--------------------------- MODULE ServiceSafety ---------------------------
(***************************************************************************)
(* Proofs about the parts beside ingestion and retrieval: the key cache,     *)
(* admission control, the startup gate, the collections, the cached vectors, *)
(* the cached listings and the cutting of sources, for any number of         *)
(* threads, callers, sources, requests and processes and any bounds.         *)
(***************************************************************************)
EXTENDS SigningKeys, Guard, Seeding, PollCache, Provision, EmbedCache, Media, SequenceFacts

(***************************************************************************)
(* The key cache.                                                          *)
(***************************************************************************)

(* A refetch that went out in this cooldown is the only one. *)
OneStamp == refetched \in {0, 1} /\ (refetched = 1 => cooling)

(* A verification that was refused has an excuse, and one that is about to be *)
(* has it already.                                                            *)
Excused(c) ==
    /\ c.pc = "refused" => c.excuse
    /\ c.pc = "store"   => c.excuse \/ c.kid \in c.got

Calls == [pc: {"idle", "read", "fetch", "store", "accepted", "refused"},
          kid: Kids \cup {NoKeys}, refresh: BOOLEAN, got: SUBSET Kids, excuse: BOOLEAN]

CallInv == call \in [Threads -> Calls] /\ \A t \in Threads : Excused(call[t])

KeysInv == OneStamp /\ CallInv /\ published \subseteq Kids

LEMMA KeysStart == KeysInit => KeysInv
  BY DEF KeysInit, KeysInv, OneStamp, Excused, CallInv, Calls, Idling

(* A step of one thread only has to look at that thread's verification. *)
LEMMA OneCall ==
  ASSUME CallInv, NEW t \in Threads, NEW c \in Calls, Excused(c), call' = [call EXCEPT ![t] = c]
  PROVE  CallInv'
  BY DEF CallInv

(* Whatever key set a verification looks into, it is refused only if it had    *)
(* nothing more to ask for.                                                   *)
LEMMA LookupEnds ==
  ASSUME NEW c \in Calls, NEW got
  PROVE  /\ Lookup(c, got) \in Calls
         /\ Lookup(c, got).pc \in {"accepted", "refused", "read"}
         /\ Lookup(c, got).excuse = c.excuse
         /\ Lookup(c, got).pc = "refused" => c.kid \notin got /\ (c.refresh \/ got = {NoKeys})
  BY DEF Calls, Lookup

LEMMA KeysStep == KeysInv /\ [KeysNext]_keyVars => KeysInv'
<1> SUFFICES ASSUME KeysInv, [KeysNext]_keyVars PROVE KeysInv'
  OBVIOUS
<1> USE DEF KeysInv
<1>1. ASSUME NEW t \in Threads, VerifyToken(t) PROVE KeysInv'
  <2>1. PICK k \in published : call' = [call EXCEPT ![t] = [Idling EXCEPT !.pc = "read", !.kid = k]]
    BY <1>1 DEF VerifyToken
  <2>2. [Idling EXCEPT !.pc = "read", !.kid = k] \in Calls
    BY DEF Idling, Calls
  <2>3. Excused([Idling EXCEPT !.pc = "read", !.kid = k])
    BY DEF Excused, Idling
  <2> QED
    BY <1>1, <2>1, <2>2, <2>3, OneCall DEF VerifyToken, OneStamp
<1>2. ASSUME NEW t \in Threads, ReadCache(t) PROVE KeysInv'
  <2> DEFINE l == Lookup(call[t], jwks)
  <2>0. call[t] \in Calls
    BY DEF CallInv
  <2>1. l \in Calls /\ l.pc \in {"accepted", "refused", "read"}
        /\ (l.pc = "refused" => call[t].refresh \/ jwks = {NoKeys})
    BY <2>0, LookupEnds
  <2>2. CASE ~call[t].refresh /\ jwks # {NoKeys} /\ call' = [call EXCEPT ![t] = l]
    <3>1. Excused(l)
      BY <2>1, <2>2 DEF Excused
    <3> HIDE DEF l
    <3> QED
      BY <1>2, <2>1, <2>2, <3>1, OneCall DEF ReadCache, OneStamp
  <2>3. CASE call' = [call EXCEPT ![t] = [l EXCEPT !.excuse = TRUE]]
    <3> HIDE DEF l
    <3>1. [l EXCEPT !.excuse = TRUE] \in Calls
      BY <2>1 DEF Calls
    <3>2. Excused([l EXCEPT !.excuse = TRUE])
      BY <2>1 DEF Excused, Calls
    <3> QED
      BY <1>2, <2>3, <3>1, <3>2, OneCall DEF ReadCache, OneStamp
  <2> QED
    BY <1>2, <2>2, <2>3 DEF ReadCache
<1>3. ASSUME NEW t \in Threads, BeginFetch(t) PROVE KeysInv'
  <2>1. call' = [call EXCEPT ![t] = [call[t] EXCEPT !.pc = "fetch"]]
    BY <1>3 DEF BeginFetch
  <2>2. [call[t] EXCEPT !.pc = "fetch"] \in Calls /\ Excused([call[t] EXCEPT !.pc = "fetch"])
    BY DEF CallInv, Calls, Excused
  <2>3. CallInv'
    BY <2>1, <2>2, OneCall
  <2>4. OneStamp'
    BY <1>3 DEF BeginFetch, OneStamp, CallInv, Calls
  <2> QED
    BY <1>3, <2>3, <2>4 DEF BeginFetch
<1>4. ASSUME NEW t \in Threads, Fetch(t) PROVE KeysInv'
  <2> DEFINE c == [call[t] EXCEPT !.pc = "store", !.got = published,
                                  !.excuse = @ \/ call[t].kid \notin published]
  <2>1. call' = [call EXCEPT ![t] = c]
    BY <1>4 DEF Fetch
  <2>2. c \in Calls /\ Excused(c)
    BY DEF CallInv, Calls, Excused
  <2> QED
    BY <1>4, <2>1, <2>2, OneCall DEF Fetch, OneStamp
<1>5. ASSUME NEW t \in Threads, FetchFails(t) PROVE KeysInv'
  <2> DEFINE c == [call[t] EXCEPT !.pc = "refused", !.excuse = TRUE]
  <2>1. call' = [call EXCEPT ![t] = c]
    BY <1>5 DEF FetchFails
  <2>2. c \in Calls /\ Excused(c)
    BY DEF CallInv, Calls, Excused
  <2> QED
    BY <1>5, <2>1, <2>2, OneCall DEF FetchFails, OneStamp
<1>6. ASSUME NEW t \in Threads, StoreKeys(t) PROVE KeysInv'
  <2> DEFINE l == Lookup(call[t], call[t].got)
  <2>1. call[t] \in Calls /\ Excused(call[t])
    BY DEF CallInv
  <2>2. l \in Calls /\ l.pc \in {"accepted", "refused", "read"} /\ l.excuse = call[t].excuse
        /\ (l.pc = "refused" => call[t].kid \notin call[t].got)
    BY <2>1, LookupEnds
  <2>3. Excused(l)
    BY <1>6, <2>1, <2>2 DEF Excused, StoreKeys
  <2>4. call' = [call EXCEPT ![t] = l]
    BY <1>6 DEF StoreKeys
  <2> HIDE DEF l
  <2> QED
    BY <1>6, <2>2, <2>3, <2>4, OneCall DEF StoreKeys, OneStamp
<1>7. CASE Rotate
  BY <1>7 DEF Rotate, OneStamp, CallInv
<1>8. CASE CooldownEnds
  BY <1>8 DEF CooldownEnds, OneStamp, CallInv
<1>9. CASE UNCHANGED keyVars
  BY <1>9 DEF keyVars, OneStamp, CallInv
<1> QED
  BY <1>1, <1>2, <1>3, <1>4, <1>5, <1>6, <1>7, <1>8, <1>9 DEF KeysNext

LEMMA KeysInvariance == KeysSpec => []KeysInv
  BY KeysStart, KeysStep, PTL DEF KeysSpec

(* However many threads miss at once, one refetch goes out per cooldown. *)
THEOREM OneRefetch == KeysSpec => []RefetchedOnce
<1>1. KeysInv => RefetchedOnce
  BY DEF KeysInv, OneStamp, RefetchedOnce
<1> QED
  BY <1>1, KeysInvariance, PTL

(* A token is refused only for a fetch that failed, a cooldown, or a key that *)
(* the provider had withdrawn.                                                *)
THEOREM NobodyLockedOut == KeysSpec => []NoLockout
<1>1. KeysInv => NoLockout
  BY DEF KeysInv, CallInv, Excused, NoLockout
<1> QED
  BY <1>1, KeysInvariance, PTL

(***************************************************************************)
(* Admission control.                                                      *)
(***************************************************************************)

(* A counter lives as long as its deadline runs, and has lived for the rest of *)
(* its window.                                                                *)
Dated(k) ==
    IF counters[k].n = 0 THEN counters[k].ttl = 0 /\ age[k] = 0
    ELSE counters[k].ttl > 0 /\ age[k] + counters[k].ttl = RATE_LIMIT_WINDOW_S

(* What a caller got through is what its counter counted, up to the budget. *)
Metered(c, g) ==
    admitted[c][g] = IF counters[<<g, c>>].n <= LimitOf(g) THEN counters[<<g, c>>].n ELSE LimitOf(g)

GuardType ==
    /\ counters \in [Keys -> [n: Nat, ttl: Nat]]
    /\ age \in [Keys -> Nat]
    /\ admitted \in [Clients -> [Groups -> Nat]]

CountersInv == GuardType /\ \A k \in Keys : Dated(k)

GuardInv == CountersInv /\ \A c \in Clients, g \in Groups : Metered(c, g)

(* Where its address is vouched for, a caller is known by it alone. *)
LEMMA OwnAddress ==
  ASSUME Vouched, NEW c \in Clients
  PROVE  (\A h \in Headers(c) : ClientIp(c, h) = c) /\ KnownBy(c) = {c}
<1>1. \A h \in Headers(c) : "fly" \in ProxySets => h.fly = c
  BY DEF Headers
<1>2. \A h \in Headers(c) : ClientIp(c, h) = c
  BY <1>1, GuardShapes DEF ClientIp, Vouched, Peer
<1>3. Headers(c) # {}
  <2>1. [fly |-> IF "fly" \in ProxySets THEN c ELSE NoAddress,
         xff |-> IF "xff" \in ProxySets THEN c ELSE NoAddress] \in Headers(c)
    BY DEF Headers
  <2> QED
    BY <2>1
<1> QED
  BY <1>2, <1>3 DEF KnownBy

LEMMA OwnKey == \A c \in Clients, g \in Groups : <<g, c>> \in Keys
  BY DEF Keys, Buckets, Groups, Addresses

(* The bucket of a path is that of its group, with the budget of the group. *)
LEMMA BucketOfGroup ==
  \A path \in Paths : Group(path) \in Groups /\ Bucket(path).name = Group(path)
                      /\ Bucket(path).limit = LimitOf(Group(path))
  BY DEF Paths, Group, Groups, Bucket, LimitOf

LEMMA LimitNat == \A g \in Groups : LimitOf(g) \in Nat
  BY GuardShapes DEF LimitOf

(* Whatever headers a request arrives with, there is a counter for it. *)
LEMMA KnownKey ==
  ASSUME NEW c \in Clients, NEW path \in Paths, NEW h \in Headers(c)
  PROVE  <<Bucket(path).name, ClientIp(c, h)>> \in Keys
<1>1. ClientIp(c, h) \in Addresses
  <2>1. h.fly \in Clients \cup Named \cup {NoAddress} /\ h.xff \in Clients \cup Named \cup {NoAddress}
    BY DEF Headers
  <2> QED
    BY <2>1 DEF ClientIp, Peer, Addresses
<1>2. Bucket(path).name \in Buckets
  BY BucketOfGroup DEF Groups, Buckets
<1> QED
  BY <1>1, <1>2 DEF Keys

LEMMA GuardStart == GuardInit => GuardInv
<1> SUFFICES ASSUME GuardInit PROVE GuardInv
  OBVIOUS
<1>1. GuardType
  BY DEF GuardInit, GuardType, NoCounter
<1>2. \A k \in Keys : Dated(k)
  BY DEF GuardInit, Dated, NoCounter
<1>3. ASSUME NEW c \in Clients, NEW g \in Groups PROVE Metered(c, g)
  <2>1. <<g, c>> \in Keys /\ LimitOf(g) \in Nat
    BY OwnKey, LimitNat
  <2>2. counters[<<g, c>>].n = 0 /\ admitted[c][g] = 0
    BY <2>1 DEF GuardInit, NoCounter
  <2>3. 0 <= LimitOf(g)
    BY <2>1
  <2> QED
    BY <2>2, <2>3 DEF Metered
<1> QED
  BY <1>1, <1>2, <1>3 DEF GuardInv, CountersInv

(* A counter that is incremented keeps its deadline or gets one. *)
LEMMA Counting ==
  ASSUME CountersInv, NEW k \in Keys, counters' = [counters EXCEPT ![k] = Incremented(@)], age' = age,
         admitted' \in [Clients -> [Groups -> Nat]]
  PROVE  CountersInv'
<1>1. Incremented(counters[k]) \in [n: Nat, ttl: Nat]
  BY GuardShapes DEF CountersInv, GuardType, Incremented
<1>2. GuardType'
  BY <1>1 DEF CountersInv, GuardType
<1>3. ASSUME NEW o \in Keys PROVE Dated(o)'
  <2>1. CASE o = k
    BY <2>1, GuardShapes DEF CountersInv, GuardType, Dated, Incremented
  <2>2. CASE o # k
    BY <2>2 DEF CountersInv, GuardType, Dated
  <2> QED
    BY <2>1, <2>2
<1> QED
  BY <1>2, <1>3 DEF CountersInv

LEMMA CountTyped ==
  ASSUME CountersInv, NEW c \in Clients, NEW path \in Paths, NEW h \in Headers(c), CountRequest(c, path, h)
  PROVE  CountersInv'
<1>1. admitted' \in [Clients -> [Groups -> Nat]]
  <2> DEFINE g == Group(path)
  <2>1. g \in Groups
    BY BucketOfGroup
  <2>2. admitted' = admitted \/ admitted' = [admitted EXCEPT ![c][g] = @ + 1]
    BY DEF CountRequest
  <2> HIDE DEF g
  <2>3. admitted \in [Clients -> [Groups -> Nat]]
    BY DEF CountersInv, GuardType
  <2>4. admitted[c][g] + 1 \in Nat
    BY <2>1, <2>3
  <2> QED
    BY <2>1, <2>2, <2>3, <2>4
<1> QED
  BY <1>1, KnownKey, Counting DEF CountRequest

(* A request that is counted. *)
LEMMA Counted ==
  ASSUME Vouched, GuardInv, NEW c \in Clients, NEW path \in Paths, NEW h \in Headers(c), CountRequest(c, path, h)
  PROVE  GuardInv'
<1> DEFINE g == Group(path)
           k == <<g, c>>
           n == counters[k].n
<1>1. g \in Groups /\ k \in Keys /\ LimitOf(g) \in Nat
  BY BucketOfGroup, OwnKey, LimitNat
<1>2. counters' = [counters EXCEPT ![k] = Incremented(@)] /\ age' = age
  BY OwnAddress, BucketOfGroup DEF CountRequest
<1>3. admitted' = IF n + 1 > LimitOf(g) THEN admitted ELSE [admitted EXCEPT ![c][g] = @ + 1]
  <2>1. counters'[k].n = n + 1
    BY <1>1, <1>2 DEF GuardInv, CountersInv, GuardType, Incremented
  <2>2. <<Bucket(path).name, ClientIp(c, h)>> = k /\ Bucket(path).limit = LimitOf(g)
    BY OwnAddress, BucketOfGroup
  <2>3. admitted' = IF counters'[k].n > LimitOf(g) THEN admitted ELSE [admitted EXCEPT ![c][g] = @ + 1]
    BY <2>2 DEF CountRequest
  <2> QED
    BY <2>1, <2>3
<1> HIDE DEF g
<1>4. CountersInv'
  BY CountTyped DEF GuardInv
<1>5. ASSUME NEW d \in Clients, NEW e \in Groups PROVE Metered(d, e)'
  <2>0. <<e, d>> \in Keys /\ Metered(d, e) /\ LimitOf(e) \in Nat
    BY OwnKey, LimitNat DEF GuardInv
  <2>1. CASE d = c /\ e = g
    <3>1. counters'[k].n = n + 1
      BY <1>1, <1>2 DEF GuardInv, CountersInv, GuardType, Incremented
    <3>2. admitted'[c][g] = IF n + 1 > LimitOf(g) THEN admitted[c][g] ELSE admitted[c][g] + 1
      BY <1>1, <1>3 DEF GuardInv, CountersInv, GuardType
    <3>3. n \in Nat
      BY <1>1 DEF GuardInv, CountersInv, GuardType
    <3> QED
      BY <2>0, <2>1, <3>1, <3>2, <3>3, <1>1 DEF Metered, LimitOf
  <2>2. CASE ~(d = c /\ e = g)
    <3>1. <<e, d>> # k
      BY <2>2
    <3>2. counters'[<<e, d>>] = counters[<<e, d>>]
      BY <3>1, <2>0, <1>2 DEF GuardInv, CountersInv, GuardType
    <3>3. admitted'[d][e] = admitted[d][e]
      BY <2>2, <1>3 DEF GuardInv, CountersInv, GuardType
    <3> QED
      BY <2>0, <3>2, <3>3 DEF Metered, LimitOf
  <2> QED
    BY <2>1, <2>2
<1> QED
  BY <1>4, <1>5 DEF GuardInv

(* Counters that go take what was let through with them; a tick of the clock  *)
(* takes those whose deadline it is.                                          *)
LEMMA ForgottenTyped ==
  ASSUME CountersInv, NEW tick \in {0, 1}, NEW gone \in SUBSET Keys, Forget(gone, tick),
         \A k \in Live \ gone : counters[k].ttl > tick
  PROVE  CountersInv'
<1>1. GuardType'
  <2>1. ASSUME NEW k \in Keys PROVE /\ counters'[k] \in [n: Nat, ttl: Nat]
                                    /\ age'[k] \in Nat
    <3>1. CASE k \in gone
      BY <3>1 DEF Forget, NoCounter, CountersInv, GuardType
    <3>2. CASE k \notin gone /\ k \in Live
      BY <3>2 DEF Forget, CountersInv, GuardType
    <3>3. CASE k \notin gone /\ k \notin Live
      BY <3>3 DEF Forget, CountersInv, GuardType
    <3> QED
      BY <3>1, <3>2, <3>3
  <2>2. admitted' \in [Clients -> [Groups -> Nat]]
    BY DEF Forget, CountersInv, GuardType
  <2>3. counters' = [k \in Keys |-> counters'[k]] /\ age' = [k \in Keys |-> age'[k]]
    BY DEF Forget
  <2>4. counters' \in [Keys -> [n: Nat, ttl: Nat]] /\ age' \in [Keys -> Nat]
    BY <2>1, <2>3
  <2> QED
    BY <2>2, <2>4 DEF GuardType
<1>2. ASSUME NEW k \in Keys PROVE Dated(k)'
  <2>1. CASE k \in gone
    BY <2>1 DEF Forget, NoCounter, Dated
  <2>2. CASE k \in Live \ gone
    <3>1. counters[k].n \in Nat /\ counters[k].n > 0 /\ counters[k].ttl \in Nat /\ age[k] \in Nat
          /\ Dated(k) /\ counters[k].ttl > tick
      BY <2>2 DEF CountersInv, GuardType, Live
    <3>2. counters'[k] = [counters[k] EXCEPT !.ttl = @ - tick] /\ age'[k] = age[k] + tick
      BY <2>2 DEF Forget
    <3>3. counters'[k].n = counters[k].n /\ counters'[k].ttl = counters[k].ttl - tick
      BY <3>2 DEF CountersInv, GuardType
    <3> QED
      BY <3>1, <3>2, <3>3, GuardShapes DEF Dated
  <2>3. CASE k \notin Live /\ k \notin gone
    BY <2>3 DEF Forget, CountersInv, GuardType, Dated, Live
  <2> QED
    BY <2>1, <2>2, <2>3
<1> QED
  BY <1>1, <1>2 DEF CountersInv

LEMMA Forgotten ==
  ASSUME Vouched, GuardInv, NEW tick \in {0, 1}, NEW gone \in SUBSET Keys, Forget(gone, tick),
         \A k \in Live \ gone : counters[k].ttl > tick
  PROVE  GuardInv'
<1>1. CountersInv'
  BY ForgottenTyped DEF GuardInv
<1>2. ASSUME NEW c \in Clients, NEW g \in Groups PROVE Metered(c, g)'
  <2>0. <<g, c>> \in Keys /\ Metered(c, g) /\ LimitOf(g) \in Nat /\ KnownBy(c) = {c}
    BY OwnKey, LimitNat, OwnAddress DEF GuardInv
  <2>1. admitted'[c][g] = IF <<g, c>> \in Live \ gone THEN admitted[c][g] ELSE 0
    BY <2>0 DEF Forget
  <2>2. CASE <<g, c>> \in gone
    <3>1. admitted'[c][g] = 0
      BY <2>1, <2>2
    <3>2. counters'[<<g, c>>].n = 0
      BY <2>0, <2>2 DEF Forget, NoCounter
    <3> QED
      BY <2>0, <3>1, <3>2 DEF Metered, LimitOf
  <2>3. CASE <<g, c>> \notin gone
    <3>1. counters'[<<g, c>>].n = counters[<<g, c>>].n
      BY <2>0, <2>3 DEF Forget, GuardInv, CountersInv, GuardType
    <3>2. <<g, c>> \in Live \/ counters[<<g, c>>].n = 0
      BY <2>0 DEF Live, GuardInv, CountersInv, GuardType
    <3> QED
      BY <2>0, <2>1, <2>3, <3>1, <3>2 DEF Metered, LimitOf
  <2> QED
    BY <2>2, <2>3
<1> QED
  BY <1>1, <1>2 DEF GuardInv

(* What passes of a step to the counters: a request counted, counters that    *)
(* go, or nothing.                                                            *)
LEMMA GuardSteps ==
  ASSUME CountersInv, [GuardNext]_guardVars
  PROVE  \/ \E c \in Clients, path \in Paths : \E h \in Headers(c) : CountRequest(c, path, h)
         \/ \E tick \in {0, 1}, gone \in SUBSET Keys :
               Forget(gone, tick) /\ \A k \in Live \ gone : counters[k].ttl > tick
         \/ UNCHANGED <<counters, age, admitted>>
<1>1. CASE Clock
  <2>1. \A k \in Live \ {l \in Live : counters[l].ttl = 1} : counters[k].ttl > 1
    BY DEF CountersInv, GuardType, Dated, Live
  <2>2. {l \in Live : counters[l].ttl = 1} \in SUBSET Keys
    BY DEF Live
  <2> QED
    BY <1>1, <2>1, <2>2 DEF Clock
<1>2. CASE RedisGoes
  <2>1. \A k \in Live : counters[k].ttl > 0
    BY DEF CountersInv, GuardType, Dated, Live
  <2>2. PICK gone \in {{}, Keys} : Forget(gone, 0)
    BY <1>2 DEF RedisGoes
  <2> QED
    BY <2>1, <2>2
<1>3. ASSUME NEW c \in Clients, NEW path \in Paths, NEW write, NEW cred,
             RejectRequest(c, path, write, cred) \/ PassUncounted(c, path)
      PROVE  UNCHANGED <<counters, age, admitted>>
  BY <1>3 DEF RejectRequest, PassUncounted
<1>4. CASE RedisReturns
  BY <1>4 DEF RedisReturns
<1>5. CASE UNCHANGED guardVars
  BY <1>5 DEF guardVars
<1> QED
  BY <1>1, <1>2, <1>3, <1>4, <1>5 DEF GuardNext

LEMMA CountersStep == CountersInv /\ [GuardNext]_guardVars => CountersInv'
<1> SUFFICES ASSUME CountersInv, [GuardNext]_guardVars PROVE CountersInv'
  OBVIOUS
<1>1. CASE UNCHANGED <<counters, age, admitted>>
  BY <1>1 DEF CountersInv, GuardType, Dated
<1> QED
  BY <1>1, GuardSteps, CountTyped, ForgottenTyped

LEMMA GuardStep == Vouched /\ GuardInv /\ [GuardNext]_guardVars => GuardInv'
<1> SUFFICES ASSUME Vouched, GuardInv, [GuardNext]_guardVars PROVE GuardInv'
  OBVIOUS
<1>1. CASE UNCHANGED <<counters, age, admitted>>
  BY <1>1 DEF GuardInv, CountersInv, GuardType, Dated, Metered, LimitOf
<1>2. CountersInv
  BY DEF GuardInv
<1> QED
  BY <1>1, <1>2, GuardSteps, Counted, Forgotten

LEMMA GuardInvariance == ASSUME Vouched PROVE GuardSpec => []GuardInv
  BY GuardStart, GuardStep, PTL DEF GuardSpec

(* While Redis counts, nobody gets more through in a window than the budget,  *)
(* for any number of callers and whatever their requests carry, where the      *)
(* proxy sets the trusted header itself, or where there is no proxy and no     *)
(* header is trusted.                                                         *)
THEOREM BudgetsHold == ASSUME Vouched PROVE GuardSpec => []BudgetKept
<1>1. GuardInv => BudgetKept
  <2> SUFFICES ASSUME GuardInv, NEW c \in Clients, NEW g \in Groups PROVE admitted[c][g] <= LimitOf(g)
    BY DEF BudgetKept
  <2>1. counters[<<g, c>>].n \in Nat /\ LimitOf(g) \in Nat /\ Metered(c, g)
    BY OwnKey, LimitNat DEF GuardInv, CountersInv, GuardType
  <2> HIDE DEF LimitOf
  <2> QED
    BY <2>1 DEF Metered
<1> QED
  BY <1>1, GuardInvariance, PTL

(* Every counter ends with its window, however busy the callers are and       *)
(* whatever their requests carry, in any deployment.                          *)
THEOREM WindowsEnd == GuardSpec => []WindowEnds
<1>1. GuardInit => CountersInv
  BY GuardStart DEF GuardInv
<1>2. CountersInv => WindowEnds
  BY GuardShapes DEF CountersInv, GuardType, Dated, WindowEnds
<1> QED
  BY <1>1, <1>2, CountersStep, PTL DEF GuardSpec

(* Under the condition of BudgetsHold a caller is throttled only once its own *)
(* budget is spent.                                                           *)
THEOREM OwnThrottle == ASSUME Vouched PROVE GuardSpec => ThrottledForOwn
<1>1. GuardInv /\ [GuardNext]_guardVars => [Throttles]_guardVars
  <2> SUFFICES ASSUME GuardInv, GuardNext, verdict' # verdict, verdict'.status = "429" PROVE Throttles
    BY DEF Throttles, guardVars
  <2>1. ASSUME NEW c \in Clients, NEW path \in Paths, NEW h \in Headers(c), CountRequest(c, path, h)
        PROVE  Throttles
    <3> DEFINE g == Group(path)
               k == <<g, c>>
    <3>1. g \in Groups /\ k \in Keys /\ LimitOf(g) \in Nat /\ Metered(c, g) /\ counters[k].n \in Nat
      BY BucketOfGroup, OwnKey, LimitNat DEF GuardInv, CountersInv, GuardType
    <3>2. counters'[k].n = counters[k].n + 1
      BY <2>1, <3>1, OwnAddress, BucketOfGroup DEF CountRequest, GuardInv, CountersInv, GuardType, Incremented
    <3>3. verdict'.client = c /\ verdict'.group = g /\ admitted' = admitted /\ counters'[k].n > LimitOf(g)
      BY <2>1, OwnAddress, BucketOfGroup DEF CountRequest, Verdict
    <3> QED
      BY <3>1, <3>2, <3>3 DEF Throttles, Metered
  <2>2. ASSUME NEW c \in Clients, NEW path \in Paths, NEW write, NEW cred,
               RejectRequest(c, path, write, cred) \/ PassUncounted(c, path)
        PROVE  FALSE
    BY <2>2 DEF RejectRequest, PassUncounted, Verdict, AuthFailure
  <2>3. ~Clock /\ ~RedisGoes /\ ~RedisReturns
    BY DEF Clock, RedisGoes, RedisReturns
  <2> QED
    BY <2>1, <2>2, <2>3 DEF GuardNext
<1> QED
  BY <1>1, GuardInvariance, PTL DEF GuardSpec, ThrottledForOwn

(***************************************************************************)
(* The seeding gate.                                                       *)
(***************************************************************************)

(* A source that answers: its row says so and Qdrant has its vectors. *)
Answers(s) == seedRow[s] = "indexed" /\ s \in seedVecs

(* What the look that decides has seen and not found missing still answers,  *)
(* and a program that has ended is off.                                      *)
SeedInv ==
    /\ seed = [pc |-> seed.pc, look |-> seed.look, missing |-> seed.missing,
               pass |-> seed.pass, todo |-> seed.todo]
    /\ exitCode # "none" => seed.pc = "off"
    /\ seed.pc \in {"first", "last"} /\ ~wiped =>
           \A s \in SeedSources \ (seed.look \cup seed.missing) : Answers(s)
    /\ SeedGateSound

LEMMA SeedBegins == SeedInit => SeedInv
  BY DEF SeedInit, SeedInv, Off, SeedGateSound

(* A look over everything has seen nothing yet. *)
LEMMA LookStarts ==
  ASSUME NEW pc, NEW pass, seed' = Looking(pc, pass), exitCode = "none", exitCode' = exitCode
  PROVE  SeedInv'
  BY DEF Looking, SeedInv, SeedGateSound

(* Outside the looks that decide there is nothing to keep but the shape. *)
LEMMA Elsewhere ==
  ASSUME SeedInv, exitCode' = exitCode, exitCode = "none", seed'.pc \notin {"first", "last"},
         seed' = [pc |-> seed'.pc, look |-> seed'.look, missing |-> seed'.missing,
                  pass |-> seed'.pass, todo |-> seed'.todo]
  PROVE  SeedInv'
  BY DEF SeedInv, SeedGateSound

(* After a source comes the next, another pass, or the look that decides. *)
LEMMA AfterSource ==
  ASSUME SeedInv, exitCode' = exitCode, exitCode = "none", seed' = AfterCurrent
  PROVE  SeedInv'
<1>1. CASE seed' = [seed EXCEPT !.pc = "reset", !.todo = @ \ {Current}]
  BY <1>1, Elsewhere DEF SeedInv
<1>2. CASE \E pc, pass : seed' = Looking(pc, pass)
  BY <1>2, LookStarts
<1> QED
  BY <1>1, <1>2 DEF AfterCurrent

(* One source is looked at. *)
LEMMA LookKeeps == SeedInv /\ SeedLook => SeedInv'
<1> SUFFICES ASSUME SeedInv, SeedLook PROVE SeedInv'
  OBVIOUS
<1> DEFINE s == Min(Unseen)
<1>1. /\ UNCHANGED <<seedRow, seedVecs, exitCode, wiped>>
      /\ seed.pc \in {"first", "pass", "last"}
  BY DEF SeedLook
<1>2. PICK lost : /\ seed' = [seed EXCEPT !.look = @ \ {s}, !.missing = @ \cup lost]
                  /\ lost = {s} \/ Answers(s)
  BY DEF SeedLook, RowHasVectors, Answers
<1>3. /\ seed'.pc = seed.pc /\ seed'.look = seed.look \ {s} /\ seed'.missing = seed.missing \cup lost
      /\ seed' = [pc |-> seed'.pc, look |-> seed'.look, missing |-> seed'.missing,
                  pass |-> seed'.pass, todo |-> seed'.todo]
  BY <1>2 DEF SeedInv
<1>4. exitCode = "none" /\ exitCode' = "none"
  BY <1>1 DEF SeedInv
<1> HIDE DEF s
<1>5. ASSUME seed.pc \in {"first", "last"}, ~wiped,
             NEW t \in SeedSources, t \notin seed'.look \cup seed'.missing
      PROVE  Answers(t)'
  <2>1. CASE t = s
    BY <2>1, <1>1, <1>2, <1>3, <1>5 DEF Answers
  <2>2. CASE t # s
    BY <2>2, <1>1, <1>3, <1>5 DEF SeedInv, Answers
  <2> QED
    BY <2>1, <2>2
<1> QED
  BY <1>1, <1>3, <1>4, <1>5 DEF SeedInv, SeedGateSound

(* The program ends with 0 only after a look that found everything. *)
LEMMA DecideKeeps == SeedInv /\ SeedDecide => SeedInv'
<1> SUFFICES ASSUME SeedInv, SeedDecide PROVE SeedInv'
  OBVIOUS
<1>0. /\ UNCHANGED <<seedRow, seedVecs>> /\ exitCode = "none"
      /\ seed.pc \in {"first", "pass", "last"} /\ Unseen = {}
  BY DEF SeedDecide, SeedInv
<1>1. CASE seed.pc = "first" /\ seed.missing = {}
  <2>1. exitCode' = "0" /\ seed' = Off /\ wiped' = wiped
    BY <1>1 DEF SeedDecide, Exit
  <2>2. seed.look = {}
    BY <1>0, <1>1 DEF Unseen
  <2> QED
    BY <1>0, <1>1, <2>1, <2>2 DEF SeedInv, SeedGateSound, Answers, Off
<1>2. CASE seed.pc = "first" /\ seed.missing # {}
  BY <1>0, <1>2, LookStarts DEF SeedDecide
<1>3. CASE seed.pc = "pass" /\ seed.missing = {}
  BY <1>0, <1>3, LookStarts DEF SeedDecide
<1>4. CASE seed.pc = "pass" /\ seed.missing # {}
  <2>1. exitCode' = exitCode /\ seed' = [seed EXCEPT !.pc = "reset", !.todo = seed.missing]
    BY <1>4 DEF SeedDecide
  <2> QED
    BY <1>0, <2>1, Elsewhere DEF SeedInv
<1>5. CASE seed.pc = "last"
  <2>1. /\ exitCode' = IF seed.missing = {} THEN "0" ELSE "1"
        /\ seed' = Off /\ wiped' = wiped
    BY <1>5 DEF SeedDecide, Exit
  <2>2. seed.look = {}
    BY <1>0, <1>5 DEF Unseen
  <2> QED
    BY <1>0, <1>5, <2>1, <2>2 DEF SeedInv, SeedGateSound, Answers, Off
<1> QED
  BY <1>0, <1>1, <1>2, <1>3, <1>4, <1>5

LEMMA SeedStep == SeedInv /\ [SeedNext]_seedVars => SeedInv'
<1> SUFFICES ASSUME SeedInv, [SeedNext]_seedVars PROVE SeedInv'
  OBVIOUS
<1>1. CASE SeedStart
  BY <1>1, LookStarts DEF SeedStart
<1>2. CASE SeedLook
  BY <1>2, LookKeeps
<1>3. CASE SeedDecide
  BY <1>3, DecideKeeps
<1>4. CASE SeedRaises
  BY <1>4 DEF SeedRaises, Exit, Off, SeedInv, SeedGateSound
<1>5. CASE SeedReset
  <2>1. exitCode = "none" /\ exitCode' = exitCode /\ seed' = [seed EXCEPT !.pc = "ingest"]
    BY <1>5 DEF SeedReset, SeedInv
  <2> QED
    BY <2>1, Elsewhere DEF SeedInv
<1>6. CASE SeedFetch
  <2>1. exitCode = "none" /\ exitCode' = exitCode
    BY <1>6 DEF SeedFetch, SeedInv
  <2>2. CASE seed' = AfterCurrent
    BY <2>1, <2>2, AfterSource
  <2>3. CASE seed' = [seed EXCEPT !.pc = "purge"]
    BY <2>1, <2>3, Elsewhere DEF SeedInv
  <2> QED
    BY <1>6, <2>2, <2>3 DEF SeedFetch, Done
<1>7. CASE SeedPurge
  <2>1. exitCode = "none" /\ exitCode' = exitCode /\ seed' = [seed EXCEPT !.pc = "fill"]
    BY <1>7 DEF SeedPurge, SeedInv
  <2> QED
    BY <2>1, Elsewhere DEF SeedInv
<1>8. CASE SeedFill
  <2>1. exitCode = "none" /\ exitCode' = exitCode /\ seed' = [seed EXCEPT !.pc = "flip"]
    BY <1>8 DEF SeedFill, SeedInv
  <2> QED
    BY <2>1, Elsewhere DEF SeedInv
<1>9. CASE SeedFlip
  BY <1>9, AfterSource DEF SeedFlip, Done, SeedInv
<1>10. CASE SeedIngestFails
  BY <1>10, AfterSource DEF SeedIngestFails, Done, SeedInv
<1>11. CASE SeedKilled
  BY <1>11, Elsewhere DEF SeedKilled, Off, SeedInv
<1>12. CASE VectorsWiped
  BY <1>12 DEF VectorsWiped, SeedInv, SeedGateSound
<1>13. CASE UNCHANGED seedVars
  BY <1>13 DEF seedVars, SeedInv, SeedGateSound, Answers
<1> QED
  BY <1>1, <1>2, <1>3, <1>4, <1>5, <1>6, <1>7, <1>8, <1>9, <1>10, <1>11, <1>12, <1>13 DEF SeedNext

(* Exit 0 means a complete corpus, for any corpus, any number of passes, and  *)
(* whatever fails, is killed or is started again.                             *)
THEOREM GateSound == SeedSpec => []SeedGateSound
<1>1. SeedInv => SeedGateSound
  BY DEF SeedInv
<1> QED
  BY <1>1, SeedBegins, SeedStep, PTL DEF SeedSpec

-----------------------------------------------------------------------------
(* The passes of the program are enough. *)

Ingesting == {"reset", "ingest", "purge", "fill", "flip"}

Programs == [pc: {"off", "first", "pass", "last"} \cup Ingesting, look: SUBSET SeedSources,
             missing: SUBSET SeedSources, pass: Nat, todo: SUBSET SeedSources]

Statuses == {"absent", "pending", "busy", "indexed", "skipped", "failed"}

SeedTypes ==
    /\ seed \in Programs /\ seedRow \in [SeedSources -> Statuses] /\ mishaps \in Nat
    /\ seed.pc \in Ingesting => seed.todo # {}

(* At most one ingest of this start has failed. *)
Calm == mishaps < 2 /\ copied = {}

(* How complete the corpus is: first the videos, whose ingest takes the       *)
(* documents' vectors, then the documents.                                   *)
Level(n) ==
    /\ n >= 1 => \A v \in SeedVideos : Answers(v)
    /\ n >= 2 => \A s \in SeedSources : Answers(s)

(* The level a pass is about to reach, when nothing more fails. *)
Reaching(n, todo) ==
    /\ n <= 2
    /\ n >= 1 => \A v \in SeedVideos \ todo : Answers(v)
    /\ n >= 2 => todo \cap SeedVideos = {} /\ \A s \in SeedSources \ todo : Answers(s)

(* Every pass gains a level, but for the one in which an ingest fails. *)
Gaining ==
    /\ seed.pc \in {"pass", "last"} =>
          /\ \A s \in SeedSources \ (seed.look \cup seed.missing) : Answers(s)
          /\ \A s \in seed.missing : ~Answers(s)
    /\ seed.pc = "pass" => Level(seed.pass - 1 - mishaps)
    /\ seed.pc = "last" => \A s \in SeedSources : Answers(s)
    /\ seed.pc \in Ingesting => Reaching(seed.pass - mishaps, seed.todo)
    /\ seed.pc = "flip" => Current \in seedVecs

HealInv ==
    /\ SeedTypes
    /\ exitCode # "none" => seed.pc = "off"
    /\ SeedHeals
    /\ Calm => Gaining

LEMMA CurrentIsDue ==
    ASSUME SeedTypes, seed.pc \in Ingesting
    PROVE  Current \in seed.todo /\ Current \in SeedSources
<1>1. seed.todo \in SUBSET SeedSources /\ seed.todo # {}
  BY DEF SeedTypes, Programs
<1>2. seed.todo \in SUBSET Nat
  BY <1>1, SeedShapes
<1> QED
  BY <1>1, <1>2, LeastIsMember DEF Current

(* The program moves to another place and looks or ingests the same. *)
LEMMA Moved ==
    ASSUME seed \in Programs, NEW pc \in {"off", "first", "pass", "last"} \cup Ingesting,
           seed' = [seed EXCEPT !.pc = pc]
    PROVE  /\ seed' \in Programs /\ seed'.pc = pc /\ seed'.look = seed.look
           /\ seed'.missing = seed.missing /\ seed'.pass = seed.pass /\ seed'.todo = seed.todo
  BY DEF Programs

LEMMA LookingFits ==
    ASSUME NEW pc \in {"first", "pass", "last"}, NEW n \in Nat
    PROVE  /\ Looking(pc, n) \in Programs /\ Looking(pc, n).pc = pc /\ Looking(pc, n).pass = n
           /\ Looking(pc, n).look = SeedSources /\ Looking(pc, n).missing = {}
  BY DEF Looking, Programs

LEMMA OffFits == Off \in Programs /\ Off.pc = "off"
  BY DEF Off, Programs

LEMMA HealStart == SeedInit => HealInv
<1> SUFFICES ASSUME SeedInit PROVE HealInv
  OBVIOUS
<1>1. seedRow \in [SeedSources -> Statuses]
  BY DEF SeedInit, Statuses
<1> QED
  BY <1>1, OffFits DEF SeedInit, HealInv, SeedTypes, SeedHeals, Gaining, Ingesting

(* What a step of an ingest leaves of what the pass has reached. *)
LEMMA StillReaching ==
    ASSUME NEW n \in Int, NEW T, Reaching(n, T),
           \A v \in SeedVideos \ T : Answers(v) => Answers(v)',
           n >= 2 => \A s \in SeedSources \ T : Answers(s) => Answers(s)'
    PROVE  Reaching(n, T)'
  BY SeedShapes DEF Reaching

LEMMA AfterHeals ==
    ASSUME SeedTypes, seed.pc \in Ingesting, seed' = AfterCurrent, MAX_PASSES >= 3,
           mishaps' \in Nat,
           Calm' => \E n, T : n = seed.pass - mishaps' /\ T = seed.todo \ {Current} /\ Reaching(n, T)'
    PROVE  /\ seed' \in Programs /\ (seed'.pc \in Ingesting => seed'.todo # {})
           /\ Calm' => Gaining'
<1> DEFINE c == Current
           T == seed.todo \ {c}
<1>1. c \in seed.todo /\ T \in SUBSET SeedSources /\ seed \in Programs /\ seed.pass \in Nat
  BY CurrentIsDue DEF SeedTypes, Programs
<1>2. Calm' => \E n, S : n = seed.pass - mishaps' /\ S = T /\ Reaching(n, S)'
  OBVIOUS
<1> HIDE DEF c
<1>3. CASE seed.todo # {c}
  <2> DEFINE p == [seed EXCEPT !.pc = "reset", !.todo = T]
  <2>1. seed' = p
    BY <1>3 DEF AfterCurrent, c
  <2>2. p \in Programs /\ p.pc = "reset" /\ p.todo = T /\ p.pass = seed.pass
    BY <1>1 DEF Programs, Ingesting
  <2> HIDE DEF p
  <2>3. T # {}
    BY <1>1, <1>3
  <2> HIDE DEF T
  <2>4. Calm' => Reaching(seed.pass - mishaps, seed.todo)'
    BY <1>2, <2>1, <2>2 DEF Reaching, Answers
  <2> QED
    BY <2>1, <2>2, <2>3, <2>4 DEF Gaining
<1>4. CASE seed.todo = {c} /\ seed.pass < MAX_PASSES
  <2>1. seed' = Looking("pass", seed.pass + 1)
    BY <1>4 DEF AfterCurrent, c
  <2>2. /\ seed' \in Programs /\ seed'.pc = "pass" /\ seed'.pass = seed.pass + 1
        /\ seed'.look = SeedSources /\ seed'.missing = {}
    BY <1>1, <2>1, LookingFits
  <2>3. T = {}
    BY <1>4
  <2>4. Calm' => Level(seed.pass - 1 - mishaps)'
    <3> SUFFICES ASSUME Calm' PROVE Level(seed.pass - 1 - mishaps)'
      OBVIOUS
    <3>1. PICK n : n = seed.pass - mishaps' /\ Reaching(n, {})'
      BY <1>2, <2>3
    <3>2. seed'.pass - 1 - mishaps' = n
      BY <1>1, <2>2, <3>1
    <3>3. Level(n)'
      BY <3>1 DEF Reaching, Level
    <3> QED
      BY <3>2, <3>3 DEF Level
  <2> QED
    BY <2>2, <2>4 DEF Gaining, Ingesting
<1>5. CASE seed.todo = {c} /\ ~(seed.pass < MAX_PASSES)
  <2>1. seed' = Looking("last", seed.pass)
    BY <1>5 DEF AfterCurrent, c
  <2>2. /\ seed' \in Programs /\ seed'.pc = "last"
        /\ seed'.look = SeedSources /\ seed'.missing = {}
    BY <1>1, <2>1, LookingFits
  <2>3. T = {}
    BY <1>5
  <2>4. ASSUME Calm' PROVE (\A s \in SeedSources : Answers(s))'
    <3>1. PICK n : n = seed.pass - mishaps' /\ Reaching(n, {})'
      BY <1>2, <2>3, <2>4
    <3>2. n >= 2
      BY <1>1, <1>5, <2>4, <3>1, SeedShapes DEF Calm
    <3> QED
      BY <3>1, <3>2 DEF Reaching
  <2> QED
    BY <2>2, <2>4 DEF Gaining, Ingesting
<1> QED
  BY <1>3, <1>4, <1>5

(* One source is looked at. *)
LEMMA LookHeals ==
    ASSUME HealInv, SeedLook, copied' = copied PROVE HealInv'
<1> DEFINE s == Min(Unseen)
<1>1. /\ UNCHANGED <<seedRow, seedVecs, exitCode, wiped>>
      /\ seed.pc \in {"first", "pass", "last"}
      /\ seed \in Programs /\ mishaps \in Nat /\ exitCode = "none"
  BY DEF SeedLook, HealInv, SeedTypes
<1>2. s \in seed.look /\ s \in SeedSources
  <2>1. Unseen \in SUBSET seed.look /\ seed.look \in SUBSET SeedSources /\ Unseen # {}
    BY <1>1 DEF SeedLook, Unseen, Programs
  <2>2. s \in Unseen
    BY <2>1, SeedShapes, LeastIsMember
  <2> QED
    BY <2>1, <2>2
<1>3. PICK lost : /\ seed' = [seed EXCEPT !.look = @ \ {s}, !.missing = @ \cup lost]
                  /\ \/ (mishaps' = mishaps /\ lost = IF Answers(s) THEN {} ELSE {s})
                     \/ (mishaps' = mishaps + 2 /\ lost = {s})
  BY DEF SeedLook, RowHasVectors, Answers
<1> HIDE DEF s
<1>4. /\ seed' \in Programs /\ seed'.pc = seed.pc /\ seed'.look = seed.look \ {s}
      /\ seed'.missing = seed.missing \cup lost /\ seed'.pass = seed.pass
  <2>1. lost \in SUBSET SeedSources
    BY <1>2, <1>3
  <2> QED
    BY <1>1, <1>3, <2>1 DEF Programs
<1>5. SeedTypes'
  BY <1>1, <1>3, <1>4 DEF SeedTypes, HealInv, Ingesting
<1>6. ASSUME Calm' PROVE Gaining'
  <2>1. mishaps' = mishaps /\ Calm /\ lost = IF Answers(s) THEN {} ELSE {s}
    BY <1>1, <1>3, <1>6 DEF Calm
  <2>2. Gaining
    BY <2>1 DEF HealInv
  <2> QED
    BY <1>1, <1>4, <2>1, <2>2 DEF Gaining, Answers, Level, Ingesting
<1> QED
  BY <1>1, <1>5, <1>6 DEF HealInv, SeedHeals

(* What the look found decides. *)
LEMMA DecideHeals ==
    ASSUME HealInv, SeedDecide, copied' = copied PROVE HealInv'
<1>1. /\ UNCHANGED <<seedRow, seedVecs, mishaps>>
      /\ seed.pc \in {"first", "pass", "last"} /\ Unseen = {}
      /\ seed \in Programs /\ mishaps \in Nat /\ exitCode = "none" /\ SeedTypes
  BY DEF SeedDecide, HealInv, SeedTypes
<1>2. /\ Calm' <=> Calm
      /\ Calm => Gaining
      /\ \A s : Answers(s)' <=> Answers(s)
  BY <1>1 DEF Calm, HealInv, Answers
<1>3. CASE seed.pc = "first" /\ seed.missing = {}
  <2>1. exitCode' = "0" /\ seed' = Off
    BY <1>3 DEF SeedDecide, Exit
  <2> QED
    BY <1>1, <2>1, OffFits DEF HealInv, SeedTypes, SeedHeals, Gaining, Ingesting
<1>4. CASE seed.pc = "first" /\ seed.missing # {}
  <2>1. exitCode' = exitCode /\ seed' = Looking("pass", 1)
    BY <1>4 DEF SeedDecide
  <2>2. /\ seed' \in Programs /\ seed'.pc = "pass" /\ seed'.pass = 1
        /\ seed'.look = SeedSources /\ seed'.missing = {}
    BY <2>1, LookingFits
  <2>3. Gaining'
    BY <1>1, <2>2 DEF Gaining, Level, Ingesting
  <2> QED
    BY <1>1, <2>1, <2>2, <2>3 DEF HealInv, SeedTypes, SeedHeals, Ingesting
<1>5. CASE seed.pc = "pass" /\ seed.missing = {}
  <2>1. exitCode' = exitCode /\ seed' = Looking("last", seed.pass)
    BY <1>5 DEF SeedDecide
  <2>2. /\ seed' \in Programs /\ seed'.pc = "last"
        /\ seed'.look = SeedSources /\ seed'.missing = {}
    BY <1>1, <2>1, LookingFits DEF Programs
  <2>3. seed.look = {}
    BY <1>1, <1>5 DEF Unseen
  <2>4. Calm => Gaining'
    BY <1>2, <1>5, <2>2, <2>3 DEF Gaining, Ingesting
  <2> QED
    BY <1>1, <1>2, <2>1, <2>2, <2>4 DEF HealInv, SeedTypes, SeedHeals, Ingesting
<1>6. CASE seed.pc = "pass" /\ seed.missing # {}
  <2> DEFINE p == [seed EXCEPT !.pc = "reset", !.todo = seed.missing]
  <2>1. exitCode' = exitCode /\ seed' = p
    BY <1>6 DEF SeedDecide
  <2>2. p \in Programs /\ p.pc = "reset" /\ p.todo = seed.missing /\ p.pass = seed.pass
    BY <1>1 DEF Programs, Ingesting
  <2> HIDE DEF p
  <2>3. seed.look = {} /\ seed.missing \in SUBSET SeedSources /\ seed.pass \in Nat
    BY <1>1, <1>6 DEF Unseen, Programs
  <2>4. ASSUME Calm PROVE Reaching(seed.pass - mishaps, seed.missing)
    <3>1. /\ \A s \in SeedSources \ seed.missing : Answers(s)
          /\ \A s \in seed.missing : ~Answers(s)
          /\ Level(seed.pass - 1 - mishaps)
      BY <1>2, <1>6, <2>3, <2>4 DEF Gaining
    <3>2. seed.pass - mishaps \in Int /\ seed.pass - 1 - mishaps = (seed.pass - mishaps) - 1
      BY <1>1, <2>3
    <3> DEFINE n == seed.pass - mishaps
    <3> HIDE DEF n
    <3>3. n \in Int /\ Level(n - 1)
      BY <3>1, <3>2 DEF n
    <3>4. n <= 2
      BY <1>6, <2>3, <3>1, <3>3 DEF Level
    <3>5. n >= 2 => seed.missing \cap SeedVideos = {}
      BY <3>1, <3>3 DEF Level
    <3> QED
      BY <3>1, <3>4, <3>5, SeedShapes DEF Reaching, n
  <2>5. Calm => Gaining'
    <3>1. Calm => Reaching(seed.pass - mishaps, seed.todo)'
      BY <1>1, <1>2, <2>1, <2>2, <2>4 DEF Reaching
    <3> QED
      BY <2>1, <2>2, <3>1 DEF Gaining
  <2> QED
    BY <1>1, <1>2, <1>6, <2>1, <2>2, <2>5 DEF HealInv, SeedTypes, SeedHeals
<1>7. CASE seed.pc = "last"
  <2>1. exitCode' = (IF seed.missing = {} THEN "0" ELSE "1") /\ seed' = Off
    BY <1>7 DEF SeedDecide, Exit
  <2>2. Calm => seed.missing = {}
    BY <1>1, <1>2, <1>7 DEF Gaining, Programs
  <2>3. SeedHeals'
    BY <1>1, <2>1, <2>2 DEF SeedHeals, Calm
  <2> QED
    BY <1>1, <2>1, <2>3, OffFits DEF HealInv, SeedTypes, Gaining, Ingesting
<1> QED
  BY <1>1, <1>3, <1>4, <1>5, <1>6, <1>7

(* The steps of one ingest that end it: the source answers, or one more has failed. *)
LEMMA IngestEnds ==
    ASSUME HealInv, seed.pc \in Ingesting, Done, MAX_PASSES >= 3, copied' = copied,
           exitCode' = exitCode, mishaps' \in Nat, seedRow' \in [SeedSources -> Statuses],
           Calm' => Calm,
           Calm' => \E n, T : n = seed.pass - mishaps' /\ T = seed.todo \ {Current} /\ Reaching(n, T)'
    PROVE  HealInv'
<1>1. SeedTypes /\ exitCode = "none" /\ seed' = AfterCurrent
  BY DEF HealInv, Done, Ingesting
<1>2. /\ seed' \in Programs /\ (seed'.pc \in Ingesting => seed'.todo # {})
      /\ Calm' => Gaining'
  BY <1>1, AfterHeals
<1> QED
  BY <1>1, <1>2 DEF HealInv, SeedTypes, SeedHeals

(* The steps in the middle of one. *)
LEMMA IngestGoesOn ==
    ASSUME HealInv, seed.pc \in Ingesting, NEW pc \in Ingesting, seed' = [seed EXCEPT !.pc = pc],
           seedRow' \in [SeedSources -> Statuses], UNCHANGED <<copied, exitCode, mishaps>>,
           \A v \in SeedVideos \ seed.todo : Answers(v) => Answers(v)',
           Current \notin SeedVideos =>
               \A s \in SeedSources \ seed.todo : Answers(s) => Answers(s)',
           pc = "flip" => Current \in seedVecs'
    PROVE  HealInv'
<1>1. /\ SeedTypes /\ exitCode = "none" /\ seed \in Programs /\ mishaps \in Nat
      /\ seed.pass \in Nat /\ seed.todo # {}
  BY DEF HealInv, Ingesting, SeedTypes, Programs
<1>2. /\ seed' \in Programs /\ seed'.pc = pc /\ seed'.todo = seed.todo /\ seed'.pass = seed.pass
  BY <1>1, Moved
<1>3. ASSUME Calm' PROVE Gaining'
  <2>1. Calm /\ Reaching(seed.pass - mishaps, seed.todo)
    BY <1>3 DEF Calm, HealInv, Gaining
  <2>2. Current \in seed.todo
    BY <1>1, CurrentIsDue
  <2>3. Reaching(seed.pass - mishaps, seed.todo)'
    <3> DEFINE n == seed.pass - mishaps
               T == seed.todo
    <3>1. n \in Int
      BY <1>1
    <3>2. n >= 2 => Current \notin SeedVideos
      BY <1>1, <2>1, <2>2 DEF Reaching
    <3>3. \A m, S : m = n /\ S = T => Reaching(m, S)'
      <4> TAKE m, S
      <4> HAVE m = n /\ S = T
      <4>1. m \in Int /\ Reaching(m, S)
        BY <2>1, <3>1
      <4> QED
        BY <3>2, <4>1, StillReaching
    <3> QED
      BY <1>2, <3>3 DEF Reaching
  <2>4. pc = "flip" => Current' \in seedVecs'
    BY <1>2 DEF Current
  <2> QED
    BY <1>2, <2>3, <2>4 DEF Gaining, Ingesting
<1> QED
  BY <1>1, <1>2, <1>3 DEF HealInv, SeedTypes, SeedHeals

LEMMA FlipHeals ==
    ASSUME HealInv, SeedFlip, MAX_PASSES >= 3, copied' = copied PROVE HealInv'
<1>1. /\ SeedTypes /\ seed.pc \in Ingesting /\ mishaps \in Nat /\ seed.pc = "flip"
      /\ seedRow \in [SeedSources -> Statuses] /\ seed.pass \in Nat
  BY DEF HealInv, SeedFlip, Ingesting, SeedTypes, Programs
<1>2. Current \in seed.todo /\ Current \in SeedSources
  BY <1>1, CurrentIsDue
<1>3. /\ seedRow' = [seedRow EXCEPT ![Current] = "indexed"] /\ Done
      /\ UNCHANGED <<seedVecs, exitCode, mishaps>>
  BY DEF SeedFlip
<1>4. /\ seedRow' \in [SeedSources -> Statuses]
      /\ \A s \in SeedSources : Answers(s) => Answers(s)'
      /\ seedRow'[Current] = "indexed"
  BY <1>1, <1>2, <1>3 DEF Statuses, Answers
<1>5. (Calm' <=> Calm) /\ mishaps' \in Nat
  BY <1>1, <1>3 DEF Calm
<1>6. ASSUME Calm
      PROVE  \E n, T : n = seed.pass - mishaps' /\ T = seed.todo \ {Current} /\ Reaching(n, T)'
  <2> DEFINE c == Current
             n == seed.pass - mishaps
             T == seed.todo
  <2>1. /\ Reaching(n, T) /\ n \in Int /\ c \in seedVecs
    BY <1>1, <1>6 DEF HealInv, Gaining
  <2>2. ASSUME NEW m, NEW S, NEW d, m = n, S = T, d = c PROVE Reaching(m, S \ {d})'
    <3>1. m \in Int /\ Reaching(m, S) /\ d \in S
      BY <1>2, <2>1, <2>2
    <3>2. Reaching(m, S)'
      BY <1>4, <3>1, StillReaching, SeedShapes
    <3>3. Answers(d)'
      BY <1>3, <1>4, <2>1, <2>2 DEF Answers
    <3> QED
      BY <3>1, <3>2, <3>3 DEF Reaching
  <2> QED
    BY <1>3, <2>2
<1> QED
  BY <1>1, <1>3, <1>4, <1>5, <1>6, IngestEnds

(* The ingest of a source fails: the pass keeps the level it began with. *)
LEMMA FailHeals ==
    ASSUME HealInv, SeedIngestFails, MAX_PASSES >= 3, copied' = copied PROVE HealInv'
<1>1. /\ SeedTypes /\ seed.pc \in Ingesting /\ mishaps \in Nat
      /\ seedRow \in [SeedSources -> Statuses] /\ seed.pass \in Nat
  BY DEF HealInv, SeedIngestFails, Ingesting, SeedTypes, Programs
<1>2. Current \in seed.todo /\ Current \in SeedSources
  BY <1>1, CurrentIsDue
<1>3. /\ \/ seedRow' = [seedRow EXCEPT ![Current] = "failed"]
         \/ UNCHANGED seedRow
      /\ Done /\ mishaps' = mishaps + 1 /\ UNCHANGED <<seedVecs, exitCode>>
  BY DEF SeedIngestFails
<1>4. /\ seedRow' \in [SeedSources -> Statuses]
      /\ \A s \in SeedSources : s # Current => (Answers(s) => Answers(s)')
  BY <1>1, <1>2, <1>3 DEF Statuses, Answers
<1>5. (Calm' => Calm) /\ mishaps' \in Nat
  BY <1>1, <1>3 DEF Calm
<1>6. ASSUME Calm
      PROVE  \E n, T : n = seed.pass - mishaps' /\ T = seed.todo \ {Current} /\ Reaching(n, T)'
  <2> DEFINE c == Current
             n == seed.pass - mishaps
             T == seed.todo
  <2>1. /\ Reaching(n, T) /\ n \in Int
    BY <1>1, <1>6 DEF HealInv, Gaining
  <2>2. ASSUME NEW m, NEW S, NEW d, m = n, S = T, d = c PROVE Reaching(m - 1, S \ {d})'
    <3>1. m \in Int /\ Reaching(m, S) /\ d \in S
      BY <1>2, <2>1, <2>2
    <3>2. Reaching(m, S)'
      BY <1>2, <1>4, <2>2, <3>1, StillReaching, SeedShapes
    <3> QED
      BY <3>1, <3>2, SeedShapes DEF Reaching
  <2>3. seed.pass - mishaps' = n - 1
    BY <1>1, <1>3
  <2> QED
    BY <2>2, <2>3
<1> QED
  BY <1>1, <1>3, <1>4, <1>5, <1>6, IngestEnds

LEMMA HealStep == MAX_PASSES >= 3 /\ HealInv /\ [SeedNext]_seedVars => HealInv'
<1> SUFFICES ASSUME MAX_PASSES >= 3, HealInv, [SeedNext]_seedVars PROVE HealInv'
  OBVIOUS
<1>0. /\ SeedTypes /\ seed \in Programs /\ mishaps \in Nat /\ seedRow \in [SeedSources -> Statuses]
      /\ copied' = copied /\ (seed.pc # "off" => exitCode = "none")
  BY DEF HealInv, SeedTypes, SeedNext, seedVars
<1>c. seed.pc \in Ingesting => Current \in seed.todo /\ Current \in SeedSources
  BY <1>0, CurrentIsDue
<1>1. CASE SeedStart
  <2>1. /\ seed' \in Programs /\ seed'.pc = "first" /\ mishaps' = 0 /\ exitCode = "none"
        /\ UNCHANGED <<seedRow, seedVecs, exitCode>>
    BY <1>1, LookingFits DEF SeedStart
  <2> QED
    BY <1>0, <2>1 DEF HealInv, SeedTypes, SeedHeals, Gaining, Ingesting
<1>2. CASE SeedLook
  BY <1>0, <1>2, LookHeals
<1>3. CASE SeedDecide
  BY <1>0, <1>3, DecideHeals
<1>4. CASE SeedRaises
  <2>1. seed' = Off /\ mishaps' = mishaps + 2 /\ UNCHANGED <<seedRow, seedVecs>>
    BY <1>4 DEF SeedRaises, Exit
  <2>2. mishaps' >= 2 /\ mishaps' \in Nat
    BY <1>0, <2>1
  <2> QED
    BY <1>0, <2>1, <2>2, OffFits DEF HealInv, SeedTypes, SeedHeals, Calm, Ingesting
<1>5. CASE SeedReset
  <2>1. /\ seed.pc = "reset" /\ seedRow' = [seedRow EXCEPT ![Current] = "pending"]
        /\ seed' = [seed EXCEPT !.pc = "ingest"] /\ UNCHANGED <<seedVecs, exitCode, mishaps>>
    BY <1>5 DEF SeedReset
  <2>2. seed.pc \in Ingesting /\ "ingest" \in Ingesting
    BY <2>1 DEF Ingesting
  <2>3. /\ seedRow' \in [SeedSources -> Statuses]
        /\ \A s \in SeedSources \ seed.todo : Answers(s) => Answers(s)'
    BY <1>0, <1>c, <2>1, <2>2 DEF Statuses, Answers
  <2> QED
    BY <1>0, <2>1, <2>2, <2>3, IngestGoesOn, SeedShapes
<1>6. CASE SeedFetch /\ Current \in copied
  <2>1. /\ seed.pc = "ingest" /\ seedRow' = [seedRow EXCEPT ![Current] = "skipped"]
        /\ Done /\ UNCHANGED <<seedVecs, exitCode, mishaps>>
    BY <1>6 DEF SeedFetch
  <2>2. seed.pc \in Ingesting
    BY <2>1 DEF Ingesting
  <2>3. seedRow' \in [SeedSources -> Statuses]
    BY <1>0, <2>1 DEF Statuses
  <2>4. ~Calm'
    BY <1>0, <1>6 DEF Calm
  <2> QED
    BY <1>0, <2>1, <2>2, <2>3, <2>4, IngestEnds
<1>7. CASE SeedFetch /\ Current \notin copied
  <2>1. /\ seed.pc = "ingest" /\ seedRow' = [seedRow EXCEPT ![Current] = "busy"]
        /\ seed' = [seed EXCEPT !.pc = "purge"] /\ UNCHANGED <<seedVecs, exitCode, mishaps>>
    BY <1>7 DEF SeedFetch
  <2>2. seed.pc \in Ingesting /\ "purge" \in Ingesting
    BY <2>1 DEF Ingesting
  <2>3. /\ seedRow' \in [SeedSources -> Statuses]
        /\ \A s \in SeedSources \ seed.todo : Answers(s) => Answers(s)'
    BY <1>0, <1>c, <2>1, <2>2 DEF Statuses, Answers
  <2> QED
    BY <1>0, <2>1, <2>2, <2>3, IngestGoesOn, SeedShapes
<1>8. CASE SeedPurge
  <2>1. /\ seed.pc = "purge" /\ seedVecs' \in {seedVecs, seedVecs \ Purged}
        /\ seed' = [seed EXCEPT !.pc = "fill"] /\ UNCHANGED <<seedRow, exitCode, mishaps>>
    BY <1>8 DEF SeedPurge
  <2>2. seed.pc \in Ingesting /\ "fill" \in Ingesting
    BY <2>1 DEF Ingesting
  <2>3. /\ \A v \in SeedVideos \ seed.todo : Answers(v) => Answers(v)'
        /\ Current \notin SeedVideos =>
               \A s \in SeedSources \ seed.todo : Answers(s) => Answers(s)'
    BY <1>c, <2>1, <2>2 DEF Answers, Purged, SeedDocuments
  <2> QED
    BY <1>0, <2>1, <2>2, <2>3, IngestGoesOn
<1>9. CASE SeedFill
  <2>1. /\ seed.pc = "fill" /\ seedVecs' = seedVecs \cup {Current}
        /\ seed' = [seed EXCEPT !.pc = "flip"] /\ UNCHANGED <<seedRow, exitCode, mishaps>>
    BY <1>9 DEF SeedFill
  <2>2. seed.pc \in Ingesting /\ "flip" \in Ingesting /\ Current \in seedVecs'
    BY <2>1 DEF Ingesting
  <2>3. \A s \in SeedSources : Answers(s) => Answers(s)'
    BY <2>1 DEF Answers
  <2> QED
    BY <1>0, <2>1, <2>2, <2>3, IngestGoesOn, SeedShapes
<1>10. CASE SeedFlip
  BY <1>0, <1>10, FlipHeals
<1>11. CASE SeedIngestFails
  BY <1>0, <1>11, FailHeals
<1>12. CASE SeedKilled
  <2>1. seed' = Off /\ UNCHANGED <<seedRow, seedVecs, exitCode, mishaps>> /\ exitCode = "none"
    BY <1>0, <1>12 DEF SeedKilled
  <2> QED
    BY <1>0, <2>1, OffFits DEF HealInv, SeedTypes, SeedHeals, Gaining, Ingesting
<1>13. CASE VectorsWiped
  <2>1. exitCode = "none" /\ mishaps' = mishaps + 2 /\ UNCHANGED <<seedRow, seed, exitCode>>
    BY <1>13 DEF VectorsWiped
  <2>2. mishaps' >= 2 /\ mishaps' \in Nat
    BY <1>0, <2>1
  <2> QED
    BY <1>0, <2>1, <2>2 DEF HealInv, SeedTypes, SeedHeals, Calm
<1>14. CASE UNCHANGED seedVars
  BY <1>14 DEF seedVars, HealInv, SeedTypes, SeedHeals, Calm, Gaining, Reaching, Level, Answers, Current
<1> QED
  BY <1>1, <1>2, <1>3, <1>4, <1>5, <1>6, <1>7, <1>8, <1>9, <1>10, <1>11, <1>12, <1>13, <1>14
  DEF SeedNext

(* SeedHeals, for any corpus and any number of faults, kills and wipes, with   *)
(* the three passes of the code or more: a start that gives up had two ingests *)
(* fail, or worse happen to it, or the tenant has a document under another id  *)
(* (seeding.py, _MAX_PASSES).                                                 *)
THEOREM ThreePassesHeal == MAX_PASSES >= 3 => (SeedSpec => []SeedHeals)
<1>1. SeedInit => HealInv
  BY HealStart
<1>2. MAX_PASSES >= 3 => (HealInv /\ [SeedNext]_seedVars => HealInv')
  BY HealStep
<1>3. HealInv => SeedHeals
  BY DEF HealInv
<1> SUFFICES ASSUME MAX_PASSES >= 3 PROVE SeedSpec => []SeedHeals
  OBVIOUS
<1>4. HealInv /\ [SeedNext]_seedVars => HealInv'
  BY <1>2
<1> QED
  BY <1>1, <1>3, <1>4, PTL DEF SeedSpec

(***************************************************************************)
(* The collections.                                                        *)
(***************************************************************************)

ProvShape ==
    /\ at = [p \in Procs |-> [pc |-> at[p].pc, todo |-> at[p].todo]]
    /\ ensured = [p \in Procs |-> ensured[p]]
    /\ dropped = [p \in Procs |-> dropped[p]]

(* A creator works on a collection that was there, and has not remembered it; *)
(* a process that is not there remembers nothing.                             *)
Creators(p) ==
    /\ at[p].pc \in {"user_id", "video_id"} => Collection(p) \in collections \cup dropped[p]
    /\ at[p].pc \in {"create", "user_id", "video_id"} => Collection(p) \notin ensured[p]
    /\ at[p].pc = "source_id" => Collection(p) = "text"
    /\ at[p].pc = "off" => ensured[p] = {}

(* Whoever has remembered the text collection has its index, or is about to. *)
SourceSeen(p) ==
    "text" \in ensured[p] \ dropped[p] =>
        \/ <<"text", "source_id">> \in indexes \cup excused
        \/ at[p].pc = "source_id" /\ Collection(p) = "text"

(* The part about one process. *)
ProcInv(p) ==
    /\ ensured[p] \subseteq collections \cup dropped[p]
    /\ Creators(p)
    /\ SourceSeen(p)

ProvInv ==
    /\ ProvShape
    /\ \A p \in Procs : ProcInv(p)
    /\ IndexedTogether

(* A process that moves is the only one that does. *)
LEMMA MovesOne ==
  ASSUME ProvShape, NEW p \in Procs, NEW here, at' = [at EXCEPT ![p] = here]
  PROVE  at'[p] = here /\ at' = [at EXCEPT ![p] = at'[p]] /\ \A q \in Procs \ {p} : at'[q] = at[q]
  BY DEF ProvShape

LEMMA MovesTo ==
  ASSUME ProvShape, NEW p \in Procs, NEW pc
  PROVE  At(p, pc) = [at EXCEPT ![p] = [pc |-> pc, todo |-> at[p].todo]]
<1>1. at[p] = [pc |-> at[p].pc, todo |-> at[p].todo]
  BY DEF ProvShape
<1>2. [at[p] EXCEPT !.pc = pc] = [pc |-> pc, todo |-> at[p].todo]
  BY <1>1
<1> QED
  BY <1>2 DEF At, ProvShape

LEMMA MovesOn ==
  ASSUME ProvShape, NEW p \in Procs
  PROVE  \E pc \in {"ready", "look"} : \E rest :
             AfterCollection(p) = [at EXCEPT ![p] = [pc |-> pc, todo |-> rest]]
  BY DEF AfterCollection

LEMMA Remembers ==
  ASSUME ProvShape, NEW p \in Procs, NEW c, Remember(p, c)
  PROVE  ensured' = [ensured EXCEPT ![p] = ensured'[p]] /\ ensured'[p] = ensured[p] \cup {c}
  BY DEF ProvShape, Remember

LEMMA SeesIt ==
  ASSUME ProvShape, NEW p \in Procs, NEW c, Sees(p, c)
  PROVE  dropped' = [dropped EXCEPT ![p] = dropped'[p]] /\ dropped'[p] = dropped[p] \ {c}
  BY DEF ProvShape, Sees

LEMMA ProvStart == ProvInit => ProvInv
  BY DEF ProvInit, ProvInv, ProvShape, ProcInv, Creators, SourceSeen, IndexedTogether, Stopped

(* A step of one process, or of the outside, keeps what holds of a process    *)
(* that does nothing, as long as it takes away no collection and no index.    *)
LEMMA Bystander ==
  ASSUME NEW q \in Procs, ProcInv(q), at'[q] = at[q], ensured'[q] = ensured[q],
         dropped'[q] = dropped[q], collections \subseteq collections',
         indexes \subseteq indexes', excused \subseteq excused'
  PROVE  ProcInv(q)'
  BY DEF ProcInv, Creators, SourceSeen, Collection

(* Collections nobody touches keep their indexes, and those at work on them. *)
LEMMA StillIndexed ==
  ASSUME IndexedTogether, collections' = collections,
         indexes \subseteq indexes', excused \subseteq excused',
         NEW p \in Procs, \A q \in Procs \ {p} : at'[q] = at[q],
         at[p].pc \notin {"user_id", "video_id"}
  PROVE  IndexedTogether'
<1> SUFFICES ASSUME NEW d \in collections, NEW f \in {"user_id", "video_id"}
             PROVE  <<d, f>> \in indexes' \cup excused' \/ AtWork(d, f)'
  BY DEF IndexedTogether
<1>1. CASE <<d, f>> \in indexes \cup excused
  BY <1>1
<1>2. CASE AtWork(d, f)
  <2>1. PICK q \in Procs : at[q].pc \in {"user_id", f} /\ Collection(q) = d
    BY <1>2 DEF AtWork
  <2>2. q # p
    BY <2>1
  <2> QED
    BY <2>1, <2>2 DEF AtWork, Collection
<1> QED
  BY <1>1, <1>2 DEF IndexedTogether

(* What a process that raises turns into. *)
LEMMA Raised ==
  ASSUME ProvShape, NEW p \in Procs, Gives(p)
  PROVE  /\ at' = [at EXCEPT ![p] = at'[p]] /\ ensured' = [ensured EXCEPT ![p] = ensured'[p]]
         /\ at'[p] = [pc |-> at'[p].pc, todo |-> at'[p].todo]
         /\ at'[p].pc \in {"ready", "off", "look"}
         /\ ensured'[p] = {} \/ (at'[p].pc # "off" /\ ensured'[p] = ensured[p])
<1>1. CASE \E todo : at' = [at EXCEPT ![p] = [pc |-> "ready", todo |-> todo]] /\ UNCHANGED ensured
  BY <1>1 DEF ProvShape
<1>2. CASE at' = [at EXCEPT ![p] = Stopped] /\ ensured' = [ensured EXCEPT ![p] = {}]
  <2>1. /\ at'[p] = Stopped /\ at' = [at EXCEPT ![p] = at'[p]]
        /\ ensured'[p] = {} /\ ensured' = [ensured EXCEPT ![p] = ensured'[p]]
    BY <1>2 DEF ProvShape
  <2>2. PICK none : Stopped = [pc |-> "off", todo |-> none]
    BY Zenon DEF Stopped
  <2>3. at'[p] = [pc |-> "off", todo |-> none]
    BY <2>1, <2>2
  <2>4. at'[p].pc = "off" /\ at'[p].todo = none
    BY <2>3
  <2>5. at'[p] = [pc |-> at'[p].pc, todo |-> at'[p].todo]
    BY <2>3, <2>4
  <2> QED
    BY <2>1, <2>4, <2>5
<1>3. CASE \E todo : at' = [at EXCEPT ![p] = [pc |-> "look", todo |-> todo]] /\ UNCHANGED ensured
  BY <1>3 DEF ProvShape
<1> QED
  BY <1>1, <1>2, <1>3 DEF Gives

(* One process moves, from a step that is none of a creator's or to one that is none. *)
LEMMA OneMoves ==
  ASSUME ProvInv, NEW p \in Procs,
         at' = [at EXCEPT ![p] = at'[p]], at'[p] = [pc |-> at'[p].pc, todo |-> at'[p].todo],
         ensured' = [ensured EXCEPT ![p] = ensured'[p]],
         dropped' = [dropped EXCEPT ![p] = dropped'[p]],
         collections \subseteq collections', indexes \subseteq indexes', excused \subseteq excused',
         ProcInv(p)', IndexedTogether'
  PROVE  ProvInv'
<1>1. ProvShape'
  BY DEF ProvInv, ProvShape
<1>2. ASSUME NEW q \in Procs PROVE ProcInv(q)'
  <2>1. CASE q = p
    BY <2>1
  <2>2. CASE q # p
    <3>1. at'[q] = at[q] /\ ensured'[q] = ensured[q] /\ dropped'[q] = dropped[q]
      BY <2>2 DEF ProvInv, ProvShape
    <3> QED
      BY <3>1, Bystander DEF ProvInv
  <2> QED
    BY <2>1, <2>2
<1> QED
  BY <1>1, <1>2 DEF ProvInv

LEMMA LookSafe ==
  ASSUME ProvInv, NEW p \in Procs, Look(p)
  PROVE  ProvInv'
<1> DEFINE c == Collection(p)
<1>0. /\ at[p].pc = "look" /\ UNCHANGED <<collections, indexes, provLeft, excused>>
      /\ ProvShape /\ ProcInv(p) /\ IndexedTogether
  BY DEF Look, ProvInv
<1>1. CASE c \in ensured[p] /\ at' = AfterCollection(p) /\ UNCHANGED <<ensured, dropped>>
  <2>1. /\ at' = [at EXCEPT ![p] = at'[p]] /\ at'[p] = [pc |-> at'[p].pc, todo |-> at'[p].todo]
        /\ at'[p].pc \in {"ready", "look"} /\ ensured' = [ensured EXCEPT ![p] = ensured'[p]]
        /\ dropped' = [dropped EXCEPT ![p] = dropped'[p]]
    BY <1>0, <1>1 DEF AfterCollection, ProvShape
  <2>2. ProcInv(p)'
    BY <1>0, <1>1, <2>1 DEF ProcInv, Creators, SourceSeen
  <2>3. IndexedTogether'
    BY <1>0, <2>1, StillIndexed DEF ProvShape
  <2> QED
    BY <1>0, <2>1, <2>2, <2>3, OneMoves
<1>2. CASE /\ c \notin ensured[p] /\ c \in collections
           /\ Remember(p, c) /\ Sees(p, c)
           /\ at' = IF c = "text" THEN At(p, "source_id") ELSE AfterCollection(p)
  <2>1. /\ at' = [at EXCEPT ![p] = at'[p]] /\ at'[p] = [pc |-> at'[p].pc, todo |-> at'[p].todo]
        /\ ensured' = [ensured EXCEPT ![p] = ensured'[p]]
        /\ dropped' = [dropped EXCEPT ![p] = dropped'[p]]
        /\ ensured'[p] = ensured[p] \cup {c} /\ dropped'[p] = dropped[p] \ {c}
    <3>1. /\ ensured' = [ensured EXCEPT ![p] = ensured'[p]]
          /\ dropped' = [dropped EXCEPT ![p] = dropped'[p]]
          /\ ensured'[p] = ensured[p] \cup {c} /\ dropped'[p] = dropped[p] \ {c}
      BY <1>0, <1>2, Remembers, SeesIt
    <3>2. CASE c = "text"
      <4>1. at' = [at EXCEPT ![p] = [pc |-> "source_id", todo |-> at[p].todo]]
        BY <3>2, <1>0, <1>2, MovesTo
      <4>2. at'[p] = [pc |-> "source_id", todo |-> at[p].todo] /\ at' = [at EXCEPT ![p] = at'[p]]
        BY <4>1, <1>0, MovesOne
      <4> QED
        BY <3>1, <4>2
    <3>3. CASE c # "text"
      <4>1. PICK pc \in {"ready", "look"} : \E rest : at' = [at EXCEPT ![p] = [pc |-> pc, todo |-> rest]]
        BY <3>3, <1>0, <1>2, MovesOn
      <4>0. PICK rest : at' = [at EXCEPT ![p] = [pc |-> pc, todo |-> rest]]
        BY <4>1
      <4>2. at'[p] = [pc |-> pc, todo |-> rest] /\ at' = [at EXCEPT ![p] = at'[p]]
        BY <4>0, <1>0, MovesOne
      <4> QED
        BY <3>1, <4>2
    <3> QED
      BY <3>2, <3>3
  <2>2. IF c = "text" THEN at'[p].pc = "source_id" /\ at'[p].todo = at[p].todo
        ELSE at'[p].pc \in {"ready", "look"}
    BY <1>0, <1>2 DEF AfterCollection, At, ProvShape
  <2>3. ProcInv(p)'
    BY <1>0, <1>2, <2>1, <2>2 DEF ProcInv, Creators, SourceSeen, Collection
  <2>4. IndexedTogether'
    BY <1>0, <2>1, StillIndexed DEF ProvShape
  <2> QED
    BY <1>0, <2>1, <2>3, <2>4, OneMoves
<1>3. CASE c \notin ensured[p] /\ c \notin collections /\ at' = At(p, "create") /\ UNCHANGED <<ensured, dropped>>
  <2>1. /\ at' = [at EXCEPT ![p] = at'[p]] /\ at'[p] = [pc |-> at'[p].pc, todo |-> at'[p].todo]
        /\ ensured' = [ensured EXCEPT ![p] = ensured'[p]]
        /\ dropped' = [dropped EXCEPT ![p] = dropped'[p]]
        /\ at'[p].pc = "create" /\ at'[p].todo = at[p].todo
    <3>1. at' = [at EXCEPT ![p] = [pc |-> "create", todo |-> at[p].todo]]
      BY <1>0, <1>3, MovesTo
    <3>2. /\ at' = [at EXCEPT ![p] = at'[p]]
          /\ at'[p] = [pc |-> "create", todo |-> at[p].todo]
      BY <3>1, <1>0, MovesOne
    <3>3. ensured' = [ensured EXCEPT ![p] = ensured'[p]] /\ dropped' = [dropped EXCEPT ![p] = dropped'[p]]
      BY <1>0, <1>3 DEF ProvShape
    <3> QED
      BY <3>2, <3>3
  <2>2. ProcInv(p)'
    BY <1>0, <1>3, <2>1 DEF ProcInv, Creators, SourceSeen, Collection
  <2>3. IndexedTogether'
    BY <1>0, <2>1, StillIndexed DEF ProvShape
  <2> QED
    BY <1>0, <2>1, <2>2, <2>3, OneMoves
<1> QED
  BY <1>1, <1>2, <1>3 DEF Look

LEMMA CreateSafe ==
  ASSUME ProvInv, NEW p \in Procs, Create(p)
  PROVE  ProvInv'
<1> DEFINE c == Collection(p)
<1>0. /\ at[p].pc = "create" /\ c \notin collections /\ collections' = collections \cup {c}
      /\ UNCHANGED <<indexes, ensured, provLeft, excused>>
      /\ ProvShape /\ ProcInv(p) /\ IndexedTogether
  BY DEF Create, ProvInv
<1>1. /\ at' = [at EXCEPT ![p] = at'[p]] /\ at'[p] = [pc |-> "user_id", todo |-> at[p].todo]
      /\ ensured' = [ensured EXCEPT ![p] = ensured'[p]]
      /\ dropped' = [dropped EXCEPT ![p] = dropped'[p]]
      /\ dropped'[p] = dropped[p] \ {c}
      /\ \A q \in Procs \ {p} : at'[q] = at[q]
  BY <1>0 DEF Create, At, ProvShape, Sees
<1>2. ProcInv(p)'
  BY <1>0, <1>1 DEF ProcInv, Creators, SourceSeen, Collection
<1>3. IndexedTogether'
  <2> SUFFICES ASSUME NEW d \in collections', NEW f \in {"user_id", "video_id"}
               PROVE  <<d, f>> \in indexes' \cup excused' \/ AtWork(d, f)'
    BY DEF IndexedTogether
  <2>1. CASE d = c
    BY <2>1, <1>1 DEF AtWork, Collection
  <2>2. CASE d # c
    <3>1. d \in collections
      BY <2>2, <1>0
    <3>2. CASE <<d, f>> \in indexes \cup excused
      BY <3>2, <1>0
    <3>3. CASE AtWork(d, f)
      BY <3>3, <1>0, <1>1 DEF AtWork, Collection
    <3> QED
      BY <3>1, <3>2, <3>3, <1>0 DEF IndexedTogether
  <2> QED
    BY <2>1, <2>2
<1> QED
  BY <1>0, <1>1, <1>2, <1>3, OneMoves

(* A process raises; the collection it wanted may exist all the same. *)
LEMMA RaisedSafe ==
  ASSUME ProvInv, NEW p \in Procs, Gives(p), UNCHANGED <<indexes, dropped>>,
         at[p].pc \in {"look", "create", "ready"}, collections \subseteq collections',
         excused \subseteq excused',
         \A d \in collections' \ collections : \A f \in {"user_id", "video_id"} :
             <<d, f>> \in indexes \cup excused'
  PROVE  ProvInv'
<1>0. ProvShape /\ ProcInv(p) /\ IndexedTogether
  BY DEF ProvInv
<1>1. /\ at' = [at EXCEPT ![p] = at'[p]] /\ ensured' = [ensured EXCEPT ![p] = ensured'[p]]
      /\ at'[p] = [pc |-> at'[p].pc, todo |-> at'[p].todo]
      /\ at'[p].pc \in {"ready", "off", "look"}
      /\ ensured'[p] = {} \/ (at'[p].pc # "off" /\ ensured'[p] = ensured[p])
  BY <1>0, Raised
<1>2. dropped' = [dropped EXCEPT ![p] = dropped'[p]] /\ \A q \in Procs \ {p} : at'[q] = at[q]
  BY <1>0, <1>1 DEF ProvShape
<1>3. ProcInv(p)'
  BY <1>0, <1>1 DEF ProcInv, Creators, SourceSeen
<1>4. IndexedTogether'
  <2> SUFFICES ASSUME NEW d \in collections', NEW f \in {"user_id", "video_id"}
               PROVE  <<d, f>> \in indexes' \cup excused' \/ AtWork(d, f)'
    BY DEF IndexedTogether
  <2>1. CASE d \notin collections
    BY <2>1
  <2>2. CASE d \in collections /\ <<d, f>> \in indexes \cup excused
    BY <2>2
  <2>3. CASE d \in collections /\ AtWork(d, f)
    BY <2>3, <1>2 DEF AtWork, Collection
  <2> QED
    BY <2>1, <2>2, <2>3, <1>0 DEF IndexedTogether
<1> QED
  BY <1>1, <1>2, <1>3, <1>4, OneMoves

(* An attempt at an index, made or passed over. *)
LEMMA IndexSafe ==
  ASSUME ProvInv, NEW p \in Procs, AfterIndex(p), UNCHANGED <<collections, dropped>>,
         indexes \subseteq indexes', excused \subseteq excused',
         <<Collection(p), at[p].pc>> \in indexes' \cup excused'
  PROVE  ProvInv'
<1> DEFINE c == Collection(p)
<1>0. ProvShape /\ ProcInv(p) /\ IndexedTogether
  BY DEF ProvInv
<1>1. /\ at' = [at EXCEPT ![p] = at'[p]] /\ ensured' = [ensured EXCEPT ![p] = ensured'[p]]
      /\ at'[p] = [pc |-> at'[p].pc, todo |-> at'[p].todo]
      /\ dropped' = [dropped EXCEPT ![p] = dropped'[p]] /\ \A q \in Procs \ {p} : at'[q] = at[q]
  BY <1>0 DEF AfterIndex, AfterCollection, At, Remember, ProvShape
<1>2. \/ at[p].pc = "user_id" /\ at'[p].pc = "video_id" /\ at'[p].todo = at[p].todo /\ ensured'[p] = ensured[p]
      \/ /\ at[p].pc = "video_id" /\ ensured'[p] = ensured[p] \cup {c}
         /\ IF c = "text" THEN at'[p].pc = "source_id" /\ at'[p].todo = at[p].todo
            ELSE at'[p].pc \in {"ready", "look"}
      \/ at[p].pc = "source_id" /\ at'[p].pc \in {"ready", "look"} /\ ensured'[p] = ensured[p]
  BY <1>0 DEF AfterIndex, AfterCollection, At, Remember, ProvShape
<1>3. ProcInv(p)'
  BY <1>0, <1>2 DEF ProcInv, Creators, SourceSeen, Collection
<1>4. IndexedTogether'
  <2> SUFFICES ASSUME NEW d \in collections, NEW f \in {"user_id", "video_id"}
               PROVE  <<d, f>> \in indexes' \cup excused' \/ AtWork(d, f)'
    BY DEF IndexedTogether
  <2>1. CASE <<d, f>> \in indexes \cup excused
    BY <2>1
  <2>2. CASE AtWork(d, f)
    <3>1. PICK q \in Procs : at[q].pc \in {"user_id", f} /\ Collection(q) = d
      BY <2>2 DEF AtWork
    <3>2. CASE q # p
      BY <3>1, <3>2, <1>1 DEF AtWork, Collection
    <3>3. CASE q = p /\ at[p].pc = f
      BY <3>1, <3>3
    <3>4. CASE q = p /\ at[p].pc = "user_id" /\ f = "video_id"
      BY <3>1, <3>4, <1>2 DEF AtWork, Collection
    <3> QED
      BY <3>1, <3>2, <3>3, <3>4
  <2> QED
    BY <2>1, <2>2, <1>0 DEF IndexedTogether
<1> QED
  BY <1>1, <1>3, <1>4, OneMoves

(* A process that is killed, or ends with its run, leaves what it has not indexed. *)
LEMMA StopSafe ==
  ASSUME ProvInv, NEW p \in Procs, at' = [at EXCEPT ![p] = Stopped],
         ensured' = [ensured EXCEPT ![p] = {}], UNCHANGED <<collections, indexes, dropped>>,
         excused \subseteq excused',
         \A f \in {"user_id", "video_id"} :
             at[p].pc \in {"user_id", f} => <<Collection(p), f>> \in indexes \cup excused'
  PROVE  ProvInv'
<1>0. ProvShape /\ ProcInv(p) /\ IndexedTogether
  BY DEF ProvInv
<1>1. /\ at'[p] = [pc |-> at'[p].pc, todo |-> at'[p].todo] /\ at'[p].pc = "off"
      /\ at' = [at EXCEPT ![p] = at'[p]] /\ ensured' = [ensured EXCEPT ![p] = ensured'[p]]
      /\ ensured'[p] = {}
      /\ dropped' = [dropped EXCEPT ![p] = dropped'[p]] /\ \A q \in Procs \ {p} : at'[q] = at[q]
  BY <1>0 DEF ProvShape, Stopped
<1>2. ProcInv(p)'
  BY <1>1 DEF ProcInv, Creators, SourceSeen
<1>3. IndexedTogether'
  <2> SUFFICES ASSUME NEW d \in collections, NEW f \in {"user_id", "video_id"}
               PROVE  <<d, f>> \in indexes' \cup excused' \/ AtWork(d, f)'
    BY DEF IndexedTogether
  <2>1. CASE <<d, f>> \in indexes \cup excused
    BY <2>1
  <2>2. CASE AtWork(d, f)
    <3>1. PICK q \in Procs : at[q].pc \in {"user_id", f} /\ Collection(q) = d
      BY <2>2 DEF AtWork
    <3>2. CASE q # p
      BY <3>1, <3>2, <1>1 DEF AtWork, Collection
    <3>3. CASE q = p
      BY <3>1, <3>3
    <3> QED
      BY <3>2, <3>3
  <2> QED
    BY <2>1, <2>2, <1>0 DEF IndexedTogether
<1> QED
  BY <1>1, <1>2, <1>3, OneMoves

(* A collection that is dropped is one that everybody has lost. *)
LEMMA DropSafe ==
  ASSUME ProvInv, NEW c \in Collections, CollectionDropped(c)
  PROVE  ProvInv'
<1>0. ProvShape /\ IndexedTogether /\ (\A p \in Procs : ProcInv(p))
  BY DEF ProvInv
<1>1. /\ UNCHANGED <<ensured, at>> /\ collections' = collections \ {c}
      /\ \A p \in Procs : dropped'[p] = dropped[p] \cup {c}
      /\ dropped' = [p \in Procs |-> dropped'[p]]
      /\ \A d, f : d # c => (<<d, f>> \in indexes' \cup excused' <=> <<d, f>> \in indexes \cup excused)
  BY DEF CollectionDropped
<1>2. ProvShape'
  BY <1>0, <1>1 DEF ProvShape
<1>3. ASSUME NEW p \in Procs PROVE ProcInv(p)'
  <2>1. CASE c = "text"
    BY <2>1, <1>0, <1>1 DEF ProcInv, Creators, SourceSeen, Collection
  <2>2. CASE c # "text"
    BY <2>2, <1>0, <1>1 DEF ProcInv, Creators, SourceSeen, Collection
  <2> QED
    BY <2>1, <2>2
<1>4. IndexedTogether'
  BY <1>0, <1>1 DEF IndexedTogether, AtWork, Collection
<1> QED
  BY <1>2, <1>3, <1>4 DEF ProvInv

LEMMA StartSafe ==
  ASSUME ProvInv, NEW p \in Procs, StartProcess(p)
  PROVE  ProvInv'
<1>0. /\ ProvShape /\ ProcInv(p) /\ IndexedTogether /\ at[p].pc = "off"
      /\ UNCHANGED <<collections, indexes, ensured, provLeft, excused>>
  BY DEF ProvInv, StartProcess
<1>1. /\ at' = [at EXCEPT ![p] = at'[p]] /\ at'[p] = [pc |-> "look", todo |-> Wanted(p)]
      /\ \A q \in Procs \ {p} : at'[q] = at[q]
  <2>1. at' = [at EXCEPT ![p] = [pc |-> "look", todo |-> Wanted(p)]]
    BY DEF StartProcess
  <2>2. PICK here : here = [pc |-> "look", todo |-> Wanted(p)]
    OBVIOUS
  <2>3. at' = [at EXCEPT ![p] = here]
    BY <2>1, <2>2
  <2>4. at'[p] = here /\ at' = [at EXCEPT ![p] = at'[p]] /\ \A q \in Procs \ {p} : at'[q] = at[q]
    BY <2>3, <1>0, MovesOne
  <2> QED
    BY <2>2, <2>4
<1>2. /\ ensured' = [ensured EXCEPT ![p] = ensured'[p]] /\ dropped' = [dropped EXCEPT ![p] = dropped'[p]]
      /\ dropped'[p] = {}
  BY <1>0 DEF StartProcess, ProvShape
<1>3. ProcInv(p)'
  BY <1>0, <1>1, <1>2 DEF ProcInv, Creators, SourceSeen
<1>4. IndexedTogether'
  BY <1>0, <1>1, StillIndexed
<1> QED
  BY <1>0, <1>1, <1>2, <1>3, <1>4, OneMoves

LEMMA ProvStep == ProvInv /\ [ProvNext]_provVars => ProvInv'
<1> SUFFICES ASSUME ProvInv, [ProvNext]_provVars PROVE ProvInv'
  OBVIOUS
<1>1. ASSUME NEW p \in Procs, StartProcess(p) \/ Look(p) \/ Create(p) PROVE ProvInv'
  BY <1>1, StartSafe, LookSafe, CreateSafe
<1>2. ASSUME NEW p \in Procs, CreateConflicts(p) PROVE ProvInv'
  BY <1>2, RaisedSafe DEF CreateConflicts
<1>3. ASSUME NEW p \in Procs, EnsureRaises(p) PROVE ProvInv'
  <2>1. /\ Gives(p) /\ UNCHANGED <<indexes, dropped>> /\ at[p].pc \in {"look", "create"}
    BY <1>3 DEF EnsureRaises
  <2>2. CASE UNCHANGED <<collections, excused>>
    BY <2>1, <2>2, RaisedSafe
  <2>3. CASE /\ collections' = collections \cup {Collection(p)}
             /\ excused' = excused \cup Unindexed(Collection(p), {"user_id", "video_id"})
    <3>1. \A d \in collections' \ collections : \A f \in {"user_id", "video_id"} :
              <<d, f>> \in indexes \cup excused'
      BY <2>3 DEF Unindexed
    <3>2. collections \subseteq collections' /\ excused \subseteq excused'
      BY <2>3
    <3> QED
      BY <2>1, <3>1, <3>2, RaisedSafe
  <2> QED
    BY <1>3, <2>2, <2>3 DEF EnsureRaises
<1>4. ASSUME NEW p \in Procs, CreateIndex(p) PROVE ProvInv'
  BY <1>4, IndexSafe DEF CreateIndex
<1>5. ASSUME NEW p \in Procs, IndexRefused(p) PROVE ProvInv'
  <2>1. <<Collection(p), at[p].pc>> \in indexes' \cup excused' /\ excused \subseteq excused'
    BY <1>5 DEF IndexRefused, Unindexed
  <2> QED
    BY <1>5, <2>1, IndexSafe DEF IndexRefused
<1>6. ASSUME NEW p \in Procs, WriteChunks(p) PROVE ProvInv'
  <2>1. CASE Gives(p)
    BY <1>6, <2>1, RaisedSafe DEF WriteChunks
  <2>2. CASE at' = [at EXCEPT ![p] = Stopped] /\ ensured' = [ensured EXCEPT ![p] = {}]
    BY <1>6, <2>2, StopSafe DEF WriteChunks
  <2> QED
    BY <1>6, <2>1, <2>2 DEF WriteChunks
<1>7. ASSUME NEW p \in Procs, ProcessKilled(p) PROVE ProvInv'
  <2>1. /\ at' = [at EXCEPT ![p] = Stopped] /\ ensured' = [ensured EXCEPT ![p] = {}]
        /\ UNCHANGED <<collections, indexes, dropped>> /\ excused \subseteq excused'
    BY <1>7 DEF ProcessKilled
  <2>2. CASE at[p].pc = "user_id"
    <3>1. excused' = excused \cup Unindexed(Collection(p), {"user_id", "video_id"})
      BY <1>7, <2>2 DEF ProcessKilled
    <3> QED
      BY <2>1, <2>2, <3>1, StopSafe DEF Unindexed
  <2>3. CASE at[p].pc = "video_id"
    <3>1. excused' = excused \cup Unindexed(Collection(p), {"video_id"})
      BY <1>7, <2>3 DEF ProcessKilled
    <3> QED
      BY <2>1, <2>3, <3>1, StopSafe DEF Unindexed
  <2>4. CASE at[p].pc \notin {"user_id", "video_id"}
    BY <2>1, <2>4, StopSafe
  <2> QED
    BY <2>2, <2>3, <2>4
<1>8. ASSUME NEW c \in Collections, CollectionDropped(c) PROVE ProvInv'
  BY <1>8, DropSafe
<1>9. CASE UNCHANGED provVars
  <2>1. ProvShape'
    BY <1>9 DEF provVars, ProvInv, ProvShape
  <2>2. ASSUME NEW p \in Procs PROVE ProcInv(p)'
    BY <1>9, Bystander DEF provVars, ProvInv
  <2>3. IndexedTogether'
    BY <1>9 DEF provVars, ProvInv, IndexedTogether, AtWork, Collection
  <2> QED
    BY <2>1, <2>2, <2>3 DEF ProvInv
<1> QED
  BY <1>1, <1>2, <1>3, <1>4, <1>5, <1>6, <1>7, <1>8, <1>9 DEF ProvNext

LEMMA ProvInvariance == ProvSpec => []ProvInv
  BY ProvStart, ProvStep, PTL DEF ProvSpec

(* What a process remembers of a collection is true until it is dropped. *)
THEOREM MemosHonest == ProvSpec => []MemoHonest
<1>1. ProvInv => MemoHonest
  BY DEF ProvInv, ProcInv, MemoHonest
<1> QED
  BY <1>1, ProvInvariance, PTL

(* A collection nobody is still at has the indexes it was to be created with,  *)
(* for any number of creators, unless one was refused, the creator was killed   *)
(* on the way, or the call that created the collection raised after it was     *)
(* applied.                                                                   *)
THEOREM CreatedIndexed == ProvSpec => []IndexedTogether
<1>1. ProvInv => IndexedTogether
  BY DEF ProvInv
<1> QED
  BY <1>1, ProvInvariance, PTL

(* The index on source_id is seen to by everybody who ensures the collection. *)
THEOREM SourceIndexHeals == ProvSpec => []SourceHeals
<1>1. ProvInv => SourceHeals
  BY DEF ProvInv, ProcInv, SourceSeen, SourceHeals
<1> QED
  BY <1>1, ProvInvariance, PTL

(***************************************************************************)
(* The cached vectors.                                                     *)
(***************************************************************************)

(* A vector kept for a model is its own, unless the service computed with      *)
(* another one when asked for it and that vector may still be about.           *)
OfModel(vec, m) == vec = m \/ m \in mixed

EmbedInv ==
    /\ vectors \in [EmbedModels -> EmbedModels \cup {NoVector}]
    /\ version \in [Askers -> EmbedModels]
    /\ asker \in [Askers -> [pc: {"idle", "get", "post", "set", "served", "failed"}, tries: Nat,
                              vec: EmbedModels \cup {NoVector}]]
    /\ service \in EmbedModels \cup {NoVector}
    /\ \A k \in EmbedModels : vectors[k] # NoVector => OfModel(vectors[k], k)
    /\ \A t \in Askers : asker[t].pc \in {"set", "served"} =>
           /\ asker[t].vec \in EmbedModels
           /\ OfModel(asker[t].vec, version[t])

LEMMA EmbedStart == EmbedInit => EmbedInv
  BY EmbedShapes DEF EmbedInit, EmbedInv, OfModel, Unasked

LEMMA EmbedStep == EmbedInv /\ [EmbedNext]_embedVars => EmbedInv'
<1> SUFFICES ASSUME EmbedInv, [EmbedNext]_embedVars PROVE EmbedInv'
  OBVIOUS
<1> USE DEF EmbedInv, OfModel
<1>1. ASSUME NEW t \in Askers, EmbedText(t) PROVE EmbedInv'
  BY <1>1 DEF EmbedText
<1>2. ASSUME NEW t \in Askers, LookUp(t) PROVE EmbedInv'
  BY <1>2 DEF LookUp, Served, CacheKey
<1>3. ASSUME NEW t \in Askers, Post(t) PROVE EmbedInv'
  BY <1>3 DEF Post
<1>4. ASSUME NEW t \in Askers, PostFails(t) PROVE EmbedInv'
  <2>1. PICK pc \in {"post", "failed"} :
            asker' = [asker EXCEPT ![t] = [pc |-> pc, tries |-> @.tries + 1, vec |-> @.vec]]
    BY <1>4 DEF PostFails
  <2>2. UNCHANGED <<vectors, version, service, mixed>>
    BY <1>4 DEF PostFails
  <2>3. asker' \in [Askers -> [pc: {"idle", "get", "post", "set", "served", "failed"}, tries: Nat,
                               vec: EmbedModels \cup {NoVector}]]
    BY <2>1
  <2>4. asker'[t].pc = pc /\ \A u \in Askers \ {t} : asker'[u] = asker[u]
    BY <2>1
  <2> QED
    BY <2>2, <2>3, <2>4
<1>5. ASSUME NEW t \in Askers, StoreVector(t) PROVE EmbedInv'
  <2>1. /\ asker[t].pc = "set" /\ UNCHANGED <<version, service, mixed>>
        /\ asker' = [asker EXCEPT ![t] = [pc |-> "served", tries |-> asker[t].tries, vec |-> asker[t].vec]]
    BY <1>5 DEF StoreVector, Served
  <2>2. /\ asker[t].vec \in EmbedModels /\ OfModel(asker[t].vec, version[t]) /\ version[t] \in EmbedModels
    BY <2>1
  <2>3. \/ vectors' = [vectors EXCEPT ![version[t]] = asker[t].vec]
        \/ vectors' = vectors
    BY <1>5 DEF StoreVector, CacheKey
  <2>4. vectors' \in [EmbedModels -> EmbedModels \cup {NoVector}]
    BY <2>2, <2>3
  <2>5. ASSUME NEW k \in EmbedModels, vectors'[k] # NoVector PROVE vectors'[k] = k \/ k \in mixed'
    BY <2>1, <2>2, <2>3, <2>5
  <2>6. /\ asker'[t].pc = "served" /\ asker'[t].vec = asker[t].vec
        /\ \A u \in Askers \ {t} : asker'[u] = asker[u]
    BY <2>1
  <2>7. asker' \in [Askers -> [pc: {"idle", "get", "post", "set", "served", "failed"}, tries: Nat,
                               vec: EmbedModels \cup {NoVector}]]
    BY <2>1, <2>2
  <2> QED
    BY <2>1, <2>2, <2>4, <2>5, <2>6, <2>7
<1>6. ASSUME NEW t \in Askers, AskerRests(t) PROVE EmbedInv'
  BY <1>6 DEF AskerRests, Unasked
<1>7. ASSUME NEW t \in Askers, NEW m \in EmbedModels, Redeploy(t, m) PROVE EmbedInv'
  BY <1>7 DEF Redeploy, Unasked
<1>8. CASE ServiceGoes
  BY <1>8 DEF ServiceGoes
<1>9. ASSUME NEW m \in EmbedModels, ServiceComes(m) PROVE EmbedInv'
  BY <1>9 DEF ServiceComes
<1>10. ASSUME NEW m \in EmbedModels, VectorExpires(m) PROVE EmbedInv'
  <2>1. /\ vectors' = [vectors EXCEPT ![m] = NoVector] /\ UNCHANGED <<version, service, asker>>
        /\ mixed \ {m} \subseteq mixed'
        /\ mixed' = mixed \/ \A t \in Askers : version[t] = m => asker[t].vec \in {NoVector, m}
    BY <1>10 DEF VectorExpires
  <2>2. ASSUME NEW k \in EmbedModels, vectors'[k] # NoVector PROVE vectors'[k] = k \/ k \in mixed'
    BY <2>1, <2>2
  <2>3. ASSUME NEW t \in Askers, asker[t].pc \in {"set", "served"}
        PROVE  asker[t].vec = version[t] \/ version[t] \in mixed'
    BY <2>1, <2>3, EmbedShapes
  <2> QED
    BY <2>1, <2>2, <2>3
<1>11. CASE UNCHANGED embedVars
  BY <1>11 DEF embedVars
<1> QED
  BY <1>1, <1>2, <1>3, <1>4, <1>5, <1>6, <1>7, <1>8, <1>9, <1>10, <1>11 DEF EmbedNext

(* A question is embedded in the space of the process that asks, whatever is    *)
(* restarted or lost meanwhile and however many processes are redeployed, but   *)
(* for a model the service did not have yet when a process asked for it, until  *)
(* what was stored under its name has expired.                                 *)
THEOREM VectorsRight == EmbedSpec => []RightSpace
<1>1. EmbedInv => RightSpace
  BY DEF EmbedInv, OfModel, RightSpace
<1> QED
  BY <1>1, EmbedStart, EmbedStep, PTL DEF EmbedSpec

(***************************************************************************)
(* The cached listings.                                                    *)
(***************************************************************************)

Contents == UNION {[S -> Int] : S \in SUBSET Tables}

Listings == [pc: {"idle", "get", "set"}, view: Views, key: Views, held: Contents, spent: 0 .. MaxDelay]
PollCopies == [ttl: 0 .. POLL_CACHE_TTL_S + 1, shows: Contents]

(* The tables of which a request holds a list. *)
HeldTables(q) ==
    IF q.pc = "idle" THEN {}
    ELSE IF q.pc = "get" THEN IF q.view = "sources" /\ q.key = "documents" THEN {"videos"} ELSE {}
    ELSE IF q.view = "sources" /\ q.key # "videos" THEN Tables ELSE TablesOf(q.key)

(* What a request queried is as old as the request; what it read from a copy *)
(* may have been a freshness behind already.                                *)
Lag(q, t) ==
    IF q.pc = "set" /\ q.key # "sources" /\ t \in TablesOf(q.key) THEN q.spent
    ELSE POLL_CACHE_TTL_S + MaxDelay + q.spent

InTime(q) ==
    /\ q.key = q.view \/ (q.view = "sources" /\ q.key \in Tables)
    /\ DOMAIN q.held = HeldTables(q)
    /\ \A t \in HeldTables(q) : q.held[t] <= Lag(q, t)

(* A copy gets no further behind than the ticks it has left allow. *)
Fresh(v, c) ==
    /\ DOMAIN c.shows = IF c.ttl = 0 THEN {} ELSE TablesOf(v)
    /\ \A t \in DOMAIN c.shows : c.shows[t] + c.ttl <= Freshness(v) + 1

PollInv ==
    /\ polled \in [Views -> PollCopies] /\ listing \in [Readers -> Listings]
    /\ \A v \in Views : Fresh(v, polled[v])
    /\ \A r \in Readers : InTime(listing[r])

LEMMA ListShape ==
    ASSUME NEW S \in SUBSET Tables, NEW f \in [S -> Int] PROVE f \in Contents
  BY DEF Contents

LEMMA ListEntries ==
    ASSUME NEW f \in Contents
    PROVE  DOMAIN f \subseteq Tables /\ f \in [DOMAIN f -> Int]
  BY DEF Contents

LEMMA JoinedList ==
    ASSUME NEW f \in Contents, NEW g \in Contents
    PROVE  /\ Overlaid(f, g) \in Contents
           /\ DOMAIN Overlaid(f, g) = DOMAIN f \cup DOMAIN g
           /\ \A t \in DOMAIN f : Overlaid(f, g)[t] = f[t]
           /\ \A t \in DOMAIN g \ DOMAIN f : Overlaid(f, g)[t] = g[t]
<1> DEFINE S == DOMAIN f \cup DOMAIN g
<1>1. S \in SUBSET Tables /\ f \in [DOMAIN f -> Int] /\ g \in [DOMAIN g -> Int]
  BY ListEntries
<1>2. Overlaid(f, g) \in [S -> Int]
  BY <1>1 DEF Overlaid
<1>3. Overlaid(f, g) \in Contents
  BY <1>1, <1>2, ListShape
<1> QED
  BY <1>3 DEF Overlaid

LEMMA NothingListed == Nothing \in Contents /\ DOMAIN Nothing = {}
<1>1. DOMAIN Nothing = {}
  BY DEF Nothing
<1>2. Nothing \in [{} -> Int]
  BY DEF Nothing
<1> QED
  BY <1>1, <1>2, ListShape

LEMMA FreshnessIs ==
    /\ POLL_CACHE_TTL_S \in Nat /\ MaxDelay \in Nat
    /\ Freshness("sources") = 2 * (POLL_CACHE_TTL_S + MaxDelay)
    /\ \A v \in Views : v # "sources" => Freshness(v) = POLL_CACHE_TTL_S + MaxDelay
  BY PollShapes DEF Freshness

LEMMA RestingFits == Resting \in Listings /\ InTime(Resting)
  BY NothingListed, FreshnessIs DEF Resting, Listings, InTime, HeldTables, Views

LEMMA NoCopyFits == NoCopy \in PollCopies /\ \A v \in Views : Fresh(v, NoCopy)
  BY NothingListed, FreshnessIs DEF NoCopy, PollCopies, Fresh

LEMMA PollStart == PollInit => PollInv
  BY RestingFits, NoCopyFits DEF PollInit, PollInv

(* What a request has got for its key. *)
Brought(q, shows) ==
    /\ shows \in [TablesOf(q.key) -> Int]
    /\ \A t \in TablesOf(q.key) : shows[t] <= Freshness(q.key) + q.spent

LEMMA GotFits ==
    ASSUME NEW q \in Listings, InTime(q), q.pc # "idle", NEW shows, Brought(q, shows)
    PROVE  Got(q, shows) \in Listings /\ InTime(Got(q, shows))
<1>1. CASE q.key = q.view
  BY <1>1, RestingFits DEF Got
<1>2. CASE q.view = "sources" /\ q.key = "videos"
  <2> DEFINE p == [q EXCEPT !.pc = "get", !.key = "documents", !.held = shows]
  <2>1. Got(q, shows) = p
    BY <1>2 DEF Got
  <2>2. TablesOf(q.key) = {"videos"} /\ shows \in [{"videos"} -> Int]
    BY <1>2 DEF TablesOf, Brought
  <2>3. shows \in Contents
    BY <2>2, ListShape DEF Tables
  <2>4. p \in Listings /\ p.pc = "get" /\ p.view = "sources" /\ p.key = "documents" /\ p.held = shows
        /\ p.spent = q.spent
    BY <1>2, <2>3 DEF Listings, Views
  <2> HIDE DEF p
  <2>5. HeldTables(p) = {"videos"}
    BY <2>4 DEF HeldTables
  <2>6. Lag(p, "videos") = POLL_CACHE_TTL_S + MaxDelay + p.spent
    BY <2>4 DEF Lag
  <2>7. shows["videos"] <= POLL_CACHE_TTL_S + MaxDelay + p.spent
    BY <1>2, <2>2, <2>4, FreshnessIs DEF Brought, Views
  <2> QED
    BY <2>1, <2>2, <2>4, <2>5, <2>6, <2>7 DEF InTime, Tables
<1>3. CASE q.view = "sources" /\ q.key = "documents"
  <2> DEFINE j == Overlaid(q.held, shows)
             p == [q EXCEPT !.pc = "set", !.key = "sources", !.held = j]
  <2>1. Got(q, shows) = p
    BY <1>3 DEF Got, j
  <2>2. TablesOf(q.key) = {"documents"} /\ shows \in [{"documents"} -> Int]
    BY <1>3 DEF TablesOf, Brought
  <2>3. shows \in Contents /\ q.held \in Contents
    BY <2>2, ListShape DEF Tables, Listings
  <2>0. /\ j \in Contents /\ DOMAIN j = DOMAIN q.held \cup DOMAIN shows
        /\ \A t \in DOMAIN q.held : j[t] = q.held[t]
        /\ \A t \in DOMAIN shows \ DOMAIN q.held : j[t] = shows[t]
    BY <2>3, JoinedList
  <2> HIDE DEF j
  <2>4. /\ p \in Listings /\ p.pc = "set" /\ p.view = "sources" /\ p.key = "sources"
        /\ p.held = j /\ p.spent = q.spent
    BY <1>3, <2>0 DEF Listings, Views
  <2> HIDE DEF p
  <2>5. HeldTables(p) = Tables
    BY <2>4 DEF HeldTables
  <2>6. \A t \in Tables : Lag(p, t) = POLL_CACHE_TTL_S + MaxDelay + p.spent
    BY <2>4 DEF Lag
  <2>7. /\ "videos" \in DOMAIN q.held /\ DOMAIN q.held \subseteq Tables
        /\ \A t \in DOMAIN q.held : q.held[t] <= POLL_CACHE_TTL_S + MaxDelay + q.spent
    <3>1. q.pc \in {"get", "set"} /\ DOMAIN q.held = HeldTables(q)
      BY DEF Listings, InTime
    <3>2. HeldTables(q) = IF q.pc = "set" THEN Tables ELSE {"videos"}
      BY <1>3, <3>1 DEF HeldTables
    <3>3. ASSUME NEW t \in DOMAIN q.held
          PROVE  q.held[t] <= POLL_CACHE_TTL_S + MaxDelay + q.spent
      <4>1. q.held[t] \in Int /\ q.held[t] <= Lag(q, t)
        BY <2>3, <3>1, <3>3, ListEntries DEF InTime
      <4>2. q.spent \in Nat /\ Lag(q, t) \in {q.spent, POLL_CACHE_TTL_S + MaxDelay + q.spent}
        BY FreshnessIs DEF Lag, Listings
      <4> QED
        BY <4>1, <4>2, FreshnessIs
    <3> QED
      BY <3>1, <3>2, <3>3 DEF Tables
  <2>8. /\ DOMAIN p.held = Tables
        /\ p.held["videos"] = q.held["videos"]
        /\ p.held["documents"] \in {shows["documents"], q.held["documents"]}
        /\ p.held["documents"] = shows["documents"] \/ "documents" \in DOMAIN q.held
    <3>1. DOMAIN shows = {"documents"} /\ DOMAIN p.held = DOMAIN q.held \cup {"documents"}
      BY <2>2, <2>4, <2>0
    <3>2. \A t \in DOMAIN q.held : p.held[t] = q.held[t]
      BY <2>4, <2>0
    <3>3. "documents" \notin DOMAIN q.held => p.held["documents"] = shows["documents"]
      BY <2>4, <2>0, <3>1
    <3> QED
      BY <2>7, <3>1, <3>2, <3>3 DEF Tables
  <2>9. shows["documents"] <= POLL_CACHE_TTL_S + MaxDelay + p.spent
    BY <1>3, <2>2, <2>4, FreshnessIs DEF Brought, Views
  <2>10. \A t \in Tables : p.held[t] <= POLL_CACHE_TTL_S + MaxDelay + p.spent
    BY <2>4, <2>7, <2>8, <2>9 DEF Tables
  <2> QED
    BY <2>1, <2>4, <2>5, <2>6, <2>8, <2>10 DEF InTime
<1> QED
  BY <1>1, <1>2, <1>3 DEF InTime, Tables

LEMMA MissedFits ==
    ASSUME NEW q \in Listings, InTime(q), q.pc = "get"
    PROVE  Missed(q) \in Listings /\ InTime(Missed(q))
<1> DEFINE mine == TablesOf(q.key)
           queried == Queried(q.key)
<1>1. CASE q.key = "sources"
  <2> DEFINE p == [q EXCEPT !.key = "videos"]
  <2>1. /\ p \in Listings /\ p.pc = "get" /\ p.view = "sources" /\ p.key = "videos"
        /\ p.held = q.held /\ Missed(q) = p
    BY <1>1 DEF Listings, Views, Missed, InTime, Tables
  <2> HIDE DEF p
  <2>2. HeldTables(q) = {} /\ HeldTables(p) = {}
    BY <1>1, <2>1 DEF HeldTables
  <2> QED
    BY <2>1, <2>2 DEF InTime, Tables
<1>2. CASE q.key # "sources"
  <2> DEFINE j == Overlaid(q.held, queried)
             p == [q EXCEPT !.pc = "set", !.held = j]
  <2>1. /\ mine \in SUBSET Tables /\ queried \in [mine -> Int]
        /\ DOMAIN queried = mine /\ \A t \in mine : queried[t] = UpToDate
    BY <1>2 DEF TablesOf, Tables, UpToDate, Listings, Views, Queried
  <2>2. q.held \in Contents /\ queried \in Contents
    BY <2>1, ListShape DEF Listings
  <2>0. Missed(q) = p
    BY <1>2 DEF Missed
  <2> HIDE DEF queried
  <2>8. /\ j \in Contents /\ DOMAIN j = DOMAIN q.held \cup mine
        /\ \A t \in DOMAIN q.held : j[t] = q.held[t]
        /\ \A t \in mine \ DOMAIN q.held : j[t] = UpToDate
    <3> HIDE DEF mine
    <3>1. /\ j \in Contents /\ DOMAIN j = DOMAIN q.held \cup DOMAIN queried
          /\ \A t \in DOMAIN q.held : j[t] = q.held[t]
          /\ \A t \in DOMAIN queried \ DOMAIN q.held : j[t] = queried[t]
      BY <2>2, JoinedList
    <3> HIDE DEF j
    <3> QED
      BY <2>1, <3>1
  <2> HIDE DEF j
  <2>3. /\ p \in Listings /\ p.pc = "set" /\ p.view = q.view /\ p.key = q.key
        /\ p.held = j /\ p.spent = q.spent /\ Missed(q) = p
    BY <1>2, <2>0, <2>8 DEF Listings
  <2> HIDE DEF p, mine
  <2>4. DOMAIN q.held = HeldTables(q) /\ (q.key = q.view \/ (q.view = "sources" /\ q.key \in Tables))
    BY DEF InTime
  <2>5. HeldTables(q) \cap mine = {} /\ HeldTables(p) = HeldTables(q) \cup mine
    BY <1>2, <2>3, <2>4 DEF HeldTables, TablesOf, Tables, Listings, Views, mine
  <2>6. DOMAIN p.held = HeldTables(p)
    BY <2>8, <2>3, <2>4, <2>5
  <2>7. ASSUME NEW t \in HeldTables(p) PROVE p.held[t] <= Lag(p, t)
    <3>1. CASE t \in mine
      <4>1. p.held[t] = UpToDate
        BY <2>8, <2>3, <2>4, <2>5, <3>1
      <4>2. Lag(p, t) = q.spent /\ q.spent \in Nat
        BY <1>2, <2>3, <3>1, FreshnessIs DEF Lag, Listings, mine
      <4> QED
        BY <4>1, <4>2 DEF UpToDate
    <3>2. CASE t \notin mine
      <4>1. t \in HeldTables(q) /\ p.held[t] = q.held[t]
        BY <2>8, <2>3, <2>4, <2>5, <2>7, <3>2
      <4>2. Lag(p, t) = Lag(q, t)
        BY <2>3, <3>2 DEF Lag, mine
      <4> QED
        BY <4>1, <4>2 DEF InTime
    <3> QED
      BY <3>1, <3>2
  <2> QED
    BY <2>3, <2>4, <2>6, <2>7 DEF InTime
<1> QED
  BY <1>1, <1>2

(* The copy of a listing serves as one: it is no further behind than its freshness. *)
LEMMA CopyServes ==
    ASSUME PollInv, NEW q \in Listings, polled[q.key].ttl > 0
    PROVE  Brought(q, polled[q.key].shows)
<1> DEFINE c == polled[q.key]
<1>1. q.key \in Views /\ q.spent \in Nat
  BY FreshnessIs DEF Listings
<1>2. c \in PollCopies /\ Fresh(q.key, c) /\ c.ttl > 0
  BY <1>1 DEF PollInv
<1> HIDE DEF c
<1>3. c.ttl \in Nat /\ c.shows \in [TablesOf(q.key) -> Int]
  BY <1>2, ListEntries, FreshnessIs DEF PollCopies, Fresh
<1>4. Freshness(q.key) \in Nat
  BY <1>1, FreshnessIs
<1>5. \A t \in TablesOf(q.key) : c.shows[t] <= Freshness(q.key) + q.spent
  BY <1>1, <1>2, <1>3, <1>4 DEF Fresh
<1> QED
  BY <1>3, <1>5 DEF Brought, c

(* One request moves, the copies stay. *)
LEMMA OneListing ==
    ASSUME PollInv, NEW r \in Readers, NEW q \in Listings, InTime(q),
           listing' = [listing EXCEPT ![r] = q], polled' = polled
    PROVE  PollInv'
  BY DEF PollInv

(* What a request stores is its own query, or what it made of copies. *)
LEMMA SetCopyKeeps ==
    ASSUME PollInv, NEW r \in Readers, SetCopy(r) PROVE PollInv'
<1> DEFINE q == listing[r]
           rows == Of(q.held, TablesOf(q.key))
<1>1. q \in Listings /\ InTime(q) /\ q.pc = "set"
  BY DEF PollInv, SetCopy
<1>2. /\ polled' \in {[polled EXCEPT ![q.key] = Copy(rows)], polled}
      /\ listing' = [listing EXCEPT ![r] = Got(q, rows)]
  BY DEF SetCopy
<1> HIDE DEF q
<1>3. /\ q.key \in Views /\ q.spent \in Nat /\ q.spent <= MaxDelay /\ q.held \in Contents
  BY <1>1, FreshnessIs DEF Listings
<1>4. TablesOf(q.key) \subseteq HeldTables(q) /\ DOMAIN q.held = HeldTables(q)
  BY <1>1, <1>3 DEF HeldTables, TablesOf, Tables, InTime, Views
<1>5. TablesOf(q.key) \in SUBSET Tables /\ q.held \in [DOMAIN q.held -> Int]
  BY <1>3, <1>4, ListEntries
<1>6. rows \in [TablesOf(q.key) -> Int] /\ \A t \in TablesOf(q.key) : rows[t] = q.held[t]
  BY <1>4, <1>5 DEF Of
<1> HIDE DEF rows
<1>7. \A t \in TablesOf(q.key) : rows[t] + POLL_CACHE_TTL_S <= Freshness(q.key)
  <2> TAKE t \in TablesOf(q.key)
  <2>1. rows[t] \in Int /\ rows[t] <= Lag(q, t)
    BY <1>1, <1>4, <1>6 DEF InTime
  <2>2. CASE q.key = "sources"
    <3>1. Lag(q, t) = POLL_CACHE_TTL_S + MaxDelay + q.spent
      BY <2>2 DEF Lag
    <3> QED
      BY <1>3, <2>1, <2>2, <3>1, FreshnessIs
  <2>3. CASE q.key # "sources"
    <3>1. Lag(q, t) = q.spent
      BY <1>1, <2>3 DEF Lag
    <3> QED
      BY <1>3, <2>1, <2>3, <3>1, FreshnessIs
  <2> QED
    BY <2>2, <2>3
<1>8. Freshness(q.key) \in Nat
  BY <1>3, FreshnessIs
<1>9. Brought(q, rows)
  BY <1>3, <1>6, <1>7, <1>8, FreshnessIs DEF Brought
<1>10. Got(q, rows) \in Listings /\ InTime(Got(q, rows))
  BY <1>1, <1>9, GotFits
<1> DEFINE c == Copy(rows)
<1>11. c \in PollCopies /\ Fresh(q.key, c)
  <2>1. rows \in Contents /\ DOMAIN rows = TablesOf(q.key)
    BY <1>5, <1>6, ListShape
  <2>2. /\ c \in PollCopies /\ c.ttl = POLL_CACHE_TTL_S + 1 /\ c.shows = rows
    BY <2>1, FreshnessIs DEF Copy, PollCopies
  <2> HIDE DEF c
  <2>3. \A t \in TablesOf(q.key) : rows[t] + (POLL_CACHE_TTL_S + 1) <= Freshness(q.key) + 1
    BY <1>6, <1>7, <1>8, FreshnessIs
  <2> QED
    BY <2>1, <2>2, <2>3, FreshnessIs DEF Fresh
<1> HIDE DEF c
<1>12. polled' \in [Views -> PollCopies] /\ \A v \in Views : Fresh(v, polled'[v])
  BY <1>2, <1>3, <1>11 DEF PollInv, c
<1>13. listing' \in [Readers -> Listings] /\ \A p \in Readers : InTime(listing'[p])
  BY <1>2, <1>10 DEF PollInv
<1> QED
  BY <1>12, <1>13 DEF PollInv

(* Time passes for every copy and every request at once; a write reaches them *)
(* all.                                                                      *)
LEMMA OlderList ==
    ASSUME NEW f \in Contents
    PROVE  /\ Older(f) \in Contents /\ DOMAIN Older(f) = DOMAIN f
           /\ \A t \in DOMAIN f : f[t] \in Int /\ Older(f)[t] \in {-1, f[t] + 1}
<1>1. DOMAIN f \in SUBSET Tables /\ f \in [DOMAIN f -> Int]
  BY ListEntries
<1>2. Older(f) \in [DOMAIN f -> Int]
  BY <1>1 DEF Older, UpToDate
<1>3. Older(f) \in Contents
  BY <1>1, <1>2, ListShape
<1> QED
  BY <1>1, <1>3 DEF Older, UpToDate

LEMMA BehindList ==
    ASSUME NEW f \in Contents, NEW t
    PROVE  /\ Behind(f, t) \in Contents /\ DOMAIN Behind(f, t) = DOMAIN f
           /\ \A u \in DOMAIN f : f[u] \in Int /\ Behind(f, t)[u] \in {0, f[u]}
<1>1. DOMAIN f \in SUBSET Tables /\ f \in [DOMAIN f -> Int]
  BY ListEntries
<1>2. Behind(f, t) \in [DOMAIN f -> Int]
  BY <1>1 DEF Behind
<1>3. Behind(f, t) \in Contents
  BY <1>1, <1>2, ListShape
<1> QED
  BY <1>1, <1>3 DEF Behind

LEMMA LagIs ==
    ASSUME NEW q \in Listings, NEW t
    PROVE  Lag(q, t) \in Nat /\ q.spent \in Nat
  BY FreshnessIs DEF Lag, Listings

LEMMA CopyWritten ==
    ASSUME NEW v \in Views, NEW c \in PollCopies, Fresh(v, c), NEW t
    PROVE  /\ [c EXCEPT !.shows = Behind(c.shows, t)] \in PollCopies
           /\ Fresh(v, [c EXCEPT !.shows = Behind(c.shows, t)])
<1> DEFINE f == Behind(c.shows, t)
           d == [c EXCEPT !.shows = f]
<1>1. c.shows \in Contents /\ c.ttl \in 0 .. POLL_CACHE_TTL_S + 1
  BY DEF PollCopies
<1>2. /\ f \in Contents /\ DOMAIN f = DOMAIN c.shows
      /\ \A u \in DOMAIN c.shows : c.shows[u] \in Int /\ f[u] \in {0, c.shows[u]}
  BY <1>1, BehindList
<1> HIDE DEF f
<1>3. d \in PollCopies /\ d.ttl = c.ttl /\ d.shows = f
  BY <1>2 DEF PollCopies
<1> HIDE DEF d
<1>4. c.ttl <= Freshness(v) + 1 /\ Freshness(v) \in Nat
  BY <1>1, FreshnessIs
<1>5. \A u \in DOMAIN f : f[u] + d.ttl <= Freshness(v) + 1
  BY <1>1, <1>2, <1>3, <1>4 DEF Fresh
<1>6. Fresh(v, d)
  BY <1>2, <1>3, <1>5 DEF Fresh
<1> QED
  BY <1>3, <1>6 DEF d, f

LEMMA ListingWritten ==
    ASSUME NEW q \in Listings, InTime(q), NEW t
    PROVE  /\ [q EXCEPT !.held = Behind(q.held, t)] \in Listings
           /\ InTime([q EXCEPT !.held = Behind(q.held, t)])
<1> DEFINE f == Behind(q.held, t)
           p == [q EXCEPT !.held = f]
<1>1. q.held \in Contents
  BY DEF Listings
<1>2. /\ f \in Contents /\ DOMAIN f = DOMAIN q.held
      /\ \A u \in DOMAIN q.held : q.held[u] \in Int /\ f[u] \in {0, q.held[u]}
  BY <1>1, BehindList
<1> HIDE DEF f
<1>3. /\ p \in Listings /\ p.held = f
      /\ p.pc = q.pc /\ p.view = q.view /\ p.key = q.key /\ p.spent = q.spent
  BY <1>2 DEF Listings
<1> HIDE DEF p
<1>4. HeldTables(p) = HeldTables(q) /\ \A u : Lag(p, u) = Lag(q, u)
  BY <1>3 DEF HeldTables, Lag
<1>5. \A u \in HeldTables(p) : p.held[u] <= Lag(p, u)
  BY <1>2, <1>3, <1>4, LagIs DEF InTime
<1>6. InTime(p)
  BY <1>2, <1>3, <1>4, <1>5 DEF InTime
<1> QED
  BY <1>3, <1>6 DEF p, f

LEMMA CopyAges ==
    ASSUME NEW v \in Views, NEW c \in PollCopies, Fresh(v, c), ~(c.ttl <= 1)
    PROVE  /\ [ttl |-> c.ttl - 1, shows |-> Older(c.shows)] \in PollCopies
           /\ Fresh(v, [ttl |-> c.ttl - 1, shows |-> Older(c.shows)])
<1> DEFINE f == Older(c.shows)
           d == [ttl |-> c.ttl - 1, shows |-> f]
<1>1. c.shows \in Contents /\ c.ttl \in 0 .. POLL_CACHE_TTL_S + 1 /\ POLL_CACHE_TTL_S \in Nat
  BY FreshnessIs DEF PollCopies
<1>2. /\ f \in Contents /\ DOMAIN f = DOMAIN c.shows
      /\ \A u \in DOMAIN c.shows : c.shows[u] \in Int /\ f[u] \in {-1, c.shows[u] + 1}
  BY <1>1, OlderList
<1> HIDE DEF f
<1>3. d \in PollCopies /\ d.ttl = c.ttl - 1 /\ d.shows = f
  BY <1>1, <1>2 DEF PollCopies
<1> HIDE DEF d
<1>4. c.ttl <= Freshness(v) + 1 /\ Freshness(v) \in Nat
  BY <1>1, FreshnessIs
<1>5. \A u \in DOMAIN f : f[u] + d.ttl <= Freshness(v) + 1
  BY <1>1, <1>2, <1>3, <1>4 DEF Fresh
<1>6. c.ttl # 0 /\ d.ttl # 0
  BY <1>1, <1>3
<1>7. Fresh(v, d)
  BY <1>2, <1>3, <1>5, <1>6 DEF Fresh
<1> QED
  BY <1>3, <1>7 DEF d, f

LEMMA ListingAges ==
    ASSUME NEW q \in Listings, InTime(q), q.spent < MaxDelay
    PROVE  /\ [q EXCEPT !.spent = q.spent + 1, !.held = Older(q.held)] \in Listings
           /\ InTime([q EXCEPT !.spent = q.spent + 1, !.held = Older(q.held)])
<1> DEFINE f == Older(q.held)
           p == [q EXCEPT !.spent = q.spent + 1, !.held = f]
<1>1. q.held \in Contents
  BY DEF Listings
<1>2. /\ f \in Contents /\ DOMAIN f = DOMAIN q.held
      /\ \A u \in DOMAIN q.held : q.held[u] \in Int /\ f[u] \in {-1, q.held[u] + 1}
  BY <1>1, OlderList
<1> HIDE DEF f
<1>0. q.spent + 1 \in 0 .. MaxDelay
  BY FreshnessIs DEF Listings
<1>3. /\ p \in Listings /\ p.held = f
      /\ p.pc = q.pc /\ p.view = q.view /\ p.key = q.key /\ p.spent = q.spent + 1
  <2> DEFINE n == q.spent + 1
  <2> HIDE DEF n
  <2>1. [q EXCEPT !.spent = n, !.held = f] = p
    BY DEF n
  <2> HIDE DEF p
  <2>2. n \in 0 .. MaxDelay
    BY <1>0 DEF n
  <2>3. n = q.spent + 1
    BY DEF n
  <2> QED
    BY <1>2, <2>1, <2>2, <2>3 DEF Listings
<1> HIDE DEF p
<1>4. HeldTables(p) = HeldTables(q)
  BY <1>3 DEF HeldTables
<1>5. \A u : Lag(p, u) = Lag(q, u) + 1
  BY <1>3, LagIs, FreshnessIs DEF Lag
<1>6. \A u \in HeldTables(p) : p.held[u] <= Lag(p, u)
  BY <1>2, <1>3, <1>4, <1>5, LagIs DEF InTime
<1>7. InTime(p)
  BY <1>2, <1>3, <1>4, <1>6 DEF InTime
<1> QED
  BY <1>3, <1>7 DEF p, f

LEMMA PollStep == PollInv /\ [PollNext]_pollVars => PollInv'
<1> SUFFICES ASSUME PollInv, [PollNext]_pollVars PROVE PollInv'
  OBVIOUS
<1>1. ASSUME NEW r \in Readers, NEW view \in Asked, BeginListing(r, view) PROVE PollInv'
  <2> DEFINE q == [Resting EXCEPT !.pc = "get", !.view = view, !.key = view]
  <2>1. view \in Views /\ MaxDelay \in Nat
    BY PollShapes DEF Views
  <2>2. /\ q \in Listings /\ q.pc = "get" /\ q.view = view /\ q.key = view /\ q.held = Nothing
    <3>1. Resting \in Listings /\ Resting.held = Nothing
      BY RestingFits DEF Resting
    <3> QED
      BY <2>1, <3>1 DEF Listings
  <2> HIDE DEF q
  <2>3. HeldTables(q) = {}
    BY <2>2 DEF HeldTables
  <2>4. InTime(q)
    BY <2>2, <2>3, NothingListed DEF InTime
  <2> QED
    BY <1>1, <2>2, <2>4, OneListing DEF BeginListing, q
<1>2. ASSUME NEW r \in Readers, GetCopy(r) PROVE PollInv'
  <2>1. listing[r] \in Listings /\ InTime(listing[r]) /\ listing[r].pc = "get" /\ polled' = polled
    BY <1>2 DEF PollInv, GetCopy
  <2>2. CASE /\ polled[listing[r].key].ttl > 0
             /\ listing' = [listing EXCEPT ![r] = Got(listing[r], polled[listing[r].key].shows)]
    BY <2>1, <2>2, CopyServes, GotFits, OneListing
  <2>3. CASE listing' = [listing EXCEPT ![r] = Missed(listing[r])]
    BY <2>1, <2>3, MissedFits, OneListing
  <2> QED
    BY <1>2, <2>2, <2>3 DEF GetCopy
<1>3. ASSUME NEW r \in Readers, QueryRaises(r) PROVE PollInv'
  BY <1>3, RestingFits, OneListing DEF QueryRaises
<1>4. ASSUME NEW r \in Readers, SetCopy(r) PROVE PollInv'
  BY <1>4, SetCopyKeeps
<1>5. ASSUME NEW t \in Tables, WriteRows(t) PROVE PollInv'
  <2>1. /\ polled' = [v \in Views |-> [polled[v] EXCEPT !.shows = Behind(polled[v].shows, t)]]
        /\ listing' = [r \in Readers |-> [listing[r] EXCEPT !.held = Behind(listing[r].held, t)]]
    BY <1>5 DEF WriteRows
  <2>2. \A v \in Views : polled'[v] \in PollCopies /\ Fresh(v, polled'[v])
    BY <2>1, CopyWritten DEF PollInv
  <2>3. \A r \in Readers : listing'[r] \in Listings /\ InTime(listing'[r])
    BY <2>1, ListingWritten DEF PollInv
  <2> QED
    BY <2>1, <2>2, <2>3 DEF PollInv
<1>6. CASE PollTick
  <2>1. /\ polled' = [v \in Views |-> IF polled[v].ttl <= 1 THEN NoCopy
                                     ELSE [ttl |-> polled[v].ttl - 1, shows |-> Older(polled[v].shows)]]
        /\ listing' = [r \in Readers |->
              IF Idle(r) THEN listing[r]
              ELSE [listing[r] EXCEPT !.spent = listing[r].spent + 1, !.held = Older(listing[r].held)]]
        /\ \A r \in Readers : Idle(r) \/ listing[r].spent < MaxDelay
    BY <1>6 DEF PollTick
  <2>2. \A v \in Views : polled'[v] \in PollCopies /\ Fresh(v, polled'[v])
    BY <2>1, CopyAges, NoCopyFits DEF PollInv
  <2>3. \A r \in Readers : listing'[r] \in Listings /\ InTime(listing'[r])
    BY <2>1, ListingAges DEF PollInv
  <2> QED
    BY <2>1, <2>2, <2>3 DEF PollInv
<1>7. CASE UNCHANGED pollVars
  BY <1>7 DEF pollVars, PollInv
<1> QED
  BY <1>1, <1>2, <1>3, <1>4, <1>5, <1>6, <1>7 DEF PollNext

LEMMA PollInvariance == PollSpec => []PollInv
  BY PollStart, PollStep, PTL DEF PollSpec

(* ListingsFresh, for any number of requests, any lifetime and any delay.   *)
LEMMA FreshMeans == PollInv => ListingsFresh
<1> SUFFICES ASSUME PollInv PROVE ListingsFresh
  OBVIOUS
<1>1. ASSUME NEW v \in Views, NEW t \in DOMAIN polled[v].shows
      PROVE  polled[v].shows[t] <= Freshness(v)
  <2>1. polled[v] \in PollCopies /\ Fresh(v, polled[v])
    BY DEF PollInv
  <2>2. polled[v].ttl \in Nat /\ polled[v].ttl # 0 /\ polled[v].shows[t] \in Int
    BY <1>1, <2>1, ListEntries, FreshnessIs DEF PollCopies, Fresh
  <2>3. polled[v].shows[t] + polled[v].ttl <= Freshness(v) + 1 /\ Freshness(v) \in Nat
    BY <1>1, <2>1, FreshnessIs DEF Fresh
  <2> QED
    BY <2>2, <2>3
<1>2. ASSUME NEW r \in Readers, listing[r].pc = "set", NEW t \in TablesOf(listing[r].key)
      PROVE  listing[r].held[t] <= Freshness(listing[r].key)
  <2> DEFINE q == listing[r]
  <2>1. q \in Listings /\ InTime(q) /\ q.pc = "set"
    BY <1>2 DEF PollInv
  <2>2. t \in TablesOf(q.key)
    BY <1>2
  <2> HIDE DEF q
  <2>3. q.key \in Views /\ q.spent \in Nat /\ q.spent <= MaxDelay
    BY <2>1, FreshnessIs DEF Listings
  <2>4. t \in HeldTables(q) /\ DOMAIN q.held = HeldTables(q)
    BY <2>1, <2>2, <2>3 DEF HeldTables, TablesOf, Tables, InTime, Views
  <2>5. q.held[t] \in Int /\ q.held[t] <= Lag(q, t)
    BY <2>1, <2>4, ListEntries DEF InTime, Listings
  <2>6. CASE q.key = "sources"
    <3>1. Lag(q, t) = POLL_CACHE_TTL_S + MaxDelay + q.spent
      BY <2>6 DEF Lag
    <3> QED
      BY <2>3, <2>5, <2>6, <3>1, FreshnessIs DEF q
  <2>7. CASE q.key # "sources"
    <3>1. Lag(q, t) = q.spent
      BY <2>1, <2>2, <2>7 DEF Lag
    <3> QED
      BY <2>3, <2>5, <2>7, <3>1, FreshnessIs DEF q
  <2> QED
    BY <2>6, <2>7
<1> QED
  BY <1>1, <1>2 DEF ListingsFresh

(* Slow requests, overlapping writers and copies made of copies included, no  *)
(* listing is further behind its tables than the lifetime of a copy and the   *)
(* time of a request allow, twice for the list made of two (db.list_sources,  *)
(* cache.set_json).                                                          *)
THEOREM ListingsFreshness == PollSpec => []ListingsFresh
  BY PollInvariance, FreshMeans, PTL

(***************************************************************************)
(* What sources are cut into.                                              *)
(***************************************************************************)

Cues == [start: Nat, end: Nat]
Cuttings == [done: Seq(Seq(Cues)), buf: Seq(Cues)]
Uncut == [done |-> <<>>, buf |-> <<>>]

LEMMA PassFits ==
    ASSUME NEW s \in Cuttings, NEW c \in Cues
    PROVE  Passed(s, c) \in Cuttings
<1>1. s.done \in Seq(Seq(Cues)) /\ s.buf \in Seq(Cues)
  BY DEF Cuttings
<1>2. Append(s.buf, c) \in Seq(Cues) /\ <<>> \in Seq(Cues)
  BY <1>1, AppendProperties, EmptySeq
<1>3. Append(s.done, Append(s.buf, c)) \in Seq(Seq(Cues))
  BY <1>1, <1>2, AppendProperties
<1>4. \/ Passed(s, c) = [done |-> Append(s.done, Append(s.buf, c)), buf |-> <<>>]
      \/ Passed(s, c) = [s EXCEPT !.buf = Append(s.buf, c)]
  BY Zenon DEF Passed
<1>5. [s EXCEPT !.buf = Append(s.buf, c)] \in Cuttings
  BY <1>1, <1>2 DEF Cuttings
<1>6. [done |-> Append(s.done, Append(s.buf, c)), buf |-> <<>>] \in Cuttings
  BY <1>2, <1>3 DEF Cuttings
<1> QED
  BY <1>4, <1>5, <1>6

LEMMA PassRuns ==
    ASSUME NEW s \in Seq(Cues)
    PROVE  \E F : /\ F \in [0 .. Len(s) -> Cuttings]
                  /\ F[0] = Uncut /\ F[Len(s)] = FoldLeft(Passed, Uncut, s)
                  /\ \A k \in 1 .. Len(s) : F[k] = Passed(F[k - 1], s[k])
<1> DEFINE n == Len(s)
           g == [x \in Cuttings \X (1 .. n) |-> Passed(x[1], s[x[2]])]
           IsFold(iter) == iter = [S \in SUBSET (DOMAIN s) |->
               IF S = {} THEN Uncut ELSE Passed(iter[S \ {Max(S)}], s[Max(S)])]
           fold == CHOOSE iter : IsFold(iter)
<1>1. n \in Nat /\ DOMAIN s = 1 .. n /\ \A i \in 1 .. n : s[i] \in Cues
  BY LenProperties, ElementOfSeq
<1>2. g \in [Cuttings \X (1 .. n) -> Cuttings]
  BY <1>1, PassFits
<1>3. Uncut \in Cuttings
  <2>1. <<>> \in Seq(Seq(Cues)) /\ <<>> \in Seq(Cues)
    BY EmptySeq
  <2> QED
    BY <2>1 DEF Cuttings, Uncut
<1>4. \A x \in Cuttings, k \in 1 .. n : g[<<x, k>>] = Passed(x, s[k])
  OBVIOUS
<1>5. FoldLeft(Passed, Uncut, s) = fold[DOMAIN s]
  BY Zenon DEF FoldLeft, MapThenFoldSet
<1> HIDE DEF g, fold
<1>6. PICK it : IsTree(it, n, Cuttings, Uncut, g)
  BY <1>1, <1>2, <1>3, FoldTree
<1>7. IsFold(it)
  <2>1. it \in [SUBSET (DOMAIN s) -> Cuttings]
    BY <1>1, <1>6 DEF IsTree
  <2>2. \A S \in SUBSET (DOMAIN s) : it[S] = IF S = {} THEN Uncut ELSE Passed(it[S \ {Max(S)}], s[Max(S)])
    <3> SUFFICES ASSUME NEW S \in SUBSET (DOMAIN s), S # {}
                 PROVE  it[S] = Passed(it[S \ {Max(S)}], s[Max(S)])
      BY <1>1, <1>6 DEF IsTree
    <3>1. Max(S) \in 1 .. n
      BY <1>1, GreatestIsMember
    <3>2. it[S \ {Max(S)}] \in Cuttings
      BY <2>1
    <3>3. it[S] = g[<<it[S \ {Max(S)}], Max(S)>>]
      BY <1>1, <1>6 DEF IsTree
    <3> QED
      BY <1>4, <3>1, <3>2, <3>3
  <2> QED
    BY <2>1, <2>2
<1>8. IsFold(fold)
  BY <1>7, Zenon DEF fold
<1> DEFINE F == [k \in 0 .. n |-> fold[1 .. k]]
<1>9. F[0] = Uncut /\ F[n] = FoldLeft(Passed, Uncut, s)
  <2>1. fold[{}] = Uncut /\ 1 .. 0 = {}
    BY <1>8
  <2> QED
    BY <1>1, <1>5, <2>1
<1>10. \A k \in 1 .. n : F[k] = Passed(F[k - 1], s[k])
  <2> SUFFICES ASSUME NEW k \in 1 .. n PROVE fold[1 .. k] = Passed(fold[1 .. k - 1], s[k])
    OBVIOUS
  <2>1. Max(1 .. k) = k /\ (1 .. k) \ {k} = 1 .. k - 1
    BY <1>1, GreatestOfInterval
  <2>2. (1 .. k) \in SUBSET (DOMAIN s) /\ (1 .. k) # {}
    <3>1. \A x \in 1 .. k : x \in 1 .. n
      BY <1>1
    <3>2. k \in 1 .. k
      BY <1>1
    <3> QED
      BY <1>1, <3>1, <3>2
  <2>3. fold[1 .. k] = Passed(fold[(1 .. k) \ {Max(1 .. k)}], s[Max(1 .. k)])
    BY <1>8, <2>2
  <2> QED
    BY <2>1, <2>3
<1> HIDE DEF IsFold
<1>11. \A k \in 0 .. n : F[k] \in Cuttings
  <2> DEFINE Holds == {k \in 0 .. n : F[k] \in Cuttings}
  <2>1. 0 \in Holds
    BY <1>1, <1>3, <1>9
  <2>2. \A k \in 1 .. n : k - 1 \in Holds => k \in Holds
    <3> SUFFICES ASSUME NEW k \in 1 .. n, F[k - 1] \in Cuttings PROVE F[k] \in Cuttings
      BY <1>1
    <3> HIDE DEF F
    <3> QED
      BY <1>1, <1>10, PassFits
  <2> HIDE DEF Holds
  <2>3. \A k \in 0 .. n : k \in Holds
    BY <1>1, <2>1, <2>2, Upward
  <2> QED
    BY <2>3 DEF Holds
<1>12. F \in [0 .. n -> Cuttings]
  BY <1>11
<1> HIDE DEF F
<1> QED
  BY <1>9, <1>10, <1>12

(* A passage is long enough at its n-th cue. *)
Spans(p, n) == p[n].end - p[1].start >= TRANSCRIPT_CHUNK_SECONDS

(* What has been made of the first k cues. *)
CutUpTo(s, cues, k) ==
    /\ FlattenSeq(s.done) \o s.buf = SubSeq(cues, 1, k)
    /\ \A c \in 1 .. Len(s.done) :
          /\ Spans(s.done[c], Len(s.done[c]))
          /\ \A n \in 1 .. Len(s.done[c]) - 1 : ~Spans(s.done[c], n)
    /\ \A n \in 1 .. Len(s.buf) : ~Spans(s.buf, n)

LEMMA PassKeeps ==
    ASSUME NEW cues \in Seq(Cues), NEW k \in 1 .. Len(cues), NEW s \in Cuttings,
           CutUpTo(s, cues, k - 1)
    PROVE  CutUpTo(Passed(s, cues[k]), cues, k)
<1> DEFINE c == cues[k]
           buf == Append(s.buf, c)
<1>1. s.done \in Seq(Seq(Cues)) /\ s.buf \in Seq(Cues) /\ c \in Cues
  BY ElementOfSeq DEF Cuttings
<1>2. /\ buf \in Seq(Cues) /\ Len(buf) = Len(s.buf) + 1 /\ Len(s.buf) \in Nat
      /\ buf[Len(buf)] = c /\ \A i \in 1 .. Len(s.buf) : buf[i] = s.buf[i]
  BY <1>1, AppendProperties, LenProperties
<1>3. FlattenSeq(s.done) \in Seq(Cues) /\ FlattenSeq(Append(s.done, buf)) = FlattenSeq(s.done) \o buf
  BY <1>1, <1>2, FlattenedAppend
<1>4. SubSeq(cues, 1, k) = Append(SubSeq(cues, 1, k - 1), c)
  BY SubSeqAppend
<1>5. FlattenSeq(s.done) \o buf = SubSeq(cues, 1, k)
  <2> DEFINE flat == FlattenSeq(s.done)
             held == s.buf
  <2>1. flat \in Seq(Cues) /\ held \in Seq(Cues)
    BY <1>1, <1>3
  <2> HIDE DEF flat, held
  <2>2. flat \o Append(held, c) = Append(flat \o held, c)
    BY <1>1, <2>1, ConcatAppend
  <2> QED
    BY <1>4, <2>2 DEF CutUpTo, flat, held
<1>6. \A n \in 1 .. Len(s.buf) : ~Spans(buf, n)
  <2> SUFFICES ASSUME NEW n \in 1 .. Len(s.buf) PROVE ~Spans(buf, n)
    OBVIOUS
  <2>1. 1 \in 1 .. Len(s.buf) /\ buf[1] = s.buf[1] /\ buf[n] = s.buf[n]
    BY <1>2
  <2> QED
    BY <2>1 DEF CutUpTo, Spans
<1>7. Spans(buf, Len(buf)) <=> c.end - buf[1].start >= TRANSCRIPT_CHUNK_SECONDS
  BY <1>2 DEF Spans
<1> HIDE DEF buf, c
<1>8. CASE Spans(buf, Len(buf))
  <2> DEFINE done == Append(s.done, buf)
  <2>1. Passed(s, c) = [done |-> done, buf |-> <<>>]
    BY <1>7, <1>8, Zenon DEF Passed, buf
  <2>2. /\ done \in Seq(Seq(Cues)) /\ Len(done) = Len(s.done) + 1 /\ Len(s.done) \in Nat
        /\ done[Len(done)] = buf /\ \A i \in 1 .. Len(s.done) : done[i] = s.done[i]
    BY <1>1, <1>2, AppendProperties, LenProperties
  <2>3. FlattenSeq(done) \o <<>> = SubSeq(cues, 1, k)
    <3>1. FlattenSeq(done) \in Seq(Cues)
      BY <2>2, <1>2, FlattenedAppend
    <3>2. FlattenSeq(done) \o <<>> = FlattenSeq(done)
      BY <3>1, ConcatEmptySeq
    <3> QED
      BY <1>3, <1>5, <3>2
  <2> HIDE DEF done
  <2>4. \A i \in 1 .. Len(done) : /\ Spans(done[i], Len(done[i]))
                                  /\ \A n \in 1 .. Len(done[i]) - 1 : ~Spans(done[i], n)
    <3> SUFFICES ASSUME NEW i \in 1 .. Len(done)
                 PROVE  /\ Spans(done[i], Len(done[i]))
                        /\ \A n \in 1 .. Len(done[i]) - 1 : ~Spans(done[i], n)
      OBVIOUS
    <3>1. CASE i = Len(done)
      <4>1. Len(buf) - 1 = Len(s.buf)
        BY <1>2
      <4> QED
        BY <1>6, <1>8, <2>2, <3>1, <4>1
    <3>2. CASE i # Len(done)
      <4>1. i \in 1 .. Len(s.done)
        BY <2>2, <3>2
      <4> QED
        BY <2>2, <4>1 DEF CutUpTo
    <3> QED
      BY <3>1, <3>2
  <2>5. Len(<<>>) = 0 /\ 1 .. 0 = {}
    BY EmptySeq
  <2>6. Passed(s, cues[k]).done = done /\ Passed(s, cues[k]).buf = <<>>
    BY <2>1 DEF c
  <2>7. \A n \in 1 .. Len(<<>>) : ~Spans(<<>>, n)
    BY <2>5
  <2> QED
    BY <2>3, <2>4, <2>6, <2>7, Zenon DEF CutUpTo
<1>9. CASE ~Spans(buf, Len(buf))
  <2>1. Passed(s, c) = [s EXCEPT !.buf = buf]
    BY <1>7, <1>9, Zenon DEF Passed, buf
  <2>2. Passed(s, c).done = s.done /\ Passed(s, c).buf = buf
    BY <2>1 DEF Cuttings
  <2>3. \A n \in 1 .. Len(buf) : ~Spans(buf, n)
    <3>1. \A n \in 1 .. Len(buf) : n \in 1 .. Len(s.buf) \/ n = Len(buf)
      BY <1>2
    <3> QED
      BY <1>6, <1>9, <3>1
  <2> QED
    BY <1>5, <2>2, <2>3 DEF CutUpTo, c
<1> QED
  BY <1>8, <1>9

(* chunk_cues, of any transcript. *)
LEMMA CuesCut ==
    ASSUME NEW cues \in Seq(Cues)
    PROVE  /\ ChunkCues(cues) \in Seq(Seq(Cues))
           /\ FlattenSeq(ChunkCues(cues)) = cues
           /\ \A c \in 1 .. Len(ChunkCues(cues)) :
                 /\ \A n \in 1 .. Len(ChunkCues(cues)[c]) - 1 : ~Spans(ChunkCues(cues)[c], n)
                 /\ c < Len(ChunkCues(cues)) => Spans(ChunkCues(cues)[c], Len(ChunkCues(cues)[c]))
<1>1. PICK F : /\ F \in [0 .. Len(cues) -> Cuttings]
               /\ F[0] = Uncut /\ F[Len(cues)] = FoldLeft(Passed, Uncut, cues)
               /\ \A k \in 1 .. Len(cues) : F[k] = Passed(F[k - 1], cues[k])
  BY PassRuns
<1>2. Len(cues) \in Nat /\ SubSeq(cues, 1, Len(cues)) = cues /\ SubSeq(cues, 1, 0) = <<>>
  BY LenProperties, SubSeqFull, SubSeqEmpty
<1> DEFINE Holds == {k \in 0 .. Len(cues) : CutUpTo(F[k], cues, k)}
<1>3. 0 \in Holds
  <2>0. <<>> \o <<>> = <<>> /\ Len(<<>>) = 0 /\ 1 .. 0 = {}
    OBVIOUS
  <2>1. FlattenSeq(<<>>) = <<>>
    BY <2>0, Zenon DEF FlattenSeq
  <2>2. CutUpTo(Uncut, cues, 0)
    BY <1>2, <2>0, <2>1 DEF CutUpTo, Uncut
  <2> QED
    BY <1>1, <1>2, <2>2
<1>4. \A k \in 1 .. Len(cues) : k - 1 \in Holds => k \in Holds
  <2> SUFFICES ASSUME NEW k \in 1 .. Len(cues), CutUpTo(F[k - 1], cues, k - 1)
               PROVE  CutUpTo(F[k], cues, k)
    BY <1>2
  <2>1. k - 1 \in 0 .. Len(cues)
    BY <1>2
  <2>2. F[k - 1] \in Cuttings
    BY <1>1, <2>1
  <2> QED
    BY <1>1, <2>2, PassKeeps
<1> HIDE DEF Holds
<1>5. \A k \in 0 .. Len(cues) : k \in Holds
  BY <1>2, <1>3, <1>4, Upward
<1> DEFINE s == FoldLeft(Passed, Uncut, cues)
<1>6. s \in Cuttings /\ CutUpTo(s, cues, Len(cues))
  <2>1. Len(cues) \in 0 .. Len(cues)
    BY <1>2
  <2> QED
    BY <1>1, <1>5, <2>1 DEF Holds
<1> HIDE DEF s
<1>7. ChunkCues(cues) = IF s.buf = <<>> THEN s.done ELSE Append(s.done, s.buf)
  BY Zenon DEF ChunkCues, s, Uncut
<1>8. s.done \in Seq(Seq(Cues)) /\ s.buf \in Seq(Cues) /\ Len(s.done) \in Nat
  BY <1>6, LenProperties DEF Cuttings
<1>9. FlattenSeq(s.done) \in Seq(Cues) /\ FlattenSeq(Append(s.done, s.buf)) = FlattenSeq(s.done) \o s.buf
  BY <1>8, FlattenedAppend
<1>10. CASE s.buf = <<>>
  <2>1. FlattenSeq(s.done) = cues
    <3>1. FlattenSeq(s.done) \o <<>> = FlattenSeq(s.done)
      BY <1>9, ConcatEmptySeq
    <3> QED
      BY <1>2, <1>6, <1>10, <3>1 DEF CutUpTo
  <2>2. ChunkCues(cues) = s.done
    BY <1>7, <1>10
  <2> QED
    BY <1>6, <1>8, <2>1, <2>2 DEF CutUpTo
<1>11. CASE s.buf # <<>>
  <2> DEFINE done == Append(s.done, s.buf)
  <2>1. ChunkCues(cues) = done /\ FlattenSeq(done) = cues
    BY <1>2, <1>6, <1>7, <1>9, <1>11 DEF CutUpTo
  <2>2. /\ done \in Seq(Seq(Cues)) /\ Len(done) = Len(s.done) + 1
        /\ done[Len(done)] = s.buf /\ \A i \in 1 .. Len(s.done) : done[i] = s.done[i]
    BY <1>8, AppendProperties
  <2>3. Len(s.buf) \in Nat
    BY <1>8, LenProperties
  <2> HIDE DEF done
  <2>4. ASSUME NEW c \in 1 .. Len(done)
        PROVE  /\ \A n \in 1 .. Len(done[c]) - 1 : ~Spans(done[c], n)
               /\ c < Len(done) => Spans(done[c], Len(done[c]))
    <3>1. CASE c = Len(done)
      <4>1. \A n \in 1 .. Len(s.buf) - 1 : n \in 1 .. Len(s.buf)
        BY <2>3
      <4> QED
        BY <1>6, <2>2, <1>8, <3>1, <4>1 DEF CutUpTo
    <3>2. CASE c # Len(done)
      <4>1. c \in 1 .. Len(s.done)
        BY <1>8, <2>2, <3>2
      <4> QED
        BY <1>6, <2>2, <4>1 DEF CutUpTo
    <3> QED
      BY <3>1, <3>2
  <2> QED
    BY <2>1, <2>2, <2>4
<1> QED
  BY <1>10, <1>11

-----------------------------------------------------------------------------
(* dedup.dedup: frame i, after those that are kept.                        *)
Kept(frames, kept, i) ==
    IF kept # <<>> /\ Same(frames[i], frames[Last(kept)]) THEN kept ELSE Append(kept, i)

LEMMA KeptFits ==
    ASSUME NEW frames, NEW n \in Nat, NEW kept \in Seq(1 .. n), NEW i \in 1 .. n
    PROVE  Kept(frames, kept, i) \in Seq(1 .. n)
<1>1. Append(kept, i) \in Seq(1 .. n)
  BY AppendProperties
<1> QED
  BY <1>1 DEF Kept

LEMMA KeptRuns ==
    ASSUME NEW S, NEW frames \in Seq(S)
    PROVE  \E F : /\ F \in [0 .. Len(frames) -> Seq(1 .. Len(frames))]
                  /\ F[0] = <<>> /\ F[Len(frames)] = Dedup(frames)
                  /\ \A k \in 1 .. Len(frames) : F[k] = Kept(frames, F[k - 1], k)
<1> DEFINE n == Len(frames)
           St == Seq(1 .. n)
           places == [i \in DOMAIN frames |-> i]
           g == [x \in St \X (1 .. n) |-> Kept(frames, x[1], x[2])]
           IsFold(iter) == iter = [U \in SUBSET (DOMAIN places) |->
               IF U = {} THEN <<>>
               ELSE IF iter[U \ {Max(U)}] # <<>> /\ Same(frames[places[Max(U)]], frames[Last(iter[U \ {Max(U)}])])
                    THEN iter[U \ {Max(U)}] ELSE Append(iter[U \ {Max(U)}], places[Max(U)])]
           fold == CHOOSE iter : IsFold(iter)
<1>1. n \in Nat /\ DOMAIN frames = 1 .. n
  BY LenProperties
<1>2. g \in [St \X (1 .. n) -> St]
  BY <1>1, KeptFits
<1>3. <<>> \in St
  BY EmptySeq
<1>4. \A x \in St, k \in 1 .. n : g[<<x, k>>] = Kept(frames, x, k)
  OBVIOUS
<1>5. Dedup(frames) = fold[DOMAIN places]
  BY Zenon DEF Dedup, FoldLeft, MapThenFoldSet
<1>6. DOMAIN places = 1 .. n /\ \A k \in 1 .. n : places[k] = k
  BY <1>1
<1> HIDE DEF St, g, fold, places
<1>7. PICK it : IsTree(it, n, St, <<>>, g)
  BY <1>1, <1>2, <1>3, FoldTree
<1>8. IsFold(it)
  <2>1. it \in [SUBSET (DOMAIN places) -> St]
    BY <1>6, <1>7 DEF IsTree
  <2>2. ASSUME NEW U \in SUBSET (DOMAIN places), U # {}
        PROVE  it[U] = IF it[U \ {Max(U)}] # <<>> /\ Same(frames[places[Max(U)]], frames[Last(it[U \ {Max(U)}])])
                       THEN it[U \ {Max(U)}] ELSE Append(it[U \ {Max(U)}], places[Max(U)])
    <3>1. Max(U) \in 1 .. n
      BY <1>1, <1>6, <2>2, GreatestIsMember
    <3>2. it[U \ {Max(U)}] \in St
      BY <2>1
    <3>3. it[U] = g[<<it[U \ {Max(U)}], Max(U)>>]
      BY <1>6, <1>7, <2>2 DEF IsTree
    <3>4. it[U] = Kept(frames, it[U \ {Max(U)}], places[Max(U)])
      BY <1>4, <1>6, <3>1, <3>2, <3>3
    <3> QED
      BY <3>4, Zenon DEF Kept
  <2>3. it[{}] = <<>>
    BY <1>7 DEF IsTree
  <2> QED
    BY <2>1, <2>2, <2>3
<1>9. IsFold(fold)
  BY <1>8, Zenon DEF fold
<1>10. ASSUME NEW U \in SUBSET (1 .. n), U # {} PROVE fold[U] = Kept(frames, fold[U \ {Max(U)}], Max(U))
  <2>1. Max(U) \in 1 .. n
    BY <1>1, <1>10, GreatestIsMember
  <2>2. U \in SUBSET (DOMAIN places) /\ places[Max(U)] = Max(U)
    BY <1>6, <2>1
  <2>3. fold[U] = IF fold[U \ {Max(U)}] # <<>> /\ Same(frames[places[Max(U)]], frames[Last(fold[U \ {Max(U)}])])
                  THEN fold[U \ {Max(U)}] ELSE Append(fold[U \ {Max(U)}], places[Max(U)])
    BY <1>9, <1>10, <2>2
  <2> QED
    BY <2>2, <2>3, Zenon DEF Kept
<1>11. fold[{}] = <<>>
  BY <1>9
<1> HIDE DEF IsFold
<1> DEFINE F == [k \in 0 .. n |-> fold[1 .. k]]
<1>12. F[0] = <<>> /\ F[n] = Dedup(frames)
  <2>1. 1 .. 0 = {}
    OBVIOUS
  <2> QED
    BY <1>1, <1>5, <1>6, <1>11, <2>1
<1>13. \A k \in 1 .. n : F[k] = Kept(frames, F[k - 1], k)
  <2> SUFFICES ASSUME NEW k \in 1 .. n PROVE fold[1 .. k] = Kept(frames, fold[1 .. k - 1], k)
    BY <1>1
  <2>1. Max(1 .. k) = k /\ (1 .. k) \ {k} = 1 .. k - 1
    BY <1>1, GreatestOfInterval
  <2>2. (1 .. k) \in SUBSET (1 .. n) /\ (1 .. k) # {}
    <3>1. k \in 1 .. k /\ \A x \in 1 .. k : x \in 1 .. n
      BY <1>1
    <3> QED
      BY <3>1
  <2> QED
    BY <1>10, <2>1, <2>2
<1> HIDE DEF F
<1> DEFINE Holds == {k \in 0 .. n : F[k] \in St}
<1>14. 0 \in Holds
  BY <1>1, <1>3, <1>12
<1>15. \A k \in 1 .. n : k - 1 \in Holds => k \in Holds
  <2> SUFFICES ASSUME NEW k \in 1 .. n, F[k - 1] \in St PROVE F[k] \in St
    BY <1>1
  <2> QED
    BY <1>1, <1>13, KeptFits DEF St
<1> HIDE DEF Holds
<1>16. \A k \in 0 .. n : k \in Holds
  BY <1>1, <1>14, <1>15, Upward
<1>17. F \in [0 .. n -> St]
  <2>1. \A k \in 0 .. n : F[k] \in St
    BY <1>16 DEF Holds
  <2> QED
    BY <2>1 DEF F
<1> QED
  BY <1>12, <1>13, <1>17 DEF St

(* What has been kept of the first k frames. *)
NextKept(kept, k, i) == IF i = Len(kept) THEN k + 1 ELSE kept[i + 1]

Stands(kept, frames, k) ==
    /\ k > 0 => kept # <<>> /\ kept[1] = 1
    /\ \A i \in 1 .. Len(kept) :
          /\ kept[i] \in 1 .. k
          /\ \A j \in kept[i] .. NextKept(kept, k, i) - 1 : Same(frames[j], frames[kept[i]])
          /\ NextKept(kept, k, i) <= k => ~Same(frames[NextKept(kept, k, i)], frames[kept[i]])

Pictures == [gradient: Nat, luma: Nat]

LEMMA KeptKeeps ==
    ASSUME NEW frames \in Seq(Pictures), NEW k \in 1 .. Len(frames), NEW kept \in Seq(1 .. Len(frames)),
           Stands(kept, frames, k - 1), k = 1 => kept = <<>>
    PROVE  Stands(Kept(frames, kept, k), frames, k)
<1> DEFINE m == Len(kept)
           now == Kept(frames, kept, k)
<1>1. /\ m \in Nat /\ k \in Nat /\ k > 0 /\ frames[k] \in Pictures
      /\ \A i \in 1 .. m : kept[i] \in Nat /\ kept[i] <= k - 1
  <2>1. Len(frames) \in Nat /\ k \in Nat /\ k > 0
    BY LenProperties
  <2>2. \A i \in 1 .. m : kept[i] \in 1 .. k - 1
    BY DEF Stands
  <2> QED
    BY <2>1, <2>2, LenProperties, ElementOfSeq
<1>2. kept = <<>> <=> m = 0
  BY EmptySeq, LenProperties
<1>3. Same(frames[k], frames[k])
  <2>1. /\ frames[k].gradient \in Nat /\ frames[k].luma \in Nat
        /\ DEDUP_MAX_DISTANCE \in Nat /\ LUMA_DELTA \in Nat
    BY <1>1, MediaShapes DEF Pictures
  <2> QED
    BY <2>1 DEF Same, Distance
<1>4. CASE kept # <<>> /\ Same(frames[k], frames[Last(kept)])
  <2>1. now = kept /\ kept[1] = 1 /\ Last(kept) = kept[m]
    <3>1. k > 1
      BY <1>1, <1>4
    <3> QED
      BY <1>1, <1>4, <3>1 DEF Kept, Last, Stands
  <2>2. ASSUME NEW i \in 1 .. m
        PROVE  /\ kept[i] \in 1 .. k
               /\ \A j \in kept[i] .. NextKept(kept, k, i) - 1 : Same(frames[j], frames[kept[i]])
               /\ NextKept(kept, k, i) <= k => ~Same(frames[NextKept(kept, k, i)], frames[kept[i]])
    <3>1. /\ kept[i] \in 1 .. k - 1
          /\ \A j \in kept[i] .. NextKept(kept, k - 1, i) - 1 : Same(frames[j], frames[kept[i]])
          /\ NextKept(kept, k - 1, i) <= k - 1 => ~Same(frames[NextKept(kept, k - 1, i)], frames[kept[i]])
      BY DEF Stands
    <3>2. CASE i = m
      <4>1. NextKept(kept, k, i) = k + 1 /\ NextKept(kept, k - 1, i) = k
        BY <1>1, <3>2 DEF NextKept
      <4>2. \A j \in kept[i] .. k : j \in kept[i] .. k - 1 \/ j = k
        BY <1>1
      <4> QED
        BY <1>1, <1>4, <2>1, <3>1, <3>2, <4>1, <4>2
    <3>3. CASE i # m
      <4>1. i + 1 \in 1 .. m
        BY <1>1, <3>3
      <4>2. NextKept(kept, k, i) = kept[i + 1] /\ NextKept(kept, k - 1, i) = kept[i + 1] /\ kept[i + 1] <= k - 1
        BY <1>1, <3>3, <4>1 DEF NextKept
      <4> QED
        BY <1>1, <3>1, <4>2
    <3> QED
      BY <3>2, <3>3
  <2> QED
    BY <1>4, <2>1, <2>2 DEF Stands
<1>5. CASE ~(kept # <<>> /\ Same(frames[k], frames[Last(kept)]))
  <2>1. now = Append(kept, k)
    BY <1>5, Zenon DEF Kept
  <2>2. /\ Len(now) = m + 1 /\ now # <<>> /\ now[m + 1] = k
        /\ \A i \in 1 .. m : now[i] = kept[i]
    BY <2>1, AppendProperties
  <2> HIDE DEF now
  <2>3. now[1] = 1
    <3>1. CASE k = 1
      BY <1>1, <1>2, <2>2, <3>1
    <3>2. CASE k # 1
      <4>1. kept # <<>> /\ kept[1] = 1
        BY <1>1, <3>2 DEF Stands
      <4> QED
        BY <1>1, <1>2, <2>2, <4>1
    <3> QED
      BY <3>1, <3>2
  <2>4. ASSUME NEW i \in 1 .. Len(now)
        PROVE  /\ now[i] \in 1 .. k
               /\ \A j \in now[i] .. NextKept(now, k, i) - 1 : Same(frames[j], frames[now[i]])
               /\ NextKept(now, k, i) <= k => ~Same(frames[NextKept(now, k, i)], frames[now[i]])
    <3>1. CASE i = m + 1
      <4>1. now[i] = k /\ NextKept(now, k, i) = k + 1
        BY <2>2, <3>1 DEF NextKept
      <4>2. \A j \in k .. k : j = k
        BY <1>1
      <4> QED
        BY <1>1, <1>3, <4>1, <4>2
    <3>2. CASE i # m + 1
      <4>1. i \in 1 .. m /\ now[i] = kept[i] /\ NextKept(now, k, i) = now[i + 1]
        BY <1>1, <2>2, <3>2 DEF NextKept
      <4>2. /\ kept[i] \in 1 .. k - 1
            /\ \A j \in kept[i] .. NextKept(kept, k - 1, i) - 1 : Same(frames[j], frames[kept[i]])
            /\ NextKept(kept, k - 1, i) <= k - 1 => ~Same(frames[NextKept(kept, k - 1, i)], frames[kept[i]])
        BY <4>1 DEF Stands
      <4>3. CASE i = m
        <5>1. NextKept(now, k, i) = k /\ NextKept(kept, k - 1, i) = k
          BY <1>1, <2>2, <4>1, <4>3 DEF NextKept
        <5>2. ~Same(frames[k], frames[kept[i]])
          BY <1>1, <1>2, <1>5, <4>1, <4>3 DEF Last
        <5> QED
          BY <1>1, <4>1, <4>2, <5>1, <5>2
      <4>4. CASE i # m
        <5>1. i + 1 \in 1 .. m
          BY <1>1, <4>1, <4>4
        <5>2. /\ NextKept(now, k, i) = kept[i + 1] /\ NextKept(kept, k - 1, i) = kept[i + 1]
              /\ kept[i + 1] <= k - 1
          BY <1>1, <2>2, <4>1, <4>4, <5>1 DEF NextKept
        <5> QED
          BY <1>1, <4>1, <4>2, <5>2
      <4> QED
        BY <4>3, <4>4
    <3> QED
      BY <1>1, <3>1, <3>2
  <2> QED
    BY <2>2, <2>3, <2>4 DEF Stands, now
<1> QED
  BY <1>4, <1>5

LEMMA FramesKept ==
    ASSUME NEW frames \in Seq(Pictures)
    PROVE  Dedup(frames) \in Seq(1 .. Len(frames)) /\ Stands(Dedup(frames), frames, Len(frames))
<1>1. PICK F : /\ F \in [0 .. Len(frames) -> Seq(1 .. Len(frames))]
               /\ F[0] = <<>> /\ F[Len(frames)] = Dedup(frames)
               /\ \A k \in 1 .. Len(frames) : F[k] = Kept(frames, F[k - 1], k)
  BY KeptRuns
<1>2. Len(frames) \in Nat /\ Len(frames) \in 0 .. Len(frames)
  BY LenProperties
<1> DEFINE Holds == {k \in 0 .. Len(frames) : Stands(F[k], frames, k)}
<1>3. 0 \in Holds
  <2>1. Len(<<>>) = 0 /\ 1 .. 0 = {}
    BY EmptySeq
  <2>2. Stands(<<>>, frames, 0)
    BY <2>1 DEF Stands
  <2> QED
    BY <1>1, <1>2, <2>2
<1>4. \A k \in 1 .. Len(frames) : k - 1 \in Holds => k \in Holds
  <2> SUFFICES ASSUME NEW k \in 1 .. Len(frames), Stands(F[k - 1], frames, k - 1)
               PROVE  Stands(F[k], frames, k)
    BY <1>2
  <2>1. k - 1 \in 0 .. Len(frames) /\ (k = 1 => k - 1 = 0)
    BY <1>2
  <2>2. F[k - 1] \in Seq(1 .. Len(frames)) /\ (k = 1 => F[k - 1] = <<>>)
    BY <1>1, <2>1
  <2>3. Stands(Kept(frames, F[k - 1], k), frames, k)
    BY <2>2, KeptKeeps
  <2> QED
    BY <1>1, <2>3
<1> HIDE DEF Holds
<1>5. \A k \in 0 .. Len(frames) : k \in Holds
  BY <1>2, <1>3, <1>4, Upward
<1> QED
  BY <1>1, <1>2, <1>5 DEF Holds

-----------------------------------------------------------------------------
(* frames._sample_scene: frame i * n / MAX_FRAMES of n, rounded down.       *)
LEMMA Division ==
    ASSUME NEW x \in Nat, NEW d \in Nat \ {0}
    PROVE  x = (x \div d) * d + (x % d) /\ x % d \in 0 .. d - 1 /\ x \div d \in Nat
  OBVIOUS

LEMMA Quotient ==
    ASSUME NEW x \in Nat, NEW d \in Nat \ {0}, NEW q \in Int, NEW r \in 0 .. d - 1, x = q * d + r
    PROVE  x \div d = q /\ x % d = r
  OBVIOUS

(* A stretch of n more moves the place by n / d, rounded down or up. *)
LEMMA Stretch ==
    ASSUME NEW x \in Nat, NEW n \in Nat, NEW d \in Nat \ {0}
    PROVE  /\ (x + n) \div d \in {x \div d + n \div d, x \div d + n \div d + 1}
           /\ (x + n) % d = 0 /\ n % d # 0 => (x + n) \div d = x \div d + n \div d + 1
<1> DEFINE q == x \div d
           r == x % d
           p == n \div d
           t == n % d
<1>1. x = q * d + r /\ r \in 0 .. d - 1 /\ q \in Nat
  BY Division
<1>2. n = p * d + t /\ t \in 0 .. d - 1 /\ p \in Nat
  BY Division
<1> HIDE DEF q, r, p, t
<1>3. x + n = (q + p) * d + (r + t)
  BY <1>1, <1>2
<1>4. CASE r + t < d
  <2>1. (x + n) \div d = q + p /\ (x + n) % d = r + t
    <3> DEFINE y == x + n
               a == q + p
               b == r + t
    <3>1. y \in Nat /\ a \in Int /\ b \in 0 .. d - 1 /\ y = a * d + b
      BY <1>1, <1>2, <1>3, <1>4
    <3> HIDE DEF y, a, b
    <3>2. y \div d = a /\ y % d = b
      BY <3>1, Quotient
    <3> QED
      BY <3>2 DEF y, a, b
  <2> QED
    BY <1>1, <1>2, <2>1 DEF q, r, p, t
<1>5. CASE r + t >= d
  <2>1. x + n = (q + p + 1) * d + (r + t - d)
    BY <1>1, <1>2, <1>3
  <2>2. (x + n) \div d = q + p + 1 /\ (x + n) % d = r + t - d
    <3> DEFINE y == x + n
               a == q + p + 1
               b == r + t - d
    <3>1. y \in Nat /\ a \in Int /\ b \in 0 .. d - 1 /\ y = a * d + b
      BY <1>1, <1>2, <1>5, <2>1
    <3> HIDE DEF y, a, b
    <3>2. y \div d = a /\ y % d = b
      BY <3>1, Quotient
    <3> QED
      BY <3>2 DEF y, a, b
  <2> QED
    BY <1>1, <1>2, <2>2 DEF q, r, p, t
<1> QED
  BY <1>1, <1>2, <1>4, <1>5

Places(i, n) == (i * n) \div MAX_FRAMES

LEMMA NextPlace ==
    ASSUME NEW n \in Nat, NEW i \in Nat
    PROVE  /\ Places(i, n) \in Nat
           /\ Places(i + 1, n) \in {Places(i, n) + n \div MAX_FRAMES, Places(i, n) + n \div MAX_FRAMES + 1}
           /\ Below(i + 1, n) => Places(i + 1, n) = Places(i, n) + n \div MAX_FRAMES + 1
<1>1. MAX_FRAMES \in Nat \ {0}
  BY MediaShapes
<1>2. i * n \in Nat /\ (i + 1) * n = i * n + n
  OBVIOUS
<1>3. (i * n) \div MAX_FRAMES \in Nat
  BY <1>1, <1>2, Division
<1> DEFINE x == i * n
<1> HIDE DEF x
<1>4. /\ (x + n) \div MAX_FRAMES \in {x \div MAX_FRAMES + n \div MAX_FRAMES, x \div MAX_FRAMES + n \div MAX_FRAMES + 1}
      /\ (x + n) % MAX_FRAMES = 0 /\ n % MAX_FRAMES # 0
            => (x + n) \div MAX_FRAMES = x \div MAX_FRAMES + n \div MAX_FRAMES + 1
  BY <1>1, <1>2, Stretch DEF x
<1> QED
  BY <1>2, <1>3, <1>4 DEF x, Places, Below

LEMMA WholeReel ==
    ASSUME NEW n \in Nat
    PROVE  Places(MAX_FRAMES, n) = n /\ Places(0, n) = 0
<1>1. MAX_FRAMES \in Nat \ {0}
  BY MediaShapes
<1>2. MAX_FRAMES * n = n * MAX_FRAMES + 0 /\ MAX_FRAMES * n \in Nat /\ 0 * n = 0 * MAX_FRAMES + 0 /\ 0 * n \in Nat
  BY <1>1
<1>3. (MAX_FRAMES * n) \div MAX_FRAMES = n
  BY <1>1, <1>2, Quotient
<1>4. (0 * n) \div MAX_FRAMES = 0
  BY <1>1, <1>2, Quotient
<1> QED
  BY <1>3, <1>4 DEF Places

LEMMA ReelThinned ==
    ASSUME NEW n \in Nat, n > MAX_FRAMES,
           NEW low \in SUBSET {i \in 1 .. MAX_FRAMES - 1 : Below(i, n)},
           NEW r, r = [i \in 1 .. MAX_FRAMES |-> Pick(i - 1, n, (i - 1) \in low)]
    PROVE  /\ r \in Seq(Nat) /\ Len(r) = MAX_FRAMES
           /\ r[1] = 0 /\ r[MAX_FRAMES] < n /\ n - r[MAX_FRAMES] <= n \div MAX_FRAMES + 2
           /\ \A i \in 1 .. MAX_FRAMES - 1 :
                 r[i] < r[i + 1] /\ r[i + 1] - r[i] <= n \div MAX_FRAMES + 2
<1>1. MAX_FRAMES \in Nat \ {0}
  BY MediaShapes
<1> DEFINE d == n \div MAX_FRAMES
<1>2. d \in Nat /\ d >= 1
  <2>1. /\ n = (n \div MAX_FRAMES) * MAX_FRAMES + (n % MAX_FRAMES)
        /\ n % MAX_FRAMES \in 0 .. MAX_FRAMES - 1 /\ n \div MAX_FRAMES \in Nat
    BY <1>1, Division
  <2>2. n \div MAX_FRAMES # 0
    BY <1>1, <2>1
  <2> QED
    BY <2>1, <2>2
<1>3. ASSUME NEW i \in 0 .. MAX_FRAMES - 1
      PROVE  /\ Places(i, n) \in Nat
             /\ Pick(i, n, i \in low) = Places(i, n) - (IF i \in low THEN 1 ELSE 0)
             /\ Places(i + 1, n) \in {Places(i, n) + d, Places(i, n) + d + 1}
             /\ i + 1 \in low => Places(i + 1, n) = Places(i, n) + d + 1
  <2>1. i \in Nat
    BY <1>1
  <2>2. i + 1 \in low => Below(i + 1, n)
    OBVIOUS
  <2> QED
    BY <2>1, <2>2, NextPlace DEF Pick, Places
<1> DEFINE taken(i) == Pick(i, n, i \in low)
<1>4. 0 \notin low /\ MAX_FRAMES \notin low
  BY <1>1
<1>5. taken(0) = 0
  <2>1. 0 \in 0 .. MAX_FRAMES - 1
    BY <1>1
  <2> QED
    BY <1>3, <1>4, <2>1, WholeReel
<1> HIDE DEF d
<1>6. ASSUME NEW i \in 1 .. MAX_FRAMES - 1
      PROVE  taken(i - 1) < taken(i) /\ taken(i) - taken(i - 1) <= d + 2 /\ taken(i) \in Nat
  <2>1. i - 1 \in 0 .. MAX_FRAMES - 1 /\ i \in 0 .. MAX_FRAMES - 1 /\ (i - 1) + 1 = i
    BY <1>1
  <2>2. /\ Places(i - 1, n) \in Nat
        /\ taken(i - 1) = Places(i - 1, n) - (IF i - 1 \in low THEN 1 ELSE 0)
        /\ Places(i, n) \in {Places(i - 1, n) + d, Places(i - 1, n) + d + 1}
        /\ i \in low => Places(i, n) = Places(i - 1, n) + d + 1
    BY <1>3, <2>1
  <2>3. taken(i) = Places(i, n) - (IF i \in low THEN 1 ELSE 0)
    BY <1>3, <2>1
  <2> HIDE DEF taken
  <2> QED
    BY <1>2, <2>2, <2>3
<1>7. taken(MAX_FRAMES - 1) < n /\ n - taken(MAX_FRAMES - 1) <= d + 2
  <2> DEFINE i == MAX_FRAMES - 1
  <2>1. i \in 0 .. MAX_FRAMES - 1 /\ i + 1 = MAX_FRAMES
    BY <1>1
  <2>2. Places(MAX_FRAMES, n) = n
    BY WholeReel
  <2> HIDE DEF i
  <2>3. /\ Places(i, n) \in Nat
        /\ taken(i) = Places(i, n) - (IF i \in low THEN 1 ELSE 0)
        /\ n \in {Places(i, n) + d, Places(i, n) + d + 1}
    BY <1>3, <2>1, <2>2
  <2> HIDE DEF taken
  <2>4. taken(i) < n /\ n - taken(i) <= d + 2
    BY <1>2, <2>3
  <2> QED
    BY <2>4 DEF i
<1>8. \A i \in 1 .. MAX_FRAMES : r[i] = taken(i - 1) /\ taken(i - 1) \in Nat
  <2> SUFFICES ASSUME NEW i \in 1 .. MAX_FRAMES PROVE r[i] = taken(i - 1) /\ taken(i - 1) \in Nat
    OBVIOUS
  <2>1. i - 1 = 0 \/ i - 1 \in 1 .. MAX_FRAMES - 1
    BY <1>1
  <2>2. r[i] = taken(i - 1)
    OBVIOUS
  <2> HIDE DEF taken
  <2> QED
    BY <1>5, <1>6, <2>1, <2>2
<1>9. r \in Seq(Nat) /\ Len(r) = MAX_FRAMES
  <2>1. DOMAIN r = 1 .. MAX_FRAMES /\ r = [i \in DOMAIN r |-> r[i]]
    OBVIOUS
  <2>2. r \in [1 .. MAX_FRAMES -> Nat]
    BY <1>8, <2>1
  <2> QED
    BY <1>1, <2>2
<1> HIDE DEF taken
<1>10. \A i \in 1 .. MAX_FRAMES - 1 : r[i] < r[i + 1] /\ r[i + 1] - r[i] <= d + 2
  <2> SUFFICES ASSUME NEW i \in 1 .. MAX_FRAMES - 1 PROVE r[i] < r[i + 1] /\ r[i + 1] - r[i] <= d + 2
    OBVIOUS
  <2>1. i \in 1 .. MAX_FRAMES /\ i + 1 \in 1 .. MAX_FRAMES /\ (i + 1) - 1 = i
    BY <1>1
  <2> QED
    BY <1>6, <1>8, <2>1
<1>11. 1 \in 1 .. MAX_FRAMES /\ MAX_FRAMES \in 1 .. MAX_FRAMES
  BY <1>1
<1>12. r[1] = taken(0) /\ r[MAX_FRAMES] = taken(MAX_FRAMES - 1)
  <2>1. 1 - 1 = 0
    OBVIOUS
  <2> QED
    BY <1>8, <1>11, <2>1
<1> QED
  BY <1>5, <1>7, <1>9, <1>10, <1>12 DEF d

-----------------------------------------------------------------------------
(* paper._split_within_page.                                               *)

LEMMA JoinRunsAlong ==
    ASSUME NEW s \in Seq(Lines)
    PROVE  \E F \in [0 .. Len(s) -> Int] : /\ F[0] = -1 /\ F[Len(s)] = Joined(s)
                                           /\ \A k \in 1 .. Len(s) : F[k] = Longer(F[k - 1], s[k])
<1> DEFINE n == Len(s)
           g == [x \in Int \X (1 .. n) |-> Longer(x[1], s[x[2]])]
           IsFold(iter) == iter = [S \in SUBSET (DOMAIN s) |->
               IF S = {} THEN -1 ELSE Longer(iter[S \ {Max(S)}], s[Max(S)])]
           fold == CHOOSE iter : IsFold(iter)
<1>1. n \in Nat /\ DOMAIN s = 1 .. n /\ \A i \in 1 .. n : s[i] \in Lines
  BY LenProperties, ElementOfSeq
<1>2. \A x \in Int, k \in 1 .. n : Longer(x, s[k]) \in Int
  BY <1>1 DEF Longer, Lines
<1>3. g \in [Int \X (1 .. n) -> Int] /\ \A x \in Int, k \in 1 .. n : g[<<x, k>>] = Longer(x, s[k])
  BY <1>2
<1>4. Joined(s) = fold[DOMAIN s]
  BY Zenon DEF Joined, FoldLeft, MapThenFoldSet
<1> HIDE DEF g, fold
<1> DEFINE b == -1
<1>b. b \in Int
  OBVIOUS
<1>5. PICK it : IsTree(it, n, Int, b, g)
  <2> HIDE DEF b
  <2> QED
    BY <1>1, <1>3, <1>b, FoldTree
<1>6. IsFold(it)
  <2>1. it \in [SUBSET (DOMAIN s) -> Int]
    BY <1>1, <1>5 DEF IsTree
  <2>2. \A S \in SUBSET (DOMAIN s) : it[S] = IF S = {} THEN -1 ELSE Longer(it[S \ {Max(S)}], s[Max(S)])
    <3> SUFFICES ASSUME NEW S \in SUBSET (DOMAIN s), S # {}
                 PROVE  it[S] = Longer(it[S \ {Max(S)}], s[Max(S)])
      BY <1>1, <1>5 DEF IsTree
    <3>1. Max(S) \in 1 .. n
      BY <1>1, GreatestIsMember
    <3>2. it[S \ {Max(S)}] \in Int
      BY <2>1
    <3>3. it[S] = g[<<it[S \ {Max(S)}], Max(S)>>]
      BY <1>1, <1>5 DEF IsTree
    <3> QED
      BY <1>3, <3>1, <3>2, <3>3
  <2> QED
    BY <2>1, <2>2
<1>7. IsFold(fold)
  BY <1>6, Zenon DEF fold
<1>8. fold[{}] = b
  BY <1>7
<1>9. ASSUME NEW k \in 1 .. n, fold[1 .. k - 1] \in Int
      PROVE  fold[1 .. k] = g[<<fold[1 .. k - 1], k>>]
  <2>1. Max(1 .. k) = k /\ (1 .. k) \ {k} = 1 .. k - 1
    BY <1>1, GreatestOfInterval
  <2>2. (1 .. k) \in SUBSET (DOMAIN s) /\ (1 .. k) # {}
    <3>1. \A x \in 1 .. k : x \in 1 .. n
      BY <1>1
    <3>2. k \in 1 .. k
      BY <1>1
    <3> QED
      BY <1>1, <3>1, <3>2
  <2>3. fold[1 .. k] = Longer(fold[(1 .. k) \ {Max(1 .. k)}], s[Max(1 .. k)])
    BY <1>7, <2>2
  <2> QED
    BY <1>3, <1>9, <2>1, <2>3
<1>10. GoesBy(fold, n, Int, b, g)
  BY <1>1, <1>3, <1>b, <1>8, <1>9 DEF GoesBy
<1> HIDE DEF IsFold, b
<1>11. PICK F : RunsBy(F, n, Int, b, g) /\ F[n] = fold[1 .. n]
  <2>1. RunsUpTo(fold, n, Int, b, g)
    BY <1>10, FoldedUp, Zenon
  <2> QED
    BY <2>1, Zenon DEF RunsUpTo
<1>12. ASSUME NEW k \in 1 .. n PROVE F[k] = Longer(F[k - 1], s[k])
  <2>1. k - 1 \in 0 .. n
    BY <1>1
  <2>2. F[k - 1] \in Int
    BY <1>11, <2>1 DEF RunsBy
  <2> QED
    BY <1>3, <1>11, <2>2 DEF RunsBy
<1> QED
  BY <1>1, <1>4, <1>11, <1>12 DEF b, RunsBy

LEMMA JoinedAppend ==
    ASSUME NEW p \in Seq(Lines), NEW l \in Lines
    PROVE  Joined(p) \in Int /\ Joined(Append(p, l)) = Longer(Joined(p), l)
<1> DEFINE q == Append(p, l)
           n == Len(p)
<1>1. /\ q \in Seq(Lines) /\ Len(q) = n + 1 /\ n \in Nat
      /\ q[n + 1] = l /\ \A k \in 1 .. n : q[k] = p[k]
  BY AppendProperties, LenProperties
<1> HIDE DEF q
<1>2. PICK F \in [0 .. n -> Int] : /\ F[0] = -1 /\ F[n] = Joined(p)
                                   /\ \A k \in 1 .. n : F[k] = Longer(F[k - 1], p[k])
  BY JoinRunsAlong
<1>3. PICK G \in [0 .. n + 1 -> Int] : /\ G[0] = -1 /\ G[n + 1] = Joined(q)
                                       /\ \A k \in 1 .. n + 1 : G[k] = Longer(G[k - 1], q[k])
  BY <1>1, JoinRunsAlong
<1> DEFINE Holds == {k \in 0 .. n : F[k] = G[k]}
<1>4. 0 \in Holds
  BY <1>1, <1>2, <1>3
<1>5. \A k \in 1 .. n : k - 1 \in Holds => k \in Holds
  BY <1>1, <1>2, <1>3
<1> HIDE DEF Holds
<1>6. \A k \in 0 .. n : k \in Holds
  BY <1>1, <1>4, <1>5, Upward
<1>7. n \in 0 .. n /\ n + 1 \in 1 .. n + 1 /\ (n + 1) - 1 = n
  BY <1>1
<1>8. F[n] = G[n] /\ F[n] \in Int
  BY <1>2, <1>6, <1>7 DEF Holds
<1> QED
  BY <1>1, <1>2, <1>3, <1>7, <1>8 DEF q

LEMMA JoinedOne ==
    ASSUME NEW l \in Lines
    PROVE  Joined(<<l>>) = l.len
<1> DEFINE none == <<>>
<1>1. none \in Seq(Lines) /\ Append(none, l) = <<l>> /\ Len(none) = 0
  OBVIOUS
<1> HIDE DEF none
<1>2. PICK F \in [0 .. Len(none) -> Int] : F[0] = -1 /\ F[Len(none)] = Joined(none)
  BY <1>1, JoinRunsAlong
<1>3. Joined(<<l>>) = Longer(Joined(none), l)
  BY <1>1, JoinedAppend
<1> QED
  BY <1>1, <1>2, <1>3 DEF Longer, Lines

LEMMA AddLineFits ==
    ASSUME NEW pieces \in Seq(Seq(Lines)), NEW l \in Lines
    PROVE  AddLine(pieces, l) \in Seq(Seq(Lines))
<1>1. <<l>> \in Seq(Lines)
  OBVIOUS
<1>2. Append(pieces, <<l>>) \in Seq(Seq(Lines))
  BY <1>1, AppendProperties
<1>3. ASSUME pieces # <<>>
      PROVE  [pieces EXCEPT ![Len(pieces)] = Append(@, l)] \in Seq(Seq(Lines))
  <2>1. Len(pieces) \in 1 .. Len(pieces) /\ pieces[Len(pieces)] \in Seq(Lines)
    BY <1>3, LenProperties, ElementOfSeq, EmptySeq
  <2>2. Append(pieces[Len(pieces)], l) \in Seq(Lines)
    BY <2>1, AppendProperties
  <2> QED
    BY <2>1, <2>2, ExceptSeq
<1> QED
  BY <1>2, <1>3 DEF AddLine

LEMMA SplitRunsAlong ==
    ASSUME NEW s \in Seq(Lines)
    PROVE  \E F \in [0 .. Len(s) -> Seq(Seq(Lines))] : /\ F[0] = <<>> /\ F[Len(s)] = SplitWithinPage(s)
                                           /\ \A k \in 1 .. Len(s) : F[k] = AddLine(F[k - 1], s[k])
<1> DEFINE n == Len(s)
           g == [x \in Seq(Seq(Lines)) \X (1 .. n) |-> AddLine(x[1], s[x[2]])]
           IsFold(iter) == iter = [S \in SUBSET (DOMAIN s) |->
               IF S = {} THEN <<>> ELSE AddLine(iter[S \ {Max(S)}], s[Max(S)])]
           fold == CHOOSE iter : IsFold(iter)
<1>1. n \in Nat /\ DOMAIN s = 1 .. n /\ \A i \in 1 .. n : s[i] \in Lines
  BY LenProperties, ElementOfSeq
<1>2. \A x \in Seq(Seq(Lines)), k \in 1 .. n : AddLine(x, s[k]) \in Seq(Seq(Lines))
  BY <1>1, AddLineFits
<1>3. g \in [Seq(Seq(Lines)) \X (1 .. n) -> Seq(Seq(Lines))] /\ \A x \in Seq(Seq(Lines)), k \in 1 .. n : g[<<x, k>>] = AddLine(x, s[k])
  BY <1>2
<1>4. SplitWithinPage(s) = fold[DOMAIN s]
  BY Zenon DEF SplitWithinPage, FoldLeft, MapThenFoldSet
<1> HIDE DEF g, fold
<1> DEFINE b == <<>>
<1>b. b \in Seq(Seq(Lines))
  OBVIOUS
<1>5. PICK it : IsTree(it, n, Seq(Seq(Lines)), b, g)
  <2> HIDE DEF b
  <2> QED
    BY <1>1, <1>3, <1>b, FoldTree
<1>6. IsFold(it)
  <2>1. it \in [SUBSET (DOMAIN s) -> Seq(Seq(Lines))]
    BY <1>1, <1>5 DEF IsTree
  <2>2. \A S \in SUBSET (DOMAIN s) : it[S] = IF S = {} THEN <<>> ELSE AddLine(it[S \ {Max(S)}], s[Max(S)])
    <3> SUFFICES ASSUME NEW S \in SUBSET (DOMAIN s), S # {}
                 PROVE  it[S] = AddLine(it[S \ {Max(S)}], s[Max(S)])
      BY <1>1, <1>5 DEF IsTree
    <3>1. Max(S) \in 1 .. n
      BY <1>1, GreatestIsMember
    <3>2. it[S \ {Max(S)}] \in Seq(Seq(Lines))
      BY <2>1
    <3>3. it[S] = g[<<it[S \ {Max(S)}], Max(S)>>]
      BY <1>1, <1>5 DEF IsTree
    <3> QED
      BY <1>3, <3>1, <3>2, <3>3
  <2> QED
    BY <2>1, <2>2
<1>7. IsFold(fold)
  BY <1>6, Zenon DEF fold
<1>8. fold[{}] = b
  BY <1>7
<1>9. ASSUME NEW k \in 1 .. n, fold[1 .. k - 1] \in Seq(Seq(Lines))
      PROVE  fold[1 .. k] = g[<<fold[1 .. k - 1], k>>]
  <2>1. Max(1 .. k) = k /\ (1 .. k) \ {k} = 1 .. k - 1
    BY <1>1, GreatestOfInterval
  <2>2. (1 .. k) \in SUBSET (DOMAIN s) /\ (1 .. k) # {}
    <3>1. \A x \in 1 .. k : x \in 1 .. n
      BY <1>1
    <3>2. k \in 1 .. k
      BY <1>1
    <3> QED
      BY <1>1, <3>1, <3>2
  <2>3. fold[1 .. k] = AddLine(fold[(1 .. k) \ {Max(1 .. k)}], s[Max(1 .. k)])
    BY <1>7, <2>2
  <2> QED
    BY <1>3, <1>9, <2>1, <2>3
<1>10. GoesBy(fold, n, Seq(Seq(Lines)), b, g)
  BY <1>1, <1>3, <1>b, <1>8, <1>9 DEF GoesBy
<1> HIDE DEF IsFold, b
<1>11. PICK F : RunsBy(F, n, Seq(Seq(Lines)), b, g) /\ F[n] = fold[1 .. n]
  <2>1. RunsUpTo(fold, n, Seq(Seq(Lines)), b, g)
    BY <1>10, FoldedUp, Zenon
  <2> QED
    BY <2>1, Zenon DEF RunsUpTo
<1>12. ASSUME NEW k \in 1 .. n PROVE F[k] = AddLine(F[k - 1], s[k])
  <2>1. k - 1 \in 0 .. n
    BY <1>1
  <2>2. F[k - 1] \in Seq(Seq(Lines))
    BY <1>11, <2>1 DEF RunsBy
  <2> QED
    BY <1>3, <1>11, <2>2 DEF RunsBy
<1> QED
  BY <1>1, <1>4, <1>11, <1>12 DEF b, RunsBy

(* No piece is longer than it may be, unless it is one line, and no two that  *)
(* stand together would fit in one.                                          *)
Packed(pieces) ==
    /\ \A i \in 1 .. Len(pieces) : /\ pieces[i] # <<>>
                                   /\ Joined(pieces[i]) > CHUNK_MAX_CHARS => Len(pieces[i]) = 1
    /\ \A i \in 1 .. Len(pieces) - 1 : Joined(pieces[i]) + 1 + pieces[i + 1][1].len > CHUNK_MAX_CHARS

LEMMA AddLineAppends ==
    ASSUME NEW pieces \in Seq(Seq(Lines)), NEW l \in Lines
    PROVE  FlattenSeq(AddLine(pieces, l)) = Append(FlattenSeq(pieces), l)
<1> DEFINE n == Len(pieces)
           last == pieces[n]
           front == SubSeq(pieces, 1, n - 1)
           longer == [pieces EXCEPT ![n] = Append(@, l)]
<1>1. n \in Nat /\ <<l>> \in Seq(Lines) /\ FlattenSeq(pieces) \in Seq(Lines)
  BY LenProperties, FlattenedAppend
<1>2. FlattenSeq(Append(pieces, <<l>>)) = Append(FlattenSeq(pieces), l)
  <2>1. FlattenSeq(Append(pieces, <<l>>)) = FlattenSeq(pieces) \o <<l>>
    BY <1>1, FlattenedAppend
  <2> DEFINE flat == FlattenSeq(pieces)
  <2>2. flat \in Seq(Lines)
    BY <1>1
  <2> HIDE DEF flat
  <2>3. Append(flat, l) = flat \o <<l>>
    BY <2>2, AppendIsConcat
  <2> QED
    BY <2>1, <2>3 DEF flat
<1>3. ASSUME pieces # <<>>
      PROVE  FlattenSeq(longer) = Append(FlattenSeq(pieces), l)
  <2>1. n \in 1 .. n /\ last \in Seq(Lines) /\ \A i \in 1 .. n : pieces[i] \in Seq(Lines)
    BY <1>3, LenProperties, ElementOfSeq, EmptySeq
  <2>2. Append(last, l) \in Seq(Lines)
    BY <2>1, AppendProperties
  <2>3. pieces = Append(front, last) /\ front \in Seq(Seq(Lines))
    <3>1. SubSeq(pieces, 1, n) = Append(SubSeq(pieces, 1, n - 1), pieces[n])
      BY <2>1, SubSeqAppend
    <3>2. SubSeq(pieces, 1, n) = pieces
      BY SubSeqFull
    <3>3. front \in Seq(Seq(Lines))
      BY <1>1, <2>1, SubSeqProperties
    <3> QED
      BY <3>1, <3>2, <3>3
  <2>4. longer = Append(front, Append(last, l))
    <3> DEFINE L == Append(last, l)
    <3>1. longer = [pieces EXCEPT ![n] = L]
      OBVIOUS
    <3>2. L \in Seq(Lines) /\ front \in Seq(Seq(Lines)) /\ Len(front) = n - 1
      <4>1. Len(Append(front, last)) = Len(front) + 1 /\ Len(front) \in Nat
        BY <2>1, <2>3, AppendProperties, LenProperties
      <4> QED
        BY <1>1, <2>2, <2>3, <4>1
    <3> HIDE DEF L, front, longer
    <3>3. /\ Append(front, L) \in Seq(Seq(Lines)) /\ Len(Append(front, L)) = n
          /\ Append(front, L)[n] = L /\ \A i \in 1 .. n - 1 : Append(front, L)[i] = front[i]
      BY <1>1, <3>2, AppendProperties
    <3>4. \A i \in 1 .. n - 1 : pieces[i] = front[i]
      <4>1. \A i \in 1 .. Len(front) : Append(front, last)[i] = front[i]
        BY <2>1, <3>2, AppendProperties
      <4> HIDE DEF last
      <4> QED
        BY <2>3, <3>2, <4>1
    <3>5. /\ longer \in Seq(Seq(Lines)) /\ Len(longer) = n
          /\ \A i \in 1 .. n : longer[i] = IF i = n THEN L ELSE pieces[i]
      BY <2>1, <3>1, <3>2, ExceptSeq
    <3>6. \A i \in 1 .. n : i = n \/ i \in 1 .. n - 1
      BY <1>1
    <3>7. \A i \in 1 .. n : longer[i] = Append(front, L)[i]
      BY <3>3, <3>4, <3>5, <3>6
    <3> QED
      BY <3>3, <3>5, <3>7, SeqEqual DEF L
  <2> DEFINE flat == FlattenSeq(front)
  <2> HIDE DEF front, last, longer
  <2>5. flat \in Seq(Lines) /\ FlattenSeq(longer) = flat \o Append(last, l)
    BY <2>2, <2>3, <2>4, FlattenedAppend
  <2>6. FlattenSeq(pieces) = flat \o last
    BY <2>1, <2>3, FlattenedAppend
  <2> HIDE DEF flat
  <2>7. flat \o Append(last, l) = Append(flat \o last, l)
    BY <2>1, <2>5, ConcatAppend
  <2> QED
    BY <2>5, <2>6, <2>7
<1> QED
  BY <1>2, <1>3 DEF AddLine

LEMMA AddLinePacks ==
    ASSUME NEW pieces \in Seq(Seq(Lines)), NEW l \in Lines, Packed(pieces)
    PROVE  Packed(AddLine(pieces, l))
<1> DEFINE n == Len(pieces)
           last == pieces[n]
           next == Append(pieces, <<l>>)
           L == Append(last, l)
           longer == [pieces EXCEPT ![n] = L]
<1>1. /\ n \in Nat /\ <<l>> \in Seq(Lines) /\ Len(<<l>>) = 1 /\ <<l>> # <<>> /\ <<l>>[1] = l
      /\ l.len \in Int /\ CHUNK_MAX_CHARS \in Nat
      /\ \A i \in 1 .. n : pieces[i] \in Seq(Lines) /\ Joined(pieces[i]) \in Int
  <2>1. \A i \in 1 .. n : Joined(pieces[i]) \in Int
    BY ElementOfSeq, JoinedAppend
  <2> QED
    BY <2>1, LenProperties, ElementOfSeq, MediaShapes DEF Lines
<1>2. ASSUME n = 0 \/ Joined(last) + 1 + l.len > CHUNK_MAX_CHARS
      PROVE  Packed(next)
  <2>1. /\ Len(next) = n + 1 /\ next[n + 1] = <<l>> /\ \A i \in 1 .. n : next[i] = pieces[i]
    BY <1>1, AppendProperties
  <2> HIDE DEF next
  <2>2. ASSUME NEW i \in 1 .. n + 1
        PROVE  next[i] # <<>> /\ (Joined(next[i]) > CHUNK_MAX_CHARS => Len(next[i]) = 1)
    <3>1. CASE i = n + 1
      BY <1>1, <2>1, <3>1
    <3>2. CASE i \in 1 .. n
      BY <2>1, <3>2 DEF Packed
    <3> QED
      BY <1>1, <3>1, <3>2
  <2>3. ASSUME NEW i \in 1 .. n
        PROVE  Joined(next[i]) + 1 + next[i + 1][1].len > CHUNK_MAX_CHARS
    <3>1. CASE i = n
      BY <1>1, <1>2, <2>1, <3>1
    <3>2. CASE i \in 1 .. n - 1
      <4>1. i + 1 \in 1 .. n
        BY <1>1, <3>2
      <4> QED
        BY <2>1, <3>2, <4>1 DEF Packed
    <3> QED
      BY <1>1, <3>1, <3>2
  <2>4. Len(next) = n + 1 /\ Len(next) - 1 = n
    BY <1>1, <2>1
  <2> QED
    BY <2>2, <2>3, <2>4 DEF Packed
<1>3. ASSUME pieces # <<>>, Joined(last) + 1 + l.len <= CHUNK_MAX_CHARS
      PROVE  Packed(longer)
  <2>1. n \in 1 .. n /\ last \in Seq(Lines) /\ last # <<>>
    BY <1>1, <1>3, EmptySeq DEF Packed
  <2>2. /\ L \in Seq(Lines) /\ L # <<>> /\ L[1] = last[1]
        /\ Joined(L) = Joined(last) + 1 + l.len /\ Joined(last) \in Int
    <3>1. 1 \in 1 .. Len(last)
      BY <2>1, LenProperties, EmptySeq
    <3> QED
      BY <2>1, <3>1, AppendProperties, JoinedAppend DEF Longer
  <2>3. ~(Joined(L) > CHUNK_MAX_CHARS)
    BY <1>1, <1>3, <2>2
  <2> HIDE DEF L
  <2>4. Len(longer) = n /\ \A i \in 1 .. n : longer[i] = IF i = n THEN L ELSE pieces[i]
    BY <2>1, <2>2, ExceptSeq
  <2> HIDE DEF longer
  <2>5. ASSUME NEW i \in 1 .. n
        PROVE  longer[i] # <<>> /\ (Joined(longer[i]) > CHUNK_MAX_CHARS => Len(longer[i]) = 1)
    BY <2>2, <2>3, <2>4 DEF Packed
  <2>6. ASSUME NEW i \in 1 .. n - 1
        PROVE  Joined(longer[i]) + 1 + longer[i + 1][1].len > CHUNK_MAX_CHARS
    <3>1. i \in 1 .. n /\ i # n /\ i + 1 \in 1 .. n
      BY <1>1
    <3>2. Joined(pieces[i]) + 1 + pieces[i + 1][1].len > CHUNK_MAX_CHARS
      BY DEF Packed
    <3>3. longer[i] = pieces[i] /\ longer[i + 1][1] = pieces[i + 1][1]
      BY <2>2, <2>4, <3>1
    <3> QED
      BY <3>2, <3>3
  <2> QED
    BY <2>4, <2>5, <2>6 DEF Packed
<1>4. n = 0 <=> pieces = <<>>
  BY <1>1, EmptySeq
<1>5. CASE pieces # <<>> /\ Longer(Joined(Last(pieces)), l) <= CHUNK_MAX_CHARS
  <2>1. AddLine(pieces, l) = longer
    BY <1>5, Zenon DEF AddLine
  <2>2. Joined(last) + 1 + l.len <= CHUNK_MAX_CHARS
    BY <1>5 DEF Longer, Last
  <2> QED
    BY <1>3, <1>5, <2>1, <2>2
<1>6. CASE ~(pieces # <<>> /\ Longer(Joined(Last(pieces)), l) <= CHUNK_MAX_CHARS)
  <2>1. AddLine(pieces, l) = next
    BY <1>6, Zenon DEF AddLine
  <2>2. n = 0 \/ Joined(last) + 1 + l.len > CHUNK_MAX_CHARS
    <3>1. CASE pieces = <<>>
      BY <1>4, <3>1
    <3>2. CASE pieces # <<>>
      <4>1. ~(Joined(last) + 1 + l.len <= CHUNK_MAX_CHARS)
        BY <1>6, <3>2 DEF Longer, Last
      <4>2. n \in 1 .. n /\ Joined(last) \in Int
        BY <1>1, <1>4, <3>2
      <4> QED
        BY <1>1, <4>1, <4>2
    <3> QED
      BY <3>1, <3>2
  <2> QED
    BY <1>2, <2>1, <2>2
<1> QED
  BY <1>5, <1>6

LEMMA Splits ==
    ASSUME NEW lines \in Seq(Lines)
    PROVE  /\ SplitWithinPage(lines) \in Seq(Seq(Lines)) /\ Packed(SplitWithinPage(lines))
           /\ FlattenSeq(SplitWithinPage(lines)) = lines
<1> DEFINE n == Len(lines)
<1>1. n \in Nat /\ \A k \in 1 .. n : lines[k] \in Lines
  BY LenProperties, ElementOfSeq
<1>2. PICK F \in [0 .. n -> Seq(Seq(Lines))] :
          /\ F[0] = <<>> /\ F[n] = SplitWithinPage(lines)
          /\ \A k \in 1 .. n : F[k] = AddLine(F[k - 1], lines[k])
  BY SplitRunsAlong
<1> DEFINE Holds == {k \in 0 .. n : Packed(F[k]) /\ FlattenSeq(F[k]) = SubSeq(lines, 1, k)}
<1>3. 0 \in Holds
  <2> DEFINE none == <<>>
  <2>1. none \in Seq(Seq(Lines)) /\ Len(none) = 0
    OBVIOUS
  <2>2. FlattenSeq(none) = <<>>
    BY Zenon DEF FlattenSeq
  <2>3. SubSeq(lines, 1, 0) = <<>>
    BY SubSeqEmpty
  <2>4. Packed(none)
    BY <2>1 DEF Packed
  <2> QED
    BY <1>1, <1>2, <2>2, <2>3, <2>4
<1>4. \A k \in 1 .. n : k - 1 \in Holds => k \in Holds
  <2> SUFFICES ASSUME NEW k \in 1 .. n, Packed(F[k - 1]),
                      FlattenSeq(F[k - 1]) = SubSeq(lines, 1, k - 1)
               PROVE  Packed(F[k]) /\ FlattenSeq(F[k]) = SubSeq(lines, 1, k)
    BY <1>1
  <2>1. F[k - 1] \in Seq(Seq(Lines)) /\ lines[k] \in Lines
    BY <1>1, <1>2
  <2>2. F[k] = AddLine(F[k - 1], lines[k])
    BY <1>2
  <2> QED
    BY <2>1, <2>2, AddLinePacks, AddLineAppends, SubSeqAppend
<1> HIDE DEF Holds
<1>5. \A k \in 0 .. n : k \in Holds
  BY <1>1, <1>3, <1>4, Upward
<1>6. Packed(F[n]) /\ FlattenSeq(F[n]) = SubSeq(lines, 1, n) /\ F[n] \in Seq(Seq(Lines))
  BY <1>1, <1>2, <1>5 DEF Holds
<1> QED
  BY <1>2, <1>6, SubSeqFull

-----------------------------------------------------------------------------
(* paper.parse_pdf.                                                         *)

LEMMA PageLines ==
    ASSUME NEW page \in Pages
    PROVE  /\ Prose(page) \in Seq(Lines) /\ Headings(page) \in Seq(Lines)
           /\ Body(page) \in Seq(Lines)
<1>1. page.lines \in Seq(Lines)
  BY DEF Pages
<1>2. ASSUME NEW s \in Seq(Lines), NEW Chosen \in SUBSET (DOMAIN s)
      PROVE  Taken(s, Chosen) \in Seq(Lines)
  <2>1. Chosen \in SUBSET (1 .. Len(s))
    BY LenProperties
  <2> QED
    BY <2>1, TakenInOrder, SubListSeq
<1>3. Prose(page) \in Seq(Lines)
  <2>1. Prose(page) = Taken(page.lines, {i \in DOMAIN page.lines : ~page.lines[i].table})
    BY Zenon DEF Prose, Filtered
  <2> QED
    BY <1>1, <1>2, <2>1
<1>4. Headings(page) = Taken(Prose(page), {i \in DOMAIN Prose(page) : IsHeading(page, Prose(page)[i])})
  BY Zenon DEF Headings, Filtered
<1>5. Body(page) = Taken(Prose(page), {i \in DOMAIN Prose(page) : ~IsHeading(page, Prose(page)[i])})
  BY Zenon DEF Body, Filtered
<1> QED
  BY <1>2, <1>3, <1>4, <1>5

Chunks == [page: Nat, section: Int, lines: Seq(Lines)]

LEMMA ConcatParts ==
    ASSUME NEW S, NEW s \in Seq(S), NEW t \in Seq(S)
    PROVE  /\ s \o t \in Seq(S) /\ Len(s \o t) = Len(s) + Len(t)
           /\ \A i \in 1 .. Len(s) : (s \o t)[i] = s[i]
           /\ \A i \in Len(s) + 1 .. Len(s) + Len(t) :
                 i - Len(s) \in 1 .. Len(t) /\ (s \o t)[i] = t[i - Len(s)]
<1>1. Len(s) \in Nat /\ Len(t) \in Nat
  BY LenProperties
<1> QED
  BY <1>1, ConcatProperties

(* c has the pieces of the page, then its tables, then its figures. *)
HasAll(c, pieces, page, section) ==
    /\ c \in Seq(Chunks) /\ Len(c) = Len(pieces) + page.tables + page.figures
    /\ \A i \in 1 .. Len(c) : c[i].page = page.no
    /\ \A i \in 1 .. Len(pieces) :
          c[i] = [page |-> page.no, section |-> section, lines |-> pieces[i]]
    /\ \A i \in Len(pieces) + 1 .. Len(pieces) + page.tables :
          c[i].section = TableSection /\ c[i].lines = <<>>
    /\ \A i \in Len(pieces) + page.tables + 1 .. Len(c) :
          c[i].section = NoSection /\ c[i].lines = <<>>

LEMMA PageChunksAre ==
    ASSUME NEW page \in Pages, NEW section \in Int, NEW pieces, NEW c,
           pieces = SplitWithinPage(Body(page)), c = PageChunks(page, section)
    PROVE  /\ pieces \in Seq(Seq(Lines)) /\ Packed(pieces) /\ FlattenSeq(pieces) = Body(page)
           /\ HasAll(c, pieces, page, section)
<1> DEFINE none == <<>>
           Chunk(label, n) == [i \in 1 .. n |-> [page |-> page.no, section |-> label, lines |-> none]]
           m == Len(pieces)
           t == page.tables
           f == page.figures
           said == [i \in DOMAIN pieces |-> [page |-> page.no, section |-> section, lines |-> pieces[i]]]
           tabs == Chunk(TableSection, t)
           figs == Chunk(NoSection, f)
<1>1. /\ pieces \in Seq(Seq(Lines)) /\ Packed(pieces) /\ FlattenSeq(pieces) = Body(page)
      /\ m \in Nat /\ t \in Nat /\ f \in Nat /\ page.no \in Nat
      /\ DOMAIN pieces = 1 .. m /\ \A i \in 1 .. m : pieces[i] \in Seq(Lines)
  <2>1. Body(page) \in Seq(Lines)
    BY PageLines
  <2>2. page.tables \in Nat /\ page.figures \in Nat /\ page.no \in Nat
    BY DEF Pages
  <2>3. pieces \in Seq(Seq(Lines)) /\ Packed(pieces) /\ FlattenSeq(pieces) = Body(page)
    BY <2>1, Splits
  <2> QED
    BY <2>2, <2>3, LenProperties, ElementOfSeq
<1>2. c = said \o tabs \o figs
  BY Zenon DEF PageChunks
<1>n. none \in Seq(Lines)
  BY EmptySeq
<1> HIDE DEF none, m, t, f
<1>3. ASSUME NEW x \in Seq(Lines), NEW label \in Int
      PROVE  [page |-> page.no, section |-> label, lines |-> x] \in Chunks
  BY <1>1 DEF Chunks
<1>4. /\ said \in Seq(Chunks) /\ Len(said) = m
      /\ \A i \in 1 .. m : said[i] = [page |-> page.no, section |-> section, lines |-> pieces[i]]
  <2>1. said \in [1 .. m -> Chunks]
    BY <1>1, <1>3
  <2> QED
    BY <1>1, <2>1
<1>5. /\ tabs \in Seq(Chunks) /\ Len(tabs) = t
      /\ \A i \in 1 .. t : tabs[i] = [page |-> page.no, section |-> TableSection, lines |-> none]
  <2>1. tabs \in [1 .. t -> Chunks]
    BY <1>1, <1>3, <1>n DEF TableSection
  <2> QED
    BY <1>1, <2>1
<1>6. /\ figs \in Seq(Chunks) /\ Len(figs) = f
      /\ \A i \in 1 .. f : figs[i] = [page |-> page.no, section |-> NoSection, lines |-> none]
  <2>1. figs \in [1 .. f -> Chunks]
    BY <1>1, <1>3, <1>n DEF NoSection
  <2> QED
    BY <1>1, <2>1
<1> HIDE DEF said, tabs, figs
<1> DEFINE both == said \o tabs
<1>7. /\ both \in Seq(Chunks) /\ Len(both) = m + t /\ m + t \in Nat
      /\ \A i \in 1 .. m : both[i] = said[i]
      /\ \A i \in m + 1 .. m + t : i - m \in 1 .. t /\ both[i] = tabs[i - m]
  <2>1. m \in Nat /\ t \in Nat
    BY <1>1
  <2>2. said \in Seq(Chunks) /\ Len(said) = m /\ tabs \in Seq(Chunks) /\ Len(tabs) = t
    BY <1>4, <1>5
  <2>3. /\ both \in Seq(Chunks) /\ Len(both) = Len(said) + Len(tabs)
        /\ \A i \in 1 .. Len(said) : both[i] = said[i]
        /\ \A i \in Len(said) + 1 .. Len(said) + Len(tabs) :
              i - Len(said) \in 1 .. Len(tabs) /\ both[i] = tabs[i - Len(said)]
    BY <2>2, ConcatParts
  <2> HIDE DEF both
  <2> QED
    BY <2>1, <2>2, <2>3
<1> HIDE DEF both
<1>8. /\ c \in Seq(Chunks) /\ Len(c) = m + t + f
      /\ \A i \in 1 .. m + t : c[i] = both[i]
      /\ \A i \in m + t + 1 .. m + t + f : i - (m + t) \in 1 .. f /\ c[i] = figs[i - (m + t)]
  <2>1. c = both \o figs
    BY <1>2 DEF both
  <2>2. f \in Nat
    BY <1>1
  <2>3. /\ both \in Seq(Chunks) /\ Len(both) = m + t /\ m + t \in Nat
        /\ figs \in Seq(Chunks) /\ Len(figs) = f
    BY <1>6, <1>7
  <2> DEFINE all == both \o figs
  <2>4. /\ all \in Seq(Chunks) /\ Len(all) = Len(both) + Len(figs)
        /\ \A i \in 1 .. Len(both) : all[i] = both[i]
        /\ \A i \in Len(both) + 1 .. Len(both) + Len(figs) :
              i - Len(both) \in 1 .. Len(figs) /\ all[i] = figs[i - Len(both)]
    BY <2>3, ConcatParts
  <2>5. c = all
    BY <2>1
  <2> HIDE DEF all
  <2> QED
    BY <2>2, <2>3, <2>4, <2>5
<1>9. \A i \in 1 .. m : c[i] = [page |-> page.no, section |-> section, lines |-> pieces[i]]
  BY <1>1, <1>4, <1>7, <1>8
<1>10. \A i \in m + 1 .. m + t : c[i] = [page |-> page.no, section |-> TableSection, lines |-> none]
  BY <1>1, <1>5, <1>7, <1>8
<1>11. \A i \in m + t + 1 .. m + t + f : c[i] = [page |-> page.no, section |-> NoSection, lines |-> none]
  BY <1>1, <1>6, <1>8
<1>12. \A i \in 1 .. Len(c) : c[i].page = page.no
  <2> SUFFICES ASSUME NEW i \in 1 .. m + t + f PROVE c[i].page = page.no
    BY <1>8
  <2>1. i \in 1 .. m \/ i \in m + 1 .. m + t \/ i \in m + t + 1 .. m + t + f
    BY <1>1
  <2>2. CASE i \in 1 .. m
    <3>1. c[i] = [page |-> page.no, section |-> section, lines |-> pieces[i]]
      BY <1>9, <2>2, Zenon
    <3> QED
      BY <3>1
  <2>3. CASE i \in m + 1 .. m + t
    BY <1>10, <2>3
  <2>4. CASE i \in m + t + 1 .. m + t + f
    BY <1>11, <2>4
  <2> QED
    BY <2>1, <2>2, <2>3, <2>4
<1> QED
  BY <1>1, <1>8, <1>9, <1>10, <1>11, <1>12 DEF none, m, t, f, HasAll

ParseStates == [section: Int, chunks: Seq(Chunks)]
NotParsed   == [section |-> NoSection, chunks |-> <<>>]

LEMMA ParsePageFits ==
    /\ NotParsed \in ParseStates
    /\ \A s \in ParseStates, page \in Pages :
          SectionAfter(page, s.section) \in Int /\ ParsePage(s, page) \in ParseStates
<1>1. NotParsed \in ParseStates
  <2>1. <<>> \in Seq(Chunks)
    BY EmptySeq
  <2> QED
    BY <2>1 DEF NotParsed, ParseStates, NoSection
<1> SUFFICES ASSUME NEW s \in ParseStates, NEW page \in Pages
             PROVE  SectionAfter(page, s.section) \in Int /\ ParsePage(s, page) \in ParseStates
  BY <1>1
<1> DEFINE section == SectionAfter(page, s.section)
           c == PageChunks(page, section)
<1>2. s.section \in Int /\ s.chunks \in Seq(Chunks)
  BY DEF ParseStates
<1>3. section \in Int
  <2>1. CASE Headings(page) = <<>>
    BY <1>2, <2>1 DEF SectionAfter
  <2>2. CASE Headings(page) # <<>>
    <3> DEFINE h == Headings(page)
    <3>1. section = Last(h).text
      BY <2>2 DEF SectionAfter
    <3>2. h \in Seq(Lines) /\ h # <<>>
      BY <2>2, PageLines
    <3> HIDE DEF h
    <3>3. Len(h) \in 1 .. Len(h) /\ h[Len(h)] \in Lines
      BY <3>2, LenProperties, ElementOfSeq, EmptySeq
    <3>4. h[Len(h)].text \in Int
      BY <3>3 DEF Lines
    <3> QED
      BY <3>1, <3>4 DEF Last
  <2> QED
    BY <2>1, <2>2
<1> HIDE DEF section
<1>4. c \in Seq(Chunks)
  BY <1>3, PageChunksAre DEF HasAll
<1>5. ParsePage(s, page) = [section |-> section, chunks |-> s.chunks \o c]
  BY Zenon DEF ParsePage, section
<1> HIDE DEF c
<1>6. s.chunks \o c \in Seq(Chunks)
  BY <1>2, <1>4, ConcatProperties
<1> QED
  BY <1>3, <1>5, <1>6 DEF ParseStates, section

LEMMA ParseRunsAlong ==
    ASSUME NEW s \in Seq(Pages)
    PROVE  \E F \in [0 .. Len(s) -> ParseStates] : /\ F[0] = NotParsed /\ F[Len(s)] = FoldLeft(ParsePage, NotParsed, s)
                                           /\ \A k \in 1 .. Len(s) : F[k] = ParsePage(F[k - 1], s[k])
<1> DEFINE n == Len(s)
           g == [x \in ParseStates \X (1 .. n) |-> ParsePage(x[1], s[x[2]])]
           IsFold(iter) == iter = [S \in SUBSET (DOMAIN s) |->
               IF S = {} THEN NotParsed ELSE ParsePage(iter[S \ {Max(S)}], s[Max(S)])]
           fold == CHOOSE iter : IsFold(iter)
<1>1. n \in Nat /\ DOMAIN s = 1 .. n /\ \A i \in 1 .. n : s[i] \in Pages
  BY LenProperties, ElementOfSeq
<1>2. \A x \in ParseStates, k \in 1 .. n : ParsePage(x, s[k]) \in ParseStates
  BY <1>1, ParsePageFits
<1>3. g \in [ParseStates \X (1 .. n) -> ParseStates] /\ \A x \in ParseStates, k \in 1 .. n : g[<<x, k>>] = ParsePage(x, s[k])
  BY <1>2
<1>4. FoldLeft(ParsePage, NotParsed, s) = fold[DOMAIN s]
  BY Zenon DEF FoldLeft, MapThenFoldSet
<1> HIDE DEF g, fold
<1> DEFINE b == NotParsed
<1>b. b \in ParseStates
  BY ParsePageFits
<1>5. PICK it : IsTree(it, n, ParseStates, b, g)
  <2> HIDE DEF b
  <2> QED
    BY <1>1, <1>3, <1>b, FoldTree
<1>6. IsFold(it)
  <2>1. it \in [SUBSET (DOMAIN s) -> ParseStates]
    BY <1>1, <1>5 DEF IsTree
  <2>2. \A S \in SUBSET (DOMAIN s) : it[S] = IF S = {} THEN NotParsed ELSE ParsePage(it[S \ {Max(S)}], s[Max(S)])
    <3> SUFFICES ASSUME NEW S \in SUBSET (DOMAIN s), S # {}
                 PROVE  it[S] = ParsePage(it[S \ {Max(S)}], s[Max(S)])
      BY <1>1, <1>5 DEF IsTree
    <3>1. Max(S) \in 1 .. n
      BY <1>1, GreatestIsMember
    <3>2. it[S \ {Max(S)}] \in ParseStates
      BY <2>1
    <3>3. it[S] = g[<<it[S \ {Max(S)}], Max(S)>>]
      BY <1>1, <1>5 DEF IsTree
    <3> QED
      BY <1>3, <3>1, <3>2, <3>3
  <2> QED
    BY <2>1, <2>2
<1>7. IsFold(fold)
  BY <1>6, Zenon DEF fold
<1>8. fold[{}] = b
  BY <1>7
<1>9. ASSUME NEW k \in 1 .. n, fold[1 .. k - 1] \in ParseStates
      PROVE  fold[1 .. k] = g[<<fold[1 .. k - 1], k>>]
  <2>1. Max(1 .. k) = k /\ (1 .. k) \ {k} = 1 .. k - 1
    BY <1>1, GreatestOfInterval
  <2>2. (1 .. k) \in SUBSET (DOMAIN s) /\ (1 .. k) # {}
    <3>1. \A x \in 1 .. k : x \in 1 .. n
      BY <1>1
    <3>2. k \in 1 .. k
      BY <1>1
    <3> QED
      BY <1>1, <3>1, <3>2
  <2>3. fold[1 .. k] = ParsePage(fold[(1 .. k) \ {Max(1 .. k)}], s[Max(1 .. k)])
    BY <1>7, <2>2
  <2> QED
    BY <1>3, <1>9, <2>1, <2>3
<1>10. GoesBy(fold, n, ParseStates, b, g)
  BY <1>1, <1>3, <1>b, <1>8, <1>9 DEF GoesBy
<1> HIDE DEF IsFold, b
<1>11. PICK F : RunsBy(F, n, ParseStates, b, g) /\ F[n] = fold[1 .. n]
  <2>1. RunsUpTo(fold, n, ParseStates, b, g)
    BY <1>10, FoldedUp, Zenon
  <2> QED
    BY <2>1, Zenon DEF RunsUpTo
<1>12. ASSUME NEW k \in 1 .. n PROVE F[k] = ParsePage(F[k - 1], s[k])
  <2>1. k - 1 \in 0 .. n
    BY <1>1
  <2>2. F[k - 1] \in ParseStates
    BY <1>11, <2>1 DEF RunsBy
  <2> QED
    BY <1>3, <1>11, <2>2 DEF RunsBy
<1> QED
  BY <1>1, <1>4, <1>11, <1>12 DEF b, RunsBy

(* The heading a page stands under. *)
Headed(paper, p)  == {q \in 1 .. p : Headings(paper[q]) # <<>>}
LabelAt(paper, p) ==
    IF Headed(paper, p) = {} THEN NoSection
    ELSE Last(Headings(paper[CHOOSE q \in Headed(paper, p) : \A o \in Headed(paper, p) : o <= q])).text

LEMMA LabelGoes ==
    ASSUME NEW paper, NEW n \in Nat
    PROVE  /\ LabelAt(paper, 0) = NoSection
           /\ \A p \in 1 .. n : LabelAt(paper, p) = SectionAfter(paper[p], LabelAt(paper, p - 1))
<1>1. LabelAt(paper, 0) = NoSection
  <2>1. Headed(paper, 0) = {}
    BY DEF Headed
  <2> QED
    BY <2>1 DEF LabelAt
<1>2. ASSUME NEW p \in 1 .. n
      PROVE  LabelAt(paper, p) = SectionAfter(paper[p], LabelAt(paper, p - 1))
  <2>1. CASE Headings(paper[p]) = <<>>
    <3>1. Headed(paper, p) = Headed(paper, p - 1)
      <4>1. \A q : q \in 1 .. p <=> q \in 1 .. p - 1 \/ q = p
        OBVIOUS
      <4>2. \A q : q \in Headed(paper, p) <=> q \in Headed(paper, p - 1)
        BY <2>1, <4>1, Zenon DEF Headed
      <4> QED
        BY <4>2, Zenon
    <3>2. LabelAt(paper, p) = LabelAt(paper, p - 1)
      BY <3>1 DEF LabelAt
    <3> QED
      BY <2>1, <3>2 DEF SectionAfter
  <2>2. CASE Headings(paper[p]) # <<>>
    <3> DEFINE H == Headed(paper, p)
    <3>1. p \in H /\ \A o \in H : o <= p /\ o \in Int
      BY <2>2 DEF Headed
    <3>2. H # {} /\ \A q \in H : (\A o \in H : o <= q) <=> q = p
      BY <3>1
    <3> HIDE DEF H
    <3>3. (CHOOSE q \in H : \A o \in H : o <= q) = p
      BY <3>1, <3>2
    <3>4. LabelAt(paper, p) = IF H = {} THEN NoSection
              ELSE Last(Headings(paper[CHOOSE q \in H : \A o \in H : o <= q])).text
      BY Zenon DEF LabelAt, H
    <3>5. LabelAt(paper, p) = Last(Headings(paper[p])).text
      BY <3>2, <3>3, <3>4
    <3> QED
      BY <2>2, <3>5 DEF SectionAfter
  <2> QED
    BY <2>1, <2>2
<1> QED
  BY <1>1, <1>2

(* The headings a piece of page p may be under, and the one it is under. *)
LabelsAt(paper, p) == {LabelAt(paper, p - 1)} \cup {h.text : h \in Range(Headings(paper[p]))}

LEMMA LabelOfPage ==
    ASSUME NEW paper, NEW n \in Nat, NEW p \in 1 .. n, paper[p] \in Pages
    PROVE  LabelAt(paper, p) \in LabelsAt(paper, p)
<1> DEFINE h == Headings(paper[p])
<1>1. LabelAt(paper, p) = SectionAfter(paper[p], LabelAt(paper, p - 1))
  BY LabelGoes
<1>2. CASE h = <<>>
  BY <1>1, <1>2 DEF SectionAfter, LabelsAt
<1>3. CASE h # <<>>
  <2>1. h \in Seq(Lines)
    BY PageLines
  <2>2. Len(h) \in DOMAIN h
    <3> HIDE DEF h
    <3> QED
      BY <1>3, <2>1
  <2>3. Last(h) \in Range(h)
    BY <2>2 DEF Last, Range
  <2>4. LabelAt(paper, p) = Last(h).text
    BY <1>1, <1>3 DEF SectionAfter
  <2> QED
    BY <2>3, <2>4 DEF LabelsAt
<1> QED
  BY <1>2, <1>3

(* The chunks of page no stand together in a list, after the first a. *)
LiesAt(list, c, no, a) ==
    /\ a \in Nat /\ a + Len(c) <= Len(list)
    /\ \A i \in 1 .. Len(c) : list[a + i] = c[i]
    /\ \A j \in 1 .. Len(list) : list[j].page = no <=> j \in a + 1 .. a + Len(c)

LEMMA LiesStill ==
    ASSUME NEW list \in Seq(Chunks), NEW more \in Seq(Chunks), NEW c \in Seq(Chunks), NEW no, NEW a,
           LiesAt(list, c, no, a), \A i \in 1 .. Len(more) : more[i].page # no
    PROVE  LiesAt(list \o more, c, no, a)
<1> DEFINE both == list \o more
           n == Len(list)
           m == Len(c)
<1>1. /\ Len(both) = n + Len(more)
      /\ \A i \in 1 .. n : both[i] = list[i]
      /\ \A i \in n + 1 .. n + Len(more) : i - n \in 1 .. Len(more) /\ both[i] = more[i - n]
  BY ConcatParts
<1> HIDE DEF both
<1>2. n \in Nat /\ m \in Nat /\ Len(more) \in Nat /\ a \in Nat /\ a + m <= n
  BY LenProperties DEF LiesAt
<1>3. ASSUME NEW i \in 1 .. m PROVE both[a + i] = c[i]
  <2>1. a + i \in 1 .. n
    BY <1>2
  <2> QED
    BY <1>1, <2>1 DEF LiesAt
<1>4. ASSUME NEW j \in 1 .. n + Len(more) PROVE both[j].page = no <=> j \in a + 1 .. a + m
  <2>1. CASE j \in 1 .. n
    BY <1>1, <2>1 DEF LiesAt
  <2>2. CASE j \in n + 1 .. n + Len(more)
    <3>1. both[j].page # no
      BY <1>1, <2>2
    <3>2. j \notin a + 1 .. a + m
      BY <1>2, <2>2
    <3> QED
      BY <3>1, <3>2
  <2> QED
    BY <1>2, <2>1, <2>2
<1>5. a + m <= Len(both)
  BY <1>1, <1>2
<1> QED
  BY <1>1, <1>2, <1>3, <1>4, <1>5 DEF LiesAt, both

LEMMA LiesLast ==
    ASSUME NEW list \in Seq(Chunks), NEW c \in Seq(Chunks), NEW no,
           \A i \in 1 .. Len(list) : list[i].page # no, \A i \in 1 .. Len(c) : c[i].page = no
    PROVE  LiesAt(list \o c, c, no, Len(list))
<1> DEFINE both == list \o c
           n == Len(list)
           m == Len(c)
<1>1. /\ Len(both) = n + m
      /\ \A i \in 1 .. n : both[i] = list[i]
      /\ \A i \in n + 1 .. n + m : i - n \in 1 .. m /\ both[i] = c[i - n]
  BY ConcatParts
<1> HIDE DEF both
<1>2. n \in Nat /\ m \in Nat
  BY LenProperties
<1>3. ASSUME NEW i \in 1 .. m PROVE both[n + i] = c[i]
  <2>1. n + i \in n + 1 .. n + m /\ (n + i) - n = i
    BY <1>2
  <2> QED
    BY <1>1, <2>1
<1>4. ASSUME NEW j \in 1 .. n + m PROVE both[j].page = no <=> j \in n + 1 .. n + m
  <2>1. CASE j \in 1 .. n
    <3>1. j \notin n + 1 .. n + m
      BY <1>2, <2>1
    <3> QED
      BY <1>1, <2>1, <3>1
  <2>2. CASE j \in n + 1 .. n + m
    BY <1>1, <2>2
  <2> QED
    BY <1>2, <2>1, <2>2
<1> QED
  BY <1>1, <1>2, <1>3, <1>4 DEF LiesAt, both

(* What parse_pdf has after k pages. *)
ChunksOf(paper, p) == PageChunks(paper[p], LabelAt(paper, p))
ParsedUpTo(s, paper, k) ==
    /\ s.section = LabelAt(paper, k)
    /\ \A j \in 1 .. Len(s.chunks) : s.chunks[j].page \in 1 .. k
    /\ \A p \in 1 .. k : \E a : LiesAt(s.chunks, ChunksOf(paper, p), p, a)

LEMMA ParsePageLays ==
    ASSUME NEW n \in Nat, NEW k \in 1 .. n, NEW paper \in Seq(Pages), Len(paper) = n,
           \A p \in 1 .. n : paper[p].no = p /\ LabelAt(paper, p) \in Int,
           NEW s \in ParseStates, ParsedUpTo(s, paper, k - 1)
    PROVE  ParsedUpTo(ParsePage(s, paper[k]), paper, k)
<1> DEFINE list == s.chunks
           c == ChunksOf(paper, k)
           both == list \o c
           next == ParsePage(s, paper[k])
<1>1. \A p \in 1 .. n : paper[p] \in Pages
  BY ElementOfSeq
<1>2. s.section = LabelAt(paper, k - 1) /\ LabelAt(paper, k) = SectionAfter(paper[k], s.section)
  BY LabelGoes DEF ParsedUpTo
<1>3. next = [section |-> LabelAt(paper, k), chunks |-> both]
  BY <1>2, Zenon DEF ParsePage, ChunksOf
<1>4. \A p \in 1 .. n : /\ ChunksOf(paper, p) \in Seq(Chunks)
                        /\ \A i \in 1 .. Len(ChunksOf(paper, p)) : ChunksOf(paper, p)[i].page = p
  <2> SUFFICES ASSUME NEW p \in 1 .. n
               PROVE  /\ ChunksOf(paper, p) \in Seq(Chunks)
                      /\ \A i \in 1 .. Len(ChunksOf(paper, p)) : ChunksOf(paper, p)[i].page = p
    OBVIOUS
  <2>1. paper[p] \in Pages /\ LabelAt(paper, p) \in Int /\ paper[p].no = p
    BY <1>1
  <2>2. /\ PageChunks(paper[p], LabelAt(paper, p)) \in Seq(Chunks)
        /\ \A i \in 1 .. Len(PageChunks(paper[p], LabelAt(paper, p))) :
              PageChunks(paper[p], LabelAt(paper, p))[i].page = paper[p].no
    BY <2>1, PageChunksAre DEF HasAll
  <2> QED
    BY <2>1, <2>2 DEF ChunksOf
<1>5. list \in Seq(Chunks) /\ Len(list) \in Nat
  BY LenProperties DEF ParseStates
<1>6. c \in Seq(Chunks) /\ Len(c) \in Nat /\ \A i \in 1 .. Len(c) : c[i].page = k
  BY <1>4, LenProperties
<1>7. \A j \in 1 .. Len(list) : list[j].page \in 1 .. k - 1
  BY DEF ParsedUpTo
<1>p. \A p \in 1 .. k - 1 : \E a : LiesAt(list, ChunksOf(paper, p), p, a)
  BY Zenon DEF ParsedUpTo
<1>8. next.section = LabelAt(paper, k) /\ next.chunks = both
  BY <1>3
<1> HIDE DEF list, c, next
<1>9. ASSUME NEW j \in 1 .. Len(both) PROVE both[j].page \in 1 .. k
  <2>1. /\ Len(both) = Len(list) + Len(c)
        /\ \A i \in 1 .. Len(list) : both[i] = list[i]
        /\ \A i \in Len(list) + 1 .. Len(list) + Len(c) :
              i - Len(list) \in 1 .. Len(c) /\ both[i] = c[i - Len(list)]
    BY <1>5, <1>6, ConcatParts
  <2> HIDE DEF both
  <2>2. j \in 1 .. Len(list) \/ j \in Len(list) + 1 .. Len(list) + Len(c)
    BY <1>5, <1>6, <2>1
  <2>3. CASE j \in 1 .. Len(list)
    <3>1. both[j].page \in 1 .. k - 1
      BY <1>7, <2>1, <2>3
    <3> QED
      BY <3>1
  <2>4. CASE j \in Len(list) + 1 .. Len(list) + Len(c)
    <3>1. both[j].page = k
      BY <1>6, <2>1, <2>4
    <3> QED
      BY <3>1
  <2> QED
    BY <2>2, <2>3, <2>4
<1>10. ASSUME NEW p \in 1 .. k PROVE \E a : LiesAt(both, ChunksOf(paper, p), p, a)
  <2>1. CASE p \in 1 .. k - 1
    <3>1. PICK a : LiesAt(list, ChunksOf(paper, p), p, a)
      BY <1>p, <2>1
    <3>2. ChunksOf(paper, p) \in Seq(Chunks) /\ \A i \in 1 .. Len(c) : c[i].page # p
      BY <1>4, <1>6, <2>1
    <3> QED
      BY <1>5, <1>6, <3>1, <3>2, LiesStill
  <2>2. CASE p = k
    <3>1. \A j \in 1 .. Len(list) : list[j].page # k
      BY <1>7
    <3>2. LiesAt(both, c, k, Len(list))
      BY <1>5, <1>6, <3>1, LiesLast
    <3> QED
      BY <2>2, <3>2, Zenon DEF c
  <2> QED
    BY <2>1, <2>2
<1> HIDE DEF both
<1> QED
  BY <1>8, <1>9, <1>10 DEF ParsedUpTo, next

LEMMA Parses ==
    ASSUME NEW paper \in Seq(Pages), \A p \in DOMAIN paper : paper[p].no = p, NEW s,
           s = FoldLeft(ParsePage, NotParsed, paper)
    PROVE  /\ s \in ParseStates /\ ParsedUpTo(s, paper, Len(paper))
           /\ \A p \in 1 .. Len(paper) : LabelAt(paper, p) \in Int
<1> DEFINE n == Len(paper)
<1>1. n \in Nat /\ DOMAIN paper = 1 .. n /\ \A p \in 1 .. n : paper[p] \in Pages
  BY LenProperties, ElementOfSeq
<1>2. PICK F \in [0 .. n -> ParseStates] :
          /\ F[0] = NotParsed /\ F[n] = s
          /\ \A k \in 1 .. n : F[k] = ParsePage(F[k - 1], paper[k])
  BY ParseRunsAlong
<1>3. \A p \in 0 .. n : LabelAt(paper, p) \in Int
  <2> DEFINE Holds == {p \in 0 .. n : LabelAt(paper, p) \in Int}
  <2>1. 0 \in Holds
    BY <1>1, LabelGoes DEF NoSection
  <2>2. \A p \in 1 .. n : p - 1 \in Holds => p \in Holds
    <3> SUFFICES ASSUME NEW p \in 1 .. n, LabelAt(paper, p - 1) \in Int
                 PROVE  LabelAt(paper, p) \in Int
      BY <1>1
    <3> DEFINE before == LabelAt(paper, p - 1)
               st == [section |-> before, chunks |-> <<>>]
    <3>1. LabelAt(paper, p) = SectionAfter(paper[p], before)
      BY <1>1, LabelGoes
    <3>2. st \in ParseStates /\ st.section = before
      <4>1. <<>> \in Seq(Chunks)
        BY EmptySeq
      <4> QED
        BY <4>1 DEF ParseStates
    <3> HIDE DEF st, before
    <3>3. SectionAfter(paper[p], st.section) \in Int
      BY <1>1, <3>2, ParsePageFits
    <3> QED
      BY <3>1, <3>2, <3>3
  <2> HIDE DEF Holds
  <2>3. \A p \in 0 .. n : p \in Holds
    BY <1>1, <2>1, <2>2, Upward
  <2> QED
    BY <2>3 DEF Holds
<1> DEFINE Holds == {k \in 0 .. n : ParsedUpTo(F[k], paper, k)}
<1>4. 0 \in Holds
  <2>1. NotParsed.section = NoSection /\ NotParsed.chunks = <<>> /\ Len(<<>>) = 0
    BY DEF NotParsed
  <2>2. LabelAt(paper, 0) = NoSection
    BY <1>1, LabelGoes
  <2>3. ParsedUpTo(NotParsed, paper, 0)
    BY <2>1, <2>2 DEF ParsedUpTo
  <2> QED
    BY <1>1, <1>2, <2>3
<1>5. \A k \in 1 .. n : k - 1 \in Holds => k \in Holds
  <2> SUFFICES ASSUME NEW k \in 1 .. n, ParsedUpTo(F[k - 1], paper, k - 1)
               PROVE  ParsedUpTo(F[k], paper, k)
    BY <1>1
  <2>1. F[k - 1] \in ParseStates /\ F[k] = ParsePage(F[k - 1], paper[k])
    BY <1>1, <1>2
  <2>2. \A p \in 1 .. n : paper[p].no = p /\ LabelAt(paper, p) \in Int
    BY <1>1, <1>3
  <2> QED
    BY <1>1, <2>1, <2>2, ParsePageLays
<1> HIDE DEF Holds
<1>6. \A k \in 0 .. n : k \in Holds
  BY <1>1, <1>4, <1>5, Upward
<1>7. n \in 0 .. n
  BY <1>1
<1> QED
  BY <1>2, <1>3, <1>6, <1>7 DEF Holds

(* What of a list is prose of page p, and what is a table of it. *)
ProseAt(list, p)  == {i \in DOMAIN list : list[i].page = p /\ list[i].lines # <<>>}
TablesAt(list, p) == {i \in DOMAIN list : list[i].page = p /\ list[i].lines = <<>> /\ list[i].section = TableSection}

Says(list, page, section, pieces) ==
    /\ Taken(list, ProseAt(list, page.no))
           = [k \in 1 .. Len(pieces) |-> [page |-> page.no, section |-> section, lines |-> pieces[k]]]
    /\ Cardinality(TablesAt(list, page.no)) = page.tables

LEMMA PageLies ==
    ASSUME NEW page \in Pages, NEW section \in Int, NEW list \in Seq(Chunks), NEW c,
           c = PageChunks(page, section),
           NEW a, LiesAt(list, c, page.no, a), NEW pieces, pieces = SplitWithinPage(Body(page))
    PROVE  Says(list, page, section, pieces)
<1> DEFINE m == Len(pieces)
           t == page.tables
           f == page.figures
           no == page.no
<1>1. /\ pieces \in Seq(Seq(Lines)) /\ Packed(pieces)
      /\ c \in Seq(Chunks) /\ Len(c) = m + t + f
      /\ \A i \in 1 .. m : c[i] = [page |-> no, section |-> section, lines |-> pieces[i]]
      /\ \A i \in m + 1 .. m + t : c[i].section = TableSection /\ c[i].lines = <<>>
      /\ \A i \in m + t + 1 .. Len(c) : c[i].section = NoSection /\ c[i].lines = <<>>
  <2>1. pieces \in Seq(Seq(Lines)) /\ Packed(pieces) /\ HasAll(c, pieces, page, section)
    BY PageChunksAre
  <2> QED
    BY <2>1, Zenon DEF HasAll
<1>2. m \in Nat /\ t \in Nat /\ f \in Nat /\ a \in Nat
  <2>1. m \in Nat
    BY <1>1, LenProperties
  <2> QED
    BY <2>1 DEF Pages, LiesAt
<1> HIDE DEF m, t, f, no
<1>3. \A i \in 1 .. m : pieces[i] # <<>>
  BY <1>1 DEF Packed, m
<1>4. /\ a + (m + t + f) <= Len(list) /\ Len(list) \in Nat /\ DOMAIN list = 1 .. Len(list)
      /\ \A i \in 1 .. m + t + f : list[a + i] = c[i]
      /\ \A j \in 1 .. Len(list) : list[j].page = no <=> j \in a + 1 .. a + (m + t + f)
  BY <1>1, LenProperties DEF LiesAt, no
<1>5. ASSUME NEW j \in a + 1 .. a + m
      PROVE  list[j].lines # <<>>
  <2>1. j - a \in 1 .. m /\ j - a \in 1 .. m + t + f /\ a + (j - a) = j
    BY <1>2
  <2>2. list[j] = c[j - a]
    BY <1>4, <2>1
  <2>3. c[j - a] = [page |-> no, section |-> section, lines |-> pieces[j - a]]
    BY <1>1, <2>1, Zenon
  <2>4. list[j].lines = pieces[j - a]
    BY <2>2, <2>3
  <2> QED
    BY <1>3, <2>1, <2>4
<1>6. ASSUME NEW j \in a + m + 1 .. a + (m + t)
      PROVE  list[j].section = TableSection /\ list[j].lines = <<>>
  <2>1. j - a \in m + 1 .. m + t /\ j - a \in 1 .. m + t + f /\ a + (j - a) = j
    BY <1>2
  <2>2. list[j] = c[j - a]
    BY <1>4, <2>1
  <2> QED
    BY <1>1, <2>1, <2>2
<1>7. ASSUME NEW j \in a + (m + t) + 1 .. a + (m + t + f)
      PROVE  list[j].section = NoSection /\ list[j].lines = <<>>
  <2>1. j - a \in m + t + 1 .. Len(c) /\ j - a \in 1 .. m + t + f /\ a + (j - a) = j
    BY <1>1, <1>2
  <2>2. list[j] = c[j - a]
    BY <1>4, <2>1
  <2> QED
    BY <1>1, <2>1, <2>2
<1>8. \A j \in a + 1 .. a + (m + t + f) :
          \/ j \in a + 1 .. a + m \/ j \in a + m + 1 .. a + (m + t)
          \/ j \in a + (m + t) + 1 .. a + (m + t + f)
  BY <1>2
<1>9. \A j : /\ j \in a + 1 .. a + m => j \in 1 .. Len(list) /\ j \in a + 1 .. a + (m + t + f)
             /\ j \in a + m + 1 .. a + (m + t) => j \in 1 .. Len(list) /\ j \in a + 1 .. a + (m + t + f)
  BY <1>2, <1>4
<1>10. ProseAt(list, no) = a + 1 .. a + m
  <2>1. ASSUME NEW j PROVE j \in ProseAt(list, no) <=> j \in a + 1 .. a + m
    <3>1. j \in ProseAt(list, no) <=> j \in 1 .. Len(list) /\ list[j].page = no /\ list[j].lines # <<>>
      BY <1>4, Zenon DEF ProseAt
    <3>2. j \in a + 1 .. a + m => j \in ProseAt(list, no)
      BY <1>4, <1>5, <1>9, <3>1, Zenon
    <3>3. j \in ProseAt(list, no) => j \in a + 1 .. a + m
      BY <1>4, <1>6, <1>7, <1>8, <3>1, Zenon
    <3> QED
      BY <3>2, <3>3
  <2> QED
    BY <2>1, Zenon
<1>11. TablesAt(list, no) = a + m + 1 .. a + (m + t)
  <2>1. ASSUME NEW j PROVE j \in TablesAt(list, no) <=> j \in a + m + 1 .. a + (m + t)
    <3>1. j \in TablesAt(list, no)
             <=> j \in 1 .. Len(list) /\ list[j].page = no /\ list[j].lines = <<>> /\ list[j].section = TableSection
      BY <1>4, Zenon DEF TablesAt
    <3>2. j \in a + m + 1 .. a + (m + t) => j \in TablesAt(list, no)
      BY <1>4, <1>6, <1>9, <3>1, Zenon
    <3>3. TableSection # NoSection
      BY DEF TableSection, NoSection
    <3>4. j \in TablesAt(list, no) => j \in a + m + 1 .. a + (m + t)
      BY <1>4, <1>5, <1>7, <1>8, <3>1, <3>3, Zenon
    <3> QED
      BY <3>2, <3>4
  <2> QED
    BY <2>1, Zenon
<1>12. Taken(list, a + 1 .. a + m) = [k \in 1 .. m |-> list[a + k]]
  <2>1. a \in Nat /\ m \in Nat
    BY <1>2
  <2> QED
    BY <2>1, TakenInterval
<1>13. ASSUME NEW k \in 1 .. m
       PROVE  list[a + k] = [page |-> no, section |-> section, lines |-> pieces[k]]
  <2>1. k \in 1 .. m + t + f
    BY <1>2
  <2>2. list[a + k] = c[k]
    BY <1>4, <2>1
  <2>3. c[k] = [page |-> no, section |-> section, lines |-> pieces[k]]
    BY <1>1, Zenon
  <2> QED
    BY <2>2, <2>3
<1>14. Taken(list, ProseAt(list, no))
           = [k \in 1 .. m |-> [page |-> no, section |-> section, lines |-> pieces[k]]]
  BY <1>10, <1>12, <1>13
<1>15. Cardinality(TablesAt(list, no)) = t
  <2> DEFINE low  == a + m + 1
             high == a + (m + t)
  <2>1. low \in Int /\ high \in Int /\ high - low + 1 = t /\ (low > high => t = 0)
    BY <1>2
  <2> HIDE DEF low, high
  <2>2. Cardinality(low .. high) = IF low > high THEN 0 ELSE high - low + 1
    BY <2>1, FS_Interval
  <2>3. Cardinality(low .. high) = t
    BY <2>1, <2>2
  <2> QED
    BY <1>11, <2>3, Zenon DEF low, high
<1> QED
  BY <1>14, <1>15 DEF m, t, no, Says

(* What PaperWhole says of page p. *)
PageWhole(paper, list, p) ==
    LET prose == Taken(list, ProseAt(list, p)) IN
    /\ FlattenSeq([i \in DOMAIN prose |-> prose[i].lines]) = Body(paper[p])
    /\ \A i \in DOMAIN prose :
          /\ prose[i].section \in LabelsAt(paper, p)
          /\ Joined(prose[i].lines) > CHUNK_MAX_CHARS => Len(prose[i].lines) = 1
          /\ i < Len(prose) => Joined(prose[i].lines) + 1 + prose[i + 1].lines[1].len > CHUNK_MAX_CHARS
    /\ Cardinality(TablesAt(list, p)) = paper[p].tables

LEMMA PaperMeans == (IsCut("paper") => \A p \in DOMAIN given : PageWhole(given, cut, p)) <=> PaperWhole
  BY DEF PaperWhole, PageWhole, Filtered, ProseAt, TablesAt, LabelsAt, LabelAt, Headed

LEMMA PageCutWhole ==
    ASSUME NEW paper \in Seq(Pages), \A q \in DOMAIN paper : paper[q].no = q, NEW p \in DOMAIN paper
    PROVE  PageWhole(paper, FoldLeft(ParsePage, NotParsed, paper).chunks, p)
<1> DEFINE s == FoldLeft(ParsePage, NotParsed, paper)
           list == s.chunks
           page == paper[p]
           label == LabelAt(paper, p)
           pieces == SplitWithinPage(Body(page))
           prose == Taken(list, ProseAt(list, p))
           m == Len(pieces)
<1>1. /\ s \in ParseStates /\ ParsedUpTo(s, paper, Len(paper))
      /\ \A q \in 1 .. Len(paper) : LabelAt(paper, q) \in Int
  BY Parses
<1>2. p \in 1 .. Len(paper) /\ page \in Pages /\ page.no = p
  BY LenProperties, ElementOfSeq
<1>3. list \in Seq(Chunks) /\ label \in Int
  BY <1>1, <1>2 DEF ParseStates
<1>4. PICK a : LiesAt(list, PageChunks(page, label), p, a)
  BY <1>1, <1>2, Zenon DEF ParsedUpTo, ChunksOf
<1>5. pieces \in Seq(Seq(Lines)) /\ Packed(pieces) /\ FlattenSeq(pieces) = Body(page)
  BY <1>2, <1>3, PageChunksAre
<1> HIDE DEF list, label, page, s
<1>6. /\ prose = [k \in 1 .. m |-> [page |-> p, section |-> label, lines |-> pieces[k]]]
      /\ Cardinality(TablesAt(list, p)) = page.tables
  <2> DEFINE c == PageChunks(page, label)
  <2>1. pieces = SplitWithinPage(Body(page)) /\ c = PageChunks(page, label) /\ LiesAt(list, c, page.no, a)
    BY <1>2, <1>4
  <2> HIDE DEF c, pieces
  <2>2. Says(list, page, label, pieces)
    BY <1>2, <1>3, <2>1, PageLies, Zenon
  <2> QED
    BY <1>2, <2>2 DEF Says
<1> HIDE DEF prose, pieces
<1>7. m \in Nat /\ DOMAIN pieces = 1 .. m /\ pieces = [k \in 1 .. m |-> pieces[k]]
  BY <1>5, LenProperties
<1>8. /\ DOMAIN prose = 1 .. m /\ Len(prose) = m
      /\ \A k \in 1 .. m : prose[k].lines = pieces[k] /\ prose[k].section = label
  <2>1. prose \in [1 .. m -> {[page |-> p, section |-> label, lines |-> pieces[k]] : k \in 1 .. m}]
    BY <1>6
  <2> QED
    BY <1>6, <1>7, <2>1
<1>9. [i \in DOMAIN prose |-> prose[i].lines] = pieces
  BY <1>7, <1>8
<1>10. ASSUME NEW i \in 1 .. m
       PROVE  /\ Joined(pieces[i]) > CHUNK_MAX_CHARS => Len(pieces[i]) = 1
              /\ i < m => Joined(pieces[i]) + 1 + pieces[i + 1][1].len > CHUNK_MAX_CHARS
  <2>1. i < m => i \in 1 .. Len(pieces) - 1
    BY <1>7
  <2> QED
    BY <1>5, <2>1 DEF Packed
<1>11. ASSUME NEW i \in DOMAIN prose
       PROVE  /\ prose[i].section = label
              /\ Joined(prose[i].lines) > CHUNK_MAX_CHARS => Len(prose[i].lines) = 1
              /\ i < Len(prose) => Joined(prose[i].lines) + 1 + prose[i + 1].lines[1].len > CHUNK_MAX_CHARS
  <2>1. i \in 1 .. m /\ prose[i].lines = pieces[i]
    BY <1>8
  <2>2. i < m => prose[i + 1].lines = pieces[i + 1]
    <3>1. i < m => i + 1 \in 1 .. m
      BY <1>7, <2>1
    <3> QED
      BY <1>8, <3>1
  <2> QED
    BY <1>8, <1>10, <2>1, <2>2
<1> QED
  <2>1. FlattenSeq([i \in DOMAIN prose |-> prose[i].lines]) = Body(page)
    BY <1>5, <1>9
  <2>2. PageWhole(paper, list, p)
    <3>1. label \in LabelsAt(paper, p)
      BY <1>2, LabelOfPage, LenProperties DEF label, page
    <3>2. \A i \in DOMAIN prose : prose[i].section \in LabelsAt(paper, p)
      BY <1>11, <3>1
    <3> QED
      BY <1>6, <1>11, <2>1, <3>2, Zenon DEF PageWhole, prose, page
  <2> QED
    BY <2>2 DEF list, s

LEMMA PaperCutWhole ==
    ASSUME given \in Papers, ParsePaper, given' = given, task' = task
    PROVE  PaperWhole'
<1>1. given \in Seq(Pages) /\ \A q \in DOMAIN given : given[q].no = q
  BY MediaShapes
<1>2. cut' = FoldLeft(ParsePage, NotParsed, given).chunks
  BY DEF ParsePaper, NotParsed
<1>3. \A p \in DOMAIN given : PageWhole(given, FoldLeft(ParsePage, NotParsed, given).chunks, p)
  BY <1>1, PageCutWhole
<1>4. \A p \in DOMAIN given : PageWhole(given, cut', p)
  BY <1>2, <1>3
<1>5. (IsCut("paper") => \A p \in DOMAIN given : PageWhole(given, cut, p))'
  <2>1. given' = given
    OBVIOUS
  <2> QED
    BY <1>4, <2>1
<1>6. (IsCut("paper") => \A p \in DOMAIN given : PageWhole(given, cut, p))' => PaperWhole'
  BY PaperMeans, PTL
<1> QED
  BY <1>5, <1>6

-----------------------------------------------------------------------------
(* A source is cut once, and is what it was.                               *)
Supplied ==
    \/ task = "cues"  /\ given \in Transcripts
    \/ task = "dedup" /\ given \in Reels
    \/ task = "thin"  /\ given \in FrameCounts
    \/ task = "paper" /\ given \in Papers

MediaInv == Supplied /\ CuesWhole /\ DedupFaithful /\ ThinSpread /\ PaperWhole

LEMMA MediaStart == MediaInit => MediaInv
  BY DEF MediaInit, MediaInv, Supplied, CuesWhole, DedupFaithful, ThinSpread, PaperWhole, IsCut

LEMMA TranscriptWhole ==
    ASSUME given \in Transcripts, CutTranscript, given' = given, task' = task
    PROVE  CuesWhole'
<1> DEFINE r == cut'
<1>0. r = ChunkCues(given)
  BY DEF CutTranscript
<1>1. given \in Seq(Cues)
  BY MediaShapes DEF Cues
<1>2. /\ r \in Seq(Seq(Cues)) /\ FlattenSeq(r) = given
      /\ \A c \in 1 .. Len(r) :
            /\ \A n \in 1 .. Len(r[c]) - 1 : ~Spans(r[c], n)
            /\ c < Len(r) => Spans(r[c], Len(r[c]))
  BY <1>1, <1>0, CuesCut
<1>3. DOMAIN r = 1 .. Len(r)
  BY <1>2, LenProperties
<1> QED
  BY <1>2, <1>3 DEF CuesWhole, Spans

LEMMA ReelFaithful ==
    ASSUME given \in Reels, DropRepeats, given' = given, task' = task
    PROVE  DedupFaithful'
<1> DEFINE r == cut'
<1>0. r = Dedup(given)
  BY DEF DropRepeats
<1>1. given \in Seq(Pictures)
  BY MediaShapes DEF Pictures
<1>2. r \in Seq(1 .. Len(given)) /\ Stands(r, given, Len(given))
  BY <1>1, <1>0, FramesKept
<1>3. Len(given) \in Nat /\ Len(r) \in Nat /\ DOMAIN r = 1 .. Len(r)
  BY <1>1, <1>2, LenProperties
<1>4. r # <<>> => Len(given) > 0
  <2> SUFFICES ASSUME r # <<>>, Len(given) = 0 PROVE FALSE
    BY <1>3
  <2>1. 1 \in 1 .. Len(r)
    BY <1>2, <1>3, EmptySeq
  <2>2. r[1] \in 1 .. 0
    BY <1>2, <2>1 DEF Stands
  <2> QED
    BY <2>2
<1>5. \A i \in 1 .. Len(r) : NextKept(r, Len(given), i) = IF i = Len(r) THEN Len(given) + 1 ELSE r[i + 1]
  BY DEF NextKept
<1> QED
  BY <1>2, <1>3, <1>4, <1>5 DEF Stands, DedupFaithful, IsCut, NotCut

LEMMA ReelSpread ==
    ASSUME given \in FrameCounts, ThinFrames, given' = given, task' = task
    PROVE  ThinSpread'
<1>1. given \in Nat /\ MAX_FRAMES \in Nat \ {0}
  BY MediaShapes
<1>2. CASE given <= MAX_FRAMES
  <2>1. cut' = [i \in 1 .. given |-> i - 1]
    BY <1>2 DEF ThinFrames
  <2>2. cut' \in [1 .. given -> Nat]
    BY <1>1, <2>1
  <2>3. cut' \in Seq(Nat) /\ Len(cut') = given
    BY <1>1, <2>2
  <2>4. cut' # <<>> => given > 0
    <3>1. ASSUME given = 0 PROVE cut' = <<>>
      BY <2>3, <3>1, EmptySeq
    <3> QED
      BY <1>1, <3>1
  <2>5. given \div MAX_FRAMES \in Nat
    BY <1>1, Division
  <2>6. given > 0 => cut'[1] = 0 /\ cut'[given] = given - 1
    BY <1>1, <2>1
  <2>7. \A i \in 1 .. given - 1 : cut'[i] = i - 1 /\ cut'[i + 1] = i
    BY <1>1, <2>1
  <2>8. given = IF given < MAX_FRAMES THEN given ELSE MAX_FRAMES
    BY <1>1, <1>2
  <2> QED
    BY <1>1, <2>3, <2>4, <2>5, <2>6, <2>7, <2>8 DEF ThinSpread, IsCut, NotCut
<1>3. CASE given > MAX_FRAMES
  <2>1. PICK low \in SUBSET {i \in 1 .. MAX_FRAMES - 1 : Below(i, given)} :
            cut' = [i \in 1 .. MAX_FRAMES |-> Pick(i - 1, given, (i - 1) \in low)]
    BY <1>1, <1>3 DEF ThinFrames
  <2> DEFINE r == cut'
  <2>2. /\ r \in Seq(Nat) /\ Len(r) = MAX_FRAMES
        /\ r[1] = 0 /\ r[MAX_FRAMES] < given /\ given - r[MAX_FRAMES] <= given \div MAX_FRAMES + 2
        /\ \A i \in 1 .. MAX_FRAMES - 1 :
              r[i] < r[i + 1] /\ r[i + 1] - r[i] <= given \div MAX_FRAMES + 2
    BY <1>1, <1>3, <2>1, ReelThinned
  <2>3. MAX_FRAMES = IF given < MAX_FRAMES THEN given ELSE MAX_FRAMES
    BY <1>1, <1>3
  <2> QED
    BY <2>2, <2>3 DEF ThinSpread
<1> QED
  BY <1>1, <1>2, <1>3

LEMMA PaperStays == PaperWhole /\ task' = task /\ given' = given /\ cut' = cut => PaperWhole'
<1> DEFINE Whole == IsCut("paper") => \A p \in DOMAIN given : PageWhole(given, cut, p)
<1>1. Whole <=> PaperWhole
  BY PaperMeans
<1>2. Whole /\ task' = task /\ given' = given /\ cut' = cut => Whole'
  BY DEF IsCut, NotCut
<1> HIDE DEF Whole
<1> QED
  BY <1>1, <1>2, PTL

LEMMA MediaStep == MediaInv /\ [MediaNext]_mediaVars => MediaInv'
<1>0. ASSUME MediaInv, UNCHANGED mediaVars PROVE MediaInv'
  <2>1. (Supplied /\ CuesWhole /\ DedupFaithful /\ ThinSpread)'
    BY <1>0 DEF mediaVars, MediaInv, Supplied, CuesWhole, DedupFaithful, ThinSpread, IsCut
  <2>2. PaperWhole'
    BY <1>0, PaperStays DEF mediaVars, MediaInv
  <2> QED
    BY <2>1, <2>2 DEF MediaInv
<1> SUFFICES ASSUME MediaInv, MediaNext PROVE MediaInv'
  BY <1>0
<1>1. Supplied /\ task' = task /\ given' = given
  BY DEF MediaInv, MediaNext
<1>2. Supplied'
  BY <1>1 DEF Supplied
<1>3. CASE CutTranscript
  <2>1. CuesWhole'
    BY <1>1, <1>3, TranscriptWhole DEF Supplied, CutTranscript
  <2> QED
    BY <1>1, <1>2, <1>3, <2>1 DEF MediaInv, DedupFaithful, ThinSpread, PaperWhole, IsCut, CutTranscript
<1>4. CASE DropRepeats
  <2>1. DedupFaithful'
    BY <1>1, <1>4, ReelFaithful DEF Supplied, DropRepeats
  <2> QED
    BY <1>1, <1>2, <1>4, <2>1 DEF MediaInv, CuesWhole, ThinSpread, PaperWhole, IsCut, DropRepeats
<1>5. CASE ThinFrames
  <2>1. ThinSpread'
    BY <1>1, <1>5, ReelSpread DEF Supplied, ThinFrames
  <2> QED
    BY <1>1, <1>2, <1>5, <2>1 DEF MediaInv, CuesWhole, DedupFaithful, PaperWhole, IsCut, ThinFrames
<1>6. CASE ParsePaper
  <2>1. PaperWhole'
    BY <1>1, <1>6, PaperCutWhole DEF Supplied, ParsePaper
  <2> QED
    BY <1>1, <1>2, <1>6, <2>1 DEF MediaInv, CuesWhole, DedupFaithful, ThinSpread, IsCut, ParsePaper
<1> QED
  BY <1>3, <1>4, <1>5, <1>6 DEF MediaNext

LEMMA MediaInvariance == MediaSpec => []MediaInv
  BY MediaStart, MediaStep, PTL DEF MediaSpec

(* chunk_cues, for any transcript and any length of a passage: no cue is     *)
(* lost, doubled or moved, and no passage is longer than it must be.         *)
THEOREM NoCueLost == MediaSpec => []CuesWhole
<1>1. MediaInv => CuesWhole
  BY DEF MediaInv
<1> QED
  BY <1>1, MediaInvariance, PTL

(* dedup, for any reel and any thresholds: what is dropped looks like what    *)
(* was kept before it, so a slow drift of the picture is not dropped whole.  *)
THEOREM DriftIsKept == MediaSpec => []DedupFaithful
<1>1. MediaInv => DedupFaithful
  BY DEF MediaInv
<1> QED
  BY <1>1, MediaInvariance, PTL

(* _sample_scene, for any number of frames and any MAX_FRAMES, wherever the   *)
(* rounding of the step falls: frames are not repeated, and none past the     *)
(* end is asked for.                                                         *)
THEOREM ReelsSpread == MediaSpec => []ThinSpread
<1>1. MediaInv => ThinSpread
  BY DEF MediaInv
<1> QED
  BY <1>1, MediaInvariance, PTL

(* parse_pdf, for any paper and any bound on a chunk: the chunks of prose of  *)
(* a page are the lines of its body in order, each under a heading of its page *)
(* or the one in force when the page began, and the tables of a page are all   *)
(* there; _split_within_page makes none longer than it may be, and no more of  *)
(* them than it must.                                                         *)
THEOREM PapersWhole == MediaSpec => []PaperWhole
<1>1. MediaInv => PaperWhole
  BY DEF MediaInv
<1> QED
  BY <1>1, MediaInvariance, PTL

=============================================================================
