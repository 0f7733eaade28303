----------------------------- MODULE EmbedCache -----------------------------
(***************************************************************************)
(* Query embeddings (rag/embeddings.py: embed_text, embed_query): a vector  *)
(* is looked up in Redis under the model's name and the text, or computed   *)
(* by the embedding service and stored there for a week.  Deployments       *)
(* change the model, one process after the other, while the cache stays.    *)
(*                                                                         *)
(* One text stands for all: the key holds a hash of it.  A vector is the    *)
(* model it comes from; the three kinds of vectors differ in their keys     *)
(* only.                                                                    *)
(***************************************************************************)
EXTENDS Naturals

CONSTANTS
    Askers,       \* threads of API processes
    EmbedModels,
    NoVector,
    POST_TRIES,   \* attempts at a service that cannot be reached
    EmbedBudget   \* bounds: API processes redeployed, service restarts, failing Redis calls, expiries

ASSUME EmbedShapes ==
    /\ NoVector \notin EmbedModels /\ POST_TRIES \in Nat \ {0}
    /\ EmbedBudget \in [{"deploy", "restart", "redis", "expire"} -> Nat]

VARIABLES
    vectors,   \* Redis: key -> the vector stored there
    version,   \* EMBED_VERSION of the process each thread runs in
    service,   \* the model that the embedding service has loaded; NoVector while it starts
    asker,     \* each thread's call: step, attempts made, vector
    embedLeft, \* what remains of each bound
    mixed      \* history: models for which the service has computed with another one, and
               \* what it gave may still be in the cache or in a call

embedVars == <<vectors, version, service, asker, embedLeft, mixed>>

(* Mutant: the name of the model is not part of the key. *)
CacheKey_TextOnly(model) == CHOOSE m \in EmbedModels : TRUE

(* _cache_key. *)
CacheKey(model) == model

Unasked == [pc |-> "idle", tries |-> 0, vec |-> NoVector]

SpendEmbed(b) == embedLeft[b] > 0 /\ embedLeft' = [embedLeft EXCEPT ![b] = @ - 1]

EmbedInit ==
    /\ vectors = [k \in EmbedModels |-> NoVector]
    /\ \E m \in EmbedModels : version = [t \in Askers |-> m] /\ service = m
    /\ asker = [t \in Askers |-> Unasked]
    /\ embedLeft = EmbedBudget
    /\ mixed = {}

EmbedText(t) ==
    /\ asker[t].pc = "idle"
    /\ asker' = [asker EXCEPT ![t].pc = "get"]
    /\ UNCHANGED <<vectors, version, service, embedLeft, mixed>>

Served(t, vec) == asker' = [asker EXCEPT ![t] = [pc |-> "served", tries |-> @.tries, vec |-> vec]]

(* A cache that fails is a cache that has nothing. *)
LookUp(t) ==
    LET vec == vectors[CacheKey(version[t])] IN
    /\ asker[t].pc = "get"
    /\ \/ vec # NoVector /\ Served(t, vec) /\ UNCHANGED embedLeft
       \/ vec = NoVector /\ asker' = [asker EXCEPT ![t].pc = "post"] /\ UNCHANGED embedLeft
       \/ vec # NoVector /\ asker' = [asker EXCEPT ![t].pc = "post"] /\ SpendEmbed("redis")
    /\ UNCHANGED <<vectors, version, service, mixed>>

Post(t) ==
    /\ asker[t].pc = "post" /\ service # NoVector
    /\ asker' = [asker EXCEPT ![t].pc = "set", ![t].vec = service]
    /\ mixed' = IF service = version[t] THEN mixed ELSE mixed \cup {version[t]}
    /\ UNCHANGED <<vectors, version, service, embedLeft>>

(* It waits for a service that starts, and gives up after the last attempt. *)
PostFails(t) ==
    /\ asker[t].pc = "post" /\ service = NoVector
    /\ asker' = [asker EXCEPT ![t] = [pc    |-> IF @.tries + 1 < POST_TRIES THEN "post" ELSE "failed",
                                      tries |-> @.tries + 1, vec |-> @.vec]]
    /\ UNCHANGED <<vectors, version, service, embedLeft, mixed>>

StoreVector(t) ==
    /\ asker[t].pc = "set"
    /\ \/ vectors' = [vectors EXCEPT ![CacheKey(version[t])] = asker[t].vec] /\ UNCHANGED embedLeft
       \/ UNCHANGED vectors /\ SpendEmbed("redis")
    /\ Served(t, asker[t].vec)
    /\ UNCHANGED <<version, service, mixed>>

AskerRests(t) ==
    /\ asker[t].pc \in {"served", "failed"}
    /\ asker' = [asker EXCEPT ![t] = Unasked]
    /\ UNCHANGED <<vectors, version, service, embedLeft, mixed>>

-----------------------------------------------------------------------------
(* A process is replaced by one with another model; its calls are gone. *)
Redeploy(t, m) ==
    /\ m # version[t] /\ SpendEmbed("deploy")
    /\ version' = [version EXCEPT ![t] = m]
    /\ asker' = [asker EXCEPT ![t] = Unasked]
    /\ UNCHANGED <<vectors, service, mixed>>

(* The service is killed (it has run out of memory before) or replaced. *)
ServiceGoes ==
    /\ service # NoVector /\ SpendEmbed("restart")
    /\ service' = NoVector
    /\ UNCHANGED <<vectors, version, asker, mixed>>

ServiceComes(m) ==
    /\ service = NoVector
    /\ service' = m
    /\ UNCHANGED <<vectors, version, asker, embedLeft, mixed>>

(* EMBED_CACHE_TTL_S has passed: the mix-up is over, unless a call has its vector. *)
VectorExpires(k) ==
    /\ vectors[k] # NoVector /\ SpendEmbed("expire")
    /\ vectors' = [vectors EXCEPT ![k] = NoVector]
    /\ mixed' = IF \E t \in Askers : version[t] = k /\ asker[t].vec \notin {NoVector, k}
                THEN mixed ELSE mixed \ {k}
    /\ UNCHANGED <<version, service, asker>>

EmbedNext ==
    \/ \E t \in Askers : \/ EmbedText(t) \/ LookUp(t) \/ Post(t) \/ PostFails(t)
                         \/ StoreVector(t) \/ AskerRests(t)
                         \/ \E m \in EmbedModels : Redeploy(t, m)
    \/ ServiceGoes
    \/ \E m \in EmbedModels : ServiceComes(m) \/ VectorExpires(m)

EmbedSpec == EmbedInit /\ [][EmbedNext]_embedVars

-----------------------------------------------------------------------------
(* Properties.                                                             *)

(* "a model/version change can't serve a vector from the wrong space"         *)
(* (embeddings.py:41-43), whichever API processes are replaced while others    *)
(* still fill the cache.  The one order that does serve such a vector is        *)
(* excused: a process is given a new model before the service has it.  What the *)
(* service then computed is stored under the new model's name and served to    *)
(* everybody, until the week of that entry is over and no call holds it.        *)
RightSpace ==
    \A t \in Askers : asker[t].pc = "served" => asker[t].vec = version[t] \/ version[t] \in mixed

=============================================================================
