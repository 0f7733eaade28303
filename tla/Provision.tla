----------------------------- MODULE Provision -----------------------------
(***************************************************************************)
(* Who creates the two Qdrant collections (vector_store._ensure): the API   *)
(* at start-up, every worker at boot and every flow run before it writes,   *)
(* each in a process of its own, with nothing that keeps two of them apart. *)
(* A collection and its payload indexes are separate calls, and a process   *)
(* remembers what it has once seen.                                         *)
(*                                                                         *)
(* Left out: vector sizes, quantization and the sparse configuration, which *)
(* are those of the one configuration every process reads.                  *)
(***************************************************************************)
EXTENDS Naturals, Sequences

CONSTANTS
    Procs,
    Role,         \* of each process: "api", "worker" or "flow" (a document flow run)
    ProvBudget    \* bounds: calls that fail, processes killed, collections dropped from outside

ASSUME ProvShapes ==
    /\ Role \in [Procs -> {"api", "worker", "flow"}]
    /\ ProvBudget \in [{"fault", "kill", "drop"} -> Nat]

VARIABLES
    collections, \* those that exist
    indexes,     \* payload indexes: <<collection, field>>
    ensured,     \* _ensured of each process
    at,          \* where each process is: its step and the collections it has still to ensure
    provLeft,    \* what remains of each bound
    excused,     \* history: indexes refused by the server, or left out by a creator that died
                 \* or never learnt that it had created the collection
    dropped      \* history: collections dropped since each process last saw them

provVars == <<collections, indexes, ensured, at, provLeft, excused, dropped>>

Collections == {"frames", "text"}

(* app.lifespan and worker.main want both, t_embed_index only its own. *)
Wanted(p) == IF Role[p] = "flow" THEN <<"text">> ELSE <<"frames", "text">>

Stopped == [pc |-> "off", todo |-> <<>>]

At(p, pc)    == [at EXCEPT ![p].pc = pc]
Collection(p) == Head(at[p].todo)

(* The next collection, or whatever the process was started for. *)
AfterCollection(p) ==
    LET rest == Tail(at[p].todo) IN
    [at EXCEPT ![p] = [pc |-> IF rest = <<>> THEN "ready" ELSE "look", todo |-> rest]]

SpendProv(b) == provLeft[b] > 0 /\ provLeft' = [provLeft EXCEPT ![b] = @ - 1]

ProvInit ==
    /\ collections = {} /\ indexes = {}
    /\ ensured = [p \in Procs |-> {}]
    /\ at = [p \in Procs |-> Stopped]
    /\ provLeft = ProvBudget
    /\ excused = {}
    /\ dropped = [p \in Procs |-> {}]

StartProcess(p) ==
    /\ at[p].pc = "off"
    /\ at' = [at EXCEPT ![p] = [pc |-> "look", todo |-> Wanted(p)]]
    /\ dropped' = [dropped EXCEPT ![p] = {}]
    /\ UNCHANGED <<collections, indexes, ensured, provLeft, excused>>

-----------------------------------------------------------------------------
Remember(p, c) == ensured' = [ensured EXCEPT ![p] = @ \cup {c}]
Sees(p, c)     == dropped' = [dropped EXCEPT ![p] = @ \ {c}]

(* Mutant: the collection is remembered before it is known to exist. *)
Look_RemembersFirst(p) ==
    LET c == Collection(p) IN
    /\ at[p].pc = "look"
    /\ \/ c \in ensured[p] /\ at' = AfterCollection(p) /\ UNCHANGED <<ensured, dropped>>
       \/ /\ c \notin ensured[p] /\ c \in collections
          /\ Remember(p, c) /\ Sees(p, c)
          /\ at' = IF c = "text" THEN At(p, "source_id") ELSE AfterCollection(p)
       \/ c \notin ensured[p] /\ c \notin collections /\ Remember(p, c) /\ at' = At(p, "create") /\ UNCHANGED dropped
    /\ UNCHANGED <<collections, indexes, provLeft, excused>>

(* Mutant: the index on source_id, too, is left to whoever creates the collection. *)
Look_TrustsSource(p) ==
    LET c == Collection(p) IN
    /\ at[p].pc = "look"
    /\ \/ c \in ensured[p] /\ at' = AfterCollection(p) /\ UNCHANGED <<ensured, dropped>>
       \/ /\ c \notin ensured[p] /\ c \in collections
          /\ Remember(p, c) /\ Sees(p, c)
          /\ at' = AfterCollection(p)
       \/ c \notin ensured[p] /\ c \notin collections /\ at' = At(p, "create") /\ UNCHANGED <<ensured, dropped>>
    /\ UNCHANGED <<collections, indexes, provLeft, excused>>

(* The memo, then collection_exists: one that exists is taken to be complete, *)
(* but for the index on source_id.                                            *)
Look(p) ==
    LET c == Collection(p) IN
    /\ at[p].pc = "look"
    /\ \/ c \in ensured[p] /\ at' = AfterCollection(p) /\ UNCHANGED <<ensured, dropped>>
       \/ /\ c \notin ensured[p] /\ c \in collections
          /\ Remember(p, c) /\ Sees(p, c)
          /\ at' = IF c = "text" THEN At(p, "source_id") ELSE AfterCollection(p)
       \/ c \notin ensured[p] /\ c \notin collections /\ at' = At(p, "create") /\ UNCHANGED <<ensured, dropped>>
    /\ UNCHANGED <<collections, indexes, provLeft, excused>>

Create(p) ==
    LET c == Collection(p) IN
    /\ at[p].pc = "create" /\ c \notin collections
    /\ collections' = collections \cup {c}
    /\ at' = At(p, "user_id")
    /\ Sees(p, c)
    /\ UNCHANGED <<indexes, ensured, provLeft, excused>>

(* An exception: the API serves without, a worker dies, a task is retried or gives up. *)
Gives(p) ==
    \/ /\ Role[p] = "api" /\ at' = [at EXCEPT ![p] = [pc |-> "ready", todo |-> <<>>]]
       /\ UNCHANGED ensured
    \/ /\ Role[p] # "api" /\ at' = [at EXCEPT ![p] = Stopped]
       /\ ensured' = [ensured EXCEPT ![p] = {}]
    \/ /\ Role[p] = "flow" /\ at' = [at EXCEPT ![p] = [pc |-> "look", todo |-> Wanted(p)]]
       /\ UNCHANGED ensured

(* Somebody else created it since this process looked. *)
CreateConflicts(p) ==
    /\ at[p].pc = "create" /\ Collection(p) \in collections
    /\ Gives(p)
    /\ UNCHANGED <<collections, indexes, provLeft, excused, dropped>>

Unindexed(c, fields) == {<<c, f>> : f \in fields} \ indexes

(* collection_exists or create_collection raises; the collection may exist nevertheless. *)
EnsureRaises(p) ==
    LET c == Collection(p) IN
    /\ at[p].pc \in {"look", "create"} /\ c \notin ensured[p]
    /\ SpendProv("fault")
    /\ Gives(p)
    /\ \/ UNCHANGED <<collections, excused>>
       \/ /\ at[p].pc = "create" /\ c \notin collections
          /\ collections' = collections \cup {c}
          /\ excused' = excused \cup Unindexed(c, {"user_id", "video_id"})
    /\ UNCHANGED <<indexes, dropped>>

(* What follows an attempt at an index: the other one, then the memo. *)
AfterIndex(p) ==
    LET c == Collection(p) IN
    \/ at[p].pc = "user_id" /\ at' = At(p, "video_id") /\ UNCHANGED ensured
    \/ /\ at[p].pc = "video_id" /\ Remember(p, c)
       /\ at' = IF c = "text" THEN At(p, "source_id") ELSE AfterCollection(p)
    \/ at[p].pc = "source_id" /\ at' = AfterCollection(p) /\ UNCHANGED ensured

(* create_payload_index: an index that is there already stays. *)
CreateIndex(p) ==
    LET c == Collection(p) IN
    /\ at[p].pc \in {"user_id", "video_id", "source_id"} /\ c \in collections
    /\ indexes' = indexes \cup {<<c, at[p].pc>>}
    /\ AfterIndex(p)
    /\ UNCHANGED <<collections, provLeft, excused, dropped>>

(* Mutant: one except clause around both indexes. *)
IndexRefused_SkipsTheOther(p) ==
    LET c == Collection(p) IN
    /\ at[p].pc \in {"user_id", "video_id", "source_id"}
    /\ IF c \in collections THEN SpendProv("fault") ELSE UNCHANGED provLeft
    /\ excused' = excused \cup Unindexed(c, {at[p].pc})
    /\ \/ /\ at[p].pc \in {"user_id", "video_id"} /\ Remember(p, c)
          /\ at' = IF c = "text" THEN At(p, "source_id") ELSE AfterCollection(p)
       \/ at[p].pc = "source_id" /\ at' = AfterCollection(p) /\ UNCHANGED ensured
    /\ UNCHANGED <<collections, indexes, dropped>>

(* It fails, or the collection is gone again: every except clause passes over it. *)
IndexRefused(p) ==
    LET c == Collection(p) IN
    /\ at[p].pc \in {"user_id", "video_id", "source_id"}
    /\ IF c \in collections THEN SpendProv("fault") ELSE UNCHANGED provLeft
    /\ excused' = excused \cup Unindexed(c, {at[p].pc})
    /\ AfterIndex(p)
    /\ UNCHANGED <<collections, indexes, dropped>>

-----------------------------------------------------------------------------
(* A flow run writes; a collection that went away since it was ensured makes *)
(* the upsert raise, and the task is retried in the same process or gives up. *)
WriteChunks(p) ==
    /\ Role[p] = "flow" /\ at[p].pc = "ready"
    /\ IF "text" \in collections
       THEN at' = [at EXCEPT ![p] = Stopped] /\ ensured' = [ensured EXCEPT ![p] = {}]
       ELSE Gives(p)
    /\ UNCHANGED <<collections, indexes, provLeft, excused, dropped>>

(* A creator that dies leaves its collection with the indexes it has made. *)
ProcessKilled(p) ==
    /\ at[p].pc # "off"
    /\ SpendProv("kill")
    /\ at' = [at EXCEPT ![p] = Stopped]
    /\ ensured' = [ensured EXCEPT ![p] = {}]
    /\ excused' = excused \cup
          CASE at[p].pc = "user_id"  -> Unindexed(Collection(p), {"user_id", "video_id"})
            [] at[p].pc = "video_id" -> Unindexed(Collection(p), {"video_id"})
            [] OTHER -> {}
    /\ UNCHANGED <<collections, indexes, dropped>>

(* An operator drops a collection to have it made anew, as for a new sparse configuration. *)
CollectionDropped(c) ==
    /\ c \in collections /\ SpendProv("drop")
    /\ collections' = collections \ {c}
    /\ indexes' = {i \in indexes : i[1] # c}
    /\ excused' = {i \in excused : i[1] # c}
    /\ dropped' = [p \in Procs |-> dropped[p] \cup {c}]
    /\ UNCHANGED <<ensured, at>>

ProvNext ==
    \/ \E p \in Procs :
          \/ StartProcess(p) \/ Look(p) \/ Create(p) \/ CreateConflicts(p) \/ EnsureRaises(p)
          \/ CreateIndex(p) \/ IndexRefused(p) \/ WriteChunks(p) \/ ProcessKilled(p)
    \/ \E c \in Collections : CollectionDropped(c)

ProvSpec == ProvInit /\ [][ProvNext]_provVars

-----------------------------------------------------------------------------
(* Properties.                                                             *)

(* What a process remembers was there: unless it was dropped afterwards, the  *)
(* collection exists, although others create and fail at it meanwhile         *)
(* (_ensured).                                                                *)
MemoHonest == \A p \in Procs : ensured[p] \subseteq collections \cup dropped[p]

(* "an existing collection already has" its payload indexes (_ensure), whoever *)
(* won the race to create it, once nobody is at it any more.  Three things take *)
(* that away, each for as long as the collection lives, as nobody creates these *)
(* two indexes later: the server refused one, the creator was killed between    *)
(* the calls, or create_collection was applied and raised all the same, which   *)
(* leaves the collection without either although nothing refused them and the   *)
(* process goes on.                                                            *)
AtWork(c, f) ==
    \E p \in Procs : /\ at[p].pc \in {"user_id", f}
                     /\ Collection(p) = c

IndexedTogether ==
    \A c \in collections, f \in {"user_id", "video_id"} :
        <<c, f>> \in indexes \cup excused \/ AtWork(c, f)

(* The index on source_id heals: a process that has ensured the text          *)
(* collection has seen to it, also when its creator died half way             *)
(* (ensure_text_collection).                                                  *)
SourceHeals ==
    \A p \in Procs : at[p].pc = "ready" /\ "text" \in ensured[p] \ dropped[p]
                        => <<"text", "source_id">> \in indexes \cup excused

=============================================================================
