# Verification of ScholarMomentSearch

ScholarMomentSearch ingests papers, slide decks and lecture videos into one
search index per tenant and answers questions with citations into them. This
directory holds TLA+ models of it, TLC configurations that check them on small
instances, and proofs that TLAPS checks for every value of the constants.
Paths below are relative to the repository root.

## 1. The system

### Processes

* The **API process** (`src/app.py`, `src/api/`) accepts requests. A document is
  accepted with one insert; a background task of the same process hands it to
  Prefect afterwards. A video is accepted with one insert and nothing else.
  Questions are answered here, by pool threads.
* **Worker processes** (`src/worker.py`) each serve two Prefect deployments,
  executing at most `WORKER_CONCURRENCY` flow runs in subprocesses, and run three
  threads: the fair **dispatcher** (`src/dispatcher.py`, videos), the
  **reconciler** (`src/reconciler.py`, documents) and the heartbeat
  (`src/liveness.py`).
* The **seed container** (`src/seed.py`) runs once before the others start and
  indexes a sample corpus; the **embedding service** (`src/clip_service.py`) may
  hold the models for all of them.
* **Shared state**: Postgres (`ms_videos`, `ms_documents`, the entity graph),
  Qdrant (a visual collection, and a text collection that holds video
  transcripts and document chunks together), object storage, Redis (heartbeat,
  caches, counters) and Prefect (flow runs). No lock or transaction spans two of
  these, so every one of the steps below can be the last one a process takes.

### Components

| Component | State | Operations | What is hard | What makes it correct | Module |
|---|---|---|---|---|---|
| Document flow, `src/ingest/doc_pipeline.py` | row status, durable copy, chunks, mentions | `t_fetch`, `t_parse`, `t_caption`, `t_embed_index` with Prefect retries | crash between purge, upsert and status flip; two runs of one document; a DELETE under a run | an `indexed` row has its chunks unless a DELETE or a video's purge took them; stages in order; a recorded copy is there | `DocIngest` |
| Reconciler, `src/reconciler.py` | cooldown map, rows read at the start of a sweep | `reconcile_once` | acts on rows that may have moved on; must not miss a dead run | no document stays in an active status for ever | `DocIngest` |
| Admin API, `src/api/admin.py` | background task, request in progress | register, retry, DELETE | a process death between any two calls | a deleted document is not searchable | `DocIngest` |
| Prefect trigger, `src/jobs.py` | cached deployment ids | `enqueue_document`, `enqueue_video` | a create call whose answer is lost creates two runs | one run a hand-over, unless an answer is lost | `DocIngest`, `VideoIngest` |
| Worker, `src/worker.py`, `src/liveness.py` | running subprocesses, heartbeat key | start, beat | killed at any point | its documents are found again | `DocIngest`, `VideoIngest` |
| Dispatcher, `src/dispatcher.py`, `db.wfq_claim` | claimed rows | count, select, update, enqueue | several dispatchers; reads that are stale by the update | a video is handed out once; the in-flight cap; tenants take turns | `VideoIngest` |
| Video flow, `src/ingest/pipeline.py` | row, frames, thumbnails, captions | `t_fetch`, `t_sample`, `t_embed_index`, `t_transcript` | a crash or fault between steps | an `indexed` video has frames and thumbnails unless a DELETE took them | `VideoIngest` |
| Video API, `src/api/videos.py` | request in progress | register, retry, DELETE | a retry or DELETE while queued or executing | settled, or gone with everything it had | `VideoIngest` |
| Seeding, `src/seeding.py`, `src/samples.py` | sample rows and vectors, the program's pass | `seed_to_completion` | `indexed` in Postgres with an empty Qdrant; killed and started again | exit 0 only for a corpus that answers | `Seeding` |
| Collections, `vector_store._ensure` | collections, payload indexes, a memo per process | ensure at API start, worker boot and in every document run | several creators at once, one that dies half way, a memo that outlives a collection | whoever creates it, a collection gets its indexes | `Provision` |
| Search, `src/rag/search.py`, `rerank.py`, `query_enhance.py`, `src/graph.py` | the request | merge, fuse, boost, rerank, cite, gate, ask, check | ties and edges of the order; a branch that raises; settings that change meanwhile | grounded or silent; one moment a citation; no invented source | `Ranking`, `Search` |
| Search API, `src/api/search.py` | events written so far | `ask`, `ask_stream`, the tenant's model | an exception after the response began | every stream ends with `done` or `error` | `Search` |
| Cache and limits, `src/cache.py`, `src/security.py`, `src/app.py` | Redis keys | authenticate, count, refuse; get and set copies | a counter that never expires, callers behind one proxy, copies made of copies | a budget is one caller's where callers can be told apart, and its window ends; staleness is bounded | `Guard`, `PollCache` |
| Token keys, `src/auth0.py` | key set, time of last refresh | `_jwks`, `_signing_key` | concurrent refresh, rotation, outage | one refetch a cooldown; a published key is accepted | `SigningKeys` |
| Parsing, `src/ingest/` | none | `chunk_cues`, `dedup`, `_sample_scene`, `parse_pdf` | size limits, remainders, state carried over pages | nothing is lost or cut twice | `Media` |
| Embedding models, `src/rag/embeddings.py`, `src/clip_service.py` | cached query vectors | `embed_text`, `embed_query`, `_post` | two deployments with different models share the cache | no vector of another model | `EmbedCache` |
| Database, vector store, object storage | tables, points, objects | one statement an operation | each call may fail, applied or not | they are the shared state of the above | all |
| Trace link, tracing, metrics, health, URL guard, prompts | | | | | section 7 |

Documents travel API -> Prefect -> worker, and the reconciler closes the loop.
Videos travel API -> row -> dispatcher -> Prefect -> worker; nothing closes that
loop after a crash, which `src/reconciler.py:28-34` discloses. A question reads
what they wrote and changes nothing.

## 2. Modules

| Module | What it is |
|---|---|
| `DocIngest` | the life of a paper or deck: API, Prefect, workers, reconciler |
| `DocPromise` | what the service promises a client about a document, without any of these |
| `DocRefinement` | the mapping under which `DocIngest` implements `DocPromise` |
| `MCDocIngest` | small instances of the two: one tenant, every document the same content |
| `DocIngestTypes`, `DocIngestSafety` | proofs about `DocIngest`: types, then the invariants |
| `DocRefinementProof` | proof that it implements `DocPromise`, and that its stages come in order |
| `VideoIngest`, `MCVideoIngest` | the life of a video: API, dispatchers, Prefect, workers; its instances |
| `VideoTypes`, `VideoSafety` | proofs about `VideoIngest`: types, then the invariants |
| `PyLists` | what Python's `sorted()` and a list comprehension make of a list (used by `Ranking` and `Media`) |
| `Ranking` | from hits to ordered windows: the pure part of retrieval |
| `Search` | one question, from the request to its last byte (uses `Ranking`) |
| `Seeding` | the startup gate |
| `SigningKeys` | the cache of token verification keys |
| `Guard` | authentication and admission control |
| `PollCache` | the polled listings and their copies |
| `Media` | how sources are cut into passages and frames |
| `Provision` | who creates the Qdrant collections and their indexes |
| `EmbedCache` | the cache of query vectors |
| `MCService` | instances of the eight modules above (`Search` .. `EmbedCache`), in one run |
| `SequenceFacts` | lemmas about sequences, folds and orders, none of them about this system |
| `RetrievalSafety` | proofs about `Ranking` and `Search` |
| `ServiceSafety` | proofs about `SigningKeys`, `Guard`, `Seeding`, `PollCache`, `Provision`, `EmbedCache`, `Media` |

### DocIngest and the code

`row` is `ms_documents` (status, `flow_run_id`, `storage_key`, whether
`source_hash` is set, whether `updated_at` is past the stale window), `index`
the documents with chunks in Qdrant, `bucket` those whose durable copy
`docs/<tenant>/<id>` is in object storage, `mentions` those with graph edges, `run` what Prefect records of each
run and where the process executing it is, `bg`, `re` and `del` the API's
background dispatch, retry and DELETE in progress, `sweep` and `cool` each
worker's reconciler, `up` and `beat` the workers and their heartbeat. `left`
counts the bounds down. Three variables are history. `met` remembers that two runs
of a document, or a run and a DELETE, or the runs of two copies of the same
content, were under way at the same time. `taken` has the documents whose chunks
somebody else than their own ingest removed, until their next upsert; `lost` those
whose durable copy a DELETE removed, until it is stored again.

A registration names its source by a URL (`NoKey`) or by a `storage://` key, and the
code looks neither whether the object is there nor whose document it is: a file of
the tenant that may be missing at any time (`File`), or the durable copy of another
document of the tenant, which is the other document's content (`Nameable`). So one
document's DELETE may remove another's copy, and an ingest whose object is gone
fails without a fault (`Raises`). A row that names its own lost copy fails at every
retry, since nothing else records where the content came from.

A purge in a DELETE that raises is answered with 502, but Qdrant may have applied
it: `DeletePurgeRaises` is that case, the chunks gone and the row as it was (one
that was not applied is no step). Ingesting or deleting a video of the tenant
removes the chunks of all its documents (`VideoPurge`, the finding
`video_wipes_documents`), at any time and any number of times.

Every statement that changes state or reads it for a later decision is an action:
`FetchBegin`, `FetchLoad`, `FetchSkip`, `FetchStore`, `FetchRecord` are the five
writes and reads of `t_fetch`, `EmbedPurge`, `EmbedUpsert`, `EmbedFlip`,
`RecordMentions` those of `t_embed_index`; `DeletePurge` .. `DeleteCancel` those
of the DELETE route and `db.delete_document`; `SweepBegin` .. `SweepEnd` those of
`reconcile_once`. `Raises` is a remote call that raises, applied or not;
`TaskRetry` re-runs the task from its first line and `FlowFails` takes the flow's
except clause, whose own database write may fail too. `Enqueue` creates one run,
or two when the first answer is lost (`jobs._dispatch` falls back).

Abstractions: progress, titles, counts, error texts, scratch files, spans and
trace links are left out (no branch modelled here reads them). A failing
database statement inside an API handler or a sweep is not modelled, nor the
one-hour flow timeout; one that raises inside a task counts as not applied
(an upsert that raises may have been). Deleting the object and reading
`flow_run_id` right after it are one step of the DELETE. A sweep takes its rows in any order. Sample
documents never come through these routes (their ids are not `doc_` plus a uuid).

### DocPromise and DocRefinement

`DocPromise` knows neither rows nor runs: a document is accepted, worked on,
ready or refused, gone, and its chunks were never put there, are found, or were
taken. It is called ready only once its chunks were put there; nothing takes them
from a ready document but a step that is named `Take`; gone is for ever and only
for what is not found. The mapping reads the stage off the row's status and nothing
else, as a client does: an indexed row whose DELETE was cut short is still ready.
"Found" and "taken" come from `index` and `taken`, and "tangled" (two runs, or a run
and a DELETE, at work on it at once: the proviso the findings below show to be
needed) from `met`. `ImplementsPromise` says that every step of API, Prefect,
workers, sweeps and video purges is a step of the promise or changes nothing a
client sees.

What the promise does not rule out is a weakness of the code: a row says `indexed`
and nothing can be found, after a DELETE that stopped between its purge and the row
(an object store that fails, an API process that dies, a purge that was applied and
raised), or after any video of the tenant was ingested or deleted. Nothing repairs
it until the client ingests or deletes the document again.
### VideoIngest and the code

`row` is `ms_videos` (status, owner, whether `source_hash` is set, order of
creation), `files` the uploads in the bucket, `thumbs` the thumbnail prefixes,
`frames` and `captions` whose points each video has in the two collections,
`docs` the tenants with paper or deck chunks in the text collection, `disp` each
worker's `dispatch_once` with the slots it counted, the ids it selected and the
rows it claimed, `del` the DELETE in progress. Four variables are history:
`disturbed` has the videos that were reset or removed while a dispatcher or a run
held them, handed out in the middle of a DELETE, or accepted twice by Prefect;
`taken` those a DELETE took frames or thumbnails from, until their next upsert;
`missed` the points whose purge by the last DELETE was swallowed; `passed` counts
how often another tenant was admitted while one waited.

`wfq_claim` is two actions, `DispatchSelect` and `DispatchClaim`: it is one
transaction, but at Postgres' default isolation the UPDATE sees what committed
after the SELECT, which is why it repeats `status = 'pending'`. Video ids are
numbers in the order Postgres sorts them, because that order breaks ties. The
DELETE is five steps (`DeleteFrames`, `DeleteText`, `DeleteThumbs`, `DeleteFile`,
`DeleteRow`); its purge swallows a Qdrant failure and its storage steps do not, so
it may end before any step (`DeleteRaises`) with the row still there: an indexed
video without frames, until it is ingested or deleted again.

Abstractions: fair dispatch is on (its default; the FIFO mode is not modelled),
batched frame upserts are one step, uploads over the size limit, presign and
direct upload, progress and the flow timeout are left out. The death of the API
process in the middle of a DELETE is `DeleteRaises` too. A
registration checks the object and writes the row in one step.

### Ranking and Search, and the code

`Ranking` translates `_merge_hits`, `_fuse`, `boost_windows`, `rerank` and
`_citation_windows`. Points are numbered in the order of `str(_hit_key)`, which
is what breaks ties in the code, and `Sorted` (of `PyLists`) is stable. A fused
score 1/(RRF_K + rank) is exact: it is counted in units of 1/`Scale`, which the
assumption `Exact` makes divide evenly. Fusion is a fold over the ranked hits,
each joining the first window of its video within `FUSION_WINDOW_S` or opening
one of its own; a window with a frame and words is worth three halves. A list
comprehension is `Filtered`. A service's answers are assumed to be what
`vector_store.py` asks for (`QdrantAnswers`): hits in descending order, frames
from the one collection and texts from the other, no more than its limit.

`Search` is one request. `vis` and `txt` are the two pool threads of
`_retrieve_impl`, each of which may raise alone; `pc` goes through `Ask`,
`Enhance`, the branches, `Boost`, `RerankWindows`, `Cite`, the gate (`Abstain`,
`PassGate`), `Resolve`, the call with its retries and `Check`, which withholds an
answer that names a source it did not retrieve. `events` are the server-sent
events written, so an exception after the first one cannot become a status any
more. Meanwhile the tenant changes its model (`own`), registers sources, and
other requests fill the cached list of titles.

What Qdrant answers, what the cross-encoder scores, what the graph matches and
what the model writes are inputs, taken from the sets the constants name.
Titles, links, thumbnails, prompts and spans are left out.

### Seeding and the code

`seedRow` and `seedVecs` are the rows and vectors of the samples; `seed` is the
program: which look or pass it is in and what it has found missing. A look asks
one source at a time and Qdrant may fail to answer (`RowHasVectors`: unknown
counts as missing). An ingest is reset, fetch, purge, fill and flip. The purge
of a video takes the documents' chunks with it (`Purged`, the finding
`video_wipes_documents`), which is why the order of the corpus and the number of
passes matter. The container may be killed at any step and starts again;
vectors may be wiped from outside. A document whose content the tenant already
has under another id is skipped for ever (`Copies`).

### SigningKeys, Guard and PollCache, and the code

`SigningKeys`: `jwks` is `_jwks_cache`, `cooling` whether the cooldown since
`_last_refresh` lasts, `call` one verification a thread. The lock covers the
read of the cache and the decision to fetch (`ReadCache`, `BeginFetch`) and the
store (`StoreKeys`), not the fetch between them. The provider rotates its keys.

`Guard`: `counters` are the keys `rl:<bucket>:<ip>` with their time to live. A
request is one step, because the middleware runs on the event loop without
yielding and the pipeline of INCR and EXPIRE NX is executed as one. With
`TRUST_PROXY_HEADERS`, `ClientIp` takes `Fly-Client-IP`, else the left-most
`X-Forwarded-For`, else the peer. A proxy sets the headers in `ProxySets`; the
others are whatever the request carried (`Named`: an address of its own choosing, a
neighbour's included). So callers can be told apart only where the header that
decides is set by the proxy, as in `fly.toml`, or where there is no proxy and no
trust (`Vouched`). Elsewhere they cannot, as `.env.example:278-282` and
`docs/DEPLOYMENT.md:138-142` warn, and the model has no budget to prove.

`PollCache`: `polled` are the copies in Redis. A listing is reduced to how many
ticks each of its tables is behind. `list_sources` builds from two lists that
are cached too, so its own copy can be made of copies, and a slow request can
overwrite a newer copy with an older one.

### Provision, EmbedCache and Media, and the code

`Provision`: `collections` and `indexes` are the server's, `ensured` is the memo
`_ensured` of each process and `at` the call it is at: look, create, one step for
each index. A process stops at a call that fails and does what its caller does
with the exception: the API serves without, a worker dies, a task is retried.
`excused` remembers, as long as the collection lives, the indexes that the server
refused, that a creator left out because it was killed between the calls, or that
were never tried because `create_collection` was applied and raised; `dropped`
collections that went away since a process saw them.

`EmbedCache`: `vectors` is Redis, a vector being the model it comes from;
`version` the model of the process each thread runs in, `service` that of the
embedding service, absent while it starts. A process that is given a new model
before the service has it stores the service's vector under the new model's name;
`mixed` has the models that happened to, until what was stored has expired (a week
in the code) and no call still carries it. One text stands for all, since the
key holds a hash of it.

`Media`: four pure functions, each a step from `given` to `cut`: `chunk_cues`,
`dedup`, the thinning of sampled frames and `parse_pdf`. A text is its length,
a frame its gradient and brightness, a page its lines with size, length and
whether a table covers them.

### MCService

The eight modules share no variable, so what holds of each alone holds of any
interleaving of them. `focus` picks one for a whole behaviour and the others
stay where they begin: one run checks them all without multiplying their states.

## 3. Runs

Constants not named are zero or one. "States" are distinct states.

| Run | Instance | Checks | Shows |
|---|---|---|---|
| `doc_ingest` | 1 document named by URL or by a file that may be missing, 2 runs, 1 fault, 1 worker crash, 1 API crash, 1 DELETE, any number of video purges; 1.79M states | `TypeOK`, `IndexedSearchable`, `DeletedUnsearchable`, `DurableCopy`, `LifecycleOrder`, `ImplementsPromise` | status, chunks and durable copy disagree only by what a DELETE or a video's purge took, wherever anything is cut short, and a client sees only what `DocPromise` allows |
| `doc_twins` | 2 copies of one content, either of which may name the other's durable copy, 2 runs, 1 fault, 1 retry; 557k | `DuplicatesCaught` | both are indexed only if their runs overlapped |
| `doc_recovery` | 1 document, 4 runs, 2 worker crashes, fairness; 28k | `NoDocumentLost` | the sweep finds every run a dead worker left |
| `video_ingest` | 1 YouTube video, 2 tenants who register it, 2 workers, 2 runs, DELETE, crash, fault; 1.47M | `TypeOK`, `IndexedServable`, `DeletedGone`, `HandedOutOnce`, `StageOrder` | an indexed video has its frames and thumbnails unless a DELETE took them, a deleted one leaves nothing but the points whose own purge was swallowed, the status guard of the claim is enough, and a status moves one stage at a time |
| `video_settles` | 2 uploads of one file by a tenant who also has papers, 1 dispatcher, retry, DELETE, fairness; 201k | `CapacityKept`, `NoVideoStuck` | the cap holds, and every outcome gives its slot back |
| `service` | `MCService`, see below; 1.56M | 25 properties, see below | the parts beside ingestion |

`service`, by focus:

| Focus | Instance | Property: what it says |
|---|---|---|
| search | 8 points of two videos and a deck, every list of hits over them that matters, 4 deployments, POST and stream, 1 fault, 1 settings change | `SearchTypeOK`; `AgreementFirst`: a moment both branches found outranks any single hit; `MomentTight`: the frame and the words of a citation are within the window of each other; `RunsAgree`: the order of the sub-queries does not change what is ranked; `ReorderOnly`: boost and rerank drop and add nothing; `WordsFirst`: a frame without words is cited only if nothing has words; `GroundedOrSilent`: the model is asked only with evidence over a threshold; `AnswerAttributed`: an answer names no source it was not given, but for one newer than the cached titles; `StreamEnds`: whatever raised, the client is told |
| seeding | 2 videos, a document that may be a copy, 2 faults, 1 kill, 1 wipe | `SeedGateSound`: exit 0 means every source is indexed and has vectors; `SeedHeals`: three passes are enough for one ingest that fails |
| keys | 2 threads, 2 keys, 2 rotations, 1 outage, 3 tokens | `RefetchedOnce`: one refetch a cooldown however many threads miss; `NoLockout`: a published key is refused only in a cooldown or an outage |
| guard | 2 callers behind a proxy that sets `Fly-Client-IP`, who write each other's addresses into `X-Forwarded-For`, 4 endpoints, 1 Redis outage | `BudgetKept`: nobody gets more than a budget through, also by alternating endpoints; `ThrottledForOwn`: nobody pays for a neighbour; `WindowEnds`: no counter outlives its window |
| polls | 2 requests for `list_sources`, 1 write, 5 ticks | `ListingsFresh`: a listing is at most one lifetime and one request behind, `list_sources` two |
| media | transcripts of up to 4 cues, reels of up to 4 frames, papers of two pages | `CuesWhole`, `DedupFaithful`, `ThinSpread`, `PaperWhole`: nothing is lost, repeated or cut too large, against a definition that does not look at the algorithm |
| provision | an API process and a document run, 1 failing call, 1 kill, 1 drop | `MemoHonest`: a process remembers no collection that was not there; `IndexedTogether`: a collection nobody is at work on has both indexes, unless one was refused, its creator was killed between the calls, or its create call was applied and raised; `SourceHeals`: the third index is made good by the next process |
| embeddings | 2 threads, 2 models, 2 redeployments, 1 service restart, 1 failing Redis call, 1 expiry | `RightSpace`: a vector served is of the model that asks, unless a process had that model before the service, and then until expiry |

Each of these properties is broken by a mutation of the code it is about: a
dropped guard, a swapped order, a missing write. The mutated forms stand beside
the originals in the modules, marked "Mutant".

Six runs check a sentence of the repository that the code does not keep. TLC
prints the counterexample.

| Run | Claim | What happens |
|---|---|---|
| `doc_false_positive` | `src/reconciler.py:88-90`: restarting a healthy row is "never an incorrect" flow run | two runs interleave; one has set `indexed`, the other purges and its worker dies; a completed `flow_run_id` or the settled status keeps every sweep away |
| `doc_orphans` | `src/api/admin.py:179-181`: no "orphaned, still-searchable vectors" | DELETE purges first and cancels last; a run past its row check upserts in between |
| `doc_stranded` | `src/api/admin.py:86-90`: a document "can't be stranded" | the API dies between the enqueue and the write of the run id, then the worker dies: mid-stage with a NULL id is skipped for ever |
| `video_rounds` | `src/db.py:686-689`, `src/dispatcher.py:15`: one slot a round, nobody starves the others | ranks restart at every call; with one free slot a tick the smaller id wins again and again |
| `video_wipes_documents` | `src/rag/vector_store.py:386`: purge *a video* from both branches | the filter also matches points with no `video_id`: the tenant's papers and decks |
| `gate_on_question` | `src/rag/search.py:207-209`: the gate "always scores the ORIGINAL question only" | with query enhancement the visual score is the best of the hits merged over the question and its sub-queries (`search.py:235-240`), so a sub-query's frame carries a question over the gate |

### Other claims and observations

`Search` states three more claims that do not hold. They have no run of their
own; replacing the property of `gate_on_question.cfg` shows each:

* `AnswerInTime` (an invariant; `src/config.py:428-431`, a hung generation must
  fail before the 30 s a client waits): three attempts of 25 s with their delays
  are 77 s.
* `CitationsReadable` (a property; `src/rag/search.py:50`, citations carry
  non-empty text): a slide nobody captioned is embedded with the text "" and
  counts as text-bearing (`search.py:58`).
* `BoostIsAHint` (a property; `src/graph.py:40-44`, the boost never promotes an
  unrelated chunk over a strong match): the comment has scores of 0.3-0.9 in
  mind, but fused scores are at most about 0.05, which is `MAX_BOOST` itself.

Met while modelling, and left as they are in the models:

* A listing of sources can be two lifetimes behind, 4 s, where
  `src/config.py:300-302` speaks of staying under the UI's 2.5 s.
* An existing collection is taken to have its indexes (`vector_store.py:110-112`,
  "every deployment of this code creates the two together", and `127-129`). That
  fails for a creator killed between the calls, and for a `create_collection`
  that was applied and raised, after which the process lives on and the next one
  finds the collection: it stays without the two indexes until somebody drops it.
  `IndexedTogether` excuses both by name, and a refused index. The memo of a process
  outlives a dropped collection, so retries in that process go on failing. An
  exception at the visual collection makes the API skip the text collection.
* `parse_pdf` says a chunk carries "the section heading active at that point"
  (`paper.py:160-162`; "carried forward until the next heading", `paper.py:8-9`).
  The code cuts a page's prose after it has read all the page's headings, so prose
  that stands before a heading in the middle of a page is labelled with it.
  `PaperWhole` takes no side: a piece is under the heading carried in or one of its
  page. A single sentence longer than `CHUNK_MAX_CHARS` is one piece of any length.
* One document's DELETE can remove the durable copy another was registered from
  (`admin.py:194-195`); if that one is still to be fetched, it fails.
* A sample document that is a copy of one the tenant has keeps the seeding gate
  closed for ever: it is `skipped`, never `indexed`.
* A slow key fetch can overwrite a newer key set, and a failed one starts the
  cooldown too; `NoLockout` excuses what follows until it ends.
* Graph rows of deleted sources, "inert" at `src/db.py:522`, still count in the
  totals that weigh an entity.

### Bounds, and why they are enough

A bound is a constant (`MaxRuns`, `MaxFaults`, ...) spent in a guard. Two runs of
a document are the least that can interleave, and the sweep, the retry and the
ghost run of a lost answer each supply the second. A crash, a fault and a request
can fall at any step, so one of each meets every position. `doc_recovery` has
four runs for two crashes, so the bound on runs never is what stops a restart.
`HealthyGoesStale` (a healthy row passes the stale window, as a 120 s retry delay
does against a 90 s window) is on only in `doc_false_positive`; with it on, every
sweep may create a run and an instance with a DELETE or two documents does not
finish. The proofs cover it, and several workers, which no document run has.
`CacheMayFail` (heartbeat lost while the worker lives) is likewise covered by the
proofs only.

`doc_ingest` has no retry request, and one document, so that a DELETE of a copy
by the document that borrowed it is covered by `CopiesAreDurable` only. `doc_twins`
has the borrowed copies but no DELETE. A video purge costs no bound: it may happen
at every step.

`video_ingest` has two registrations, by one tenant or by both: the second resets
the row of the first and keeps its owner. The two workers can
be exchanged for each other, and so can the two tenants, and no property names one,
so the run uses both as symmetry sets. A fault inside
`t_transcript` needs a second fault to show; the proofs cover it.

In `service` two threads, two callers and two models are the least that can
interfere. The corpus of the search focus has, among its eight points, a moment
at the edge of the fusion window, one beyond it, a tie, a slide without a text
and two videos: the cases in which `_fuse` and `_citation_windows` take
different branches. Three sources and three passes reach every order of a
failure and the purge that follows it. Transcripts, reels and frame counts are
those in which a passage, a drift and a remainder begin and end.

For what section 4 proves no bound matters in the end: it holds for any number
of everything. That is every invariant and action property the runs check. The
liveness properties hold of the instances.

Runs say `CHECK_DEADLOCK FALSE` because the system does come to rest: when every
document or video is settled and no client asks for anything, nothing moves.

### Fairness

`NoDocumentLost` and `NoVideoStuck` assume weak fairness of: each run's next step
(Prefect hands out queued runs, a live subprocess goes on), the restart of a
worker (the machine's supervisor), the heartbeat, reconciler and dispatcher
threads (`while True` loops that swallow every exception), the background
dispatch and requests that have begun (the process is alive; a crash removes
them), and the passing of time (`Age`, `CooldownExpires`). Nothing is assumed of
clients, crashes or faults. `NoDocumentLost` is checked without faults, retries
and API crashes: `doc_stranded` shows the last are fatal to it, and a ghost run
left by a lost answer has the same effect. `NoVideoStuck` is checked without
crashes and faults: a row a crash leaves `queued` or mid-stage holds its slot for
ever, because no sweep looks at videos.

## 4. What is proved

TLAPS proves, for any sets of documents, videos, tenants and workers, any
content, any concurrency and any bounds:

| Theorem | States |
|---|---|
| `DocIngestTypes!TypeCorrect` | `Spec => []TypeOK` |
| `DocIngestSafety!Invariance` | `Spec => []IndInv` |
| `DocIngestSafety!IndexedIsSearchable` | `Spec => []IndexedSearchable` |
| `DocIngestSafety!DeletedIsUnsearchable` | `Spec => []DeletedUnsearchable` |
| `DocIngestSafety!DuplicatesAreCaught` | `Spec => []DuplicatesCaught` |
| `DocIngestSafety!CopiesAreDurable` | `Spec => []DurableCopy` |
| `DocRefinementProof!PromiseImplemented` | `Spec => ImplementsPromise` |
| `DocRefinementProof!ReadyIsFound` | `Spec => []Promise!Kept` |
| `DocRefinementProof!StagesInOrder` | `Spec => LifecycleOrder` |
| `VideoTypes!VideoTypesCorrect` | `Spec => []TypeOK` |
| `VideoSafety!VideosHandedOutOnce` | `Spec => []HandedOutOnce` |
| `VideoSafety!IndexedVideosServable` | `Spec => []IndexedServable` |
| `VideoSafety!DeletedVideosGone` | `Spec => []DeletedGone` |
| `VideoSafety!CapacityRespected` | `Spec => []CapacityKept` |
| `VideoSafety!VideoStages` | `Spec => StageOrder` |
| `VideoSafety!RoundsTakeTurns` | `Spec => TakesTurns` |

for any corpus, settings, hits, scores and answers of the model:

| Theorem | States |
|---|---|
| `RetrievalSafety!SearchTypesCorrect` | `SearchSpec => []SearchTypeOK` |
| `RetrievalSafety!StreamsEnd` | `SearchSpec => []StreamEnds` |
| `RetrievalSafety!MomentsAreTight` | `SearchSpec => []MomentTight` |
| `RetrievalSafety!AgreementComesFirst` | `MaxRanked <= 2 * RRF_K => (SearchSpec => []AgreementFirst)` |
| `RetrievalSafety!BranchesRunAlike` | `SearchSpec => []RunsAgree` |
| `RetrievalSafety!GroundedAnswers` | `SearchSpec => []GroundedOrSilent` |
| `RetrievalSafety!AnswersAttributed` | `SearchSpec => []AnswerAttributed` |
| `RetrievalSafety!OnlyReordered` | `SearchSpec => ReorderOnly` |
| `RetrievalSafety!WordsServedFirst` | `SearchSpec => WordsFirst` |

and for any threads, callers, sources, requests, processes, models and media, any
limits and windows, and any bounds:

| Theorem | States |
|---|---|
| `ServiceSafety!OneRefetch` | `KeysSpec => []RefetchedOnce` |
| `ServiceSafety!NobodyLockedOut` | `KeysSpec => []NoLockout` |
| `ServiceSafety!BudgetsHold` | `Vouched` implies `GuardSpec => []BudgetKept` |
| `ServiceSafety!WindowsEnd` | `GuardSpec => []WindowEnds` |
| `ServiceSafety!OwnThrottle` | `Vouched` implies `GuardSpec => ThrottledForOwn` |
| `ServiceSafety!GateSound` | `SeedSpec => []SeedGateSound` |
| `ServiceSafety!ThreePassesHeal` | `MAX_PASSES >= 3 => (SeedSpec => []SeedHeals)` |
| `ServiceSafety!ListingsFreshness` | `PollSpec => []ListingsFresh` |
| `ServiceSafety!MemosHonest` | `ProvSpec => []MemoHonest` |
| `ServiceSafety!CreatedIndexed` | `ProvSpec => []IndexedTogether` |
| `ServiceSafety!SourceIndexHeals` | `ProvSpec => []SourceHeals` |
| `ServiceSafety!VectorsRight` | `EmbedSpec => []RightSpace` |
| `ServiceSafety!NoCueLost` | `MediaSpec => []CuesWhole` |
| `ServiceSafety!DriftIsKept` | `MediaSpec => []DedupFaithful` |
| `ServiceSafety!ReelsSpread` | `MediaSpec => []ThinSpread` |
| `ServiceSafety!PapersWhole` | `MediaSpec => []PaperWhole` |

### Assumptions

`NoValues` (the "none" values are no documents, videos, users or workers),
`Bounds` (the bounds are naturals, the switches Booleans), `VideoIds` and
`Finite` (videos are numbers, and there are finitely many videos and workers, so
they can be counted), and an assumption on the shapes of the constants in each of
the other modules. TLC evaluates all of them in the runs. These say something of
the corpus or of another service:

* `SeedShapes`: the videos of the corpus come first, as `samples.py` lists them.
* `QdrantAnswers`: see `Ranking` in section 2.
* `Exact`: the unit of a fused score divides evenly. It is one of the model, not
  of the code, whose scores are floating-point numbers.

Four theorems have a hypothesis of their own. `Vouched`, of `BudgetsHold` and
`OwnThrottle`: the address a caller is counted under is vouched for (section 2);
`WindowsEnd` does without. `MAX_PASSES >= 3`: the code has
three, and two would not do, because a video's ingest takes the documents'
chunks with it. `MaxRanked <= 2 * RRF_K`: two hits at rank r weigh 3 / (RRF_K + r)
together, which beats the best single hit, 1 / RRF_K, only up to r = 2 * RRF_K.
The code has RRF_K = 60 and ranks at most 60 hits a branch (three queries of
`BRANCH_TOP_K` = 20), far from that edge; the next change of either number moves it.

### Documents

The four invariants are not inductive alone. `IndInv` adds `TypeOK` and:

* `Known`: nobody refers to a document that was never registered; without it a
  registration could find a run already executing.
* `Placed`, `Overlaps`: a run with a host is at a task, and the history variable
  really remembers every overlap. This is what turns "no overlap so far" into
  "nobody else is at work on this row now".
* `RunOwnsRow`: a run that never overlapped, past its first write, has taken the
  row out of `indexed`; past its row check, the row exists; past its upsert, the
  chunks are there or have been taken since.
* `DeletePurged`: a DELETE past its purge, never overlapped, has left no chunks.
* `HashRecorded`: an indexed row, and the row of a run past `t_fetch`, has its
  hash, so the duplicate check can find it; a copy was uploaded before its key is
  recorded, and is there unless a DELETE removed it.
* `NoIndexedPeer`: a run past the duplicate check has no indexed twin it never
  overlapped with.

`DocIngestTypes` has a lemma for each kind of update (a status, a flow id, a run
that moves, is created, is killed) and then one step per action.
`DocIngestSafety` splits the actions by what they disturb: `FrameStep` covers
every action that leaves statuses, chunks, hosts and the history alone,
`LocalStep` those of one run on its own row, `TakenCore` the two that only take
chunks (a DELETE's purge that raises, a video's purge), and the other actions
(`EmbedFlip`, `PickUp`, the DELETE steps, `Register`) have lemmas of their own.
`Known` is proved apart. TLC checked every part of `IndInv` as an invariant of
these instances before it was proved.

### The promise

`DocRefinementProof` shows the refinement from `IndInv`. `AllowedMoves` states the
moves of the promise in terms of a stage and of being found; every action of
`DocIngest` is then one of four kinds. One that leaves rows and chunks
alone is a stutter; one that only resets or fails rows (`StatusesKept`: `Register`,
a sweep, `FlowFails`) changes stages; one that removes the chunks of whole documents
is a `Take` of each (`TakeLawful`); and the steps of one run or one DELETE on its
own document are looked at one by one. `IndInv` is needed where the promise has a
condition: `Publish` wants the chunks put there (`RunOwnsRow`) and `Remove` wants
them gone (`DeletePurged`). `ReadyIsFound` is the payoff: `Kept` is proved of the
promise alone, in a few lines, and the refinement carries it over.

`RefuseIt` lets a document become findable at the very step that refuses it: an
upsert that raises may have been applied all the same, and then the flow fails.
No run reaches it, since it takes as many faults as a task has attempts; the
proof did.

`StagesInOrder` is about documents that no two actors handled at once, and says
nothing of the step after `pending` or `failed`, which a sweep or a retry may have
written under a run that goes on. It needs one more invariant, `Ordered`: a run no
other disturbed stands where its row's status says, or the row has been reset
meanwhile.

### Videos

The invariant is about one video at a time, `Well(v)` for every video that is not
disturbed, so a step has to be looked at only for the video it works on:

* `Handed`: whoever handles it works for its owner, on a row whose status fits the
  position, and no DELETE of it is under way.
* `Sole`: nobody else handles it.
* `Served`: a run past a task finds what that task stored, and so does a search of
  an indexed video, unless a DELETE has taken it since (`taken`).
* `Clean`: everything stored of it is its owner's, and a DELETE empties store after
  store, but for the points whose purge was swallowed (`missed`), whoever's they
  were.

`CapacityKept` is a count and needs an invariant of its own, `Spacious`: a
dispatcher that has counted its free slots holds them until it has claimed its
round, so the rows in flight and the slots counted (`Slots`, as pairs) together
stay within one `DISPATCH_MAX_INFLIGHT` a worker, and a round is never larger than
what was counted for it (`IdsFit`).

`StageOrder` comes from `Handed`: each task finds the status its predecessor left,
so what it writes is the next stage.

`TakesTurns` is what remains true of "one slot per round": within the round of
one tick no tenant with videos left over gets two fewer than another, everyone's
oldest go first, and no slot stays empty while a video waits. (Over several ticks
it fails, which is `video_rounds`.) What is picked is closed under going before
(`PickedFromTheFront`), and a tenant's older videos have lower ranks
(`SeniorsRankLower`). So a tenant kept waiting has won as many as the rank of its
next video, and nobody has won one of a higher rank (`TurnsTaken`). It needs three
videos and two slots to say anything, which no run has room for; TLC checks it
with `TakesTurns` as the property of `video_rounds.cfg` and `MaxInflight = 2`
(112k states), and finds it violated once the rank counts all tenants, a slot is
left out, or the newest go first.

### Retrieval

`SequenceFacts` supplies what the algorithms are made of, over sets and functions,
never over an operator: induction up to a bound (`Upward`), that a fold has a value
at every prefix and is built up from them in order (`FoldTree`, `FoldedUp`), that
counting those before it puts every element in its place (`Arranged`, `Picked`),
what the two operators of `PyLists` return (`StablySorted`, `TakenInOrder`,
`TakenInterval`) and keep (`RearrangedSeq`, `SubListSeq`), and what `FlattenSeq`
puts together. On it `RetrievalSafety` proves of each function what the code promises,
for lists of any length:

* Merging keeps the best hit of every point met, once each (`Offered`), and
  its order is total, since ties fall to the key; so it is the same whatever the
  order of the sub-queries (`BranchesRunAlike`).
* Fusing keeps every window `Close` (a frame and words of one video, within the
  window of each other) and `Weighed` (its score is that of the ranks it was made
  of, times three halves for two); from the weights follows that agreement leads.
* Boost and rerank permute, the cut selects in order.

`SearchInv` adds what the request remembers: which branches ran on which lists
(`BranchInv`), that the gate's scores are theirs (`ScoreInv`), that nothing past the
gate happened without evidence (`GateInv`), that the cached titles are old but
never older than the question (`TitlesInv`), that a reply has the events its
status calls for (`ReplyInv`), and that the windows stay what fusing made them
(`WindowsInv`). TLC checked it on the search focus before it was proved.

### The service

* `KeysInv`: a refetch is counted only while its cooldown lasts (`OneStamp`),
  and a thread that is refused has seen a reason (`Excused`): whatever set it
  looks into last, it could not ask for another.
* `CountersInv`: every counter is dated (`Dated`: its deadline and its age add up
  to the window), whoever it counts, which is `WindowsEnd`. `GuardInv` adds that what
  a caller was let through is what its counter counted, up to the budget
  (`Metered`): where the address is vouched for, a caller is known by its own
  address alone (`OwnAddress`), so a counter counts nobody else.
* `SeedInv`: during a look whose vectors nobody took, every source already seen
  and not found missing is indexed and has its vectors. Exit 0 follows when
  nothing is left to see and nothing was found missing.
* `HealInv`: every pass gains a level (`Level`: first the videos answer, then
  everything), but for the one in which an ingest fails; so the third ends with a
  corpus that answers.
* `PollInv`: a copy is no further behind than the ticks it has left allow
  (`Fresh`), and a request in progress no further than its own time and the copies
  it has read (`InTime`, `Lag`).
* `ProvInv`: what each process has in its memo, and what it is at work on, was
  there when it last saw it (`ProcInv`); with it `IndexedTogether` is inductive.
* `EmbedInv`: a cached vector is of the model its key names, or that model is in
  `mixed`; likewise a vector a thread is about to store or has served.
* `MediaInv`: a source is cut in one step, so the work is in the functions.
  `CutUpTo` says what `chunk_cues` has made of the first k cues, `dedup` has `Stands`
  (each kept frame looks like all up to the next one kept), and `Stretch` is the
  division that tells how far apart two frames of a thinned reel can be, with
  the rounding that may take one off either.
* A paper is followed from the line up. `Packed` is what `_split_within_page` has
  made of the lines so far: no piece is empty, only a single sentence is over the
  limit, and no line would have fitted into the piece before it; `AddLine` keeps
  it and loses no line (`AddLinePacks`, `AddLineAppends`). A page's chunks are its
  pieces, tables and figures (`HasAll`), its prose under the last heading up to the
  page's end (`LabelAt`), which is one of those `PaperWhole` allows (`LabelOfPage`), and after k pages `parse_pdf` has those of the first k, each
  page's at a stretch of its own (`ParsedUpTo`, `LiesAt`). `PaperWhole` selects by
  page number instead, so the last step is that a comprehension which takes an
  interval of a list returns that interval (`TakenInterval`).

## 5. What is only model-checked

* `NoDocumentLost` and `NoVideoStuck`: liveness under fairness is beyond the
  prover.
* The six claims that do not hold: a counterexample needs no proof.

## 6. Plan

1. Done: `DocIngest` with `DocPromise`, `VideoIngest`, the read path, the startup
   gate, keys, limits, caches, collections; the proofs of section 4.
2. Not done: a promise for videos like `DocPromise`, and a theorem on which
   sources a purge can reach.

## 7. What is not modelled

* **Trace linking** (`src/trace_link.py`): a carrier that one process stores in
  Redis and another pops, get and then delete; two runs of a document may both
  join the trace. It fails open and only telemetry reads it.
* **Tracing, metrics and health**: failures are swallowed and no other part
  reads the state.
* **URL guard and prompt screening** (`src/ingest/urlguard.py`,
  `src/injection.py`): patterns over strings and DNS answers.
* **Inference** (the models in `src/rag/embeddings.py`, `src/clip_service.py`,
  `src/llm.py`, the wording in `src/prompts.py`): numeric or remote; the models
  take their results as inputs.
* **What libraries do with media**: ffmpeg, PyMuPDF, python-pptx, yt-dlp. Decks
  and figures are one chunk each and have no algorithm to check.
* **Video API**: the FIFO mode, presign, direct upload and its size limit.
* **Entity graph**: extraction and matching are scores over texts; the models
  keep what an ingest writes, what a DELETE removes and the boost.
* **Application start-up and configuration**, except the collections it ensures
  and the limits the models take as constants; the queue statistics, the demo
  keys and the schema of `src/db.py`.
* **Object storage providers**: the three are not told apart.

## 8. Running

    tlc -workers 2 -config doc_ingest.cfg MCDocIngest.tla
    tlc -workers 2 -config service.cfg MCService.tla
    tlapm DocRefinementProof.tla
    tlapm VideoSafety.tla
    tlapm RetrievalSafety.tla
    tlapm ServiceSafety.tla

`PROJECT.json` lists the runs with their modules, the mapping of every definition
to source lines, the hazards with the properties that cover them, the findings
and the theorems.
