----------------------------- MODULE DocIngest -----------------------------
(***************************************************************************)
(* The life of a paper or deck: the admin API that accepts, retries and    *)
(* deletes it, the Prefect runs that ingest it on a worker, and the        *)
(* reconciler that restarts the ones a dead worker left behind.  Every     *)
(* database statement, object-store call, Qdrant call and Prefect call     *)
(* that changes state is a step of its own, so a crash, a second run or a  *)
(* DELETE can fall between any two of them.                                *)
(*                                                                         *)
(* Left out: progress, titles, counts and error texts of the row, scratch  *)
(* files, spans and trace links, none of which any branch here reads.      *)
(***************************************************************************)
EXTENDS Naturals, FiniteSets

CONSTANTS
    Docs,             \* document ids, one per accepted registration
    Owner,            \* [Docs -> user]: the tenant a document belongs to
    Content,          \* [Docs -> hash]: what sha256_file returns for it
    Sources,          \* what a registration may name: a subset of {NoKey, File} \cup Docs
    VideoPurges,      \* the tenants also ingest and delete videos
    Workers,          \* worker processes, each with its own reconciler thread
    NoDoc, NoWorker,  \* "none" values
    NoKey,            \* no storage_key: the source is an http(s) URL
    File,             \* an object somebody dropped or uploaded before, and may take away again
    Concurrency,      \* WORKER_CONCURRENCY: runs one worker executes at once
    HealthyGoesStale, \* a stage or a queue wait may outlast RECONCILE_STALE_AFTER_S
    CacheMayFail,     \* the heartbeat may be lost while the worker is alive
    MaxRuns,          \* bound: Prefect runs ever created
    MaxFaults,        \* bound: remote calls that raise
    MaxCrashes,       \* bound: worker crashes
    MaxApiCrashes,    \* bound: API process crashes
    MaxRetries,       \* bound: POST .../retry requests
    MaxDeletes        \* bound: DELETE requests

ASSUME NoValues == /\ NoDoc \notin Docs /\ NoWorker \notin Workers
                   /\ NoKey \notin Docs /\ File \notin Docs /\ NoKey # File
ASSUME Bounds ==
    /\ {MaxRuns, MaxFaults, MaxCrashes, MaxApiCrashes, MaxRetries, MaxDeletes} \subseteq Nat
    /\ Concurrency \in Nat
    /\ {HealthyGoesStale, CacheMayFail, VideoPurges} \subseteq BOOLEAN

VARIABLES
    row,      \* ms_documents: status, flow_run_id, storage_key, whether the hash is set, age
    run,      \* Prefect's record of each run and the position of the process executing it
    index,    \* documents with chunks in the Qdrant text collection
    bucket,   \* documents whose durable copy, docs/<tenant>/<id>, is in object storage
    mentions, \* documents with entity edges in ms_graph_mentions
    bg,       \* background dispatch of a registration, in the API process
    re,       \* retry request in progress, in the API process
    del,      \* DELETE request in progress, in the API process
    up,       \* workers that are running
    beat,     \* ms:worker:heartbeat is present in Redis
    cool,     \* per worker: _RECENTLY_RESTARTED rows still in their cooldown
    sweep,    \* per worker: where reconcile_once is
    left,     \* what remains of each bound
    met,      \* history: {d} when two runs of d, or a run and a DELETE, overlapped;
              \* {d, e} when runs of two copies of the same content overlapped
    taken,    \* history: documents whose chunks a DELETE or a video's purge took, since
              \* their last upsert
    lost      \* history: documents whose durable copy a DELETE removed, since it was stored

vars == <<row, run, index, taken, bucket, lost, mentions, bg, re, del, up, beat, cool, sweep, left, met>>

-----------------------------------------------------------------------------
Keys  == Docs \cup {NoKey, File}   \* a storage_key; d stands for the durable copy of d
Runs  == 1 .. MaxRuns
NoRun == 0

Active  == {"pending", "fetching", "parsing", "embedding"}
Settled == {"indexed", "skipped", "failed"}
NoRow   == {"unregistered", "deleted"}

FetchSteps == {"fetch", "load", "skip", "store", "record"}
ParseSteps == {"parse", "parsed"}
EmbedSteps == {"embed", "purge", "upsert", "flip"}
TaskSteps  == FetchSteps \cup ParseSteps \cup EmbedSteps
Positions  == {"none", "queued", "launch", "graph", "done"} \cup TaskSteps

PrefectStates == {"none", "SCHEDULED", "PENDING", "RUNNING",
                  "COMPLETED", "FAILED", "CANCELLED"}

Rows       == [st: Active \cup Settled \cup NoRow, flow: Runs \cup {NoRun},
               key: Keys, hash: BOOLEAN, stale: BOOLEAN]
RunRecords == [doc: Docs \cup {NoDoc}, st: PrefectStates, pc: Positions,
               try: 0 .. 2, host: Workers \cup {NoWorker}]
Candidates == [doc: Docs, st: Active, flow: Runs \cup {NoRun}]

Exists(d)    == row[d].st \notin NoRow
Executing(r) == run[r].host # NoWorker
RunsOf(d)    == {r \in Runs : run[r].doc = d}
Peers(d)     == {e \in Docs \ {d} : Owner[e] = Owner[d] /\ Content[e] = Content[d]}

(* db.find_duplicate_document: an indexed row of this user with this hash. *)
DuplicatesOf(d) == {e \in Peers(d) : row[e].st = "indexed" /\ row[e].hash}

(* Mutant: an upsert, which brings back a row that was deleted. *)
SetStatus_Upserts(d, s) == row' = [row EXCEPT ![d].st = s, ![d].stale = FALSE]

(* db.set_document_status: touches updated_at; matches no row once it is deleted. *)
SetStatus(d, s) ==
    row' = IF Exists(d) THEN [row EXCEPT ![d].st = s, ![d].stale = FALSE] ELSE row

(* db.set_document_flow_run_id leaves updated_at alone. *)
SetFlow(d, r) == row' = IF Exists(d) THEN [row EXCEPT ![d].flow = r] ELSE row

(* A purge that is not the ingest's own: what it removes is remembered until the next upsert. *)
Take(S) == index' = index \ S /\ taken' = taken \cup (index \cap S)

NoDelete == [pc |-> "idle", key |-> NoKey, flow |-> NoRun]

Spend(b) == left[b] > 0 /\ left' = [left EXCEPT ![b] = @ - 1]

Init ==
    /\ row = [d \in Docs |-> [st |-> "unregistered", flow |-> NoRun,
                              key |-> NoKey, hash |-> FALSE, stale |-> FALSE]]
    /\ run = [r \in Runs |-> [doc |-> NoDoc, st |-> "none", pc |-> "none",
                              try |-> 0, host |-> NoWorker]]
    /\ index = {} /\ bucket = {} /\ mentions = {}
    /\ taken = {} /\ lost = {}
    /\ bg = [d \in Docs |-> [pc |-> "idle", run |-> NoRun]]
    /\ re = [d \in Docs |-> [pc |-> "idle", run |-> NoRun]]
    /\ del = [d \in Docs |-> NoDelete]
    /\ up = [w \in Workers |-> TRUE]
    /\ beat = FALSE
    /\ cool = [w \in Workers |-> {}]
    /\ sweep = [w \in Workers |-> [pc |-> "idle", todo |-> {}, doc |-> NoDoc, run |-> NoRun]]
    /\ left = [fault |-> MaxFaults, crash |-> MaxCrashes, api |-> MaxApiCrashes,
               retry |-> MaxRetries, delete |-> MaxDeletes]
    /\ met = {}

-----------------------------------------------------------------------------
(* jobs.enqueue_document.  The first create call may reach Prefect and lose *)
(* its answer; the fallback then creates a second run and returns that one. *)

Unused(r) == run[r].pc = "none" /\ \A q \in Runs : q < r => run[q].pc # "none"

NewRun(d) == [doc |-> d, st |-> "SCHEDULED", pc |-> "queued",
              try |-> 0, host |-> NoWorker]

Enqueue(d, r) ==
    \/ /\ Unused(r)
       /\ run' = [run EXCEPT ![r] = NewRun(d)]
       /\ UNCHANGED left
    \/ /\ Spend("fault")
       /\ \E ghost \in Runs : /\ Unused(ghost) /\ r = ghost + 1 /\ run[r].pc = "none"
                              /\ run' = [run EXCEPT ![ghost] = NewRun(d), ![r] = NewRun(d)]

EnqueueRaises(d) ==
    /\ Spend("fault")
    /\ \/ UNCHANGED run
       \/ \E ghost \in Runs : /\ Unused(ghost)
                              /\ run' = [run EXCEPT ![ghost] = NewRun(d)]

-----------------------------------------------------------------------------
(* The API process: registration and its background dispatch.              *)

(* A storage:// reference may name a shared file or any object of the tenant, *)
(* the durable copy of another document included; whether the object is there *)
(* is not looked at.                                                          *)
Nameable(d) ==
    {NoKey, File} \cup {e \in Peers(d) : row[e].st # "unregistered"}

Register(d) ==
    /\ row[d].st = "unregistered"
    /\ \E k \in Sources \cap Nameable(d) :
          row' = [row EXCEPT ![d].st = "pending", ![d].key = k]
    /\ bg' = [bg EXCEPT ![d].pc = "check"]
    /\ UNCHANGED <<run, index, taken, bucket, lost, mentions, re, del, up, beat, cool, sweep, left, met>>

DispatchCheck(d) ==
    /\ bg[d].pc = "check"
    /\ bg' = [bg EXCEPT ![d].pc = IF Exists(d) THEN "enqueue" ELSE "idle"]
    /\ UNCHANGED <<row, run, index, taken, bucket, lost, mentions, re, del, up, beat, cool, sweep, left, met>>

DispatchEnqueue(d) ==
    /\ bg[d].pc = "enqueue"
    /\ \E r \in Runs : Enqueue(d, r) /\ bg' = [bg EXCEPT ![d] = [pc |-> "record", run |-> r]]
    /\ UNCHANGED <<row, index, taken, bucket, lost, mentions, re, del, up, beat, cool, sweep, met>>

DispatchRecord(d) ==
    /\ bg[d].pc = "record"
    /\ SetFlow(d, bg[d].run)
    /\ bg' = [bg EXCEPT ![d] = [pc |-> "idle", run |-> NoRun]]
    /\ UNCHANGED <<run, index, taken, bucket, lost, mentions, re, del, up, beat, cool, sweep, left, met>>

DispatchRaises(d) ==
    /\ bg[d].pc = "enqueue"
    /\ EnqueueRaises(d)
    /\ SetStatus(d, "failed")
    /\ bg' = [bg EXCEPT ![d].pc = "idle"]
    /\ UNCHANGED <<index, taken, bucket, lost, mentions, re, del, up, beat, cool, sweep, met>>

(* POST /admin/documents/{id}/retry: any status may be retried. *)
RetryReset(d) ==
    /\ re[d].pc = "idle" /\ Exists(d)
    /\ Spend("retry")
    /\ SetStatus(d, "pending")
    /\ re' = [re EXCEPT ![d].pc = "enqueue"]
    /\ UNCHANGED <<run, index, taken, bucket, lost, mentions, bg, del, up, beat, cool, sweep, met>>

RetryEnqueue(d) ==
    /\ re[d].pc = "enqueue"
    /\ \E r \in Runs : Enqueue(d, r) /\ re' = [re EXCEPT ![d] = [pc |-> "record", run |-> r]]
    /\ UNCHANGED <<row, index, taken, bucket, lost, mentions, bg, del, up, beat, cool, sweep, met>>

RetryRecord(d) ==
    /\ re[d].pc = "record"
    /\ SetFlow(d, re[d].run)
    /\ re' = [re EXCEPT ![d] = [pc |-> "idle", run |-> NoRun]]
    /\ UNCHANGED <<run, index, taken, bucket, lost, mentions, bg, del, up, beat, cool, sweep, left, met>>

RetryRaises(d) ==
    /\ re[d].pc = "enqueue"
    /\ EnqueueRaises(d)
    /\ SetStatus(d, "failed")
    /\ re' = [re EXCEPT ![d].pc = "idle"]
    /\ UNCHANGED <<index, taken, bucket, lost, mentions, bg, del, up, beat, cool, sweep, met>>

(* DELETE /admin/documents/{id}. *)
MeetsDelete(d) == met' = met \cup {{d} : r \in {q \in RunsOf(d) : Executing(q)}}

DeletePurge(d) ==
    /\ del[d].pc = "idle" /\ Exists(d)
    /\ Spend("delete")
    /\ Take({d})
    /\ del' = [del EXCEPT ![d] = [pc |-> "object", key |-> row[d].key, flow |-> NoRun]]
    /\ MeetsDelete(d)
    /\ UNCHANGED <<row, run, bucket, lost, mentions, bg, re, up, beat, cool, sweep>>

(* The answer is lost after Qdrant applied the purge: 502, and the row stays as it was. *)
(* A purge that raises without being applied changes nothing.                           *)
DeletePurgeRaises(d) ==
    /\ del[d].pc = "idle" /\ Exists(d)
    /\ left.delete > 0 /\ left.fault > 0
    /\ left' = [left EXCEPT !.delete = @ - 1, !.fault = @ - 1]
    /\ Take({d})
    /\ MeetsDelete(d)
    /\ UNCHANGED <<row, run, bucket, lost, mentions, bg, re, del, up, beat, cool, sweep>>

RemoveObject(k) == bucket' = bucket \ {k} /\ lost' = lost \cup (bucket \cap {k})

(* storage.delete_key, then the read of flow_run_id that db.delete_document starts with. *)
DeleteObject(d) ==
    /\ del[d].pc = "object"
    /\ RemoveObject(del[d].key)
    /\ del' = [del EXCEPT ![d].pc = "row", ![d].flow = row[d].flow]
    /\ UNCHANGED <<row, run, index, taken, mentions, bg, re, up, beat, cool, sweep, left, met>>

(* An object-store error is not caught, and may come after the object went: the *)
(* request ends with the row still there.                                       *)
DeleteObjectRaises(d) ==
    /\ del[d].pc = "object" /\ del[d].key # NoKey
    /\ Spend("fault")
    /\ RemoveObject(del[d].key) \/ UNCHANGED <<bucket, lost>>
    /\ del' = [del EXCEPT ![d] = NoDelete]
    /\ UNCHANGED <<row, run, index, taken, mentions, bg, re, up, beat, cool, sweep, met>>

DeleteRow(d) ==
    /\ del[d].pc = "row"
    /\ row' = [row EXCEPT ![d] = [st |-> "deleted", flow |-> NoRun,
                                  key |-> NoKey, hash |-> FALSE, stale |-> FALSE]]
    /\ del' = [del EXCEPT ![d].pc = "cancel"]
    /\ UNCHANGED <<run, index, taken, bucket, lost, mentions, bg, re, up, beat, cool, sweep, left, met>>

(* Best effort: the forced cancellation and the graph cleanup may each fail silently. *)
DeleteCancel(d) ==
    /\ del[d].pc = "cancel"
    /\ LET cancelled == [r \in Runs |-> IF r = del[d].flow
                                        THEN [run[r] EXCEPT !.st = "CANCELLED"] ELSE run[r]] IN
       \/ /\ run' = cancelled /\ mentions' = mentions \ {d}
          /\ UNCHANGED left
       \/ /\ run' = run \/ run' = cancelled
          /\ mentions' = mentions \/ mentions' = mentions \ {d}
          /\ Spend("fault")
    /\ del' = [del EXCEPT ![d] = NoDelete]
    /\ UNCHANGED <<row, index, taken, bucket, lost, bg, re, up, beat, cool, sweep, met>>

(* The API process dies with every request and background task in it. *)
ApiCrash ==
    /\ Spend("api")
    /\ bg' = [d \in Docs |-> [pc |-> "idle", run |-> NoRun]]
    /\ re' = [d \in Docs |-> [pc |-> "idle", run |-> NoRun]]
    /\ del' = [d \in Docs |-> NoDelete]
    /\ UNCHANGED <<row, run, index, taken, bucket, lost, mentions, up, beat, cool, sweep, met>>

-----------------------------------------------------------------------------
(* A run: Prefect hands it to a worker, whose subprocess executes the flow. *)

At(r, p)      == Executing(r) /\ run[r].pc = p
Advance(r, p) == run' = [run EXCEPT ![r].pc = p]
NextTask(r, p) == run' = [run EXCEPT ![r].pc = p, ![r].try = 0]

(* A terminal state forced by DELETE is not overwritten by the run's own. *)
Ended(r, s) == run' = [run EXCEPT ![r].pc = "done", ![r].host = NoWorker,
                                  ![r].st = IF @ = "CANCELLED" THEN @ ELSE s]

PickUp(r, w) ==
    /\ up[w] /\ run[r].pc = "queued" /\ run[r].st = "SCHEDULED"
    /\ Cardinality({q \in Runs : run[q].host = w}) < Concurrency
    /\ run' = [run EXCEPT ![r].st = "PENDING", ![r].pc = "launch", ![r].host = w]
    /\ LET d == run[r].doc IN
       met' = met \cup {{d, run[q].doc} : q \in {p \in Runs : /\ Executing(p)
                                                          /\ run[p].doc \in {d} \cup Peers(d)}}
                  \cup (IF del[d].pc \in {"object", "row"} THEN {{d}} ELSE {})
    /\ UNCHANGED <<row, index, taken, bucket, lost, mentions, bg, re, del, up, beat, cool, sweep, left>>

(* bump_document_attempts: one UPDATE that also touches updated_at. *)
Launch(r) ==
    /\ At(r, "launch") /\ run[r].st = "PENDING"
    /\ run' = [run EXCEPT ![r].st = "RUNNING", ![r].pc = "fetch"]
    /\ row' = IF Exists(run[r].doc) THEN [row EXCEPT ![run[r].doc].stale = FALSE] ELSE row
    /\ UNCHANGED <<index, taken, bucket, lost, mentions, bg, re, del, up, beat, cool, sweep, left, met>>

(* That UPDATE fails outside the flow's try block: the row learns nothing. *)
LaunchFails(r) ==
    /\ At(r, "launch") /\ run[r].st = "PENDING"
    /\ Spend("fault")
    /\ Ended(r, "FAILED")
    /\ UNCHANGED <<row, index, taken, bucket, lost, mentions, bg, re, del, up, beat, cool, sweep, met>>

(* A cancelled run never starts; one already executing may or may not be stopped. *)
CancelStops(r) ==
    /\ Executing(r) /\ run[r].st = "CANCELLED"
    /\ run' = [run EXCEPT ![r].host = NoWorker]
    /\ UNCHANGED <<row, index, taken, bucket, lost, mentions, bg, re, del, up, beat, cool, sweep, left, met>>

FetchBegin(r) ==
    /\ At(r, "fetch")
    /\ SetStatus(run[r].doc, "fetching")
    /\ Advance(r, "load")
    /\ UNCHANGED <<index, taken, bucket, lost, mentions, bg, re, del, up, beat, cool, sweep, left, met>>

(* Mutant: the row-gone check is dropped and the run goes on. *)
FetchNoRow_Unchecked(r) ==
    /\ At(r, "load") /\ ~Exists(run[r].doc)
    /\ Advance(r, "store")
    /\ UNCHANGED <<row, index, taken, bucket, lost, mentions, bg, re, del, up, beat, cool, sweep, left, met>>

(* The row is gone: a clean no-op exit. *)
FetchNoRow(r) ==
    /\ At(r, "load") /\ ~Exists(run[r].doc)
    /\ Ended(r, "COMPLETED")
    /\ UNCHANGED <<row, index, taken, bucket, lost, mentions, bg, re, del, up, beat, cool, sweep, left, met>>

(* Mutant: the key is recorded without the upload. *)
FetchLoad_NoUpload(r) ==
    LET d == run[r].doc IN
    /\ At(r, "load") /\ Exists(d)
    /\ Advance(r, IF DuplicatesOf(d) # {} THEN "skip" ELSE "record")
    /\ UNCHANGED <<row, index, taken, bucket, lost, mentions, bg, re, del, up, beat, cool, sweep, left, met>>

(* Read the row, acquire the source (the durable copy when the row names one), *)
(* hash it and look for a duplicate.                                           *)
FetchLoad(r) ==
    LET d == run[r].doc IN
    /\ At(r, "load") /\ Exists(d)
    /\ row[d].key \in Docs => row[d].key \in bucket
    /\ Advance(r, IF DuplicatesOf(d) # {} THEN "skip" ELSE "store")
    /\ UNCHANGED <<row, index, taken, bucket, lost, mentions, bg, re, del, up, beat, cool, sweep, left, met>>

FetchSkip(r) ==
    /\ At(r, "skip")
    /\ LET d == run[r].doc IN
       row' = IF Exists(d) THEN [row EXCEPT ![d].st = "skipped", ![d].hash = TRUE,
                                            ![d].stale = FALSE] ELSE row
    /\ Ended(r, "COMPLETED")
    /\ UNCHANGED <<index, taken, bucket, lost, mentions, bg, re, del, up, beat, cool, sweep, left, met>>

FetchStore(r) ==
    /\ At(r, "store")
    /\ bucket' = bucket \cup {run[r].doc} /\ lost' = lost \ {run[r].doc}
    /\ Advance(r, "record")
    /\ UNCHANGED <<row, index, taken, mentions, bg, re, del, up, beat, cool, sweep, left, met>>

(* Mutant: the hash is not part of the merged write. *)
FetchRecord_NoHash(r) ==
    /\ At(r, "record")
    /\ LET d == run[r].doc IN
       row' = IF Exists(d) THEN [row EXCEPT ![d].st = "fetching", ![d].key = d,
                                            ![d].stale = FALSE] ELSE row
    /\ NextTask(r, "parse")
    /\ UNCHANGED <<index, taken, bucket, lost, mentions, bg, re, del, up, beat, cool, sweep, left, met>>

FetchRecord(r) ==
    /\ At(r, "record")
    /\ LET d == run[r].doc IN
       row' = IF Exists(d) THEN [row EXCEPT ![d].st = "fetching", ![d].hash = TRUE,
                                            ![d].key = d, ![d].stale = FALSE] ELSE row
    /\ NextTask(r, "parse")
    /\ UNCHANGED <<index, taken, bucket, lost, mentions, bg, re, del, up, beat, cool, sweep, left, met>>

(* Mutant: both status writes of t_parse were dropped as redundant. *)
Parse_NoStatus(r) ==
    /\ At(r, "parse")
    /\ Advance(r, "parsed")
    /\ UNCHANGED <<row, index, taken, bucket, lost, mentions, bg, re, del, up, beat, cool, sweep, left, met>>

Parse(r) ==
    /\ At(r, "parse")
    /\ SetStatus(run[r].doc, "parsing")
    /\ Advance(r, "parsed")
    /\ UNCHANGED <<index, taken, bucket, lost, mentions, bg, re, del, up, beat, cool, sweep, left, met>>

(* Some content was extracted; captioning changes only the text of a chunk and never fails. *)
Caption(r) ==
    /\ At(r, "parsed")
    /\ NextTask(r, "embed")
    /\ UNCHANGED <<row, index, taken, bucket, lost, mentions, bg, re, del, up, beat, cool, sweep, left, met>>

EmbedBegin(r) ==
    /\ At(r, "embed")
    /\ SetStatus(run[r].doc, "embedding")
    /\ Advance(r, "purge")
    /\ UNCHANGED <<index, taken, bucket, lost, mentions, bg, re, del, up, beat, cool, sweep, left, met>>

(* Mutant: the status flips before the upsert. *)
EmbedPurge_FlipFirst(r) ==
    /\ At(r, "purge")
    /\ index' = index \ {run[r].doc}
    /\ Advance(r, "flip")
    /\ UNCHANGED <<row, taken, bucket, lost, mentions, bg, re, del, up, beat, cool, sweep, left, met>>

(* delete_document_chunks swallows its errors here. *)
EmbedPurge(r) ==
    /\ At(r, "purge")
    /\ \/ index' = index \ {run[r].doc} /\ UNCHANGED left
       \/ UNCHANGED index /\ Spend("fault")
    /\ Advance(r, "upsert")
    /\ UNCHANGED <<row, taken, bucket, lost, mentions, bg, re, del, up, beat, cool, sweep, met>>

Put(d) == index' = index \cup {d} /\ taken' = taken \ {d}

EmbedUpsert(r) ==
    /\ At(r, "upsert")
    /\ Put(run[r].doc)
    /\ Advance(r, "flip")
    /\ UNCHANGED <<row, bucket, lost, mentions, bg, re, del, up, beat, cool, sweep, left, met>>

EmbedFlip(r) ==
    /\ At(r, "flip")
    /\ SetStatus(run[r].doc, "indexed")
    /\ Advance(r, "graph")
    /\ UNCHANGED <<index, taken, bucket, lost, mentions, bg, re, del, up, beat, cool, sweep, left, met>>

(* The guarded graph write, whose failure is swallowed, and the flow's return. *)
RecordMentions(r) ==
    /\ At(r, "graph")
    /\ \/ mentions' = mentions \cup {run[r].doc} /\ UNCHANGED left
       \/ UNCHANGED mentions /\ Spend("fault")
    /\ Ended(r, "COMPLETED")
    /\ UNCHANGED <<row, index, taken, bucket, lost, bg, re, del, up, beat, cool, sweep, met>>

(* An exception inside a task.  An upsert that raises may have been applied. *)
Retries(p)   == IF p \in ParseSteps THEN 1 ELSE 2
TaskStart(p) == IF p \in FetchSteps THEN "fetch" ELSE IF p \in ParseSteps THEN "parse" ELSE "embed"

Raises(r) ==
    /\ Executing(r) /\ run[r].pc \in TaskSteps
    /\ \/ Spend("fault")
       \/ /\ run[r].pc = "load" /\ row[run[r].doc].key \in {File} \cup (Docs \ bucket)
          /\ UNCHANGED left   \* the object the row names is not there
    /\ \/ UNCHANGED <<index, taken>>
       \/ run[r].pc = "upsert" /\ Put(run[r].doc)

TaskRetry(r) ==
    /\ Raises(r)
    /\ run[r].try < Retries(run[r].pc)
    /\ run' = [run EXCEPT ![r].pc = TaskStart(@), ![r].try = @ + 1]
    /\ UNCHANGED <<row, bucket, lost, mentions, bg, re, del, up, beat, cool, sweep, met>>

(* Retries exhausted: the flow's except clause marks the row, unless the     *)
(* database is what failed, and Prefect marks the run.                       *)
FlowFails(r) ==
    /\ Raises(r)
    /\ run[r].try >= Retries(run[r].pc)
    /\ SetStatus(run[r].doc, "failed") \/ UNCHANGED row
    /\ Ended(r, "FAILED")
    /\ UNCHANGED <<bucket, lost, mentions, bg, re, del, up, beat, cool, sweep, met>>

-----------------------------------------------------------------------------
(* The worker process, its heartbeat, and time.                            *)

(* SIGKILL: Prefect keeps reporting PENDING or RUNNING for its runs. *)
WorkerCrash(w) ==
    /\ up[w]
    /\ Spend("crash")
    /\ up' = [up EXCEPT ![w] = FALSE]
    /\ run' = [r \in Runs |-> IF run[r].host = w THEN [run[r] EXCEPT !.host = NoWorker]
                              ELSE run[r]]
    /\ cool' = [cool EXCEPT ![w] = {}]
    /\ sweep' = [sweep EXCEPT ![w] = [pc |-> "idle", todo |-> {}, doc |-> NoDoc, run |-> NoRun]]
    /\ UNCHANGED <<row, index, taken, bucket, lost, mentions, bg, re, del, beat, met>>

WorkerRestart(w) ==
    /\ ~up[w]
    /\ up' = [up EXCEPT ![w] = TRUE]
    /\ UNCHANGED <<row, run, index, taken, bucket, lost, mentions, bg, re, del, beat, cool, sweep, left, met>>

Beat(w) ==
    /\ up[w] /\ ~beat
    /\ beat' = TRUE
    /\ UNCHANGED <<row, run, index, taken, bucket, lost, mentions, bg, re, del, up, cool, sweep, left, met>>

(* The key outlives its worker by up to HEARTBEAT_TTL_S. *)
BeatExpires ==
    /\ beat /\ (CacheMayFail \/ \A w \in Workers : ~up[w])
    /\ beat' = FALSE
    /\ UNCHANGED <<row, run, index, taken, bucket, lost, mentions, bg, re, del, up, cool, sweep, left, met>>

(* Somebody still works on the row, or will: a run queued or executing, a handler, a sweep. *)
Attended(d) ==
    \/ \E r \in RunsOf(d) : Executing(r) \/ run[r].st = "SCHEDULED"
    \/ bg[d].pc # "idle" \/ re[d].pc # "idle" \/ del[d].pc \in {"object", "row"}
    \/ \E w \in Workers : sweep[w].doc = d

(* updated_at falls RECONCILE_STALE_AFTER_S behind. *)
Age(d) ==
    /\ row[d].st \in Active /\ ~row[d].stale
    /\ HealthyGoesStale \/ ~Attended(d)
    /\ row' = [row EXCEPT ![d].stale = TRUE]
    /\ UNCHANGED <<run, index, taken, bucket, lost, mentions, bg, re, del, up, beat, cool, sweep, left, met>>

CooldownExpires(w, d) ==
    /\ d \in cool[w]
    /\ cool' = [cool EXCEPT ![w] = @ \ {d}]
    /\ UNCHANGED <<row, run, index, taken, bucket, lost, mentions, bg, re, del, up, beat, sweep, left, met>>

(* Ingesting or deleting a video of tenant u empties the text collection of all u's *)
(* documents: delete_video's filter matches them too (VideoIngest).                 *)
VideoPurge(u) ==
    /\ VideoPurges
    /\ Take({d \in Docs : Owner[d] = u})
    /\ UNCHANGED <<row, run, bucket, lost, mentions, bg, re, del, up, beat, cool, sweep, left, met>>

-----------------------------------------------------------------------------
(* reconciler.reconcile_once, one copy per worker.                         *)

StaleRows == {[doc |-> d, st |-> row[d].st, flow |-> row[d].flow] :
                d \in {e \in Docs : row[e].st \in Active /\ row[e].stale}}

(* Mutant: Prefect's RUNNING is believed. *)
FlowRunDead_TrustsRunning(r) ==
    /\ r # NoRun
    /\ run[r].st \notin {"COMPLETED", "RUNNING"}
    /\ ~(run[r].st = "SCHEDULED" /\ beat)

FlowRunDead(r) ==
    /\ r # NoRun
    /\ run[r].st # "COMPLETED"
    /\ ~(run[r].st = "SCHEDULED" /\ beat)

(* c is the row as the sweep's first query read it. *)
Restartable(w, c) ==
    /\ c.doc \notin cool[w]
    /\ \/ c.st = "pending" /\ c.flow = NoRun
       \/ FlowRunDead(c.flow)

SweepBegin(w) ==
    /\ up[w] /\ sweep[w].pc = "idle" /\ StaleRows # {}
    /\ sweep' = [sweep EXCEPT ![w] = [pc |-> "loop", todo |-> StaleRows,
                                      doc |-> NoDoc, run |-> NoRun]]
    /\ UNCHANGED <<row, run, index, taken, bucket, lost, mentions, bg, re, del, up, beat, cool, left, met>>

(* Passed over: cooling down, not dead, or Prefect could not be asked this tick. *)
SweepPass(w) ==
    /\ sweep[w].pc = "loop"
    /\ \E c \in sweep[w].todo :
         /\ \/ ~Restartable(w, c) /\ UNCHANGED left
            \/ c.flow # NoRun /\ Spend("fault")
         /\ sweep' = [sweep EXCEPT ![w].todo = @ \ {c}]
    /\ UNCHANGED <<row, run, index, taken, bucket, lost, mentions, bg, re, del, up, beat, cool, met>>

(* Mutant: the row under repair is not remembered. *)
SweepCondemn_Forgets(w) ==
    /\ sweep[w].pc = "loop"
    /\ \E c \in sweep[w].todo :
         /\ Restartable(w, c)
         /\ sweep' = [sweep EXCEPT ![w].pc = "reset", ![w].todo = @ \ {c}]
    /\ UNCHANGED <<row, run, index, taken, bucket, lost, mentions, bg, re, del, up, beat, cool, left, met>>

SweepCondemn(w) ==
    /\ sweep[w].pc = "loop"
    /\ \E c \in sweep[w].todo :
         /\ Restartable(w, c)
         /\ sweep' = [sweep EXCEPT ![w].pc = "reset", ![w].todo = @ \ {c}, ![w].doc = c.doc]
    /\ UNCHANGED <<row, run, index, taken, bucket, lost, mentions, bg, re, del, up, beat, cool, left, met>>

SweepReset(w) ==
    /\ sweep[w].pc = "reset"
    /\ SetStatus(sweep[w].doc, "pending")
    /\ sweep' = [sweep EXCEPT ![w].pc = "enqueue"]
    /\ UNCHANGED <<run, index, taken, bucket, lost, mentions, bg, re, del, up, beat, cool, left, met>>

SweepEnqueue(w) ==
    /\ sweep[w].pc = "enqueue"
    /\ \E r \in Runs : /\ Enqueue(sweep[w].doc, r)
                       /\ sweep' = [sweep EXCEPT ![w].pc = "record", ![w].run = r]
    /\ UNCHANGED <<row, index, taken, bucket, lost, mentions, bg, re, del, up, beat, cool, met>>

Handled(w) ==
    /\ sweep' = [sweep EXCEPT ![w].pc = "loop", ![w].doc = NoDoc, ![w].run = NoRun]
    /\ cool' = [cool EXCEPT ![w] = @ \cup {sweep[w].doc}]

SweepRecord(w) ==
    /\ sweep[w].pc = "record"
    /\ SetFlow(sweep[w].doc, sweep[w].run)
    /\ Handled(w)
    /\ UNCHANGED <<run, index, taken, bucket, lost, mentions, bg, re, del, up, beat, left, met>>

SweepRaises(w) ==
    /\ sweep[w].pc = "enqueue"
    /\ EnqueueRaises(sweep[w].doc)
    /\ SetStatus(sweep[w].doc, "failed")
    /\ Handled(w)
    /\ UNCHANGED <<index, taken, bucket, lost, mentions, bg, re, del, up, beat, met>>

SweepEnd(w) ==
    /\ sweep[w].pc = "loop" /\ sweep[w].todo = {}
    /\ sweep' = [sweep EXCEPT ![w].pc = "idle"]
    /\ UNCHANGED <<row, run, index, taken, bucket, lost, mentions, bg, re, del, up, beat, cool, left, met>>

-----------------------------------------------------------------------------
Api(d) ==
    \/ Register(d)
    \/ DispatchCheck(d) \/ DispatchEnqueue(d) \/ DispatchRecord(d) \/ DispatchRaises(d)
    \/ RetryReset(d) \/ RetryEnqueue(d) \/ RetryRecord(d) \/ RetryRaises(d)
    \/ DeletePurge(d) \/ DeletePurgeRaises(d) \/ DeleteObject(d) \/ DeleteObjectRaises(d)
    \/ DeleteRow(d) \/ DeleteCancel(d)

Progress(r) ==
    \/ Launch(r)
    \/ FetchBegin(r) \/ FetchNoRow(r) \/ FetchLoad(r)
    \/ FetchSkip(r) \/ FetchStore(r) \/ FetchRecord(r)
    \/ Parse(r) \/ Caption(r)
    \/ EmbedBegin(r) \/ EmbedPurge(r) \/ EmbedUpsert(r) \/ EmbedFlip(r)
    \/ RecordMentions(r)

Flow(r) ==
    \/ Progress(r)
    \/ LaunchFails(r) \/ TaskRetry(r) \/ FlowFails(r) \/ CancelStops(r)
    \/ \E w \in Workers : PickUp(r, w)

Reconcile(w) ==
    \/ SweepBegin(w) \/ SweepPass(w) \/ SweepCondemn(w) \/ SweepReset(w)
    \/ SweepEnqueue(w) \/ SweepRecord(w) \/ SweepRaises(w) \/ SweepEnd(w)

Worker(w) ==
    \/ Reconcile(w)
    \/ WorkerCrash(w) \/ WorkerRestart(w) \/ Beat(w)
    \/ \E d \in Docs : CooldownExpires(w, d)

Next ==
    \/ \E d \in Docs : Api(d) \/ Age(d)
    \/ \E r \in Runs : Flow(r)
    \/ \E w \in Workers : Worker(w)
    \/ ApiCrash
    \/ BeatExpires
    \/ \E d \in Docs : VideoPurge(Owner[d])

Spec == Init /\ [][Next]_vars

-----------------------------------------------------------------------------
(* Fairness: Prefect hands out queued runs and a live subprocess keeps       *)
(* executing; the worker's machine restarts it; the heartbeat, sweep and     *)
(* background-dispatch loops keep going; time passes.  Nothing is assumed of *)
(* clients, crashes or faults.                                               *)
Fairness ==
    /\ \A r \in Runs : WF_vars(Flow(r))
    /\ \A w \in Workers : /\ WF_vars(WorkerRestart(w)) /\ WF_vars(Beat(w))
                          /\ WF_vars(Reconcile(w))
                          /\ \A d \in Docs : WF_vars(CooldownExpires(w, d))
    /\ \A d \in Docs : /\ WF_vars(DispatchCheck(d) \/ DispatchEnqueue(d) \/ DispatchRecord(d))
                       /\ WF_vars(RetryEnqueue(d) \/ RetryRecord(d))
                       /\ WF_vars(DeleteObject(d) \/ DeleteRow(d) \/ DeleteCancel(d))
                       /\ WF_vars(Age(d))

FairSpec == Spec /\ Fairness

-----------------------------------------------------------------------------
(* Properties.                                                             *)

(* Every variable stays in its range. *)
RowType    == row \in [Docs -> Rows]
RunType    == /\ run \in [Runs -> RunRecords]
              /\ \A r \in Runs : run[r].pc # "none" => run[r].doc \in Docs
StoreType  == /\ index \subseteq Docs /\ bucket \subseteq Docs /\ mentions \subseteq Docs
              /\ taken \subseteq Docs /\ lost \subseteq Docs /\ met \subseteq SUBSET Docs
DispatchType == bg \in [Docs -> [pc: {"idle", "check", "enqueue", "record"}, run: Runs \cup {NoRun}]]
RetryType  == re \in [Docs -> [pc: {"idle", "enqueue", "record"}, run: Runs \cup {NoRun}]]
DeleteType == del \in [Docs -> [pc: {"idle", "object", "row", "cancel"},
                                key: Keys, flow: Runs \cup {NoRun}]]
WorkerType == up \in [Workers -> BOOLEAN] /\ beat \in BOOLEAN /\ cool \in [Workers -> SUBSET Docs]
SweepType  == /\ sweep \in [Workers -> [pc: {"idle", "loop", "reset", "enqueue", "record"},
                                        todo: SUBSET Candidates, doc: Docs \cup {NoDoc},
                                        run: Runs \cup {NoRun}]]
              /\ \A w \in Workers : sweep[w].pc \in {"reset", "enqueue", "record"} => sweep[w].doc \in Docs
LeftType   == left \in [{"fault", "crash", "api", "retry", "delete"} -> Nat]

TypeOK ==
    /\ RowType /\ RunType /\ StoreType
    /\ DispatchType /\ RetryType /\ DeleteType
    /\ WorkerType /\ SweepType /\ LeftType

(* Whatever crashes, retries and sweeps happened, a document the client is     *)
(* told is indexed has its chunks in Qdrant: status flips after the upsert, and *)
(* every run that would purge first takes the row out of 'indexed'              *)
(* (doc_pipeline.t_fetch, t_embed_index).  Excused is a document whose runs, or *)
(* a run and a DELETE of it, were ever at work at the same time, and, until its *)
(* next upsert, one whose chunks somebody else took: a DELETE that purged and   *)
(* did not get to the row, or the purge of one of its tenant's videos.          *)
IndexedSearchable ==
    \A d \in Docs : row[d].st = "indexed" /\ {d} \notin met /\ d \notin taken => d \in index

(* Unless two runs of it, or a run and its DELETE, were at work at once, a    *)
(* deleted document leaves no chunks behind: a run that starts after the      *)
(* DELETE finds no row and writes nothing.                                    *)
DeletedUnsearchable ==
    \A d \in Docs : row[d].st = "deleted" /\ {d} \notin met => d \notin index

(* Two copies of one tenant's content are both indexed only if their runs     *)
(* overlapped: run after run, the hash check of t_fetch catches the second,   *)
(* through every crash, retry and restart.                                    *)
DuplicatesCaught ==
    \A d \in Docs : \A e \in Peers(d) :
        row[d].st = "indexed" /\ row[e].st = "indexed" => {d, e} \in met

(* A row names its own durable copy only once the copy was stored, and then  *)
(* it is there until a DELETE removes it: t_fetch uploads before it records  *)
(* the key.  The DELETE need not be the document's own (another document of  *)
(* the tenant may have been registered by naming this copy), and the excuse  *)
(* ends when the copy is stored again.                                       *)
DurableCopy == \A d \in Docs : row[d].key = d => d \in bucket \cup lost

(* Without overlap no step of anyone skips a stage of the documented          *)
(* lifecycle: 'parsing' follows 'fetching', 'embedding' follows 'parsing',    *)
(* 'indexed' follows 'embedding', and a settled document goes back through    *)
(* 'pending' or 'fetching' (doc_pipeline's stage order).  A new run may start *)
(* from any status, and a row that a retry or sweep set to 'pending' or       *)
(* 'failed' under a still-executing run may take any status from that run.    *)
LegalNext(s) ==
    {s, "pending", "fetching", "failed"} \cup
    CASE s = "fetching"  -> {"parsing", "skipped"}
      [] s = "parsing"   -> {"embedding"}
      [] s = "embedding" -> {"indexed"}
      [] s \in {"indexed", "skipped"} -> {}
      [] OTHER           -> Active \cup Settled

LifecycleOrder ==
    [][\A d \in Docs : Exists(d) /\ Exists(d)' /\ {d} \notin met' => row'[d].st \in LegalNext(row[d].st)]_vars

(* Every document ends up settled or deleted: none stays in an active status  *)
(* for ever (reconcile_once).                                                 *)
NoDocumentLost == \A d \in Docs : <>[](row[d].st \notin Active)

(* Nobody is left who could still repair the document. *)
Quiet(d) == ~Attended(d) /\ del[d].pc = "idle"

(* The same claims as the source states them, with no proviso.              *)
NoFalsePositive  == \A d \in Docs : row[d].st = "indexed" /\ Quiet(d) => d \in index
NoOrphanedChunks == \A d \in Docs : row[d].st = "deleted" /\ Quiet(d) => d \notin index

-----------------------------------------------------------------------------
(* What makes the safety properties inductive.                             *)

Checked == TaskSteps \ {"fetch", "load", "skip"}   \* the row was there, and no duplicate
Hashed  == ParseSteps \cup EmbedSteps              \* the hash and the key are recorded

(* A document nobody registered is unknown to everyone. *)
Known ==
    \A d \in Docs : row[d].st = "unregistered" =>
        /\ bg[d].pc = "idle" /\ re[d].pc = "idle" /\ del[d].pc = "idle" /\ row[d].key = NoKey
        /\ \A r \in Runs : run[r].doc # d
        /\ \A w \in Workers : sweep[w].doc # d /\ \A c \in sweep[w].todo : c.doc # d

(* Only a run that was picked up executes, and 'met' remembers each overlap. *)
Placed == \A r \in Runs : Executing(r) => run[r].pc \in TaskSteps \cup {"launch", "graph"}

Overlaps ==
    /\ \A r, q \in Runs :
          r # q /\ Executing(r) /\ Executing(q) /\ run[q].doc \in {run[r].doc} \cup Peers(run[r].doc)
          => {run[r].doc, run[q].doc} \in met
    /\ \A r \in Runs : Executing(r) /\ del[run[r].doc].pc \in {"object", "row"} => {run[r].doc} \in met

(* A run past its first write has taken the row out of 'indexed'; past the   *)
(* row check, the row exists; past the upsert, the chunks do.                *)
Alone(r) == Executing(r) /\ {run[r].doc} \notin met

RunOwnsRow ==
    \A r \in Runs : Alone(r) =>
        /\ run[r].pc \in TaskSteps \ {"fetch"} => row[run[r].doc].st # "indexed"
        /\ run[r].pc \in Checked => Exists(run[r].doc)
        /\ run[r].pc = "flip" => run[r].doc \in index \cup taken

DeletePurged ==
    \A d \in Docs : /\ del[d].pc \in {"object", "row"} /\ {d} \notin met => d \notin index
                    /\ del[d].pc = "cancel" => row[d].st = "deleted"

(* The duplicate check compares recorded hashes, so they must be recorded. *)
HashRecorded ==
    /\ \A d \in Docs : row[d].st = "indexed" => row[d].hash
    /\ \A r \in Runs : /\ Executing(r) /\ run[r].pc \in Hashed /\ Exists(run[r].doc)
                          => row[run[r].doc].hash
                       /\ Executing(r) /\ run[r].pc = "record" => run[r].doc \in bucket \cup lost

NoIndexedPeer ==
    \A r \in Runs : Executing(r) /\ run[r].pc \in Checked =>
        \A d \in Peers(run[r].doc) : {d, run[r].doc} \notin met => row[d].st # "indexed"

Strengthening ==
    /\ Known /\ Placed /\ Overlaps /\ RunOwnsRow /\ DeletePurged
    /\ HashRecorded /\ NoIndexedPeer

SafetyInv == IndexedSearchable /\ DeletedUnsearchable /\ DuplicatesCaught /\ DurableCopy

IndInv == TypeOK /\ Strengthening /\ SafetyInv

=============================================================================
