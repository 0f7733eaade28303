---------------------------- MODULE VideoIngest ----------------------------
(***************************************************************************)
(* The life of a video: the API that registers, retries and deletes it,    *)
(* the fair dispatcher in every worker that admits pending rows to         *)
(* Prefect, and the runs that ingest them.  ENABLE_FAIR_DISPATCH is on,    *)
(* its default.  Every database statement, object-store call, Qdrant call  *)
(* and Prefect call that changes state is a step of its own.               *)
(*                                                                         *)
(* Left out: progress, titles, counts and error texts of the row, scratch  *)
(* files, the one-hour flow timeout, and uploads over the size limit.      *)
(***************************************************************************)
EXTENDS Naturals, FiniteSets, FiniteSetsExt

CONSTANTS
    Videos,        \* video ids, as numbers in the order Postgres sorts the ids
    Uploads,       \* those with an up_ id; the others are YouTube videos
    Users,         \* tenants
    Requesters,    \* [Videos -> SUBSET Users]: who submits it (one YouTube id, many tenants)
    Content,       \* [Videos -> hash]: sha256 of an upload, the id of a YouTube video
    Readers,       \* tenants that also index papers or decks
    Workers,       \* worker processes, each with its own dispatcher thread
    NoUser, NoVideo, NoWorker,
    MaxInflight,   \* DISPATCH_MAX_INFLIGHT
    Concurrency,   \* WORKER_CONCURRENCY
    MaxRuns,       \* bound: Prefect runs ever created
    MaxRegisters,  \* bound: accepted registrations
    MaxRetries,    \* bound: retry requests
    MaxDeletes,    \* bound: DELETE requests
    MaxFaults,     \* bound: remote calls that raise
    MaxCrashes     \* bound: worker crashes

ASSUME VideoIds == Videos \subseteq Nat /\ Uploads \subseteq Videos
ASSUME Finite == IsFiniteSet(Videos) /\ IsFiniteSet(Workers)
ASSUME NoValues == NoUser \notin Users /\ NoVideo \notin Videos /\ NoWorker \notin Workers
ASSUME Bounds ==
    {MaxInflight, Concurrency, MaxRuns, MaxRegisters, MaxRetries, MaxDeletes,
     MaxFaults, MaxCrashes} \subseteq Nat

VARIABLES
    row,       \* ms_videos: status, user_id, whether source_hash is set, created_at
    files,     \* uploads whose object is in the bucket
    thumbs,    \* <<user, video>> pairs with thumbnails in the bucket
    frames,    \* [Videos -> user_id of its points in the visual collection]
    captions,  \* [Videos -> user_id of its transcript points in the text collection]
    docs,      \* tenants with paper or deck chunks in that same text collection
    run,       \* the runs Prefect knows and the positions of the processes executing them
    disp,      \* per worker: where dispatch_once is
    del,       \* DELETE request in progress
    up,        \* workers that are running
    left,      \* what remains of each bound
    disturbed, \* history: videos a request reset or removed while they were being handled,
               \* that were handed out in the middle of a DELETE, or that Prefect accepted twice
    passed,    \* history: [u -> [x -> admissions of x since u has been waiting]]
    taken,     \* history: videos a DELETE took frames or thumbnails from since their last upsert
    missed     \* history: <<collection, u, v>> whose purge by the last DELETE was swallowed

stores == <<files, thumbs, frames, captions, docs>>
history == <<taken, missed>>
vars == <<row, stores, run, disp, del, up, left, disturbed, passed, history>>

-----------------------------------------------------------------------------
Runs    == 1 .. MaxRuns

(* config.INFLIGHT_STATUSES. *)
Inflight == {"queued", "fetching", "sampling", "embedding"}
Settled == {"indexed", "skipped", "failed"}

FetchSteps  == {"fetch", "load", "hash", "check", "skip"}
SampleSteps == {"sample", "clear", "put"}
EmbedSteps  == {"embed", "purge", "purgetext", "upsert", "flip"}
TaskSteps   == FetchSteps \cup SampleSteps \cup EmbedSteps \cup {"captions", "transcript"}

NoRow == [st |-> "absent", owner |-> NoUser, hash |-> FALSE, born |-> 0]
Rows  == [st: {"absent", "pending"} \cup Inflight \cup Settled, owner: Users \cup {NoUser},
          hash: BOOLEAN, born: 0 .. MaxRegisters]
Claims == [vid: Videos, user: Users]
RunRecords == [vid: Videos \cup {NoVideo}, user: Users \cup {NoUser},
               pc: {"none", "queued", "launch", "done"} \cup TaskSteps,
               try: 0 .. 2, host: Workers \cup {NoWorker}]

Exists(v)    == row[v].st # "absent"
Pending      == {v \in Videos : row[v].st = "pending"}
InFlight     == {v \in Videos : row[v].st \in Inflight}
Executing(r) == run[r].host # NoWorker
LiveRuns(v)  == {r \in Runs : run[r].vid = v /\ (run[r].pc = "queued" \/ Executing(r))}
Holders(v)   == {w \in Workers : \E c \in disp[w].claims : c.vid = v}

(* Somebody handles v: a dispatcher that claimed it, or a run of it. *)
Handled(v) == Holders(v) # {} \/ LiveRuns(v) # {}

Spend(b) == left[b] > 0 /\ left' = [left EXCEPT ![b] = @ - 1]

(* Mutant: the status write inserts a missing row. *)
SetStatus_Upserts(v, s) == row' = [row EXCEPT ![v].st = s]

(* db.set_status matches no row once it is deleted. *)
SetStatus(v, s) == row' = IF Exists(v) THEN [row EXCEPT ![v].st = s] ELSE row

(* db.find_duplicate, for the tenant the run was scheduled for. *)
DuplicatesOf(v, u) ==
    {x \in Videos \ {v} : /\ row[x].owner = u /\ row[x].st = "indexed"
                          /\ row[x].hash /\ Content[x] = Content[v]}

Idle == [pc |-> "idle", slots |-> 0, ids |-> {}, claims |-> {}]

Init ==
    /\ row = [v \in Videos |-> NoRow]
    /\ files = Uploads   \* clients PUT the object before they register it
    /\ thumbs = {}
    /\ frames = [v \in Videos |-> NoUser] /\ captions = [v \in Videos |-> NoUser]
    /\ docs = {}
    /\ run = [r \in Runs |-> [vid |-> NoVideo, user |-> NoUser, pc |-> "none",
                              try |-> 0, host |-> NoWorker]]
    /\ disp = [w \in Workers |-> Idle]
    /\ del = [v \in Videos |-> [pc |-> "idle", user |-> NoUser]]
    /\ up = [w \in Workers |-> TRUE]
    /\ left = [register |-> MaxRegisters, retry |-> MaxRetries, delete |-> MaxDeletes,
               fault |-> MaxFaults, crash |-> MaxCrashes]
    /\ disturbed = {}
    /\ passed = [u \in Users |-> [x \in Users |-> 0]]
    /\ taken = {} /\ missed = {}

-----------------------------------------------------------------------------
(* The API.                                                                *)

Disturb(v) == disturbed' = IF Handled(v) THEN disturbed \cup {v} ELSE disturbed

(* db.upsert_pending: an id that is already there keeps its owner and created_at. *)
Register(v, u) ==
    /\ u \in Requesters[v]
    /\ v \in Uploads => v \in files
    /\ Spend("register")
    /\ row' = [row EXCEPT ![v] =
                 IF Exists(v) THEN [row[v] EXCEPT !.st = "pending", !.hash = row[v].hash \/ v \notin Uploads]
                 ELSE [st |-> "pending", owner |-> u, hash |-> v \notin Uploads,
                       born |-> 1 + Max({row[x].born : x \in Videos})]]
    /\ Disturb(v)
    /\ UNCHANGED <<stores, run, disp, del, up, passed, history>>

(* POST /api/videos/{id}/retry: any status may be retried. *)
Retry(v) ==
    /\ Exists(v)
    /\ Spend("retry")
    /\ SetStatus(v, "pending")
    /\ Disturb(v)
    /\ UNCHANGED <<stores, run, disp, del, up, passed, history>>

(* vector_store.delete_video: one delete per collection, whose filter also *)
(* matches the tenant's points that carry no video_id.                     *)
PurgeFrames(u, v) == frames' = [frames EXCEPT ![v] = IF @ = u THEN NoUser ELSE @]
PurgeText(u, v)   == /\ captions' = [captions EXCEPT ![v] = IF @ = u THEN NoUser ELSE @]
                     /\ docs' = docs \ {u}

(* Its errors are swallowed: the caller goes on as if the points were gone. *)
FramesSwallowed == Spend("fault") /\ UNCHANGED frames
TextSwallowed   == Spend("fault") /\ UNCHANGED <<captions, docs>>

DeleteStep(v, from, to) ==
    /\ del[v].pc = from
    /\ del' = [del EXCEPT ![v].pc = to, ![v].user = IF to = "idle" THEN NoUser ELSE @]

DeleteBegin(v) ==
    /\ del[v].pc = "idle" /\ Exists(v)
    /\ Spend("delete")
    /\ del' = [del EXCEPT ![v] = [pc |-> "frames", user |-> row[v].owner]]
    /\ Disturb(v)
    /\ UNCHANGED <<row, stores, run, disp, up, passed, history>>

DeleteFrames(v) ==
    LET u == del[v].user IN
    /\ DeleteStep(v, "frames", "text")
    /\ \/ /\ PurgeFrames(u, v)
          /\ taken' = taken \cup {v} /\ missed' = missed \ {<<"frames", u, v>>}
          /\ UNCHANGED left
       \/ /\ FramesSwallowed
          /\ missed' = missed \cup {<<"frames", u, v>>}
          /\ UNCHANGED taken
    /\ UNCHANGED <<row, files, thumbs, captions, docs, run, disp, up, disturbed, passed>>

DeleteText(v) ==
    LET u == del[v].user IN
    /\ DeleteStep(v, "text", "thumbs")
    /\ \/ PurgeText(u, v) /\ missed' = missed \ {<<"text", u, v>>} /\ UNCHANGED left
       \/ TextSwallowed /\ missed' = missed \cup {<<"text", u, v>>}
    /\ UNCHANGED <<row, files, thumbs, frames, run, disp, up, disturbed, passed, taken>>

(* Mutant: only an upload has anything in the bucket. *)
DeleteThumbs_Uploads(v) ==
    /\ DeleteStep(v, "thumbs", IF v \in Uploads THEN "file" ELSE "row")
    /\ thumbs' = IF v \in Uploads THEN thumbs \ {<<del[v].user, v>>} ELSE thumbs
    /\ taken' = taken \cup {v}
    /\ UNCHANGED <<row, files, frames, captions, docs, run, disp, up, left, disturbed, passed, missed>>

DeleteThumbs(v) ==
    /\ DeleteStep(v, "thumbs", IF v \in Uploads THEN "file" ELSE "row")
    /\ thumbs' = thumbs \ {<<del[v].user, v>>}
    /\ taken' = taken \cup {v}
    /\ UNCHANGED <<row, files, frames, captions, docs, run, disp, up, left, disturbed, passed, missed>>

DeleteFile(v) ==
    /\ DeleteStep(v, "file", "row")
    /\ files' = files \ {v}
    /\ UNCHANGED <<row, thumbs, frames, captions, docs, run, disp, up, left, disturbed, passed, history>>

DeleteRow(v) ==
    /\ DeleteStep(v, "row", "idle")
    /\ row' = [row EXCEPT ![v] = NoRow]
    /\ Disturb(v)
    /\ UNCHANGED <<stores, run, disp, up, left, passed, history>>

(* An object-store or database error, or the death of the API process, ends the *)
(* request where it is: what it has taken is gone, the row is still there.  A   *)
(* call that was applied before it raised is the step before.                   *)
DeleteRaises(v) ==
    /\ del[v].pc # "idle"
    /\ Spend("fault")
    /\ DeleteStep(v, del[v].pc, "idle")
    /\ UNCHANGED <<row, stores, run, disp, up, disturbed, passed, history>>

(* A paper or deck of the tenant is ingested (module DocIngest). *)
IndexDocument(u) ==
    /\ u \in Readers \ docs
    /\ docs' = docs \cup {u}
    /\ UNCHANGED <<row, files, thumbs, frames, captions, run, disp, del, up, left, disturbed, passed, history>>

-----------------------------------------------------------------------------
(* dispatcher.dispatch_once: count, select, update, then one Prefect call a row. *)

(* The place of v among its owner's pending videos, oldest first. *)
Older(x, v) == row[x].born < row[v].born \/ (row[x].born = row[v].born /\ x < v)
Rank(v) == Cardinality({x \in Pending : row[x].owner = row[v].owner /\ Older(x, v)})

Before(x, v) == Rank(x) < Rank(v) \/ (Rank(x) = Rank(v) /\ x < v)
Picked(limit) == {v \in Pending : Cardinality({x \in Pending : Before(x, v)}) < limit}

(* Mutant: every tick hands out a full round. *)
DispatchCount_FullRound(w) ==
    /\ up[w] /\ disp[w].pc = "idle"
    /\ disp' = [disp EXCEPT ![w].pc = "select", ![w].slots = MaxInflight]
    /\ UNCHANGED <<row, stores, run, del, up, left, disturbed, passed, history>>

DispatchCount(w) ==
    /\ up[w] /\ disp[w].pc = "idle"
    /\ Cardinality(InFlight) < MaxInflight
    /\ disp' = [disp EXCEPT ![w].pc = "select", ![w].slots = MaxInflight - Cardinality(InFlight)]
    /\ UNCHANGED <<row, stores, run, del, up, left, disturbed, passed, history>>

DispatchSelect(w) ==
    /\ disp[w].pc = "select"
    /\ disp' = [disp EXCEPT ![w] =
                  IF Pending = {} THEN Idle
                  ELSE [pc |-> "update", slots |-> @.slots, ids |-> Picked(@.slots), claims |-> {}]]
    /\ UNCHANGED <<row, stores, run, del, up, left, disturbed, passed, history>>

(* History: a tenant that is waiting and gets nothing counts what others get. *)
Passes(won) ==
    passed' = [u \in Users |-> [x \in Users |->
                 LET got(y) == Cardinality({v \in won : row[v].owner = y}) IN
                 IF got(u) > 0 \/ \A v \in Pending : row[v].owner # u THEN 0
                 ELSE Min({passed[u][x] + got(x), 2})]]

Claim(w, won) ==
    /\ disp[w].pc = "update"
    /\ row' = [v \in Videos |-> IF v \in won THEN [row[v] EXCEPT !.st = "queued"] ELSE row[v]]
    /\ disp' = [disp EXCEPT ![w] =
                  IF won = {} THEN Idle
                  ELSE [pc |-> "enqueue", slots |-> 0, ids |-> {},
                        claims |-> {[vid |-> v, user |-> row[v].owner] : v \in won}]]
    /\ Passes(won)
    /\ disturbed' = disturbed \cup {v \in won : del[v].pc # "idle"}
    /\ UNCHANGED <<stores, run, del, up, left, history>>

(* Mutant: the UPDATE trusts the SELECT before it. *)
DispatchClaim_Unguarded(w) == Claim(w, {v \in disp[w].ids : Exists(v)})

(* UPDATE ... WHERE id = ANY(ids) AND status = 'pending' RETURNING id, user_id. *)
DispatchClaim(w) == Claim(w, disp[w].ids \cap Pending)

(* The claims still to be scheduled once c has been. *)
Rest(w, c) == IF disp[w].claims = {c} THEN Idle ELSE [disp[w] EXCEPT !.claims = @ \ {c}]

Unused(r) == run[r].pc = "none" /\ \A q \in Runs : q < r => run[q].pc # "none"
NewRun(c) == [vid |-> c.vid, user |-> c.user, pc |-> "queued", try |-> 0, host |-> NoWorker]

DispatchEnqueue(w) ==
    /\ disp[w].pc = "enqueue"
    /\ \E c \in disp[w].claims, r \in Runs :
         /\ Unused(r)
         /\ disp' = [disp EXCEPT ![w] = Rest(w, c)]
         /\ \/ /\ run' = [run EXCEPT ![r] = NewRun(c)]
               /\ UNCHANGED <<left, disturbed>>
            \/ \* the first create call lost its answer: the fallback creates a second run
               /\ r + 1 \in Runs
               /\ run' = [run EXCEPT ![r] = NewRun(c), ![r + 1] = NewRun(c)]
               /\ Spend("fault")
               /\ disturbed' = disturbed \cup {c.vid}
    /\ UNCHANGED <<row, stores, del, up, passed, history>>

(* Prefect cannot be reached, or created a run and lost the answer twice: the row   *)
(* goes back to 'pending'.  If the database is gone too, so is the rest of the list. *)
DispatchRaises(w) ==
    /\ disp[w].pc = "enqueue"
    /\ Spend("fault")
    /\ \E c \in disp[w].claims :
         /\ \/ UNCHANGED <<run, disturbed>>
            \/ \E r \in Runs : /\ Unused(r)
                               /\ run' = [run EXCEPT ![r] = NewRun(c)]
                               /\ disturbed' = disturbed \cup {c.vid}
         /\ \/ SetStatus(c.vid, "pending") /\ disp' = [disp EXCEPT ![w] = Rest(w, c)]
            \/ UNCHANGED row /\ disp' = [disp EXCEPT ![w] = Idle]
    /\ UNCHANGED <<stores, del, up, passed, history>>

-----------------------------------------------------------------------------
(* A run: a worker's subprocess executes the flow.                         *)

At(r, p)       == Executing(r) /\ run[r].pc = p
Advance(r, p)  == run' = [run EXCEPT ![r].pc = p]
NextTask(r, p) == run' = [run EXCEPT ![r].pc = p, ![r].try = 0]
Ended(r)       == run' = [run EXCEPT ![r].pc = "done", ![r].host = NoWorker]

PickUp(r, w) ==
    /\ up[w] /\ run[r].pc = "queued"
    /\ Cardinality({q \in Runs : run[q].host = w}) < Concurrency
    /\ run' = [run EXCEPT ![r].pc = "launch", ![r].host = w]
    /\ UNCHANGED <<row, stores, disp, del, up, left, disturbed, passed, history>>

(* bump_attempts changes nothing that is modelled here. *)
Launch(r) ==
    /\ At(r, "launch")
    /\ Advance(r, "fetch")
    /\ UNCHANGED <<row, stores, disp, del, up, left, disturbed, passed, history>>

(* bump_attempts fails outside the flow's try block: the row stays 'queued'. *)
LaunchFails(r) ==
    /\ At(r, "launch")
    /\ Spend("fault")
    /\ Ended(r)
    /\ UNCHANGED <<row, stores, disp, del, up, disturbed, passed, history>>

(* A step of the flow that writes the status and goes on. *)
Report(r, at, s, to) ==
    /\ At(r, at)
    /\ SetStatus(run[r].vid, s)
    /\ Advance(r, to)
    /\ UNCHANGED <<stores, disp, del, up, left, disturbed, passed, history>>

FetchBegin(r) == Report(r, "fetch", "fetching", "load")

(* get_video finds the row and the source is acquired. *)
FetchLoad(r) ==
    /\ At(r, "load") /\ Exists(run[r].vid)
    /\ run[r].vid \in Uploads => run[r].vid \in files
    /\ Advance(r, "hash")
    /\ UNCHANGED <<row, stores, disp, del, up, left, disturbed, passed, history>>

FetchHash(r) ==
    /\ At(r, "hash")
    /\ LET v == run[r].vid IN
       row' = IF Exists(v) THEN [row EXCEPT ![v].st = "fetching", ![v].hash = TRUE] ELSE row
    /\ Advance(r, "check")
    /\ UNCHANGED <<stores, disp, del, up, left, disturbed, passed, history>>

FetchCheck(r) ==
    /\ At(r, "check")
    /\ IF DuplicatesOf(run[r].vid, run[r].user) # {} THEN Advance(r, "skip")
                                                    ELSE NextTask(r, "sample")
    /\ UNCHANGED <<row, stores, disp, del, up, left, disturbed, passed, history>>

(* Mutant: the duplicate's row is left as it was. *)
FetchSkip_Silent(r) ==
    /\ At(r, "skip")
    /\ Ended(r)
    /\ UNCHANGED <<row, stores, disp, del, up, left, disturbed, passed, history>>

FetchSkip(r) ==
    /\ At(r, "skip")
    /\ SetStatus(run[r].vid, "skipped")
    /\ Ended(r)
    /\ UNCHANGED <<stores, disp, del, up, left, disturbed, passed, history>>

SampleBegin(r) == Report(r, "sample", "sampling", "clear")

SampleClear(r) ==
    /\ At(r, "clear")
    /\ thumbs' = thumbs \ {<<run[r].user, run[r].vid>>}
    /\ Advance(r, "put")
    /\ UNCHANGED <<row, files, frames, captions, docs, disp, del, up, left, disturbed, passed, history>>

SamplePut(r) ==
    /\ At(r, "put")
    /\ thumbs' = thumbs \cup {<<run[r].user, run[r].vid>>}
    /\ NextTask(r, "embed")
    /\ UNCHANGED <<row, files, frames, captions, docs, disp, del, up, left, disturbed, passed, history>>

(* Mutant: the task begins without a word. *)
EmbedBegin_Silent(r) == Report(r, "embed", row[run[r].vid].st, "purge")

EmbedBegin(r) == Report(r, "embed", "embedding", "purge")

EmbedPurge(r) ==
    /\ At(r, "purge")
    /\ (PurgeFrames(run[r].user, run[r].vid) /\ UNCHANGED left) \/ FramesSwallowed
    /\ Advance(r, "purgetext")
    /\ UNCHANGED <<row, files, thumbs, captions, docs, disp, del, up, disturbed, passed, history>>

(* Mutant: the status flips before the upsert. *)
EmbedPurgeText_FlipFirst(r) ==
    /\ At(r, "purgetext")
    /\ (PurgeText(run[r].user, run[r].vid) /\ UNCHANGED left) \/ TextSwallowed
    /\ Advance(r, "flip")
    /\ UNCHANGED <<row, files, thumbs, frames, disp, del, up, disturbed, passed, history>>

EmbedPurgeText(r) ==
    /\ At(r, "purgetext")
    /\ (PurgeText(run[r].user, run[r].vid) /\ UNCHANGED left) \/ TextSwallowed
    /\ Advance(r, "upsert")
    /\ UNCHANGED <<row, files, thumbs, frames, disp, del, up, disturbed, passed, history>>

(* Point ids are made of the video id alone: the points become this tenant's. *)
EmbedUpsert(r) ==
    /\ At(r, "upsert")
    /\ frames' = [frames EXCEPT ![run[r].vid] = run[r].user]
    /\ taken' = taken \ {run[r].vid}
    /\ Advance(r, "flip")
    /\ UNCHANGED <<row, files, thumbs, captions, docs, disp, del, up, left, disturbed, passed, missed>>

EmbedFlip(r) ==
    /\ At(r, "flip")
    /\ SetStatus(run[r].vid, "indexed")
    /\ NextTask(r, "captions")
    /\ UNCHANGED <<stores, disp, del, up, left, disturbed, passed, history>>

(* t_transcript: reads the row, then indexes the captions of a YouTube video if *)
(* there are any; whatever fails there is swallowed.                            *)
Captions(r) ==
    /\ At(r, "captions")
    /\ IF Exists(run[r].vid) /\ run[r].vid \notin Uploads THEN Advance(r, "transcript") ELSE Ended(r)
    /\ UNCHANGED <<row, stores, disp, del, up, left, disturbed, passed, history>>

Transcript(r) ==
    /\ At(r, "transcript")
    /\ \/ captions' = [captions EXCEPT ![run[r].vid] = run[r].user]
       \/ UNCHANGED captions
    /\ Ended(r)
    /\ UNCHANGED <<row, files, thumbs, frames, docs, disp, del, up, left, disturbed, passed, history>>

(* An exception inside a task: t_sample has no retries, and a call that raises *)
(* may have been applied.  Two need no fault: the row is gone, or its object.  *)
Retries(p) == IF p \in SampleSteps THEN 0 ELSE IF p = "captions" THEN 1 ELSE 2
TaskStart(p) == IF p \in FetchSteps THEN "fetch" ELSE IF p \in EmbedSteps THEN "embed" ELSE p

Raises(r) ==
    LET v == run[r].vid IN
    /\ Executing(r) /\ run[r].pc \in TaskSteps \ {"transcript"}
    /\ \/ Spend("fault")
       \/ /\ run[r].pc = "load" /\ (~Exists(v) \/ v \in Uploads \ files)
          /\ UNCHANGED left
    /\ \/ UNCHANGED <<thumbs, frames, taken>>
       \/ /\ run[r].pc = "put" /\ thumbs' = thumbs \cup {<<run[r].user, v>>}
          /\ UNCHANGED <<frames, taken>>
       \/ /\ run[r].pc = "upsert" /\ frames' = [frames EXCEPT ![v] = run[r].user]
          /\ taken' = taken \ {v}
          /\ UNCHANGED thumbs
    /\ UNCHANGED <<files, captions, docs, disp, del, up, disturbed, passed, missed>>

TaskRetry(r) ==
    /\ Raises(r)
    /\ run[r].try < Retries(run[r].pc)
    /\ run' = [run EXCEPT ![r].pc = TaskStart(@), ![r].try = @ + 1]
    /\ UNCHANGED row

(* The flow's except clause marks the row, unless the database is what failed. *)
FlowFails(r) ==
    /\ Raises(r)
    /\ run[r].try >= Retries(run[r].pc)
    /\ SetStatus(run[r].vid, "failed") \/ UNCHANGED row
    /\ Ended(r)

-----------------------------------------------------------------------------
(* The worker process.  Its claims die with it; no reconciler looks at videos. *)

WorkerCrash(w) ==
    /\ up[w]
    /\ Spend("crash")
    /\ up' = [up EXCEPT ![w] = FALSE]
    /\ disp' = [disp EXCEPT ![w] = Idle]
    /\ run' = [r \in Runs |-> IF run[r].host = w
                              THEN [run[r] EXCEPT !.pc = "done", !.host = NoWorker] ELSE run[r]]
    /\ UNCHANGED <<row, stores, del, disturbed, passed, history>>

WorkerRestart(w) ==
    /\ ~up[w]
    /\ up' = [up EXCEPT ![w] = TRUE]
    /\ UNCHANGED <<row, stores, run, disp, del, left, disturbed, passed, history>>

-----------------------------------------------------------------------------
Delete(v) ==
    \/ DeleteFrames(v) \/ DeleteText(v) \/ DeleteThumbs(v) \/ DeleteFile(v) \/ DeleteRow(v)

Dispatch(w) ==
    \/ DispatchCount(w) \/ DispatchSelect(w) \/ DispatchClaim(w)
    \/ DispatchEnqueue(w) \/ DispatchRaises(w)

Flow(r) ==
    \/ \E w \in Workers : PickUp(r, w)
    \/ Launch(r) \/ LaunchFails(r)
    \/ FetchBegin(r) \/ FetchLoad(r) \/ FetchHash(r) \/ FetchCheck(r) \/ FetchSkip(r)
    \/ SampleBegin(r) \/ SampleClear(r) \/ SamplePut(r)
    \/ EmbedBegin(r) \/ EmbedPurge(r) \/ EmbedPurgeText(r) \/ EmbedUpsert(r) \/ EmbedFlip(r)
    \/ Captions(r) \/ Transcript(r)
    \/ TaskRetry(r) \/ FlowFails(r)

Next ==
    \/ \E v \in Videos :
         \/ \E u \in Users : Register(v, u)
         \/ Retry(v) \/ DeleteBegin(v) \/ Delete(v) \/ DeleteRaises(v)
    \/ \E u \in Users : IndexDocument(u)
    \/ \E r \in Runs : Flow(r)
    \/ \E w \in Workers : Dispatch(w) \/ WorkerCrash(w) \/ WorkerRestart(w)

Spec == Init /\ [][Next]_vars

(* Fairness: the dispatcher threads tick, Prefect hands out queued runs, a    *)
(* live subprocess keeps executing, a request that began goes on, and the     *)
(* worker's machine restarts it.  Nothing is assumed of clients or faults.    *)
FairSpec ==
    /\ Spec
    /\ \A r \in Runs : WF_vars(Flow(r))
    /\ \A w \in Workers : WF_vars(Dispatch(w)) /\ WF_vars(WorkerRestart(w))
    /\ \A v \in Videos : WF_vars(Delete(v))

-----------------------------------------------------------------------------
(* Properties.                                                             *)

(* Every variable stays in its range, and a row that is absent has no owner. *)
RowType      == /\ row \in [Videos -> Rows]
                /\ \A v \in Videos : (row[v].st = "absent") = (row[v].owner = NoUser)
StoreType    == /\ files \subseteq Videos /\ thumbs \subseteq Users \X Videos /\ docs \subseteq Users
                /\ frames \in [Videos -> Users \cup {NoUser}]
                /\ captions \in [Videos -> Users \cup {NoUser}]
RunType      == run \in [Runs -> RunRecords]
DispatchType == disp \in [Workers -> [pc: {"idle", "select", "update", "enqueue"},
                                      slots: 0 .. MaxInflight, ids: SUBSET Videos,
                                      claims: SUBSET Claims]]
DeleteType   == del \in [Videos -> [pc: {"idle", "frames", "text", "thumbs", "file", "row"},
                                    user: Users \cup {NoUser}]]
OtherType    == /\ up \in [Workers -> BOOLEAN] /\ disturbed \subseteq Videos
                /\ left \in [{"register", "retry", "delete", "fault", "crash"} -> Nat]
                /\ passed \in [Users -> [Users -> 0 .. 2]]
HistoryType  == taken \subseteq Videos /\ missed \subseteq {"frames", "text"} \X Users \X Videos

TypeOK == RowType /\ StoreType /\ RunType /\ DispatchType /\ DeleteType /\ OtherType /\ HistoryType

(* However many dispatchers tick at once, and through crashes and Prefect      *)
(* outages, a video is held by one dispatcher or one run at a time, unless a   *)
(* request reset or removed it meanwhile or Prefect accepted it twice: "the    *)
(* atomic claim keeps videos handed out once" (dispatcher.py).                 *)
HandedOutOnce ==
    \A v \in Videos \ disturbed : Cardinality(Holders(v)) + Cardinality(LiveRuns(v)) <= 1

(* Under the same proviso each dispatcher over-admits by at most its own share: *)
(* one worker alone keeps DISPATCH_MAX_INFLIGHT exactly, several stay below the *)
(* sum ("at worst mildly over-admitting", dispatcher.py).                       *)
CapacityKept ==
    disturbed = {} => Cardinality(InFlight) <= MaxInflight * Cardinality(Workers)

(* An indexed video has its owner's frames in Qdrant and its owner's thumbnails *)
(* in the bucket, whatever crashed, raised, was retried or registered again     *)
(* before (pipeline.py).  Two excuses, by name: something happened to it while  *)
(* it was handled, or a DELETE that was cut short, or is still going on, took   *)
(* them; the row then says 'indexed' until the video is ingested or deleted     *)
(* again, and the next upsert ends the excuse.                                  *)
IndexedServable ==
    \A v \in Videos \ disturbed :
        row[v].st = "indexed" /\ v \notin taken
        => frames[v] = row[v].owner /\ <<row[v].owner, v>> \in thumbs

(* A video that was deleted has left nothing behind: no frames or captions a    *)
(* search could find, no thumbnails, whatever crashed, raised or was cut short  *)
(* before.  Excused are a video something happened to while it was handled,     *)
(* and the very points whose purge the last DELETE for that tenant swallowed    *)
(* (videos.delete, vector_store.delete_video).                             *)
DeletedGone ==
    \A v \in Videos \ disturbed :
        row[v].st = "absent" =>
            /\ frames[v] = NoUser \/ <<"frames", frames[v], v>> \in missed
            /\ captions[v] = NoUser \/ <<"text", captions[v], v>> \in missed
            /\ \A u \in Users : <<u, v>> \notin thumbs

(* A status moves one stage on, back to 'pending' when it could not be        *)
(* scheduled, or to 'failed'; anything else takes a request: a registration   *)
(* or a retry, or a DELETE at its last step.  Nobody else held the video.     *)
NextStage(s) ==
    {s} \cup
    CASE s = "pending"   -> {"queued"}
      [] s = "queued"    -> {"fetching", "pending", "failed"}
      [] s = "fetching"  -> {"sampling", "skipped", "failed"}
      [] s = "sampling"  -> {"embedding", "failed"}
      [] s = "embedding" -> {"indexed", "failed"}
      [] s = "indexed"   -> {"failed"}
      [] OTHER           -> {}

Asked == \E b \in {"register", "retry"} : left'[b] < left[b]

StageOrder ==
    [][\A v \in Videos \ disturbed :
         \/ row'[v].st \in NextStage(row[v].st)
         \/ row'[v].st = "pending" /\ Asked
         \/ row'[v].st = "absent" /\ del[v].pc = "row"]_vars

(* Without crashes and faults no slot leaks: every video is settled or deleted *)
(* in the end, whatever was retried, deleted or registered again meanwhile.    *)
NoVideoStuck == \A v \in Videos : <>[](row[v].st \in Settled \cup {"absent"})

(* No tenant is admitted twice while another one has been waiting all along:   *)
(* "A user who dumped 50 videos only gets one slot per round" (db.wfq_claim).  *)
(* Nobody resets a video that is being handled.                                *)
NoMonopoly == disturbed = {} => \A u \in Users : \A x \in Users \ {u} : passed[u][x] <= 1

(* In the round a tick selects the waiting tenants take turns: a tenant with    *)
(* videos left over gets at most one fewer than any other, everyone's oldest    *)
(* go first, and no slot is left empty while a video waits (db.wfq_claim).      *)
TakesTurns ==
    [][\A w \in Workers :
         disp[w].pc = "select" /\ disp'[w].pc = "update" =>
            LET won(u) == {v \in disp'[w].ids : row[v].owner = u} IN
            /\ \A v \in Pending \ disp'[w].ids :
                  /\ \A u \in Users : Cardinality(won(u)) <= Cardinality(won(row[v].owner)) + 1
                  /\ \A x \in won(row[v].owner) : row[x].born <= row[v].born
            /\ Cardinality(disp'[w].ids) < disp[w].slots => Pending \subseteq disp'[w].ids]_vars

(* Ingesting or deleting a video leaves the tenant's papers and decks alone:  *)
(* "Purge a video from BOTH branches" (vector_store.delete_video).            *)
DocumentsKept == [][docs \subseteq docs']_vars

=============================================================================
