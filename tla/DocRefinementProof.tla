------------------------- MODULE DocRefinementProof -------------------------
(***************************************************************************)
(* DocIngest implements DocPromise, and its row follows the documented     *)
(* order of stages, for every value of the constants.  Both are claims     *)
(* about steps: they are shown step by step from IndInv, the invariant     *)
(* proved in DocIngestSafety.                                              *)
(***************************************************************************)
EXTENDS DocRefinement, DocIngestSafety

-----------------------------------------------------------------------------
(* The moves of the promise, in terms of a stage and of what became of the *)
(* chunks.                                                                 *)

Allowed(s, c, s2, c2) ==
    \/ s2 = s /\ c2 = c
    \/ s = "none" /\ s2 = "working" /\ c2 = c
    \/ s \in {"working", "refused"} /\ s2 = s
    \/ s \in {"working", "refused"} /\ c # "none" /\ s2 = "ready" /\ c2 = c
    \/ s \in {"working", "ready"} /\ c2 \in {c, "found"} /\ s2 = "refused"
    \/ s \in {"ready", "refused"} /\ s2 = "working" /\ c2 = c
    \/ c = "found" /\ c2 = "taken" /\ s2 = s
    \/ s \in {"working", "ready", "refused"} /\ c # "found" /\ s2 = "gone" /\ c2 = c

Life(s, c, t) == [stage |-> s, chunks |-> c, tangled |-> t]

(* Each of them is a move of the promise. *)
LEMMA AllowedMoves ==
    ASSUME NEW s, NEW s2, NEW c, NEW c2, NEW t, Allowed(s, c, s2, c2)
    PROVE  Life(s2, c2, t) = Life(s, c, t) \/ Promise!Moves(Life(s, c, t), Life(s2, c2, t))
<1> DEFINE a == Life(s, c, t)
           b == Life(s2, c2, t)
<1>f. a.stage = s /\ a.chunks = c /\ b.stage = s2 /\ b.chunks = c2
  BY DEF Life
<1>g. s2 = s => b = [a EXCEPT !.chunks = c2]
  <2>1. Life(s, c2, t) = [Life(s, c, t) EXCEPT !.chunks = c2]
    BY DEF Life
  <2>2. QED
    BY <2>1
<1>h. c2 = c => b = [a EXCEPT !.stage = s2]
  <2>1. Life(s2, c, t) = [Life(s, c, t) EXCEPT !.stage = s2]
    BY DEF Life
  <2>2. QED
    BY <2>1
<1>b. b = [a EXCEPT !.stage = s2, !.chunks = c2]
  <2>1. [Life(s, c, t) EXCEPT !.stage = s2] = Life(s2, c, t)
    BY DEF Life
  <2>2. [Life(s2, c, t) EXCEPT !.chunks = c2] = Life(s2, c2, t)
    BY DEF Life
  <2>3. [a EXCEPT !.stage = s2, !.chunks = c2] = [[a EXCEPT !.stage = s2] EXCEPT !.chunks = c2]
    BY DEF Life
  <2>4. QED
    BY <2>1, <2>2, <2>3
<1> SUFFICES b = a \/ Promise!Moves(a, b)
  OBVIOUS
<1> HIDE DEF a, b
<1>1. CASE s2 = s /\ c2 = c
  BY <1>1 DEF a, b
<1>2. CASE s = "none" /\ s2 = "working" /\ c2 = c
  BY <1>2, <1>f, <1>h DEF Promise!Moves, Promise!Accept
<1>3. CASE s \in {"working", "refused"} /\ s2 = s
  BY <1>3, <1>f, <1>g DEF Promise!Moves, Promise!Work
<1>4. CASE s \in {"working", "refused"} /\ c # "none" /\ s2 = "ready" /\ c2 = c
  BY <1>4, <1>f, <1>h DEF Promise!Moves, Promise!Publish
<1>5. CASE s \in {"working", "ready"} /\ c2 \in {c, "found"} /\ s2 = "refused"
  BY <1>5, <1>f, <1>b DEF Promise!Moves, Promise!RefuseIt
<1>6. CASE s \in {"ready", "refused"} /\ s2 = "working" /\ c2 = c
  BY <1>6, <1>f, <1>h DEF Promise!Moves, Promise!Reopen
<1>7. CASE c = "found" /\ c2 = "taken" /\ s2 = s
  BY <1>7, <1>f, <1>g DEF Promise!Moves, Promise!Take
<1>8. CASE s \in {"working", "ready", "refused"} /\ c # "found" /\ s2 = "gone" /\ c2 = c
  BY <1>8, <1>f, <1>h DEF Promise!Moves, Promise!Remove
<1>9. QED
  BY <1>1, <1>2, <1>3, <1>4, <1>5, <1>6, <1>7, <1>8 DEF Allowed

(* The stage of a document, status by status. *)
StageIs(s, g) ==
    /\ s = "unregistered" => g = "none"
    /\ s = "deleted" => g = "gone"
    /\ s = "indexed" => g = "ready"
    /\ s \in Active => g = "working"
    /\ s \in {"skipped", "failed"} => g = "refused"

LEMMA StageCases == \A d \in Docs : StageIs(row[d].st, StageOf(d))
BY DEF StageIs, StageOf, NoRow, Active

LEMMA StageCasesNext == \A d \in Docs : StageIs(row'[d].st, StageOf(d)')
BY DEF StageIs, StageOf, NoRow, Active

LEMMA StageTypeNext ==
    ASSUME TypeOK'
    PROVE  \A d \in Docs : LifeOf(d)' \in Promise!Lives
<1>1. \A d \in Docs : StageOf(d)' \in Promise!Stages
  BY DEF StageOf, Promise!Stages
<1>2. \A d \in Docs : ChunksOf(d)' \in {"none", "found", "taken"}
  BY DEF ChunksOf
<1>3. QED
  BY <1>1, <1>2 DEF LifeOf, Promise!Lives

-----------------------------------------------------------------------------
(* What a step does to a document's life.                                  *)

Lawful(d) == {d} \in met' \/ Allowed(StageOf(d), ChunksOf(d), StageOf(d)', ChunksOf(d)')

(* The statuses a row may be given by anybody but the flip. *)
Unindexed == (Active \cup Settled) \ {"indexed"}

(* The chunks stay what they were if both sets do. *)
LEMMA ChunksSame ==
    ASSUME NEW d \in Docs, d \in index' <=> d \in index, d \in taken' <=> d \in taken
    PROVE  ChunksOf(d)' = ChunksOf(d)
BY DEF ChunksOf

(* A status other than 'indexed' is written, or none. *)
LEMMA StatusMove ==
    ASSUME TypeOK, TypeOK', NEW d \in Docs, d \in index' <=> d \in index, d \in taken' <=> d \in taken,
           row'[d].st = row[d].st \/ (Exists(d) /\ row'[d].st \in Unindexed)
    PROVE  Lawful(d)
<1>1. /\ StageIs(row[d].st, StageOf(d)) /\ StageIs(row'[d].st, StageOf(d)')
      /\ ChunksOf(d)' = ChunksOf(d)
  BY StageCases, StageCasesNext, ChunksSame
<1>2. row[d].st \in Active \cup Settled \cup NoRow
  BY RowFields DEF TypeOK
<1>3. CASE row'[d].st = row[d].st
  BY <1>1, <1>2, <1>3 DEF Lawful, Allowed, StageIs, Active, Settled, NoRow
<1>4. CASE Exists(d) /\ row'[d].st \in Unindexed
  BY <1>1, <1>2, <1>4 DEF Lawful, Allowed, StageIs, Unindexed, Exists, Active, Settled, NoRow
<1>5. QED
  BY <1>3, <1>4

(* Chunks come or go while the row is there and not indexed; a failure may *)
(* come with them.                                                         *)
LEMMA ChunkMove ==
    ASSUME TypeOK, TypeOK', NEW d \in Docs, Exists(d), row[d].st # "indexed",
           \/ row'[d].st = row[d].st
           \/ row'[d].st = "failed" /\ ChunksOf(d)' \in {ChunksOf(d), "found"}
    PROVE  Lawful(d)
<1>1. StageIs(row[d].st, StageOf(d)) /\ StageIs(row'[d].st, StageOf(d)')
  BY StageCases, StageCasesNext
<1>2. row[d].st \in Active \cup Settled \cup NoRow
  BY RowFields DEF TypeOK
<1>3. QED
  BY <1>1, <1>2 DEF Lawful, Allowed, StageIs, Exists, Active, Settled, NoRow

(* The flip, once the chunks were put there. *)
LEMMA FlipMove ==
    ASSUME TypeOK, TypeOK', NEW d \in Docs, UNCHANGED <<index, taken>>,
           Exists(d), d \in index \cup taken, row'[d].st = "indexed"
    PROVE  Lawful(d)
<1>1. /\ StageIs(row[d].st, StageOf(d)) /\ StageIs(row'[d].st, StageOf(d)')
      /\ ChunksOf(d)' = ChunksOf(d) /\ ChunksOf(d) # "none"
  BY StageCases, StageCasesNext, ChunksSame DEF ChunksOf
<1>2. row[d].st \in Active \cup Settled \cup NoRow
  BY RowFields DEF TypeOK
<1>3. QED
  BY <1>1, <1>2 DEF Lawful, Allowed, StageIs, Exists, Active, Settled, NoRow

(* Chunks are taken by a purge that writes no row. *)
LEMMA TakeLawful ==
    ASSUME NEW S, Take(S), UNCHANGED row
    PROVE  \A d \in Docs : Lawful(d)
<1> TAKE d \in Docs
<1>1. StageOf(d)' = StageOf(d)
  BY DEF StageOf
<1>2. ChunksOf(d)' = ChunksOf(d) \/ (ChunksOf(d) = "found" /\ ChunksOf(d)' = "taken")
  BY DEF Take, ChunksOf
<1>3. QED
  BY <1>1, <1>2 DEF Lawful, Allowed

StatusesKept == \A d \in Docs : row'[d].st = row[d].st \/ (Exists(d) /\ row'[d].st \in Unindexed)

LEMMA KeptStatuses == ASSUME RowsKept PROVE StatusesKept
BY DEF RowsKept, StatusesKept, Unindexed

(* Writes of statuses other than 'indexed' are lawful for every document. *)
LEMMA RowsLawful ==
    ASSUME TypeOK, TypeOK', StatusesKept, UNCHANGED <<index, taken>>
    PROVE  \A d \in Docs : Lawful(d)
<1> TAKE d \in Docs
<1>1. /\ d \in index' <=> d \in index
      /\ d \in taken' <=> d \in taken
      /\ row'[d].st = row[d].st \/ (Exists(d) /\ row'[d].st \in Unindexed)
  BY DEF StatusesKept
<1>2. QED
  BY <1>1, StatusMove

(* So are the steps of a run that write its row, or nothing a client sees. *)
LEMMA StagesLawful ==
    ASSUME IndInv, TypeOK', NEW r \in Runs,
           \/ Launch(r) \/ FetchBegin(r) \/ FetchLoad(r) \/ FetchStore(r) \/ FetchRecord(r)
           \/ Parse(r) \/ Caption(r) \/ EmbedBegin(r) \/ \E w \in Workers : PickUp(r, w)
    PROVE  \A d \in Docs : Lawful(d)
<1>1. TypeOK /\ CoreInv
  BY DEF IndInv, Strengthening, CoreInv
<1>2. UNCHANGED <<index, taken>>
  BY DEF Launch, FetchBegin, FetchLoad, FetchStore, FetchRecord, Parse, Caption,
     EmbedBegin, PickUp
<1>3. StatusesKept
  <2>1. CASE Launch(r)
    <3>1. run[r].doc \in Docs
      BY <1>1, <2>1, RunFacts DEF Launch, At
    <3>2. \A e \in Docs : row'[e].st = row[e].st /\ row'[e].key = row[e].key /\ row'[e].hash = row[e].hash
      <4>1. row' = IF Exists(run[r].doc) THEN [row EXCEPT ![run[r].doc].stale = FALSE] ELSE row
        BY <2>1 DEF Launch
      <4>2. QED
        BY <1>1, <3>1, <4>1, RowTouched DEF TypeOK
    <3>3. QED
      BY <3>2 DEF StatusesKept
  <2>2. CASE FetchBegin(r)
    BY <1>1, <2>2, RunFacts, StatusKept, KeptStatuses DEF FetchBegin, At, TypeOK, Active
  <2>3. CASE FetchRecord(r)
    <3>1. run[r].doc \in Docs
      BY <1>1, <2>3, RunFacts DEF FetchRecord, At
    <3>2. \A e \in Docs : \/ row'[e] = row[e]
                          \/ Exists(e) /\ row'[e].st = "fetching"
      BY <1>1, <2>3, <3>1, RowRecorded DEF TypeOK
    <3>3. QED
      BY <3>2 DEF StatusesKept, Unindexed, Active
  <2>4. CASE Parse(r)
    BY <1>1, <2>4, RunFacts, StatusKept, KeptStatuses DEF Parse, At, TypeOK, Active
  <2>5. CASE EmbedBegin(r)
    BY <1>1, <2>5, RunFacts, StatusKept, KeptStatuses DEF EmbedBegin, At, TypeOK, Active
  <2>6. CASE FetchLoad(r) \/ FetchStore(r) \/ Caption(r) \/ \E w \in Workers : PickUp(r, w)
    BY <2>6, RowsSame, KeptStatuses DEF FetchLoad, FetchStore, Caption, PickUp
  <2>7. QED
    BY <2>1, <2>2, <2>3, <2>4, <2>5, <2>6
<1>4. QED
  BY <1>1, <1>2, <1>3, RowsLawful

(* So is a step that touches the chunks of a run's document, which exists and *)
(* is not indexed unless an overlap was noted.                                *)
LEMMA ChunksLawful ==
    ASSUME IndInv, TypeOK', NEW r \in Runs,
           EmbedPurge(r) \/ EmbedUpsert(r) \/ TaskRetry(r) \/ FlowFails(r)
    PROVE  \A d \in Docs : Lawful(d)
<1> DEFINE c == run[r].doc
<1>1. TypeOK /\ CoreInv
  BY DEF IndInv, Strengthening, CoreInv
<1>2. c \in Docs /\ UNCHANGED met
  BY <1>1, RunFacts DEF EmbedPurge, EmbedUpsert, TaskRetry, FlowFails, At, Raises
<1>3. /\ \A e \in Docs : e # c => (e \in index' <=> e \in index) /\ (e \in taken' <=> e \in taken)
      /\ UNCHANGED <<index, taken>> \/ run[r].pc \in {"purge", "upsert"}
      /\ FlowFails(r) => UNCHANGED <<index, taken>> \/ c \in index'
  BY DEF EmbedPurge, EmbedUpsert, TaskRetry, FlowFails, At, Raises, Put
<1>4. /\ \A e \in Docs : e # c => row'[e] = row[e]
      /\ row'[c].st = row[c].st \/ (Exists(c) /\ row'[c].st = "failed" /\ FlowFails(r))
  <2>1. CASE FlowFails(r)
    BY <1>1, <1>2, <2>1, StatusSet DEF FlowFails, TypeOK, Settled
  <2>2. CASE EmbedPurge(r) \/ EmbedUpsert(r) \/ TaskRetry(r)
    BY <2>2 DEF EmbedPurge, EmbedUpsert, TaskRetry
  <2>3. QED
    BY <2>1, <2>2
<1>5. {c} \in met \/ run[r].pc \notin {"purge", "upsert"} \/ (Exists(c) /\ row[c].st # "indexed")
  BY <1>1, RunFacts DEF EmbedPurge, EmbedUpsert, TaskRetry, FlowFails, At, Raises, Checked,
     TaskSteps, FetchSteps, ParseSteps, EmbedSteps
<1> HIDE DEF c
<1> TAKE d \in Docs
<1>6. CASE d # c
  BY <1>1, <1>2, <1>3, <1>4, <1>6, StatusMove
<1>7. CASE d = c /\ UNCHANGED <<index, taken>>
  <2>1. row'[c].st = row[c].st \/ (Exists(c) /\ row'[c].st \in Unindexed)
    BY <1>4 DEF Unindexed, Settled
  <2>2. QED
    BY <1>1, <1>2, <1>7, <2>1, StatusMove
<1>8. CASE d = c /\ {c} \in met
  BY <1>2, <1>8 DEF Lawful
<1>9. CASE d = c /\ Exists(c) /\ row[c].st # "indexed"
  <2>1. FlowFails(r) => ChunksOf(d)' \in {ChunksOf(d), "found"}
    BY <1>3, <1>9 DEF ChunksOf
  <2>2. row'[d].st = row[d].st \/ (row'[d].st = "failed" /\ ChunksOf(d)' \in {ChunksOf(d), "found"})
    BY <1>4, <1>9, <2>1
  <2>3. QED
    BY <1>1, <1>9, <2>2, ChunkMove
<1>10. QED
  BY <1>3, <1>5, <1>6, <1>7, <1>8, <1>9

(* So is the flip, which follows the upsert. *)
LEMMA FlipLawful ==
    ASSUME IndInv, TypeOK', NEW r \in Runs, EmbedFlip(r)
    PROVE  \A d \in Docs : Lawful(d)
<1> DEFINE c == run[r].doc
<1>1. TypeOK /\ CoreInv
  BY DEF IndInv, Strengthening, CoreInv
<1>2. c \in Docs /\ UNCHANGED <<met, index, taken>>
  BY <1>1, RunFacts DEF EmbedFlip, At
<1>3. /\ \A e \in Docs : e # c => row'[e] = row[e]
      /\ row'[c].st = IF Exists(c) THEN "indexed" ELSE row[c].st
  BY <1>1, <1>2, StatusSet DEF EmbedFlip, TypeOK, Settled
<1>4. {c} \in met \/ c \in index \cup taken
  BY <1>1, RunFacts DEF EmbedFlip, At
<1> HIDE DEF c
<1> TAKE d \in Docs
<1>5. CASE d # c \/ ~Exists(c)
  BY <1>1, <1>2, <1>3, <1>5, StatusMove
<1>6. CASE d = c /\ {c} \in met
  BY <1>2, <1>6 DEF Lawful
<1>7. CASE d = c /\ Exists(c) /\ c \in index \cup taken
  BY <1>1, <1>2, <1>3, <1>7, FlipMove
<1>8. QED
  BY <1>4, <1>5, <1>6, <1>7

(* A frame is lawful for every document. *)
LEMMA FrameLawful ==
    ASSUME TypeOK, TypeOK', Framed
    PROVE  \A d \in Docs : Lawful(d)
BY RowsLawful, KeptStatuses DEF Framed

(* A registration accepts a document nobody knew. *)
LEMMA RegisterLawful ==
    ASSUME IndInv, TypeOK', NEW c \in Docs, Register(c)
    PROVE  \A d \in Docs : Lawful(d)
<1>1. TypeOK /\ Known
  BY DEF IndInv, Strengthening
<1>2. UNCHANGED <<index, taken>> /\ row[c].st = "unregistered"
  BY <1>1 DEF Register
<1>3. row'[c].st = "pending" /\ \A e \in Docs : e # c => row'[e] = row[e]
  BY <1>1, RowRegistered DEF TypeOK
<1> TAKE d \in Docs
<1>4. CASE d # c
  BY <1>1, <1>2, <1>3, <1>4, StatusMove
<1>5. CASE d = c
  <2>1. StageOf(c) = "none" /\ StageOf(c)' = "working"
    BY <1>2, <1>3, StageCases, StageCasesNext DEF StageIs, Active
  <2>2. QED
    BY <1>2, <1>5, <2>1, ChunksSame DEF Lawful, Allowed
<1>6. QED
  BY <1>4, <1>5

(* The first step of a DELETE, one that ends there and a video's purge only *)
(* take chunks.                                                             *)
LEMMA PurgeLawful ==
    ASSUME \/ \E c \in Docs : DeletePurge(c) \/ DeletePurgeRaises(c)
           \/ \E c \in Docs : VideoPurge(Owner[c])
    PROVE  \A d \in Docs : Lawful(d)
<1>1. UNCHANGED row /\ \E S : Take(S)
  BY DEF DeletePurge, DeletePurgeRaises, VideoPurge
<1>2. QED
  BY <1>1, TakeLawful

(* The row goes last, when nothing is left to find. *)
LEMMA RowGoneLawful ==
    ASSUME IndInv, TypeOK', NEW c \in Docs, DeleteRow(c)
    PROVE  \A d \in Docs : Lawful(d)
<1>1. TypeOK /\ Known /\ DeletePurged
  BY DEF IndInv, Strengthening
<1>2. UNCHANGED <<index, taken, met>> /\ del[c].pc = "row" /\ ({c} \in met \/ c \notin index)
  BY <1>1 DEF DeleteRow, DeletePurged
<1>3. /\ \A e \in Docs : e # c => row'[e] = row[e]
      /\ row'[c].st = "deleted"
  BY <1>1, RowDeleted DEF TypeOK
<1> TAKE d \in Docs
<1>4. CASE d # c
  BY <1>1, <1>2, <1>3, <1>4, StatusMove
<1>5. CASE d = c /\ {c} \in met
  BY <1>2, <1>5 DEF Lawful
<1>6. CASE d = c /\ c \notin index
  <2>1. StageOf(c)' = "gone"
    BY <1>3, StageCasesNext DEF StageIs
  <2>2. row[c].st \in Active \cup Settled \cup {"deleted"}
    BY <1>1, <1>2, RowFields DEF TypeOK, Known, NoRow
  <2>3. StageOf(c) \in {"working", "ready", "refused", "gone"}
    BY <2>2, StageCases DEF StageIs, Settled
  <2>4. ChunksOf(c) # "found" /\ ChunksOf(c)' = ChunksOf(c)
    BY <1>2, <1>6, ChunksSame DEF ChunksOf
  <2>5. QED
    BY <1>6, <2>1, <2>3, <2>4 DEF Lawful, Allowed
<1>7. QED
  BY <1>2, <1>4, <1>5, <1>6

(* What else a request does, or its end, shows nobody anything new. *)
LEMMA RequestsLawful ==
    ASSUME IndInv, TypeOK',
           \/ \E c \in Docs : DeleteObject(c) \/ DeleteObjectRaises(c) \/ DeleteCancel(c)
           \/ ApiCrash
    PROVE  \A d \in Docs : Lawful(d)
<1>1. UNCHANGED <<row, index, taken>>
  BY DEF DeleteObject, DeleteObjectRaises, DeleteCancel, ApiCrash
<1>2. QED
  BY <1>1, RowsSame, KeptStatuses, RowsLawful DEF IndInv

-----------------------------------------------------------------------------
(* Every step keeps the promise. *)
LEMMA NextLawful == IndInv /\ IndInv' /\ [Next]_vars => \A d \in Docs : Lawful(d)
<1> SUFFICES ASSUME IndInv, IndInv', [Next]_vars PROVE \A d \in Docs : Lawful(d)
  OBVIOUS
<1>1. TypeOK /\ TypeOK'
  BY DEF IndInv
<1>2. ASSUME NEW c \in Docs, Api(c) \/ Age(c) PROVE \A d \in Docs : Lawful(d)
  <2>1. CASE Register(c)
    BY <1>1, <2>1, RegisterLawful
  <2>2. CASE DeletePurge(c) \/ DeletePurgeRaises(c)
    BY <2>2, PurgeLawful
  <2>3. CASE DeleteRow(c)
    BY <1>1, <2>3, RowGoneLawful
  <2>4. CASE DeleteObject(c) \/ DeleteObjectRaises(c) \/ DeleteCancel(c)
    BY <1>1, <2>4, RequestsLawful
  <2>5. CASE \/ DispatchCheck(c) \/ DispatchEnqueue(c) \/ DispatchRecord(c) \/ DispatchRaises(c)
             \/ RetryReset(c) \/ RetryEnqueue(c) \/ RetryRecord(c) \/ RetryRaises(c) \/ Age(c)
    BY <1>1, <2>5, DispatchFrame, FrameLawful
  <2>6. QED
    BY <1>2, <2>1, <2>2, <2>3, <2>4, <2>5 DEF Api
<1>3. ASSUME NEW r \in Runs, Flow(r) PROVE \A d \in Docs : Lawful(d)
  <2>1. CASE \/ LaunchFails(r) \/ CancelStops(r) \/ FetchNoRow(r) \/ FetchSkip(r)
             \/ RecordMentions(r)
    BY <1>1, <2>1, RunEndFrame, FrameLawful
  <2>2. CASE \/ Launch(r) \/ FetchBegin(r) \/ FetchLoad(r) \/ FetchStore(r) \/ FetchRecord(r)
             \/ Parse(r) \/ Caption(r) \/ EmbedBegin(r) \/ \E w \in Workers : PickUp(r, w)
    BY <1>1, <2>2, StagesLawful
  <2>3. CASE EmbedPurge(r) \/ EmbedUpsert(r) \/ TaskRetry(r) \/ FlowFails(r)
    BY <1>1, <2>3, ChunksLawful
  <2>4. CASE EmbedFlip(r)
    BY <1>1, <2>4, FlipLawful
  <2>5. QED
    BY <1>3, <2>1, <2>2, <2>3, <2>4 DEF Flow, Progress
<1>4. ASSUME NEW w \in Workers, Worker(w) PROVE \A d \in Docs : Lawful(d)
  BY <1>1, <1>4, WorkerFrame, FrameLawful
<1>5. CASE ApiCrash
  BY <1>1, <1>5, RequestsLawful
<1>6. CASE BeatExpires \/ UNCHANGED vars
  <2>1. RowsKept /\ UNCHANGED <<index, taken>>
    BY <1>6, RowsSame DEF BeatExpires, vars
  <2>2. QED
    BY <1>1, <2>1, KeptStatuses, RowsLawful
<1>7. CASE \E c \in Docs : VideoPurge(Owner[c])
  BY <1>7, PurgeLawful
<1>8. QED
  BY <1>2, <1>3, <1>4, <1>5, <1>6, <1>7 DEF Next

(* What overlapped once is remembered. *)
LEMMA MetGrows == [Next]_vars => met \subseteq met'
<1> SUFFICES ASSUME [Next]_vars PROVE met \subseteq met'
  OBVIOUS
<1>1. ASSUME NEW d \in Docs, Api(d) \/ Age(d) PROVE met \subseteq met'
  BY <1>1 DEF Api, Age, Register, DispatchCheck, DispatchEnqueue, DispatchRecord, DispatchRaises,
     RetryReset, RetryEnqueue, RetryRecord, RetryRaises, DeletePurge, DeletePurgeRaises, MeetsDelete,
     DeleteObject, DeleteObjectRaises, DeleteRow, DeleteCancel
<1>2. ASSUME NEW r \in Runs, Flow(r) PROVE met \subseteq met'
  <2>1. CASE \E w \in Workers : PickUp(r, w)
    BY <2>1 DEF PickUp
  <2>2. CASE Progress(r)
    BY <2>2 DEF Progress, Launch, FetchBegin, FetchNoRow, FetchLoad, FetchSkip, FetchStore,
       FetchRecord, Parse, Caption, EmbedBegin, EmbedPurge, EmbedUpsert, EmbedFlip, RecordMentions
  <2>3. CASE LaunchFails(r) \/ TaskRetry(r) \/ FlowFails(r) \/ CancelStops(r)
    BY <2>3 DEF LaunchFails, TaskRetry, FlowFails, CancelStops
  <2>4. QED
    BY <1>2, <2>1, <2>2, <2>3 DEF Flow
<1>3. ASSUME NEW w \in Workers, Worker(w) PROVE met \subseteq met'
  BY <1>3 DEF Worker, Reconcile, SweepBegin, SweepPass, SweepCondemn, SweepReset, SweepEnqueue,
     SweepRecord, SweepRaises, SweepEnd, WorkerCrash, WorkerRestart, Beat, CooldownExpires
<1>4. CASE ApiCrash \/ BeatExpires \/ UNCHANGED vars \/ \E d \in Docs : VideoPurge(Owner[d])
  BY <1>4 DEF ApiCrash, BeatExpires, VideoPurge, vars
<1>5. QED
  BY <1>1, <1>2, <1>3, <1>4 DEF Next

(* A lawful step is a step of the promise for that document. *)
LEMMA LawfulMoves ==
    ASSUME NEW d \in Docs, Lawful(d), met \subseteq met'
    PROVE  LifeOf(d)' = LifeOf(d) \/ Promise!Moves(LifeOf(d), LifeOf(d)')
<1>1. CASE {d} \in met'
  BY <1>1 DEF LifeOf, Promise!Moves, Promise!Tangle
<1>2. CASE {d} \notin met' /\ Allowed(StageOf(d), ChunksOf(d), StageOf(d)', ChunksOf(d)')
  <2>0. ({d} \in met) = FALSE /\ ({d} \in met') = FALSE
    BY <1>2
  <2>1. LifeOf(d) = Life(StageOf(d), ChunksOf(d), FALSE)
    BY <2>0 DEF LifeOf, Life
  <2>2. LifeOf(d)' = Life(StageOf(d)', ChunksOf(d)', FALSE)
    BY <2>0 DEF LifeOf, Life
  <2>3. \/ Life(StageOf(d)', ChunksOf(d)', FALSE) = Life(StageOf(d), ChunksOf(d), FALSE)
        \/ Promise!Moves(Life(StageOf(d), ChunksOf(d), FALSE), Life(StageOf(d)', ChunksOf(d)', FALSE))
    BY <1>2, AllowedMoves, Zenon
  <2>4. QED
    BY <2>1, <2>2, <2>3
<1>3. QED
  BY <1>1, <1>2 DEF Lawful

(* DocIngest implements DocPromise. *)
THEOREM PromiseImplemented == Spec => ImplementsPromise
<1>1. Init => Promise!PromiseInit
  <2> SUFFICES ASSUME Init PROVE Promise!PromiseInit
    OBVIOUS
  <2>1. ASSUME NEW d \in Docs PROVE LifeOf(d) = Promise!Unknown
    <3>1. row[d].st = "unregistered" /\ index = {} /\ taken = {} /\ met = {}
      BY DEF Init
    <3>2. StageOf(d) = "none"
      BY <3>1, StageCases DEF StageIs
    <3>3. ChunksOf(d) = "none" /\ ({d} \in met) = FALSE
      BY <3>1 DEF ChunksOf
    <3>4. QED
      BY <3>2, <3>3 DEF LifeOf, Promise!Unknown
  <2>2. QED
    BY <2>1 DEF Promise!PromiseInit
<1>2. IndInv /\ IndInv' /\ [Next]_vars => [Promise!PromiseNext]_[d \in Docs |-> LifeOf(d)]
  <2> SUFFICES ASSUME IndInv, IndInv', [Next]_vars PROVE Promise!PromiseNext
    OBVIOUS
  <2>1. \A d \in Docs : LifeOf(d)' \in Promise!Lives
    BY StageTypeNext DEF IndInv
  <2>2. \A d \in Docs : LifeOf(d)' = LifeOf(d) \/ Promise!Moves(LifeOf(d), LifeOf(d)')
    BY NextLawful, MetGrows, LawfulMoves
  <2>3. QED
    BY <2>1, <2>2 DEF Promise!PromiseNext
<1>3. QED
  BY <1>1, <1>2, Invariance, PTL DEF Spec, ImplementsPromise, Promise!PromiseSpec

-----------------------------------------------------------------------------
(* What the promise is worth: kept step by step, it never leaves a document *)
(* ready whose chunks were not put there, or gone and found.                *)
Honest(a) == ~a.tangled => /\ a.stage = "ready" => a.chunks # "none"
                           /\ a.stage = "gone" => a.chunks # "found"

LEMMA MovesHonest ==
    ASSUME NEW a \in Promise!Lives, NEW b \in Promise!Lives, Honest(a), Promise!Moves(a, b)
    PROVE  Honest(b)
<1> USE DEF Promise!Lives, Honest
<1>1. CASE Promise!Accept(a, b) \/ Promise!Publish(a, b) \/ Promise!Reopen(a, b) \/ Promise!Remove(a, b)
  BY <1>1 DEF Promise!Accept, Promise!Publish, Promise!Reopen, Promise!Remove
<1>2. CASE Promise!Work(a, b) \/ Promise!Take(a, b)
  BY <1>2 DEF Promise!Work, Promise!Take
<1>3. CASE Promise!RefuseIt(a, b)
  BY <1>3 DEF Promise!RefuseIt
<1>4. CASE Promise!Tangle(a, b)
  BY <1>4 DEF Promise!Tangle
<1>5. QED
  BY <1>1, <1>2, <1>3, <1>4 DEF Promise!Moves

LEMMA PromiseSafe == Promise!PromiseSpec => []Promise!Kept
<1> DEFINE life == [d \in Docs |-> LifeOf(d)]
           Sane == life \in [Docs -> Promise!Lives] /\ Promise!Kept
<1>1. Promise!PromiseInit => Sane
  <2>1. Promise!Unknown \in Promise!Lives
    BY DEF Promise!Unknown, Promise!Lives, Promise!Stages
  <2>2. Promise!PromiseInit => life \in [Docs -> Promise!Lives]
    BY <2>1 DEF Promise!PromiseInit
  <2>3. Promise!PromiseInit => Promise!Kept
    BY DEF Promise!PromiseInit, Promise!Kept, Promise!Unknown
  <2>4. QED
    BY <2>2, <2>3
<1>2. Sane /\ [Promise!PromiseNext]_life => Sane'
  <2> SUFFICES ASSUME Sane, [Promise!PromiseNext]_life PROVE Sane'
    OBVIOUS
  <2>1. life' \in [Docs -> Promise!Lives]
    BY DEF Promise!PromiseNext
  <2>2. ASSUME NEW d \in Docs PROVE Honest(life'[d])
    <3>1. life[d] \in Promise!Lives /\ life'[d] \in Promise!Lives
      BY <2>1
    <3>2. Honest(life[d])
      BY DEF Promise!Kept, Honest
    <3>3. life'[d] = life[d] \/ Promise!Moves(life[d], life'[d])
      BY DEF Promise!PromiseNext
    <3> HIDE DEF life
    <3>4. QED
      BY <3>1, <3>2, <3>3, MovesHonest
  <2>3. Promise!Kept'
    BY <2>2 DEF Promise!Kept, Honest
  <2>4. QED
    BY <2>1, <2>3
<1>3. QED
  BY <1>1, <1>2, PTL DEF Promise!PromiseSpec

(* A document the client is told is indexed had its chunks put into Qdrant,   *)
(* and they are there unless a DELETE that got no further or a video's purge  *)
(* took them since the last upsert; one that is gone has none.  Excepted is a *)
(* document two of whose runs, or a run and a DELETE, were ever at work at    *)
(* once.                                                                      *)
THEOREM ReadyIsFound == Spec => []Promise!Kept
BY PromiseImplemented, PromiseSafe, PTL DEF ImplementsPromise

-----------------------------------------------------------------------------
(* The order of stages.  A run that no other disturbs stands where its row's *)
(* status says, or where a retry or a restart has put the row meanwhile.     *)
Stands(p, s) ==
    /\ p \in FetchSteps \ {"fetch"} => s = "fetching"
    /\ p = "parse" => s \in {"fetching", "parsing"}
    /\ p = "parsed" => s = "parsing"
    /\ p = "embed" => s \in {"parsing", "embedding"}
    /\ p \in EmbedSteps \ {"embed"} => s = "embedding"

Ordered ==
    \A r \in Runs : Alone(r) /\ Exists(run[r].doc) =>
        row[run[r].doc].st \in Reset \/ Stands(run[r].pc, row[run[r].doc].st)

(* The body of LifecycleOrder. *)
LegalStep ==
    \A d \in Docs : Exists(d) /\ Exists(d)' /\ {d} \notin met' => row'[d].st \in LegalNext(row[d].st)

(* What may be written over a status, write by write. *)
LEMMA LegalWrites ==
    ASSUME NEW s
    PROVE  /\ {s, "pending", "fetching", "failed"} \subseteq LegalNext(s)
           /\ s \in Reset => Active \cup Settled \subseteq LegalNext(s)
           /\ s = "fetching" => {"parsing", "skipped"} \subseteq LegalNext(s)
           /\ s = "parsing" => "embedding" \in LegalNext(s)
           /\ s = "embedding" => "indexed" \in LegalNext(s)
BY DEF LegalNext, Reset

(* Others' steps reset a row or leave it. *)
LEMMA FrameOrdered ==
    ASSUME TypeOK, CoreInv, Ordered, Framed, RowsReset
    PROVE  Ordered' /\ LegalStep
<1>1. Ordered'
  <2> SUFFICES ASSUME NEW r \in Runs, Alone(r)', Exists(run[r].doc)'
               PROVE  row'[run'[r].doc].st \in Reset \/ Stands(run'[r].pc, row'[run'[r].doc].st)
    BY DEF Ordered
  <2>1. Alone(r) /\ run'[r].doc = run[r].doc /\ run'[r].pc = run[r].pc
    BY DEF Alone, Executing, Framed, RunsKept
  <2>2. run[r].doc \in Docs
    BY <2>1, ExecutingDoc DEF Alone, CoreInv
  <2>3. row'[run[r].doc].st = row[run[r].doc].st \/ row'[run[r].doc].st \in Reset
    BY <2>2 DEF RowsReset
  <2>4. CASE row'[run[r].doc].st = row[run[r].doc].st
    BY <2>1, <2>4 DEF Ordered, Exists
  <2>5. QED
    BY <2>1, <2>3, <2>4
<1>2. LegalStep
  <2> SUFFICES ASSUME NEW d \in Docs PROVE row'[d].st \in LegalNext(row[d].st)
    BY DEF LegalStep
  <2>1. row'[d].st = row[d].st \/ row'[d].st \in Reset
    BY DEF RowsReset
  <2>2. QED
    BY <2>1, LegalWrites DEF Reset
<1>3. QED
  BY <1>1, <1>2

(* One run r moves to position p, and only its own row may change: to what p *)
(* asks for, and from what r's position had found there.                     *)
Advanced(r, p) ==
    LET d == run[r].doc IN
    /\ Executing(r) /\ met' = met
    /\ \A q \in Runs : /\ run'[q].doc = run[q].doc /\ run'[q].host = run[q].host
                       /\ run'[q].pc = IF q = r THEN p ELSE run[q].pc
    /\ \A e \in Docs : e # d => row'[e].st = row[e].st
    /\ row'[d].st \notin NoRow => Exists(d)
    /\ {d} \notin met /\ Exists(d) =>
          /\ row'[d].st \in Reset \/ Stands(p, row'[d].st)
          /\ row'[d].st \in LegalNext(row[d].st)

LEMMA AdvanceOrdered ==
    ASSUME TypeOK, CoreInv, Ordered, NEW r \in Runs, NEW p, Advanced(r, p)
    PROVE  Ordered' /\ LegalStep
<1> DEFINE d == run[r].doc
<1>1. /\ Executing(r) /\ met' = met
      /\ \A q \in Runs : /\ run'[q].doc = run[q].doc /\ run'[q].host = run[q].host
                         /\ run'[q].pc = IF q = r THEN p ELSE run[q].pc
      /\ \A e \in Docs : e # d => row'[e].st = row[e].st
      /\ row'[d].st \notin NoRow => Exists(d)
      /\ {d} \notin met /\ Exists(d) =>
            /\ row'[d].st \in Reset \/ Stands(p, row'[d].st)
            /\ row'[d].st \in LegalNext(row[d].st)
  BY DEF Advanced
<1>2. \A q \in Runs : q # r /\ Executing(q) /\ run[q].doc = d => {d} \in met
  BY <1>1 DEF CoreInv, Overlaps
<1>e. run[r].doc = d
  OBVIOUS
<1> HIDE DEF d
<1>3. Ordered'
  <2> SUFFICES ASSUME NEW q \in Runs, Alone(q)', row'[run'[q].doc].st \notin NoRow
               PROVE  row'[run'[q].doc].st \in Reset \/ Stands(run'[q].pc, row'[run'[q].doc].st)
    BY DEF Ordered, Exists
  <2>1. Alone(q) /\ run'[q].doc = run[q].doc /\ run[q].doc \in Docs
    BY <1>1, ExecutingDoc DEF Alone, Executing, CoreInv
  <2>2. CASE q = r
    BY <1>1, <1>e, <2>1, <2>2 DEF Alone
  <2>3. CASE q # r
    <3>1. run[q].doc # d
      BY <1>2, <2>1, <2>3 DEF Alone
    <3>2. row'[run[q].doc].st = row[run[q].doc].st
      BY <1>1, <2>1, <3>1
    <3>3. QED
      BY <1>1, <2>1, <2>3, <3>2 DEF Ordered, Exists
  <2>4. QED
    BY <2>2, <2>3
<1>4. LegalStep
  <2> SUFFICES ASSUME NEW e \in Docs, Exists(e), Exists(e)', {e} \notin met'
               PROVE  row'[e].st \in LegalNext(row[e].st)
    BY DEF LegalStep
  <2>1. QED
    BY <1>1, LegalWrites
<1>5. QED
  BY <1>3, <1>4

(* Where an undisturbed run found its row. *)
LEMMA Found ==
    ASSUME Ordered, NEW r \in Runs, Executing(r)
    PROVE  LET d == run[r].doc IN
           {d} \notin met /\ Exists(d) => row[d].st \in Reset \/ Stands(run[r].pc, row[d].st)
BY DEF Ordered, Alone

(* A run that moves on without touching its row. *)
LEMMA MoveOrdered ==
    ASSUME TypeOK, CoreInv, Ordered, NEW r \in Runs, NEW p, Executing(r), met' = met,
           \A q \in Runs : /\ run'[q].doc = run[q].doc /\ run'[q].host = run[q].host
                           /\ run'[q].pc = IF q = r THEN p ELSE run[q].pc,
           \A e \in Docs : row'[e].st = row[e].st,
           \A s : Stands(run[r].pc, s) => Stands(p, s)
    PROVE  Ordered' /\ LegalStep
<1> DEFINE d == run[r].doc
<1>1. d \in Docs
  BY RunFacts
<1>2. {d} \notin met /\ Exists(d) => row[d].st \in Reset \/ Stands(run[r].pc, row[d].st)
  BY Found
<1> HIDE DEF d
<1>3. row'[d].st = row[d].st /\ row'[d].st \in LegalNext(row[d].st)
  BY <1>1, LegalWrites
<1>4. row'[d].st \notin NoRow => Exists(d)
  BY <1>3 DEF Exists
<1>5. {d} \notin met /\ Exists(d) => row'[d].st \in Reset \/ Stands(p, row'[d].st)
  BY <1>2, <1>3
<1>6. Advanced(r, p)
  BY <1>3, <1>4, <1>5 DEF Advanced, d
<1>7. QED
  BY <1>6, AdvanceOrdered

(* A run that writes the status its next position asks for, over one that may *)
(* precede it.                                                                *)
LEMMA WriteOrdered ==
    ASSUME TypeOK, CoreInv, Ordered, NEW r \in Runs, NEW p, Executing(r), met' = met,
           \A q \in Runs : /\ run'[q].doc = run[q].doc /\ run'[q].host = run[q].host
                           /\ run'[q].pc = IF q = r THEN p ELSE run[q].pc,
           NEW s \in Active \cup Settled,
           \A e \in Docs : row'[e].st = IF e = run[r].doc /\ Exists(e) THEN s ELSE row[e].st,
           Stands(p, s),
           \A z : z \in Reset \/ Stands(run[r].pc, z) => s \in LegalNext(z)
    PROVE  Ordered' /\ LegalStep
<1> DEFINE d == run[r].doc
<1>1. d \in Docs
  BY RunFacts
<1>2. {d} \notin met /\ Exists(d) => row[d].st \in Reset \/ Stands(run[r].pc, row[d].st)
  BY Found
<1>e. run[r].doc = d
  OBVIOUS
<1> HIDE DEF d
<1>3. /\ Exists(d) => row'[d].st = s
      /\ ~Exists(d) => row'[d].st = row[d].st
      /\ \A e \in Docs : e # d => row'[e].st = row[e].st
  BY <1>1, <1>e
<1>4. row'[d].st \notin NoRow => Exists(d)
  BY <1>3 DEF Exists
<1>5. {d} \notin met /\ Exists(d) => /\ row'[d].st \in Reset \/ Stands(p, row'[d].st)
                                     /\ row'[d].st \in LegalNext(row[d].st)
  BY <1>2, <1>3
<1>6. Advanced(r, p)
  BY <1>3, <1>4, <1>5, <1>e DEF Advanced
<1>7. QED
  BY <1>6, AdvanceOrdered

(* Which positions follow on which. *)
LEMMA StandsOn ==
    /\ \A s : Stands("fetch", s) /\ Stands("launch", s) /\ Stands("graph", s)
    /\ \A s : Stands("load", s) => Stands("skip", s) /\ Stands("store", s)
    /\ \A s : Stands("store", s) => Stands("record", s)
    /\ \A s : Stands("parsed", s) => Stands("embed", s)
    /\ \A s : Stands("purge", s) => Stands("upsert", s)
    /\ \A s : Stands("upsert", s) => Stands("flip", s)
    /\ \A p \in TaskSteps : \A s : Stands(p, s) => Stands(TaskStart(p), s)
<1> USE DEF Stands, TaskSteps, FetchSteps, ParseSteps, EmbedSteps
<1>1. /\ \A s : Stands("fetch", s) /\ Stands("launch", s) /\ Stands("graph", s)
      /\ \A s : Stands("load", s) => Stands("skip", s) /\ Stands("store", s)
      /\ \A s : Stands("store", s) => Stands("record", s)
      /\ \A s : Stands("parsed", s) => Stands("embed", s)
  OBVIOUS
<1>2. /\ \A s : Stands("purge", s) => Stands("upsert", s)
      /\ \A s : Stands("upsert", s) => Stands("flip", s)
  OBVIOUS
<1>3. ASSUME NEW p \in TaskSteps, NEW s, Stands(p, s) PROVE Stands(TaskStart(p), s)
  <2>1. CASE p \in FetchSteps
    BY <1>3, <2>1 DEF TaskStart
  <2>2. CASE p \in ParseSteps
    BY <1>3, <2>2 DEF TaskStart
  <2>3. CASE p \in EmbedSteps
    BY <1>3, <2>3 DEF TaskStart
  <2>4. QED
    BY <2>1, <2>2, <2>3
<1>4. QED
  BY <1>1, <1>2, <1>3

(* The stage each status write asks for, and the one it may follow. *)
LEMMA StandsAt ==
    /\ Stands("load", "fetching") /\ Stands("parse", "fetching")
    /\ Stands("parsed", "parsing") /\ Stands("purge", "embedding")
    /\ \A z : z \in Reset \/ Stands("parse", z) => "parsing" \in LegalNext(z)
    /\ \A z : z \in Reset \/ Stands("embed", z) => "embedding" \in LegalNext(z)
    /\ \A z : z \in Reset \/ Stands("flip", z) => "indexed" \in LegalNext(z)
    /\ \A z : z \in Reset \/ Stands("skip", z) => "skipped" \in LegalNext(z)
<1> USE DEF Stands, TaskSteps, FetchSteps, ParseSteps, EmbedSteps
<1>1. /\ Stands("load", "fetching") /\ Stands("parse", "fetching")
      /\ Stands("parsed", "parsing") /\ Stands("purge", "embedding")
  OBVIOUS
<1>2. \A z : z \in Reset => {"parsing", "embedding", "indexed", "skipped"} \subseteq LegalNext(z)
  BY LegalWrites DEF Active, Settled
<1>3. /\ \A z : Stands("parse", z) => "parsing" \in LegalNext(z)
      /\ \A z : Stands("embed", z) => "embedding" \in LegalNext(z)
      /\ \A z : Stands("flip", z) => "indexed" \in LegalNext(z)
      /\ \A z : Stands("skip", z) => "skipped" \in LegalNext(z)
  BY LegalWrites
<1>4. QED
  BY <1>1, <1>2, <1>3

-----------------------------------------------------------------------------
(* The steps of a run, one by one.  Those that write no status:              *)
LEMMA MovesOrdered ==
    ASSUME TypeOK, CoreInv, Ordered, NEW r \in Runs,
           \/ Launch(r) \/ FetchLoad(r) \/ FetchStore(r) \/ Caption(r)
           \/ EmbedPurge(r) \/ EmbedUpsert(r) \/ TaskRetry(r)
    PROVE  Ordered' /\ LegalStep
<1> DEFINE Goes(p) == \A q \in Runs : /\ run'[q].doc = run[q].doc /\ run'[q].host = run[q].host
                                      /\ run'[q].pc = IF q = r THEN p ELSE run[q].pc
<1>1. Executing(r) /\ met' = met
  BY DEF Launch, FetchLoad, FetchStore, Caption, EmbedPurge, EmbedUpsert, TaskRetry, At, Raises
<1>2. run[r].doc \in Docs /\ run[r].pc # "none"
  BY <1>1, RunFacts
<1> USE DEF Positions, TaskSteps, FetchSteps, ParseSteps, EmbedSteps
<1>3. CASE Launch(r)
  <2>1. \A e \in Docs : row'[e].st = row[e].st
    <3>1. row' = IF Exists(run[r].doc) THEN [row EXCEPT ![run[r].doc].stale = FALSE] ELSE row
      BY <1>3 DEF Launch
    <3>2. QED
      BY <1>2, <3>1, RowTouched DEF TypeOK
  <2>2. Goes("fetch") /\ run[r].pc = "launch"
    BY <1>3, RunLaunched DEF TypeOK, Launch, At
  <2>3. QED
    BY <1>1, <2>1, <2>2, MoveOrdered, StandsOn
<1>4. CASE FetchLoad(r)
  <2>1. PICK p \in {"skip", "store"} : Advance(r, p)
    BY <1>4 DEF FetchLoad
  <2>2. Goes(p) /\ UNCHANGED row /\ run[r].pc = "load"
    BY <1>2, <1>4, <2>1, Moved DEF FetchLoad, At
  <2>3. QED
    BY <1>1, <2>1, <2>2, MoveOrdered, StandsOn
<1>5. CASE FetchStore(r)
  <2>1. Goes("record") /\ UNCHANGED row /\ run[r].pc = "store"
    BY <1>2, <1>5, Moved DEF FetchStore, At
  <2>2. QED
    BY <1>1, <2>1, MoveOrdered, StandsOn
<1>6. CASE Caption(r)
  <2>1. Goes("embed") /\ UNCHANGED row /\ run[r].pc = "parsed"
    BY <1>2, <1>6, Moved DEF Caption, At
  <2>2. QED
    BY <1>1, <2>1, MoveOrdered, StandsOn
<1>7. CASE EmbedPurge(r)
  <2>1. Goes("upsert") /\ UNCHANGED row /\ run[r].pc = "purge"
    BY <1>2, <1>7, Moved DEF EmbedPurge, At
  <2>2. QED
    BY <1>1, <2>1, MoveOrdered, StandsOn
<1>8. CASE EmbedUpsert(r)
  <2>1. Goes("flip") /\ UNCHANGED row /\ run[r].pc = "upsert"
    BY <1>2, <1>8, Moved DEF EmbedUpsert, At
  <2>2. QED
    BY <1>1, <2>1, MoveOrdered, StandsOn
<1>9. CASE TaskRetry(r)
  <2>1. Goes(TaskStart(run[r].pc)) /\ UNCHANGED row /\ run[r].pc \in TaskSteps
    BY <1>9, RunRetried DEF TypeOK, TaskRetry
  <2>2. \A s : Stands(run[r].pc, s) => Stands(TaskStart(run[r].pc), s)
    BY <2>1, StandsOn
  <2>3. QED
    BY <1>1, <2>1, <2>2, MoveOrdered
<1>10. QED
  BY <1>3, <1>4, <1>5, <1>6, <1>7, <1>8, <1>9

(* Those that write one: *)
LEMMA WritesOrdered ==
    ASSUME TypeOK, CoreInv, Ordered, NEW r \in Runs,
           FetchBegin(r) \/ FetchRecord(r) \/ Parse(r) \/ EmbedBegin(r) \/ EmbedFlip(r)
    PROVE  Ordered' /\ LegalStep
<1> DEFINE Goes(p) == \A q \in Runs : /\ run'[q].doc = run[q].doc /\ run'[q].host = run[q].host
                                      /\ run'[q].pc = IF q = r THEN p ELSE run[q].pc
           Writes(s) == \A e \in Docs : row'[e].st = IF e = run[r].doc /\ Exists(e) THEN s ELSE row[e].st
<1>1. Executing(r) /\ met' = met
  BY DEF FetchBegin, FetchRecord, Parse, EmbedBegin, EmbedFlip, At
<1>2. run[r].doc \in Docs /\ run[r].pc # "none"
  BY <1>1, RunFacts
<1>s. {"fetching", "parsing", "embedding", "indexed"} \subseteq Active \cup Settled
  BY DEF Active, Settled
<1>p. {"load", "parse", "parsed", "purge", "graph"} \subseteq Positions \ {"none"}
  BY DEF Positions, TaskSteps, FetchSteps, ParseSteps, EmbedSteps
<1>3. CASE FetchBegin(r)
  <2>1. Goes("load")
    BY <1>2, <1>3, <1>p, Moved DEF FetchBegin, At
  <2>2. Writes("fetching")
    BY <1>2, <1>3, <1>s, StatusSet DEF FetchBegin, TypeOK
  <2>3. QED
    BY <1>1, <1>s, <2>1, <2>2, WriteOrdered, StandsAt, LegalWrites
<1>4. CASE FetchRecord(r)
  <2>1. Goes("parse")
    BY <1>2, <1>4, <1>p, Moved DEF FetchRecord, At
  <2>2. Writes("fetching")
    <3>1. \A e \in Docs : \/ row'[e] = row[e] /\ (e = run[r].doc => ~Exists(e))
                          \/ e = run[r].doc /\ Exists(e) /\ row'[e].st = "fetching"
      BY <1>2, <1>4, RowRecorded DEF TypeOK
    <3>2. QED
      BY <3>1
  <2>3. QED
    BY <1>1, <1>s, <2>1, <2>2, WriteOrdered, StandsAt, LegalWrites
<1>5. CASE Parse(r)
  <2>1. Goes("parsed") /\ run[r].pc = "parse"
    BY <1>2, <1>5, <1>p, Moved DEF Parse, At
  <2>2. Writes("parsing")
    BY <1>2, <1>5, <1>s, StatusSet DEF Parse, TypeOK
  <2>3. QED
    BY <1>1, <1>s, <2>1, <2>2, WriteOrdered, StandsAt
<1>6. CASE EmbedBegin(r)
  <2>1. Goes("purge") /\ run[r].pc = "embed"
    BY <1>2, <1>6, <1>p, Moved DEF EmbedBegin, At
  <2>2. Writes("embedding")
    BY <1>2, <1>6, <1>s, StatusSet DEF EmbedBegin, TypeOK
  <2>3. QED
    BY <1>1, <1>s, <2>1, <2>2, WriteOrdered, StandsAt
<1>7. CASE EmbedFlip(r)
  <2>1. Goes("graph") /\ run[r].pc = "flip"
    BY <1>2, <1>7, <1>p, Moved DEF EmbedFlip, At
  <2>2. Writes("indexed")
    BY <1>2, <1>7, <1>s, StatusSet DEF EmbedFlip, TypeOK
  <2>3. Stands("graph", "indexed")
    BY StandsOn
  <2>4. QED
    BY <1>1, <1>s, <2>1, <2>2, <2>3, WriteOrdered, StandsAt
<1>8. QED
  BY <1>3, <1>4, <1>5, <1>6, <1>7

(* A run that ends: skipped as a duplicate, or failed. *)
LEMMA EndsOrdered ==
    ASSUME TypeOK, CoreInv, Ordered, NEW r \in Runs, FetchSkip(r) \/ FlowFails(r)
    PROVE  Ordered' /\ LegalStep
<1> DEFINE d == run[r].doc
           s == IF FetchSkip(r) THEN "skipped" ELSE "failed"
<1>1. Executing(r) /\ met' = met
  BY DEF FetchSkip, FlowFails, At, Raises
<1>2. d \in Docs /\ run[r].pc # "none"
  BY <1>1, RunFacts
<1>3. RunsKept /\ ~Executing(r)'
  BY <1>2, RunEndedKept, RunEnded DEF FetchSkip, FlowFails, TypeOK, PrefectStates, Executing
<1>4. /\ \A e \in Docs : e # d => row'[e].st = row[e].st
      /\ row'[d].st = row[d].st \/ (Exists(d) /\ row'[d].st = s)
  <2>1. CASE FetchSkip(r)
    BY <1>2, <2>1, RowSkipped DEF TypeOK
  <2>2. CASE FlowFails(r) /\ ~FetchSkip(r)
    BY <1>2, <2>2, StatusSet DEF FlowFails, TypeOK, Settled
  <2>3. QED
    BY <2>1, <2>2
<1>5. {d} \notin met /\ Exists(d) => s \in LegalNext(row[d].st)
  <2>1. CASE FetchSkip(r)
    BY <1>1, <2>1, Found, StandsAt DEF FetchSkip, At
  <2>2. CASE ~FetchSkip(r)
    BY <2>2, LegalWrites
  <2>3. QED
    BY <2>1, <2>2
<1>6. \A q \in Runs : q # r /\ Executing(q) /\ run[q].doc = d => {d} \in met
  BY <1>1 DEF CoreInv, Overlaps
<1>e. run[r].doc = d
  OBVIOUS
<1> HIDE DEF d, s
<1>7. Ordered'
  <2> SUFFICES ASSUME NEW q \in Runs, Alone(q)', row'[run'[q].doc].st \notin NoRow
               PROVE  row'[run'[q].doc].st \in Reset \/ Stands(run'[q].pc, row'[run'[q].doc].st)
    BY DEF Ordered, Exists
  <2>1. Alone(q) /\ run'[q].doc = run[q].doc /\ run'[q].pc = run[q].pc /\ q # r
    BY <1>1, <1>3 DEF Alone, Executing, RunsKept
  <2>2. run[q].doc \in Docs /\ run[q].doc # d
    BY <1>6, <2>1, ExecutingDoc DEF Alone, CoreInv
  <2>3. row'[run[q].doc].st = row[run[q].doc].st
    BY <1>4, <2>2
  <2>4. QED
    BY <2>1, <2>3 DEF Ordered, Exists
<1>8. LegalStep
  <2> SUFFICES ASSUME NEW e \in Docs, Exists(e), {e} \notin met'
               PROVE  row'[e].st \in LegalNext(row[e].st)
    BY DEF LegalStep
  <2>1. CASE e # d
    BY <1>4, <2>1, LegalWrites
  <2>2. CASE e = d
    BY <1>1, <1>4, <1>5, <2>2, LegalWrites
  <2>3. QED
    BY <2>1, <2>2
<1>9. QED
  BY <1>7, <1>8

(* Steps that leave the rows alone and move no run that was executing. *)
LEMMA StillOrdered ==
    ASSUME TypeOK, CoreInv, Ordered, met \subseteq met', \A e \in Docs : row'[e].st = row[e].st,
           \A q \in Runs : run'[q].host # NoWorker =>
               /\ run'[q].doc = run[q].doc
               /\ run[q].host = NoWorker => run'[q].pc = "launch" /\ run[q].doc \in Docs
               /\ run[q].host # NoWorker => run'[q].pc = run[q].pc
    PROVE  Ordered' /\ LegalStep
<1>1. Ordered'
  <2> SUFFICES ASSUME NEW q \in Runs, Alone(q)', row'[run'[q].doc].st \notin NoRow
               PROVE  row'[run'[q].doc].st \in Reset \/ Stands(run'[q].pc, row'[run'[q].doc].st)
    BY DEF Ordered, Exists
  <2>1. CASE Executing(q)
    <3>1. Alone(q) /\ run[q].doc \in Docs /\ run'[q].doc = run[q].doc /\ run'[q].pc = run[q].pc
      BY <2>1, ExecutingDoc DEF Alone, Executing, CoreInv
    <3>2. row'[run[q].doc].st = row[run[q].doc].st
      BY <3>1
    <3>3. QED
      BY <3>1, <3>2 DEF Ordered, Exists
  <2>2. CASE ~Executing(q)
    BY <2>2, StandsOn DEF Alone, Executing
  <2>3. QED
    BY <2>1, <2>2
<1>2. LegalStep
  BY LegalWrites DEF LegalStep
<1>3. QED
  BY <1>1, <1>2

(* A row that comes or goes: nobody is at work on it, or it is not there after. *)
LEMMA RowsOrdered ==
    ASSUME IndInv, Ordered, NEW c \in Docs, Register(c) \/ DeleteRow(c)
    PROVE  Ordered' /\ LegalStep
<1>1. TypeOK /\ CoreInv /\ Known
  BY DEF IndInv, Strengthening, CoreInv
<1>2. /\ UNCHANGED <<run, met>>
      /\ \A e \in Docs : e # c => row'[e] = row[e]
      /\ \/ row[c].st \in NoRow /\ \A q \in Runs : run[q].doc # c
         \/ row'[c].st \in NoRow
  BY <1>1, RowRegistered, RowDeleted DEF Register, DeleteRow, TypeOK, Known, NoRow
<1>3. Ordered'
  <2> SUFFICES ASSUME NEW q \in Runs, Alone(q)', row'[run'[q].doc].st \notin NoRow
               PROVE  row'[run'[q].doc].st \in Reset \/ Stands(run'[q].pc, row'[run'[q].doc].st)
    BY DEF Ordered, Exists
  <2>1. Alone(q) /\ run'[q] = run[q] /\ run[q].doc \in Docs
    BY <1>1, <1>2, ExecutingDoc DEF Alone, Executing, CoreInv
  <2>2. run[q].doc # c
    BY <1>2, <2>1
  <2>3. row'[run[q].doc] = row[run[q].doc]
    BY <1>2, <2>1, <2>2
  <2>4. QED
    BY <2>1, <2>3 DEF Ordered, Exists
<1>4. LegalStep
  BY <1>2, LegalWrites DEF LegalStep, Exists
<1>5. QED
  BY <1>3, <1>4

(* A DELETE, a purge, the end of the API process and a pick-up leave every row alone. *)
LEMMA RequestsOrdered ==
    ASSUME IndInv, Ordered,
           \/ \E c \in Docs : \/ DeletePurge(c) \/ DeletePurgeRaises(c) \/ DeleteObject(c)
                              \/ DeleteObjectRaises(c) \/ DeleteCancel(c) \/ VideoPurge(Owner[c])
           \/ ApiCrash
           \/ \E r \in Runs, w \in Workers : PickUp(r, w)
    PROVE  Ordered' /\ LegalStep
<1>1. TypeOK /\ CoreInv
  BY DEF IndInv, Strengthening, CoreInv
<1>2. UNCHANGED row /\ met \subseteq met'
  BY DEF DeletePurge, DeletePurgeRaises, MeetsDelete, DeleteObject, DeleteObjectRaises, DeleteCancel,
         VideoPurge, ApiCrash, PickUp
<1>3. \A q \in Runs : run'[q].host # NoWorker =>
               /\ run'[q].doc = run[q].doc
               /\ run[q].host = NoWorker => run'[q].pc = "launch" /\ run[q].doc \in Docs
               /\ run[q].host # NoWorker => run'[q].pc = run[q].pc
  <2>1. CASE \E c \in Docs : DeleteCancel(c)
    BY <1>1, <2>1, RunsCancelled DEF TypeOK
  <2>2. CASE \/ \E c \in Docs : \/ DeletePurge(c) \/ DeletePurgeRaises(c) \/ DeleteObject(c)
                               \/ DeleteObjectRaises(c) \/ VideoPurge(Owner[c])
             \/ ApiCrash
    BY <2>2 DEF DeletePurge, DeletePurgeRaises, DeleteObject, DeleteObjectRaises, VideoPurge, ApiCrash
  <2>3. ASSUME NEW r \in Runs, NEW w \in Workers, PickUp(r, w)
        PROVE  \A q \in Runs : run'[q].host # NoWorker =>
                   /\ run'[q].doc = run[q].doc
                   /\ run[q].host = NoWorker => run'[q].pc = "launch" /\ run[q].doc \in Docs
                   /\ run[q].host # NoWorker => run'[q].pc = run[q].pc
    <3>1. \A q \in Runs : /\ run'[q].doc = run[q].doc
                          /\ run'[q].pc = IF q = r THEN "launch" ELSE run[q].pc
                          /\ run'[q].host = IF q = r THEN w ELSE run[q].host
      BY <1>1, <2>3, RunPicked DEF TypeOK
    <3>2. run[r].pc = "queued" /\ run[r].doc \in Docs
      BY <1>1, <2>3 DEF PickUp, TypeOK, RunType
    <3>3. run[r].host = NoWorker
      BY <1>1, <3>2 DEF CoreInv, Placed, Executing, TaskSteps, FetchSteps, ParseSteps, EmbedSteps
    <3>4. QED
      BY <3>1, <3>2, <3>3
  <2>4. QED
    BY <2>1, <2>2, <2>3
<1>4. QED
  BY <1>1, <1>2, <1>3, StillOrdered

(* Every step keeps the order. *)
LEMMA NextOrdered == IndInv /\ IndInv' /\ Ordered /\ [Next]_vars => Ordered' /\ LegalStep
<1> SUFFICES ASSUME IndInv, IndInv', Ordered, [Next]_vars PROVE Ordered' /\ LegalStep
  OBVIOUS
<1>1. TypeOK /\ TypeOK' /\ CoreInv
  BY DEF IndInv, Strengthening, CoreInv
<1>2. ASSUME NEW c \in Docs, Api(c) \/ Age(c) PROVE Ordered' /\ LegalStep
  <2>1. CASE Register(c) \/ DeleteRow(c)
    BY <2>1, RowsOrdered
  <2>2. CASE \/ DeletePurge(c) \/ DeletePurgeRaises(c) \/ DeleteObject(c) \/ DeleteObjectRaises(c)
             \/ DeleteCancel(c)
    BY <2>2, RequestsOrdered
  <2>3. CASE \/ DispatchCheck(c) \/ DispatchEnqueue(c) \/ DispatchRecord(c) \/ DispatchRaises(c)
             \/ RetryReset(c) \/ RetryEnqueue(c) \/ RetryRecord(c) \/ RetryRaises(c) \/ Age(c)
    BY <1>1, <2>3, DispatchFrame, FrameOrdered
  <2>4. QED
    BY <1>2, <2>1, <2>2, <2>3 DEF Api
<1>3. ASSUME NEW r \in Runs, Flow(r) PROVE Ordered' /\ LegalStep
  <2>1. CASE /\ LaunchFails(r) \/ CancelStops(r) \/ FetchNoRow(r) \/ RecordMentions(r)
             /\ ~FetchSkip(r)
    BY <1>1, <2>1, RunEndFrame, FrameOrdered
  <2>2. CASE FetchSkip(r) \/ FlowFails(r)
    BY <1>1, <2>2, EndsOrdered
  <2>3. CASE \/ Launch(r) \/ FetchLoad(r) \/ FetchStore(r) \/ Caption(r)
             \/ EmbedPurge(r) \/ EmbedUpsert(r) \/ TaskRetry(r)
    BY <1>1, <2>3, MovesOrdered
  <2>4. CASE FetchBegin(r) \/ FetchRecord(r) \/ Parse(r) \/ EmbedBegin(r) \/ EmbedFlip(r)
    BY <1>1, <2>4, WritesOrdered
  <2>5. CASE \E w \in Workers : PickUp(r, w)
    BY <2>5, RequestsOrdered
  <2>6. QED
    BY <1>3, <2>1, <2>2, <2>3, <2>4, <2>5 DEF Flow, Progress
<1>4. ASSUME NEW w \in Workers, Worker(w) PROVE Ordered' /\ LegalStep
  BY <1>1, <1>4, WorkerFrame, FrameOrdered
<1>5. CASE ApiCrash
  BY <1>5, RequestsOrdered
<1>6. CASE BeatExpires \/ UNCHANGED vars
  <2>1. RowsKept /\ RowsReset
    BY <1>6, RowsSame DEF BeatExpires, vars
  <2>2. RunsKept /\ DeletesKept /\ UNCHANGED <<index, taken, bucket, lost, met>>
    BY <1>6 DEF BeatExpires, vars, RunsKept, DeletesKept
  <2>3. QED
    BY <1>1, <2>1, <2>2, FrameOrdered DEF Framed
<1>7. CASE \E c \in Docs : VideoPurge(Owner[c])
  BY <1>7, RequestsOrdered
<1>8. QED
  BY <1>2, <1>3, <1>4, <1>5, <1>6, <1>7 DEF Next

(* No step skips a stage of the documented lifecycle (doc_pipeline's stage    *)
(* order), unless two runs of the document, or a run and a DELETE, were ever  *)
(* at work at once; and a row that a retry, a sweep or a failure left         *)
(* 'pending' or 'failed' may take any status from the run that is at it.      *)
THEOREM StagesInOrder == Spec => LifecycleOrder
<1>1. Init => Ordered
  BY DEF Init, Ordered, Alone, Executing
<1>2. IndInv /\ IndInv' /\ Ordered /\ [Next]_vars => Ordered'
  BY NextOrdered
<1>3. IndInv /\ IndInv' /\ Ordered /\ [Next]_vars
      => [\A d \in Docs : Exists(d) /\ Exists(d)' /\ {d} \notin met'
                          => row'[d].st \in LegalNext(row[d].st)]_vars
  BY NextOrdered DEF LegalStep
<1>4. QED
  BY <1>1, <1>2, <1>3, Invariance, PTL DEF Spec, LifecycleOrder

=============================================================================
