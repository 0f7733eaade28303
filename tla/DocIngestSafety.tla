-------------------------- MODULE DocIngestSafety --------------------------
(***************************************************************************)
(* The safety properties of DocIngest hold in every reachable state, for   *)
(* every value of its constants.  IndInv is shown inductive: most steps    *)
(* are either frames (they index nothing, start no run and leave the       *)
(* stores alone: FrameStep) or local moves of one executing run            *)
(* (LocalStep); the flip to 'indexed', the pick-up, the registration and   *)
(* the DELETE handler are treated one by one.                              *)
(***************************************************************************)
EXTENDS DocIngestTypes

(* The inductive invariant without the types and without Known. *)
CoreInv ==
    /\ Placed /\ Overlaps /\ RunOwnsRow /\ DeletePurged
    /\ HashRecorded /\ NoIndexedPeer /\ SafetyInv

(* What a frame may do to the rows, the run records and the DELETE requests. *)
RowsKept ==
    \A d \in Docs : /\ \/ row'[d].st = row[d].st
                       \/ Exists(d) /\ row'[d].st \in (Active \cup Settled) \ {"indexed"}
                    /\ row[d].hash => row'[d].hash
                    /\ row'[d].key = row[d].key

RunsKept ==
    \A r \in Runs : run'[r].host # NoWorker =>
        run[r].host # NoWorker /\ run'[r].doc = run[r].doc /\ run'[r].pc = run[r].pc

DeletesKept == \A d \in Docs : del'[d].pc = del[d].pc

Framed == RowsKept /\ RunsKept /\ DeletesKept /\ UNCHANGED <<index, taken, bucket, lost, met>>

(* The statuses others write under a run: a retry or a restart, or its failure. *)
Reset == {"pending", "failed"}

RowsReset == \A d \in Docs : row'[d].st = row[d].st \/ (Exists(d) /\ row'[d].st \in Reset)

(* A status of a live row is never that of an absent one. *)
LEMMA StatusesDisjoint ==
    \A s : s \in Active \cup Settled => s \notin NoRow /\ s # "deleted" /\ s # "unregistered"
BY DEF Active, Settled, NoRow

(* An executing run has a document. *)
LEMMA ExecutingDoc ==
    ASSUME TypeOK, Placed, NEW r \in Runs, Executing(r)
    PROVE  run[r].doc \in Docs
BY DEF TypeOK, RunType, Placed, TaskSteps, FetchSteps, ParseSteps, EmbedSteps

(* A step that indexes nothing, starts no run and leaves the stores alone *)
(* preserves the invariant.                                               *)
LEMMA FrameStep ==
    ASSUME TypeOK, TypeOK', CoreInv, Framed
    PROVE  CoreInv'
<1> USE DEF CoreInv, Framed
<1>0. \A d \in Docs : /\ Exists(d)' <=> Exists(d)
                      /\ row'[d].st = "deleted" => row[d].st = "deleted"
                      /\ row'[d].st = "indexed" => row[d].st = "indexed"
  BY StatusesDisjoint DEF RowsKept, Exists, NoRow
<1>1. \A r \in Runs : Executing(r)' => Executing(r) /\ run'[r].doc = run[r].doc
                                        /\ run'[r].pc = run[r].pc /\ run[r].doc \in Docs
  BY ExecutingDoc DEF RunsKept, Executing
<1>2. Placed'
  BY <1>1 DEF Placed
<1>3. Overlaps'
  BY <1>1 DEF Overlaps, DeletesKept, Peers
<1>4. RunOwnsRow'
  BY <1>0, <1>1 DEF RunOwnsRow, Alone
<1>5. DeletePurged'
  BY <1>0, StatusesDisjoint DEF DeletePurged, DeletesKept, RowsKept, Exists, NoRow
<1>6. HashRecorded'
  BY <1>0, <1>1 DEF HashRecorded, DeletesKept, RowsKept
<1>7. NoIndexedPeer'
  <2> SUFFICES ASSUME NEW r \in Runs, Executing(r)', run'[r].pc \in Checked,
                      NEW d \in Peers(run'[r].doc), {d, run'[r].doc} \notin met
               PROVE  row'[d].st # "indexed"
    BY DEF NoIndexedPeer, Peers
  <2>1. d \in Docs /\ row[d].st # "indexed"
    BY <1>1 DEF NoIndexedPeer, Peers
  <2>2. QED
    BY <1>0, <2>1
<1>8. SafetyInv'
  <2>1. IndexedSearchable' /\ DeletedUnsearchable'
    BY <1>0 DEF SafetyInv, IndexedSearchable, DeletedUnsearchable
  <2>2. DuplicatesCaught'
    BY <1>0 DEF SafetyInv, DuplicatesCaught, Peers
  <2>3. DurableCopy'
    BY DEF SafetyInv, DurableCopy, RowsKept
  <2>4. QED
    BY <2>1, <2>2, <2>3 DEF SafetyInv
<1>9. QED
  BY <1>2, <1>3, <1>4, <1>5, <1>6, <1>7, <1>8

(* One executing run r moves to position p, touching its own document only. *)
LocalMove(r, p) ==
    LET d == run[r].doc IN
    /\ Executing(r)
    /\ p \in TaskSteps \cup {"launch", "graph"}
    /\ \A q \in Runs : /\ run'[q].doc = run[q].doc /\ run'[q].host = run[q].host
                       /\ run'[q].pc = IF q = r THEN p ELSE run[q].pc
    /\ \A e \in Docs \ {d} : /\ row'[e] = row[e] /\ (e \in index' <=> e \in index)
                             /\ (e \in index' \cup taken' <=> e \in index \cup taken)
    /\ \/ row'[d].st = row[d].st
       \/ Exists(d) /\ row'[d].st \in (Active \cup Settled) \ {"indexed"}
    /\ row[d].hash => row'[d].hash
    /\ bucket \cup lost \subseteq bucket' \cup lost'
    /\ UNCHANGED <<met, del>>

(* What the position it moves to asks of its document. *)
Entitled(r, p) ==
    LET d == run[r].doc IN
    /\ {d} \notin met =>
          /\ p \in TaskSteps \ {"fetch"} => row'[d].st # "indexed"
          /\ p \in Checked => Exists(d)
          /\ p = "flip" => d \in index' \cup taken'
          /\ d \in index \cup taken /\ d \notin index' \cup taken' => row[d].st # "indexed"
          /\ d \in index' /\ d \notin index => row[d].st # "deleted"
    /\ Exists(d) /\ p \in Hashed => row'[d].hash
    /\ p = "record" => d \in bucket' \cup lost'
    /\ row'[d].key = d => row[d].key = d \/ d \in bucket' \cup lost'
    /\ p \in Checked =>
          \A e \in Peers(d) : {e, d} \notin met => row[e].st # "indexed"

(* A run that moves to a position it is entitled to preserves the *)
(* invariant.                                                     *)
LEMMA LocalStep ==
    ASSUME TypeOK, TypeOK', CoreInv, NEW r \in Runs, NEW p, LocalMove(r, p), Entitled(r, p)
    PROVE  CoreInv'
<1> DEFINE d == run[r].doc
<1> USE DEF CoreInv
<1>0. d \in Docs /\ Executing(r)
  BY ExecutingDoc DEF LocalMove
<1>1. \A q \in Runs : /\ run'[q].doc = run[q].doc
                      /\ run'[q].host = run[q].host
                      /\ run'[q].pc = IF q = r THEN p ELSE run[q].pc
  BY DEF LocalMove
<1>1a. \A q \in Runs : (Executing(q)' <=> Executing(q)) /\ (Executing(q) => run[q].doc \in Docs)
  BY <1>1, ExecutingDoc DEF Executing
<1>2a. \A e \in Docs : e # d => /\ row'[e] = row[e] /\ (e \in index' <=> e \in index)
                                /\ (e \in index' \cup taken' <=> e \in index \cup taken)
  BY DEF LocalMove
<1>2b. /\ \/ row'[d].st = row[d].st
          \/ Exists(d) /\ row'[d].st \in (Active \cup Settled) \ {"indexed"}
       /\ row[d].hash => row'[d].hash
  BY DEF LocalMove
<1>2. \A e \in Docs : /\ Exists(e)' <=> Exists(e)
                      /\ row'[e].st = "deleted" <=> row[e].st = "deleted"
                      /\ row'[e].st = "indexed" => row[e].st = "indexed"
                      /\ row[e].hash => row'[e].hash
  <2> HIDE DEF d
  <2>1. QED
    BY <1>2a, <1>2b, StatusesDisjoint DEF Exists, NoRow
<1>3. met' = met /\ del' = del /\ bucket \cup lost \subseteq bucket' \cup lost'
  BY DEF LocalMove
<1>4. \A q \in Runs : q # r /\ Executing(q) /\ run[q].doc = d => {d} \in met
  BY <1>0, <1>1 DEF Overlaps
<1>5. del[d].pc \in {"object", "row"} => {d} \in met
  BY <1>0 DEF Overlaps
<1>e1. {d} \notin met =>
          /\ p \in TaskSteps \ {"fetch"} => row'[d].st # "indexed"
          /\ p \in Checked => Exists(d)
          /\ p = "flip" => d \in index' \cup taken'
          /\ d \in index \cup taken /\ d \notin index' \cup taken' => row[d].st # "indexed"
          /\ d \in index' /\ d \notin index => row[d].st # "deleted"
  BY DEF Entitled
<1>e2. /\ Exists(d) /\ p \in Hashed => row'[d].hash
       /\ p = "record" => d \in bucket' \cup lost'
       /\ row'[d].key = d => row[d].key = d \/ d \in bucket' \cup lost'
  BY DEF Entitled
<1>e3. p \in Checked =>
          \A e \in Peers(d) : {e, d} \notin met => row[e].st # "indexed"
  BY DEF Entitled
<1>e4. run[r].doc = d
  OBVIOUS
<1> HIDE DEF d
<1>6. Placed'
  BY <1>1, <1>1a DEF Placed, LocalMove
<1>7. Overlaps'
  BY <1>1, <1>1a, <1>3 DEF Overlaps, Peers
<1>8. RunOwnsRow'
  <2> SUFFICES ASSUME NEW q \in Runs, Alone(q)'
               PROVE  /\ run'[q].pc \in TaskSteps \ {"fetch"} => row'[run'[q].doc].st # "indexed"
                      /\ run'[q].pc \in Checked => Exists(run[q].doc)'
                      /\ run'[q].pc = "flip" => run'[q].doc \in index' \cup taken'
    BY <1>1, <1>1a DEF RunOwnsRow
  <2>1. Alone(q)
    BY <1>1, <1>1a, <1>3 DEF Alone
  <2>2. CASE q = r
    <3>1. run'[q].pc \in TaskSteps \ {"fetch"} => row'[run'[q].doc].st # "indexed"
      BY <1>0, <1>1, <1>e1, <1>e4, <2>1, <2>2 DEF Alone
    <3>2. run'[q].pc \in Checked => Exists(run[q].doc)'
      BY <1>0, <1>1, <1>1a, <1>2, <1>2a, <1>e1, <1>e4, <2>1, <2>2 DEF Alone
    <3>3. run'[q].pc = "flip" => run'[q].doc \in index' \cup taken'
      BY <1>0, <1>1, <1>e1, <1>e4, <2>1, <2>2 DEF Alone
    <3> QED
      BY <3>1, <3>2, <3>3
  <2>3. CASE q # r
    <3>1. run'[q].pc = run[q].pc /\ run'[q].doc = run[q].doc /\ run[q].doc \in Docs
      BY <1>1, <1>1a, <2>1, <2>3 DEF Alone
    <3>2. run[q].doc # d
      BY <1>4, <2>1, <2>3 DEF Alone
    <3>3. run'[q].pc \in TaskSteps \ {"fetch"} => row'[run'[q].doc].st # "indexed"
      BY <1>2a, <2>1, <3>1, <3>2 DEF RunOwnsRow
    <3>4. run'[q].pc \in Checked => Exists(run[q].doc)'
      BY <1>1, <1>1a, <1>2, <2>1, <3>1 DEF RunOwnsRow
    <3>5. run'[q].pc = "flip" => run'[q].doc \in index' \cup taken'
      BY <1>2a, <2>1, <3>1, <3>2 DEF RunOwnsRow
    <3> QED
      BY <3>3, <3>4, <3>5
  <2>4. QED
    BY <2>2, <2>3
<1>9. DeletePurged'
  BY <1>2, <1>2a, <1>3, <1>5 DEF DeletePurged
<1>10. HashRecorded'
  <2>1. \A e \in Docs : row'[e].st = "indexed" => row'[e].hash
    BY <1>2, <1>2a DEF HashRecorded
  <2>2. ASSUME NEW q \in Runs, Executing(q)'
        PROVE  /\ run'[q].pc \in Hashed /\ Exists(run[q].doc)' => row'[run'[q].doc].hash
               /\ run'[q].pc = "record" => run'[q].doc \in bucket' \cup lost'
    <3>1. CASE q = r
      BY <1>0, <1>1, <1>1a, <1>2, <1>2a, <1>3, <1>e2, <1>e4, <2>2, <3>1 
    <3>2. CASE q # r
      BY <1>1, <1>1a, <1>2, <1>2a, <1>3, <2>2, <3>2 DEF HashRecorded
    <3>3. QED
      BY <3>1, <3>2
  <2>3. QED
    BY <1>1, <1>1a, <2>1, <2>2 DEF HashRecorded
<1>11. NoIndexedPeer'
  <2> SUFFICES ASSUME NEW q \in Runs, Executing(q)', run'[q].pc \in Checked,
                      NEW e \in Peers(run[q].doc), {e, run[q].doc} \notin met
               PROVE  row[e].st # "indexed"
    BY <1>1, <1>1a, <1>2, <1>2a, <1>3 DEF NoIndexedPeer, Peers
  <2>1. CASE q = r
    BY <1>1, <1>e3, <1>e4, <2>1
  <2>2. CASE q # r
    BY <1>1, <1>1a, <2>2 DEF NoIndexedPeer
  <2>3. QED
    BY <2>1, <2>2
<1>12. IndexedSearchable'
  BY <1>0, <1>2, <1>2a, <1>3, <1>e1 DEF SafetyInv, IndexedSearchable
<1>13. DeletedUnsearchable'
  BY <1>0, <1>2, <1>2a, <1>3, <1>e1 DEF SafetyInv, DeletedUnsearchable
<1>14. DuplicatesCaught'
  BY <1>2, <1>2a, <1>3 DEF SafetyInv, DuplicatesCaught, Peers
<1>15. DurableCopy'
  BY <1>0, <1>2, <1>2a, <1>3, <1>e2 DEF SafetyInv, DurableCopy
<1>16. QED
  BY <1>6, <1>7, <1>8, <1>9, <1>10, <1>11, <1>12, <1>13, <1>14, <1>15 DEF SafetyInv

-----------------------------------------------------------------------------
(* Steps that leave index, bucket and met alone and index no row. *)

(* A status write other than 'indexed' is such a step. *)
LEMMA StatusKept ==
    ASSUME RowType, NEW d \in Docs, NEW s \in (Active \cup Settled) \ {"indexed"}, SetStatus(d, s)
    PROVE  RowsKept /\ (s \in Reset => RowsReset)
<1>1. RowsKept
  BY StatusSet DEF RowsKept
<1>2. \A e \in Docs : row'[e].st = row[e].st \/ (Exists(e) /\ row'[e].st = s)
  BY StatusSet DEF Exists
<1>3. s \in Reset => RowsReset
  BY <1>2 DEF RowsReset
<1>4. QED
  BY <1>1, <1>3

(* So is recording a flow run id. *)
LEMMA FlowKept ==
    ASSUME RowType, NEW d \in Docs, NEW r \in Runs \cup {NoRun}, SetFlow(d, r)
    PROVE  RowsKept /\ RowsReset
<1>1. RowsKept
  BY FlowSet DEF RowsKept
<1>2. RowsReset
  BY FlowSet DEF RowsReset
<1>3. QED
  BY <1>1, <1>2

(* So is leaving the rows alone. *)
LEMMA RowsSame ==
    ASSUME UNCHANGED row
    PROVE  RowsKept /\ RowsReset
<1>1. RowsKept
  BY DEF RowsKept
<1>2. RowsReset
  BY DEF RowsReset
<1>3. QED
  BY <1>1, <1>2

(* A run just created does not execute yet. *)
LEMMA RunsCreatedKept ==
    ASSUME RunType, LeftType, NEW d \in Docs,
           (\E r \in Runs : Enqueue(d, r)) \/ EnqueueRaises(d)
    PROVE  RunsKept
BY RunsCreated, NewRunType DEF RunsKept

(* A run that ends executes no more. *)
LEMMA RunEndedKept ==
    ASSUME RunType, NEW r \in Runs, NEW s \in PrefectStates, run[r].pc # "none", Ended(r, s)
    PROVE  RunsKept
BY RunEnded DEF RunsKept

(* Growing stale changes nothing the invariant reads. *)
LEMMA AgeTouched ==
    ASSUME RowType, NEW d \in Docs, Age(d)
    PROVE  \A e \in Docs : /\ row'[e].st = row[e].st /\ row'[e].key = row[e].key
                           /\ row'[e].hash = row[e].hash
<1>1. row' = IF Exists(d) THEN [row EXCEPT ![d].stale = TRUE] ELSE row
  BY DEF Age, Exists, Active, NoRow
<1>2. QED
  BY <1>1, RowTouched

(* The background dispatch, the retry request and the passing of time *)
(* are such frames.                                                   *)
LEMMA DispatchFrame ==
    ASSUME TypeOK, TypeOK', NEW d \in Docs,
           \/ DispatchCheck(d) \/ DispatchEnqueue(d) \/ DispatchRecord(d)
           \/ DispatchRaises(d) \/ RetryReset(d) \/ RetryEnqueue(d) \/ RetryRecord(d)
           \/ RetryRaises(d) \/ Age(d)
    PROVE  Framed /\ RowsReset
<1>1. CASE DispatchCheck(d)
  <2>1. RowsKept /\ RowsReset
    BY <1>1, RowsSame DEF DispatchCheck
  <2>2. RunsKept
    BY <1>1 DEF RunsKept, DispatchCheck
  <2>3. DeletesKept /\ UNCHANGED <<index, taken, bucket, lost, met>>
    BY <1>1 DEF DeletesKept, DispatchCheck
  <2>4. QED
    BY <2>1, <2>2, <2>3 DEF Framed
<1>2. CASE DispatchEnqueue(d)
  <2>1. RowsKept /\ RowsReset
    BY <1>2, RowsSame DEF DispatchEnqueue
  <2>2. RunsKept
    BY <1>2, RunsCreatedKept DEF TypeOK, DispatchEnqueue
  <2>3. DeletesKept /\ UNCHANGED <<index, taken, bucket, lost, met>>
    BY <1>2 DEF DeletesKept, DispatchEnqueue
  <2>4. QED
    BY <2>1, <2>2, <2>3 DEF Framed
<1>3. CASE DispatchRecord(d)
  <2>1. RowsKept /\ RowsReset
    BY <1>3, FlowKept DEF TypeOK, DispatchRecord, DispatchType, Reset
  <2>2. RunsKept
    BY <1>3 DEF RunsKept, DispatchRecord
  <2>3. DeletesKept /\ UNCHANGED <<index, taken, bucket, lost, met>>
    BY <1>3 DEF DeletesKept, DispatchRecord
  <2>4. QED
    BY <2>1, <2>2, <2>3 DEF Framed
<1>4. CASE DispatchRaises(d)
  <2>1. RowsKept /\ RowsReset
    BY <1>4, StatusKept DEF TypeOK, DispatchRaises, Settled, Reset
  <2>2. RunsKept
    BY <1>4, RunsCreatedKept DEF TypeOK, DispatchRaises
  <2>3. DeletesKept /\ UNCHANGED <<index, taken, bucket, lost, met>>
    BY <1>4 DEF DeletesKept, DispatchRaises
  <2>4. QED
    BY <2>1, <2>2, <2>3 DEF Framed
<1>5. CASE RetryReset(d)
  <2>1. RowsKept /\ RowsReset
    BY <1>5, StatusKept DEF TypeOK, RetryReset, Active, Reset
  <2>2. RunsKept
    BY <1>5 DEF RunsKept, RetryReset
  <2>3. DeletesKept /\ UNCHANGED <<index, taken, bucket, lost, met>>
    BY <1>5 DEF DeletesKept, RetryReset
  <2>4. QED
    BY <2>1, <2>2, <2>3 DEF Framed
<1>6. CASE RetryEnqueue(d)
  <2>1. RowsKept /\ RowsReset
    BY <1>6, RowsSame DEF RetryEnqueue
  <2>2. RunsKept
    BY <1>6, RunsCreatedKept DEF TypeOK, RetryEnqueue
  <2>3. DeletesKept /\ UNCHANGED <<index, taken, bucket, lost, met>>
    BY <1>6 DEF DeletesKept, RetryEnqueue
  <2>4. QED
    BY <2>1, <2>2, <2>3 DEF Framed
<1>7. CASE RetryRecord(d)
  <2>1. RowsKept /\ RowsReset
    BY <1>7, FlowKept DEF TypeOK, RetryRecord, RetryType, Reset
  <2>2. RunsKept
    BY <1>7 DEF RunsKept, RetryRecord
  <2>3. DeletesKept /\ UNCHANGED <<index, taken, bucket, lost, met>>
    BY <1>7 DEF DeletesKept, RetryRecord
  <2>4. QED
    BY <2>1, <2>2, <2>3 DEF Framed
<1>8. CASE RetryRaises(d)
  <2>1. RowsKept /\ RowsReset
    BY <1>8, StatusKept DEF TypeOK, RetryRaises, Settled, Reset
  <2>2. RunsKept
    BY <1>8, RunsCreatedKept DEF TypeOK, RetryRaises
  <2>3. DeletesKept /\ UNCHANGED <<index, taken, bucket, lost, met>>
    BY <1>8 DEF DeletesKept, RetryRaises
  <2>4. QED
    BY <2>1, <2>2, <2>3 DEF Framed
<1>9. CASE Age(d)
  <2>0. \A e \in Docs : /\ row'[e].st = row[e].st /\ row'[e].key = row[e].key
                         /\ row'[e].hash = row[e].hash
    BY <1>9, AgeTouched DEF TypeOK
  <2>1a. RowsKept
    BY <2>0 DEF RowsKept
  <2>1b. RowsReset
    BY <2>0 DEF RowsReset
  <2>1. RowsKept /\ RowsReset
    BY <2>1a, <2>1b
  <2>2. RunsKept
    BY <1>9 DEF RunsKept, Age
  <2>3. DeletesKept /\ UNCHANGED <<index, taken, bucket, lost, met>>
    BY <1>9 DEF DeletesKept, Age
  <2>4. QED
    BY <2>1, <2>2, <2>3 DEF Framed
<1>10. QED
  BY <1>1, <1>2, <1>3, <1>4, <1>5, <1>6, <1>7, <1>8, <1>9

(* So are the worker process and its reconciler. *)
LEMMA WorkerFrame ==
    ASSUME TypeOK, TypeOK', NEW w \in Workers,
           Worker(w)
    PROVE  Framed /\ RowsReset
<1>0. sweep[w].pc \in {"reset", "enqueue", "record"} => sweep[w].doc \in Docs
  BY DEF TypeOK, SweepType
<1>1. CASE SweepBegin(w)
  <2>1. RowsKept /\ RowsReset
    BY <1>1, RowsSame DEF SweepBegin
  <2>2. RunsKept
    BY <1>1 DEF RunsKept, SweepBegin
  <2>3. DeletesKept /\ UNCHANGED <<index, taken, bucket, lost, met>>
    BY <1>1 DEF DeletesKept, SweepBegin
  <2>4. QED
    BY <2>1, <2>2, <2>3 DEF Framed
<1>2. CASE SweepPass(w)
  <2>1. RowsKept /\ RowsReset
    BY <1>2, RowsSame DEF SweepPass
  <2>2. RunsKept
    BY <1>2 DEF RunsKept, SweepPass
  <2>3. DeletesKept /\ UNCHANGED <<index, taken, bucket, lost, met>>
    BY <1>2 DEF DeletesKept, SweepPass
  <2>4. QED
    BY <2>1, <2>2, <2>3 DEF Framed
<1>3. CASE SweepCondemn(w)
  <2>1. RowsKept /\ RowsReset
    BY <1>3, RowsSame DEF SweepCondemn
  <2>2. RunsKept
    BY <1>3 DEF RunsKept, SweepCondemn
  <2>3. DeletesKept /\ UNCHANGED <<index, taken, bucket, lost, met>>
    BY <1>3 DEF DeletesKept, SweepCondemn
  <2>4. QED
    BY <2>1, <2>2, <2>3 DEF Framed
<1>4. CASE SweepReset(w)
  <2>1. RowsKept /\ RowsReset
    BY <1>0, <1>4, StatusKept DEF TypeOK, SweepReset, Active, Reset
  <2>2. RunsKept
    BY <1>4 DEF RunsKept, SweepReset
  <2>3. DeletesKept /\ UNCHANGED <<index, taken, bucket, lost, met>>
    BY <1>4 DEF DeletesKept, SweepReset
  <2>4. QED
    BY <2>1, <2>2, <2>3 DEF Framed
<1>5. CASE SweepEnqueue(w)
  <2>1. RowsKept /\ RowsReset
    BY <1>5, RowsSame DEF SweepEnqueue
  <2>2. RunsKept
    BY <1>0, <1>5, RunsCreatedKept DEF TypeOK, SweepEnqueue
  <2>3. DeletesKept /\ UNCHANGED <<index, taken, bucket, lost, met>>
    BY <1>5 DEF DeletesKept, SweepEnqueue
  <2>4. QED
    BY <2>1, <2>2, <2>3 DEF Framed
<1>6. CASE SweepRecord(w)
  <2>1. RowsKept /\ RowsReset
    BY <1>0, <1>6, FlowKept DEF TypeOK, SweepRecord, SweepType, Reset
  <2>2. RunsKept
    BY <1>6 DEF RunsKept, SweepRecord
  <2>3. DeletesKept /\ UNCHANGED <<index, taken, bucket, lost, met>>
    BY <1>6 DEF DeletesKept, SweepRecord
  <2>4. QED
    BY <2>1, <2>2, <2>3 DEF Framed
<1>7. CASE SweepRaises(w)
  <2>1. RowsKept /\ RowsReset
    BY <1>0, <1>7, StatusKept DEF TypeOK, SweepRaises, Settled, Reset
  <2>2. RunsKept
    BY <1>0, <1>7, RunsCreatedKept DEF TypeOK, SweepRaises
  <2>3. DeletesKept /\ UNCHANGED <<index, taken, bucket, lost, met>>
    BY <1>7 DEF DeletesKept, SweepRaises
  <2>4. QED
    BY <2>1, <2>2, <2>3 DEF Framed
<1>8. CASE SweepEnd(w)
  <2>1. RowsKept /\ RowsReset
    BY <1>8, RowsSame DEF SweepEnd
  <2>2. RunsKept
    BY <1>8 DEF RunsKept, SweepEnd
  <2>3. DeletesKept /\ UNCHANGED <<index, taken, bucket, lost, met>>
    BY <1>8 DEF DeletesKept, SweepEnd
  <2>4. QED
    BY <2>1, <2>2, <2>3 DEF Framed
<1>9. CASE WorkerCrash(w)
  <2>1. RowsKept /\ RowsReset
    BY <1>9, RowsSame DEF WorkerCrash
  <2>2. RunsKept
    BY <1>9, RunsKilled DEF TypeOK, RunsKept
  <2>3. DeletesKept /\ UNCHANGED <<index, taken, bucket, lost, met>>
    BY <1>9 DEF DeletesKept, WorkerCrash
  <2>4. QED
    BY <2>1, <2>2, <2>3 DEF Framed
<1>10. CASE WorkerRestart(w)
  <2>1. RowsKept /\ RowsReset
    BY <1>10, RowsSame DEF WorkerRestart
  <2>2. RunsKept
    BY <1>10 DEF RunsKept, WorkerRestart
  <2>3. DeletesKept /\ UNCHANGED <<index, taken, bucket, lost, met>>
    BY <1>10 DEF DeletesKept, WorkerRestart
  <2>4. QED
    BY <2>1, <2>2, <2>3 DEF Framed
<1>11. CASE Beat(w)
  <2>1. RowsKept /\ RowsReset
    BY <1>11, RowsSame DEF Beat
  <2>2. RunsKept
    BY <1>11 DEF RunsKept, Beat
  <2>3. DeletesKept /\ UNCHANGED <<index, taken, bucket, lost, met>>
    BY <1>11 DEF DeletesKept, Beat
  <2>4. QED
    BY <2>1, <2>2, <2>3 DEF Framed
<1>12. CASE \E d \in Docs : CooldownExpires(w, d)
  <2>1. RowsKept /\ RowsReset
    BY <1>12, RowsSame DEF CooldownExpires
  <2>2. RunsKept
    BY <1>12 DEF RunsKept, CooldownExpires
  <2>3. DeletesKept /\ UNCHANGED <<index, taken, bucket, lost, met>>
    BY <1>12 DEF DeletesKept, CooldownExpires
  <2>4. QED
    BY <2>1, <2>2, <2>3 DEF Framed
<1>13. QED
  BY <1>1, <1>2, <1>3, <1>4, <1>5, <1>6, <1>7, <1>8, <1>9, <1>10, <1>11, <1>12 DEF Worker,
     Reconcile

(* So is a run that ends without touching the stores. *)
LEMMA RunEndFrame ==
    ASSUME TypeOK, TypeOK', NEW r \in Runs,
           \/ LaunchFails(r) \/ CancelStops(r) \/ FetchNoRow(r) \/ FetchSkip(r)
           \/ RecordMentions(r)
    PROVE  Framed /\ (RowsReset \/ FetchSkip(r))
<1>0. \A p \in Runs : run[p].pc # "none" => run[p].doc \in Docs
  BY DEF TypeOK, RunType
<1>1. CASE LaunchFails(r)
  <2>1. RowsKept /\ RowsReset
    BY <1>1, RowsSame DEF LaunchFails
  <2>2. RunsKept
    BY <1>1, RunEndedKept DEF TypeOK, LaunchFails, At, PrefectStates
  <2>3. DeletesKept /\ UNCHANGED <<index, taken, bucket, lost, met>>
    BY <1>1 DEF DeletesKept, LaunchFails
  <2>4. QED
    BY <2>1, <2>2, <2>3 DEF Framed
<1>2. CASE CancelStops(r)
  <2>1. RowsKept /\ RowsReset
    BY <1>2, RowsSame DEF CancelStops
  <2>2. RunsKept
    BY <1>2, RunStopped DEF TypeOK, RunsKept
  <2>3. DeletesKept /\ UNCHANGED <<index, taken, bucket, lost, met>>
    BY <1>2 DEF DeletesKept, CancelStops
  <2>4. QED
    BY <2>1, <2>2, <2>3 DEF Framed
<1>3. CASE FetchNoRow(r)
  <2>1. RowsKept /\ RowsReset
    BY <1>3, RowsSame DEF FetchNoRow
  <2>2. RunsKept
    BY <1>3, RunEndedKept DEF TypeOK, FetchNoRow, At, PrefectStates
  <2>3. DeletesKept /\ UNCHANGED <<index, taken, bucket, lost, met>>
    BY <1>3 DEF DeletesKept, FetchNoRow
  <2>4. QED
    BY <2>1, <2>2, <2>3 DEF Framed
<1>4. CASE FetchSkip(r)
  <2>1. RowsKept
    BY <1>0, <1>4, RowSkipped DEF TypeOK, FetchSkip, At, RowsKept, Settled
  <2>2. RunsKept
    BY <1>4, RunEndedKept DEF TypeOK, FetchSkip, At, PrefectStates
  <2>3. DeletesKept /\ UNCHANGED <<index, taken, bucket, lost, met>>
    BY <1>4 DEF DeletesKept, FetchSkip
  <2>4. QED
    BY <1>4, <2>1, <2>2, <2>3 DEF Framed
<1>5. CASE RecordMentions(r)
  <2>1. RowsKept /\ RowsReset
    BY <1>5, RowsSame DEF RecordMentions
  <2>2. RunsKept
    BY <1>5, RunEndedKept DEF TypeOK, RecordMentions, At, PrefectStates
  <2>3. DeletesKept /\ UNCHANGED <<index, taken, bucket, lost, met>>
    BY <1>5 DEF DeletesKept, RecordMentions
  <2>4. QED
    BY <2>1, <2>2, <2>3 DEF Framed
<1>6. QED
  BY <1>1, <1>2, <1>3, <1>4, <1>5

(* Where an executing run stands: what its position says of its document. *)
LEMMA RunFacts ==
    ASSUME TypeOK, CoreInv, NEW r \in Runs, Executing(r)
    PROVE  LET d == run[r].doc IN
           /\ d \in Docs /\ run[r].pc # "none"
           /\ {d} \notin met =>
                /\ run[r].pc \in TaskSteps \ {"fetch"} => row[d].st # "indexed"
                /\ run[r].pc \in Checked => Exists(d)
                /\ run[r].pc = "flip" => d \in index \cup taken
           /\ Exists(d) /\ run[r].pc \in Hashed => row[d].hash
           /\ run[r].pc = "record" => d \in bucket \cup lost
           /\ run[r].pc \in Checked =>
                \A e \in Peers(d) : {e, d} \notin met => row[e].st # "indexed"
<1>1. run[r].doc \in Docs
  BY ExecutingDoc DEF CoreInv
<1>2. run[r].pc # "none"
  BY DEF CoreInv, Placed, TaskSteps, FetchSteps, ParseSteps, EmbedSteps
<1>3. QED
  BY <1>1, <1>2 DEF CoreInv, RunOwnsRow, Alone, HashRecorded, NoIndexedPeer

(* RunMoved, as the steps below use it. *)
LEMMA Moved ==
    ASSUME TypeOK, NEW r \in Runs, NEW p \in Positions \ {"none"}, run[r].pc # "none",
           Advance(r, p) \/ NextTask(r, p)
    PROVE  \A q \in Runs : /\ run'[q].doc = run[q].doc /\ run'[q].host = run[q].host
                           /\ run'[q].pc = IF q = r THEN p ELSE run[q].pc
BY RunMoved DEF TypeOK

(* A status write other than 'indexed', as the steps below use it. *)
LEMMA StatusEffect ==
    ASSUME RowType, NEW d \in Docs, NEW s \in (Active \cup Settled) \ {"indexed"}, SetStatus(d, s)
    PROVE  /\ \A e \in Docs \ {d} : row'[e] = row[e]
           /\ row'[d].key = row[d].key
           /\ row'[d].st = IF Exists(d) THEN s ELSE row[d].st
           /\ \/ row'[d].st = row[d].st
              \/ Exists(d) /\ row'[d].st \in (Active \cup Settled) \ {"indexed"}
           /\ row'[d].st # "indexed"
           /\ row[d].hash => row'[d].hash
BY StatusSet DEF Exists, NoRow

(* Entering t_fetch takes the row out of 'indexed'. *)
LEMMA FetchBeginCore ==
    ASSUME TypeOK, TypeOK', CoreInv, NEW r \in Runs, FetchBegin(r)
    PROVE  CoreInv'
<1> DEFINE d == run[r].doc
<1>1. Executing(r) /\ d \in Docs /\ run[r].pc # "none"
  BY RunFacts DEF FetchBegin, At, Raises
<1>2. \A q \in Runs : /\ run'[q].doc = run[q].doc /\ run'[q].host = run[q].host
                      /\ run'[q].pc = IF q = r THEN "load" ELSE run[q].pc
  BY <1>1, Moved DEF FetchBegin, At, Positions, TaskSteps, FetchSteps, ParseSteps, EmbedSteps
<1>3. /\ \A e \in Docs \ {d} : row'[e] = row[e]
      /\ \/ row'[d].st = row[d].st
         \/ Exists(d) /\ row'[d].st \in (Active \cup Settled) \ {"indexed"}
      /\ row[d].hash => row'[d].hash
  BY <1>1, StatusEffect DEF FetchBegin, TypeOK, Active
<1>3a. row'[d].st # "indexed" /\ row'[d].key = row[d].key
  BY <1>1, StatusEffect DEF FetchBegin, TypeOK, Active
<1>4. LocalMove(r, "load")
  BY <1>1, <1>2, <1>3 DEF LocalMove, FetchBegin, At, Positions, TaskSteps, FetchSteps,
     ParseSteps, EmbedSteps
<1>5. Entitled(r, "load")
  BY <1>1, <1>3, RunFacts, <1>3a DEF Entitled, FetchBegin, At, Exists, NoRow, Checked, Hashed,
     TaskSteps, FetchSteps, ParseSteps, EmbedSteps
<1>6. QED
  BY <1>4, <1>5, LocalStep

(* The upload of the durable copy only adds to the bucket. *)
LEMMA FetchStoreCore ==
    ASSUME TypeOK, TypeOK', CoreInv, NEW r \in Runs, FetchStore(r)
    PROVE  CoreInv'
<1> DEFINE d == run[r].doc
<1>1. Executing(r) /\ d \in Docs /\ run[r].pc # "none"
  BY RunFacts DEF FetchStore, At, Raises
<1>2. \A q \in Runs : /\ run'[q].doc = run[q].doc /\ run'[q].host = run[q].host
                      /\ run'[q].pc = IF q = r THEN "record" ELSE run[q].pc
  BY <1>1, Moved DEF FetchStore, At, Positions, TaskSteps, FetchSteps, ParseSteps, EmbedSteps
<1>3. /\ \A e \in Docs \ {d} : row'[e] = row[e]
      /\ \/ row'[d].st = row[d].st
         \/ Exists(d) /\ row'[d].st \in (Active \cup Settled) \ {"indexed"}
      /\ row[d].hash => row'[d].hash
  BY DEF FetchStore
<1>4. LocalMove(r, "record")
  BY <1>1, <1>2, <1>3 DEF LocalMove, FetchStore, At, Positions, TaskSteps, FetchSteps,
     ParseSteps, EmbedSteps
<1>5. Entitled(r, "record")
  BY <1>1, <1>3, RunFacts DEF Entitled, FetchStore, At, Exists, NoRow, Checked, Hashed,
     TaskSteps, FetchSteps, ParseSteps, EmbedSteps
<1>6. QED
  BY <1>4, <1>5, LocalStep

(* t_parse keeps the invariant. *)
LEMMA ParseCore ==
    ASSUME TypeOK, TypeOK', CoreInv, NEW r \in Runs, Parse(r)
    PROVE  CoreInv'
<1> DEFINE d == run[r].doc
<1>1. Executing(r) /\ d \in Docs /\ run[r].pc # "none"
  BY RunFacts DEF Parse, At, Raises
<1>2. \A q \in Runs : /\ run'[q].doc = run[q].doc /\ run'[q].host = run[q].host
                      /\ run'[q].pc = IF q = r THEN "parsed" ELSE run[q].pc
  BY <1>1, Moved DEF Parse, At, Positions, TaskSteps, FetchSteps, ParseSteps, EmbedSteps
<1>3. /\ \A e \in Docs \ {d} : row'[e] = row[e]
      /\ \/ row'[d].st = row[d].st
         \/ Exists(d) /\ row'[d].st \in (Active \cup Settled) \ {"indexed"}
      /\ row[d].hash => row'[d].hash
  BY <1>1, StatusEffect DEF Parse, TypeOK, Active
<1>3a. row'[d].st # "indexed" /\ row'[d].key = row[d].key
  BY <1>1, StatusEffect DEF Parse, TypeOK, Active
<1>4. LocalMove(r, "parsed")
  BY <1>1, <1>2, <1>3 DEF LocalMove, Parse, At, Positions, TaskSteps, FetchSteps, ParseSteps,
     EmbedSteps
<1>5. Entitled(r, "parsed")
  BY <1>1, <1>3, RunFacts, <1>3a DEF Entitled, Parse, At, Exists, NoRow, Checked, Hashed,
     TaskSteps, FetchSteps, ParseSteps, EmbedSteps
<1>6. QED
  BY <1>4, <1>5, LocalStep

(* t_caption keeps the invariant. *)
LEMMA CaptionCore ==
    ASSUME TypeOK, TypeOK', CoreInv, NEW r \in Runs, Caption(r)
    PROVE  CoreInv'
<1> DEFINE d == run[r].doc
<1>1. Executing(r) /\ d \in Docs /\ run[r].pc # "none"
  BY RunFacts DEF Caption, At, Raises
<1>2. \A q \in Runs : /\ run'[q].doc = run[q].doc /\ run'[q].host = run[q].host
                      /\ run'[q].pc = IF q = r THEN "embed" ELSE run[q].pc
  BY <1>1, Moved DEF Caption, At, Positions, TaskSteps, FetchSteps, ParseSteps, EmbedSteps
<1>3. /\ \A e \in Docs \ {d} : row'[e] = row[e]
      /\ \/ row'[d].st = row[d].st
         \/ Exists(d) /\ row'[d].st \in (Active \cup Settled) \ {"indexed"}
      /\ row[d].hash => row'[d].hash
  BY DEF Caption
<1>4. LocalMove(r, "embed")
  BY <1>1, <1>2, <1>3 DEF LocalMove, Caption, At, Positions, TaskSteps, FetchSteps, ParseSteps,
     EmbedSteps
<1>5. Entitled(r, "embed")
  BY <1>1, <1>3, RunFacts DEF Entitled, Caption, At, Exists, NoRow, Checked, Hashed, TaskSteps,
     FetchSteps, ParseSteps, EmbedSteps
<1>6. QED
  BY <1>4, <1>5, LocalStep

(* Entering t_embed_index keeps the invariant. *)
LEMMA EmbedBeginCore ==
    ASSUME TypeOK, TypeOK', CoreInv, NEW r \in Runs, EmbedBegin(r)
    PROVE  CoreInv'
<1> DEFINE d == run[r].doc
<1>1. Executing(r) /\ d \in Docs /\ run[r].pc # "none"
  BY RunFacts DEF EmbedBegin, At, Raises
<1>2. \A q \in Runs : /\ run'[q].doc = run[q].doc /\ run'[q].host = run[q].host
                      /\ run'[q].pc = IF q = r THEN "purge" ELSE run[q].pc
  BY <1>1, Moved DEF EmbedBegin, At, Positions, TaskSteps, FetchSteps, ParseSteps, EmbedSteps
<1>3. /\ \A e \in Docs \ {d} : row'[e] = row[e]
      /\ \/ row'[d].st = row[d].st
         \/ Exists(d) /\ row'[d].st \in (Active \cup Settled) \ {"indexed"}
      /\ row[d].hash => row'[d].hash
  BY <1>1, StatusEffect DEF EmbedBegin, TypeOK, Active
<1>3a. row'[d].st # "indexed" /\ row'[d].key = row[d].key
  BY <1>1, StatusEffect DEF EmbedBegin, TypeOK, Active
<1>4. LocalMove(r, "purge")
  BY <1>1, <1>2, <1>3 DEF LocalMove, EmbedBegin, At, Positions, TaskSteps, FetchSteps,
     ParseSteps, EmbedSteps
<1>5. Entitled(r, "purge")
  BY <1>1, <1>3, RunFacts, <1>3a DEF Entitled, EmbedBegin, At, Exists, NoRow, Checked, Hashed,
     TaskSteps, FetchSteps, ParseSteps, EmbedSteps
<1>6. QED
  BY <1>4, <1>5, LocalStep

(* The purge of old chunks happens while the row is not indexed. *)
LEMMA EmbedPurgeCore ==
    ASSUME TypeOK, TypeOK', CoreInv, NEW r \in Runs, EmbedPurge(r)
    PROVE  CoreInv'
<1> DEFINE d == run[r].doc
<1>1. Executing(r) /\ d \in Docs /\ run[r].pc # "none"
  BY RunFacts DEF EmbedPurge, At, Raises
<1>2. \A q \in Runs : /\ run'[q].doc = run[q].doc /\ run'[q].host = run[q].host
                      /\ run'[q].pc = IF q = r THEN "upsert" ELSE run[q].pc
  BY <1>1, Moved DEF EmbedPurge, At, Positions, TaskSteps, FetchSteps, ParseSteps, EmbedSteps
<1>3. /\ \A e \in Docs \ {d} : row'[e] = row[e]
      /\ \/ row'[d].st = row[d].st
         \/ Exists(d) /\ row'[d].st \in (Active \cup Settled) \ {"indexed"}
      /\ row[d].hash => row'[d].hash
  BY DEF EmbedPurge
<1>4. LocalMove(r, "upsert")
  BY <1>1, <1>2, <1>3 DEF LocalMove, EmbedPurge, At, Positions, TaskSteps, FetchSteps,
     ParseSteps, EmbedSteps
<1>5. Entitled(r, "upsert")
  BY <1>1, <1>3, RunFacts DEF Entitled, EmbedPurge, At, Exists, NoRow, Checked, Hashed,
     TaskSteps, FetchSteps, ParseSteps, EmbedSteps
<1>6. QED
  BY <1>4, <1>5, LocalStep

(* The upsert of new chunks happens while the row exists. *)
LEMMA EmbedUpsertCore ==
    ASSUME TypeOK, TypeOK', CoreInv, NEW r \in Runs, EmbedUpsert(r)
    PROVE  CoreInv'
<1> DEFINE d == run[r].doc
<1>1. Executing(r) /\ d \in Docs /\ run[r].pc # "none"
  BY RunFacts DEF EmbedUpsert, At, Raises
<1>2. \A q \in Runs : /\ run'[q].doc = run[q].doc /\ run'[q].host = run[q].host
                      /\ run'[q].pc = IF q = r THEN "flip" ELSE run[q].pc
  BY <1>1, Moved DEF EmbedUpsert, At, Positions, TaskSteps, FetchSteps, ParseSteps, EmbedSteps
<1>3. /\ \A e \in Docs \ {d} : row'[e] = row[e]
      /\ \/ row'[d].st = row[d].st
         \/ Exists(d) /\ row'[d].st \in (Active \cup Settled) \ {"indexed"}
      /\ row[d].hash => row'[d].hash
  BY DEF EmbedUpsert
<1>4. LocalMove(r, "flip")
  BY <1>1, <1>2, <1>3 DEF LocalMove, EmbedUpsert, Put, At, Positions, TaskSteps, FetchSteps,
     ParseSteps, EmbedSteps
<1>5. Entitled(r, "flip")
  BY <1>1, <1>3, RunFacts DEF Entitled, EmbedUpsert, Put, At, Exists, NoRow, Checked, Hashed,
     TaskSteps, FetchSteps, ParseSteps, EmbedSteps
<1>6. QED
  BY <1>4, <1>5, LocalStep

-----------------------------------------------------------------------------
(* Runs that need more than that. *)

(* Launching a run keeps the invariant. *)
LEMMA LaunchCore ==
    ASSUME TypeOK, TypeOK', CoreInv, NEW r \in Runs, Launch(r)
    PROVE  CoreInv'
<1> DEFINE d == run[r].doc
<1>1. Executing(r) /\ d \in Docs
  BY RunFacts DEF Launch, At
<1>2. \A q \in Runs : /\ run'[q].doc = run[q].doc /\ run'[q].host = run[q].host
                      /\ run'[q].pc = IF q = r THEN "fetch" ELSE run[q].pc
  BY RunLaunched DEF TypeOK
<1>3. /\ \A e \in Docs : row'[e].st = row[e].st /\ row'[e].key = row[e].key /\ row'[e].hash = row[e].hash
      /\ \A e \in Docs \ {d} : row'[e] = row[e]
  BY <1>1, RowTouched DEF Launch, TypeOK, RowType
<1>4. LocalMove(r, "fetch")
  <2>1. "fetch" \in TaskSteps
    BY DEF TaskSteps, FetchSteps
  <2>2. row'[d].st = row[d].st /\ (row[d].hash => row'[d].hash)
    BY <1>1, <1>3
  <2> QED
    BY <1>1, <1>2, <1>3, <2>1, <2>2 DEF LocalMove, Launch
<1>5. Entitled(r, "fetch")
  BY <1>1, <1>3 DEF Entitled, Launch, Checked, Hashed, TaskSteps, FetchSteps, ParseSteps,
     EmbedSteps
<1>6. QED
  BY <1>4, <1>5, LocalStep

(* The duplicate check: a run that goes on has no indexed peer. *)
LEMMA FetchLoadCore ==
    ASSUME TypeOK, TypeOK', CoreInv, NEW r \in Runs, FetchLoad(r)
    PROVE  CoreInv'
<1> DEFINE d == run[r].doc
           p == IF DuplicatesOf(d) # {} THEN "skip" ELSE "store"
<1>1. Executing(r) /\ d \in Docs /\ run[r].pc # "none" /\ Exists(d)
  BY RunFacts DEF FetchLoad, At
<1>2. p \in Positions \ {"none"} /\ Advance(r, p)
  BY DEF FetchLoad, Positions, TaskSteps, FetchSteps, ParseSteps, EmbedSteps
<1>3. \A q \in Runs : /\ run'[q].doc = run[q].doc /\ run'[q].host = run[q].host
                      /\ run'[q].pc = IF q = r THEN p ELSE run[q].pc
  <2> HIDE DEF p
  <2>1. QED
    BY <1>1, <1>2, Moved
<1>4. p = "store" => \A e \in Peers(d) : row[e].st # "indexed"
  BY <1>1 DEF DuplicatesOf, CoreInv, HashRecorded, Peers
<1>5. LocalMove(r, p)
  <2>1. p \in TaskSteps \cup {"launch", "graph"}
    BY DEF TaskSteps, FetchSteps
  <2> HIDE DEF p
  <2>2. QED
    BY <1>1, <1>3, <2>1 DEF LocalMove, FetchLoad
<1>6. Entitled(r, p)
  BY <1>1, <1>4, RunFacts DEF Entitled, FetchLoad, At, Checked, Hashed, TaskSteps, FetchSteps,
     ParseSteps, EmbedSteps
<1>7. QED
  BY <1>5, <1>6, LocalStep

(* The hash and the key are recorded in one write, after the upload. *)
LEMMA FetchRecordCore ==
    ASSUME TypeOK, TypeOK', CoreInv, NEW r \in Runs, FetchRecord(r)
    PROVE  CoreInv'
<1> DEFINE d == run[r].doc
<1>1. Executing(r) /\ d \in Docs /\ run[r].pc # "none"
  BY RunFacts DEF FetchRecord, At
<1>2. \A q \in Runs : /\ run'[q].doc = run[q].doc /\ run'[q].host = run[q].host
                      /\ run'[q].pc = IF q = r THEN "parse" ELSE run[q].pc
  BY <1>1, Moved DEF FetchRecord, Positions, TaskSteps, FetchSteps, ParseSteps, EmbedSteps
<1>3. \A e \in Docs : \/ row'[e] = row[e] /\ (e = d => ~Exists(e))
                      \/ e = d /\ Exists(e) /\ row'[e].st = "fetching"
                            /\ row'[e].hash /\ row'[e].key = e
  BY <1>1, RowRecorded DEF TypeOK
<1>4. LocalMove(r, "parse")
  <2>1. /\ \A e \in Docs \ {d} : row'[e] = row[e]
        /\ \/ row'[d].st = row[d].st
           \/ Exists(d) /\ row'[d].st \in (Active \cup Settled) \ {"indexed"}
        /\ row[d].hash => row'[d].hash
    BY <1>1, <1>3 DEF Active
  <2>2. QED
    BY <1>1, <1>2, <2>1 DEF LocalMove, FetchRecord, Positions, TaskSteps, FetchSteps,
       ParseSteps, EmbedSteps
<1>5. Entitled(r, "parse")
  BY <1>1, <1>3, RunFacts DEF Entitled, FetchRecord, At, Exists, NoRow, Checked, Hashed,
     TaskSteps, FetchSteps, ParseSteps, EmbedSteps
<1>6. QED
  BY <1>4, <1>5, LocalStep

(* A task retry restarts the task; an upsert that raised may have been *)
(* applied.                                                            *)
LEMMA TaskRetryCore ==
    ASSUME TypeOK, TypeOK', CoreInv, NEW r \in Runs, TaskRetry(r)
    PROVE  CoreInv'
<1> DEFINE d == run[r].doc
           p == TaskStart(run[r].pc)
<1>1. Executing(r) /\ d \in Docs /\ run[r].pc \in TaskSteps
  BY RunFacts DEF TaskRetry, Raises
<1>2. \A q \in Runs : /\ run'[q].doc = run[q].doc /\ run'[q].host = run[q].host
                      /\ run'[q].pc = IF q = r THEN p ELSE run[q].pc
  BY RunRetried DEF TypeOK
<1>3. /\ (index' = index /\ taken' = taken) \/ (Put(d) /\ run[r].pc = "upsert")
      /\ UNCHANGED <<row, bucket, lost, met, del>>
  BY DEF TaskRetry, Raises
<1>4. /\ p \in {"fetch", "parse", "embed"}
      /\ p \in Checked => run[r].pc \in Checked
      /\ p \in Hashed => run[r].pc \in Hashed
      /\ p \in TaskSteps \ {"fetch"} => run[r].pc \in TaskSteps \ {"fetch"}
  BY <1>1 DEF TaskStart, Checked, Hashed, TaskSteps, FetchSteps, ParseSteps, EmbedSteps
<1>5. "upsert" \in Checked
  BY DEF Checked, Hashed, TaskSteps, FetchSteps, ParseSteps, EmbedSteps
<1> HIDE DEF p
<1>6. LocalMove(r, p)
  <2>1. p \in TaskSteps \cup {"launch", "graph"}
    BY <1>4 DEF TaskSteps, FetchSteps, ParseSteps, EmbedSteps
  <2>2. QED
    BY <1>1, <1>2, <1>3, <2>1 DEF LocalMove, Put
<1>7. Entitled(r, p)
  BY <1>1, <1>3, <1>4, <1>5, RunFacts DEF Entitled, Put, Exists, NoRow
<1>8. QED
  BY <1>6, <1>7, LocalStep

(* A failing run leaves its stage behind; at most its chunks stay. *)
LEMMA FlowFailsCore ==
    ASSUME TypeOK, TypeOK', CoreInv, NEW r \in Runs, FlowFails(r)
    PROVE  CoreInv'
<1> DEFINE d == run[r].doc
<1> USE DEF CoreInv
<1>1. Executing(r) /\ d \in Docs /\ run[r].pc # "none" /\ run[r].pc \in TaskSteps
  BY RunFacts DEF FlowFails, Raises
<1>2. RunsKept /\ ~Executing(r)'
  BY <1>1, RunEndedKept, RunEnded DEF FlowFails, TypeOK, PrefectStates, Executing
<1>3. RowsKept
  BY <1>1, StatusKept DEF FlowFails, TypeOK, Settled, RowsKept
<1>4. /\ (index' = index /\ taken' = taken)
         \/ (index' = index \cup {d} /\ taken' = taken \ {d} /\ run[r].pc = "upsert")
      /\ UNCHANGED <<bucket, lost, met, del>>
  BY DEF FlowFails, Raises, Put
<1>5. \A e \in Docs : /\ Exists(e)' <=> Exists(e)
                      /\ row'[e].st = "deleted" => row[e].st = "deleted"
                      /\ row'[e].st = "indexed" => row[e].st = "indexed"
                      /\ row[e].hash => row'[e].hash
  BY <1>3, StatusesDisjoint DEF RowsKept, Exists, NoRow
<1>6. \A q \in Runs : Executing(q)' => Executing(q) /\ run'[q].doc = run[q].doc
                                        /\ run'[q].pc = run[q].pc /\ run[q].doc \in Docs
  BY <1>2, ExecutingDoc DEF RunsKept, Executing
<1>7. {d} \notin met /\ index' # index => row[d].st # "deleted" /\ d \in index'
  BY <1>1, <1>4, RunFacts DEF Exists, NoRow, Checked, TaskSteps, EmbedSteps
<1>8. del[d].pc \in {"object", "row"} => {d} \in met
  BY <1>1 DEF Overlaps
<1>9. \A e \in Docs : e \in index \cup taken => e \in index' \cup taken'
  BY <1>4
<1>10. \A e \in Docs : e \in index' /\ e # d => e \in index
  BY <1>4
<1> HIDE DEF d
<1>11. Placed' /\ Overlaps'
  BY <1>4, <1>6 DEF Placed, Overlaps, Peers
<1>12. RunOwnsRow'
  BY <1>4, <1>5, <1>6, <1>9 DEF RunOwnsRow, Alone
<1>13. DeletePurged'
  <2>1. \A e \in Docs : row[e].st = "deleted" => row'[e].st = "deleted"
    BY <1>3 DEF RowsKept, Exists, NoRow
  <2>2. QED
    BY <1>4, <1>8, <1>10, <2>1 DEF DeletePurged
<1>14. HashRecorded'
  BY <1>4, <1>5, <1>6 DEF HashRecorded
<1>15. NoIndexedPeer'
  BY <1>4, <1>5, <1>6 DEF NoIndexedPeer, Peers
<1>16. IndexedSearchable'
  BY <1>4, <1>5, <1>9 DEF SafetyInv, IndexedSearchable
<1>17. DeletedUnsearchable'
  BY <1>1, <1>4, <1>5, <1>7, <1>10 DEF SafetyInv, DeletedUnsearchable
<1>18. DuplicatesCaught'
  BY <1>4, <1>5 DEF SafetyInv, DuplicatesCaught, Peers
<1>19. DurableCopy'
  BY <1>3, <1>4, <1>5 DEF SafetyInv, DurableCopy, RowsKept
<1>20. QED
  BY <1>11, <1>12, <1>13, <1>14, <1>15, <1>16, <1>17, <1>18, <1>19 DEF SafetyInv

-----------------------------------------------------------------------------
(* The steps that index a row, start a run, delete or register a document. *)

(* The flip to 'indexed': the chunks are there and no peer is indexed, or *)
(* an overlap was noted.                                                  *)
LEMMA EmbedFlipCore ==
    ASSUME TypeOK, TypeOK', CoreInv, NEW r \in Runs, EmbedFlip(r)
    PROVE  CoreInv'
<1> DEFINE d == run[r].doc
<1> USE DEF CoreInv
<1>1. Executing(r) /\ d \in Docs /\ run[r].pc # "none" /\ run[r].pc = "flip"
  BY RunFacts DEF EmbedFlip, At
<1>2. \A q \in Runs : /\ run'[q].doc = run[q].doc /\ run'[q].host = run[q].host
                      /\ run'[q].pc = IF q = r THEN "graph" ELSE run[q].pc
  BY <1>1, Moved DEF EmbedFlip, Positions, TaskSteps, FetchSteps, ParseSteps, EmbedSteps
<1>3. \A q \in Runs : (Executing(q)' <=> Executing(q)) /\ (Executing(q) => run[q].doc \in Docs)
  BY <1>2, ExecutingDoc DEF Executing
<1>4. /\ \A e \in Docs \ {d} : row'[e] = row[e]
      /\ row'[d].hash = row[d].hash /\ row'[d].key = row[d].key
      /\ row'[d].st = IF Exists(d) THEN "indexed" ELSE row[d].st
  BY <1>1, StatusSet DEF EmbedFlip, TypeOK, Settled
<1>5. UNCHANGED <<index, taken, bucket, lost, met, del>>
  BY DEF EmbedFlip
<1>6. /\ Exists(d) => row[d].hash
      /\ {d} \notin met => d \in index \cup taken
      /\ \A e \in Peers(d) : {e, d} \notin met => row[e].st # "indexed"
  BY <1>1, RunFacts DEF Checked, Hashed, TaskSteps, FetchSteps, ParseSteps, EmbedSteps
<1>7. \A e \in Docs : /\ Exists(e)' <=> Exists(e)
                      /\ row'[e].st = "deleted" <=> row[e].st = "deleted"
                      /\ row'[e].hash = row[e].hash /\ row'[e].key = row[e].key
  <2> HIDE DEF d
  <2>1. QED
    BY <1>4 DEF Exists, NoRow
<1>8. \A q \in Runs : /\ q # r /\ Executing(q) /\ run[q].doc = d => {d} \in met
                      /\ q # r /\ Executing(q) /\ d \in Peers(run[q].doc) => {run[q].doc, d} \in met
  BY <1>1, <1>3 DEF Overlaps
<1>9. Placed' /\ Overlaps'
  BY <1>2, <1>3, <1>5 DEF Placed, Overlaps, Peers
<1> "graph" \notin TaskSteps /\ Checked \subseteq TaskSteps /\ Hashed \subseteq TaskSteps
  BY DEF Checked, Hashed, TaskSteps, FetchSteps, ParseSteps, EmbedSteps
<1>e. run[r].doc = d
  OBVIOUS
<1> HIDE DEF d
<1>10. RunOwnsRow'
  <2> SUFFICES ASSUME NEW q \in Runs, Alone(q)'
               PROVE  /\ run'[q].pc \in TaskSteps \ {"fetch"} => row'[run'[q].doc].st # "indexed"
                      /\ run'[q].pc \in Checked => Exists(run[q].doc)'
                      /\ run'[q].pc = "flip" => run'[q].doc \in index' \cup taken'
    BY <1>2 DEF RunOwnsRow
  <2>1. Alone(q) /\ run[q].doc \in Docs
    BY <1>2, <1>3, <1>5 DEF Alone
  <2>2. CASE q = r
    BY <1>2, <2>2
  <2>3. CASE q # r
    <3>1. run[q].doc # d
      BY <1>8, <2>1, <2>3 DEF Alone
    <3>2. row'[run[q].doc] = row[run[q].doc] /\ (Exists(run[q].doc)' <=> Exists(run[q].doc))
      BY <1>2, <1>4, <1>7, <2>1, <3>1 DEF Exists
    <3>3. QED
      BY <1>2, <1>5, <2>1, <2>3, <3>2 DEF RunOwnsRow
  <2>4. QED
    BY <2>2, <2>3
<1>11. DeletePurged'
  BY <1>5, <1>7 DEF DeletePurged
<1>12. HashRecorded'
  <2>1. \A e \in Docs : row'[e].st = "indexed" => row'[e].hash
    BY <1>4, <1>6, <1>7 DEF HashRecorded, Exists, NoRow
  <2>2. ASSUME NEW q \in Runs, Executing(q)'
        PROVE  /\ run'[q].pc \in Hashed /\ Exists(run[q].doc)' => row'[run'[q].doc].hash
               /\ run'[q].pc = "record" => run'[q].doc \in bucket' \cup lost'
    BY <1>2, <1>3, <1>5, <1>7, <2>2 DEF HashRecorded
  <2>3. QED
    BY <1>2, <2>1, <2>2 DEF HashRecorded
<1>13. NoIndexedPeer'
  <2> SUFFICES ASSUME NEW q \in Runs, Executing(q)', run'[q].pc \in Checked,
                      NEW e \in Peers(run[q].doc), {e, run[q].doc} \notin met
               PROVE  row'[e].st # "indexed"
    BY <1>2, <1>5 DEF NoIndexedPeer, Peers
  <2>1. q # r /\ Executing(q) /\ run[q].pc \in Checked
    BY <1>2, <1>3
  <2>2. e # d /\ e \in Docs
    BY <1>8, <2>1 DEF Peers
  <2>3. QED
    BY <1>4, <2>1, <2>2 DEF NoIndexedPeer
<1>14. IndexedSearchable'
  BY <1>4, <1>5, <1>6 DEF SafetyInv, IndexedSearchable
<1>15. DeletedUnsearchable'
  BY <1>5, <1>7 DEF SafetyInv, DeletedUnsearchable
<1>16. DuplicatesCaught'
  <2> SUFFICES ASSUME NEW x \in Docs, NEW y \in Peers(x), row'[x].st = "indexed",
                      row'[y].st = "indexed"
               PROVE  {x, y} \in met
    BY <1>5 DEF DuplicatesCaught, Peers
  <2>1. y \in Docs /\ x # y /\ x \in Peers(y)
    BY DEF Peers
  <2>2. CASE x = d
    BY <1>4, <1>6, <2>1, <2>2
  <2>3. CASE y = d
    BY <1>4, <1>6, <2>1, <2>3
  <2>4. CASE x # d /\ y # d
    BY <1>4, <2>1, <2>4 DEF SafetyInv, DuplicatesCaught
  <2>5. QED
    BY <2>2, <2>3, <2>4
<1>17. DurableCopy'
  BY <1>5, <1>7 DEF SafetyInv, DurableCopy
<1>18. QED
  BY <1>9, <1>10, <1>11, <1>12, <1>13, <1>14, <1>15, <1>16, <1>17 DEF SafetyInv

(* A run that starts executing notes every overlap with what is under way. *)
LEMMA PickUpCore ==
    ASSUME TypeOK, TypeOK', CoreInv, NEW r \in Runs, NEW w \in Workers, PickUp(r, w)
    PROVE  CoreInv'
<1> DEFINE d == run[r].doc
           old == {p \in Runs : Executing(p) /\ run[p].doc \in {d} \cup Peers(d)}
<1> USE DEF CoreInv
<1>1. d \in Docs /\ ~Executing(r)
  BY DEF PickUp, TypeOK, RunType, Placed, TaskSteps, FetchSteps, ParseSteps, EmbedSteps
<1>2. \A q \in Runs : /\ run'[q].doc = run[q].doc
                      /\ run'[q].pc = IF q = r THEN "launch" ELSE run[q].pc
                      /\ run'[q].host = IF q = r THEN w ELSE run[q].host
  BY RunPicked DEF TypeOK
<1>3. UNCHANGED <<row, index, taken, bucket, lost, del>>
  BY DEF PickUp
<1>4. /\ met \subseteq met'
      /\ \A q \in Runs : Executing(q) /\ run[q].doc \in {d} \cup Peers(d) => {d, run[q].doc} \in met'
      /\ del[d].pc \in {"object", "row"} => {d} \in met'
  <2>1. met' = met \cup {{d, run[q].doc} : q \in old}
                   \cup (IF del[d].pc \in {"object", "row"} THEN {{d}} ELSE {})
    BY DEF PickUp
  <2> HIDE DEF d
  <2>2. QED
    BY <2>1
<1>5. \A q \in Runs : /\ Executing(q)' /\ q # r => Executing(q) /\ run[q].doc \in Docs
                      /\ Executing(q) => Executing(q)' /\ q # r
  BY <1>1, <1>2, NoValues, ExecutingDoc DEF Executing
<1>e. run[r].doc = d
  OBVIOUS
<1> HIDE DEF d, old
<1>6. Placed'
  BY <1>2, <1>5 DEF Placed
<1>7. Overlaps'
  <2>1. ASSUME NEW p \in Runs, NEW q \in Runs, p # q, Executing(p)', Executing(q)',
               run[q].doc \in {run[p].doc} \cup Peers(run[p].doc)
        PROVE  {run[p].doc, run[q].doc} \in met'
    <3>1. CASE p = r
      BY <1>4, <1>5, <1>e, <2>1, <3>1
    <3>2. CASE q = r
      <4>1. Executing(p) /\ run[p].doc \in Docs
        BY <1>5, <2>1, <3>2
      <4>2. run[p].doc \in {d} \cup Peers(d)
        BY <1>e, <2>1, <3>2, <4>1 DEF Peers
      <4>3. {d, run[p].doc} \in met'
        BY <1>4, <4>1, <4>2
      <4>4. {d, run[p].doc} = {run[p].doc, run[q].doc}
        BY <1>e, <3>2
      <4>5. QED
        BY <4>3, <4>4
    <3>3. CASE p # r /\ q # r
      BY <1>4, <1>5, <2>1, <3>3 DEF Overlaps
    <3>4. QED
      BY <3>1, <3>2, <3>3
  <2>2. ASSUME NEW q \in Runs, Executing(q)', del[run[q].doc].pc \in {"object", "row"}
        PROVE  {run[q].doc} \in met'
    BY <1>4, <1>5, <1>e, <2>2 DEF Overlaps
  <2>3. QED
    BY <1>2, <1>3, <2>1, <2>2 DEF Overlaps, Peers
<1>8. RunOwnsRow'
  <2> SUFFICES ASSUME NEW q \in Runs, Alone(q)'
               PROVE  /\ run'[q].pc \in TaskSteps \ {"fetch"} => row'[run'[q].doc].st # "indexed"
                      /\ run'[q].pc \in Checked => Exists(run[q].doc)'
                      /\ run'[q].pc = "flip" => run'[q].doc \in index' \cup taken'
    BY <1>2 DEF RunOwnsRow
  <2>1. CASE q = r
    BY <1>2, <2>1 DEF Checked, Hashed, TaskSteps, FetchSteps, ParseSteps, EmbedSteps
  <2>2. CASE q # r
    BY <1>2, <1>3, <1>4, <1>5, <2>2 DEF RunOwnsRow, Alone, Exists
  <2>3. QED
    BY <2>1, <2>2
<1>9. DeletePurged'
  BY <1>3, <1>4 DEF DeletePurged
<1>10. HashRecorded'
  <2>1. "launch" \notin Hashed
    BY DEF Checked, Hashed, TaskSteps, FetchSteps, ParseSteps, EmbedSteps
  <2>2. QED
    BY <1>2, <1>3, <1>5, <2>1 DEF HashRecorded, Exists
<1>11. NoIndexedPeer'
  <2>1. "launch" \notin Checked
    BY DEF Checked, Hashed, TaskSteps, FetchSteps, ParseSteps, EmbedSteps
  <2>2. QED
    BY <1>2, <1>3, <1>4, <1>5, <2>1 DEF NoIndexedPeer, Peers
<1>12. SafetyInv'
  BY <1>3, <1>4 DEF SafetyInv, IndexedSearchable, DeletedUnsearchable, DuplicatesCaught,
                    DurableCopy, Peers, Exists
<1>13. QED
  BY <1>6, <1>7, <1>8, <1>9, <1>10, <1>11, <1>12

-----------------------------------------------------------------------------
(* The DELETE handler, the API crash and the registration. *)

(* The DELETE handler's purge notes an overlap with every run of the *)
(* document.                                                         *)
LEMMA DeletePurgeCore ==
    ASSUME TypeOK, TypeOK', CoreInv, NEW d \in Docs, DeletePurge(d)
    PROVE  CoreInv'
<1> USE DEF CoreInv
<1>1. /\ UNCHANGED <<row, run, bucket, lost>> /\ index' = index \ {d}
      /\ index' \cup taken' = index \cup taken
  BY DEF DeletePurge, Take
<1>2. \A e \in Docs : IF e = d THEN del'[e].pc = "object" ELSE del'[e] = del[e]
  BY DEF DeletePurge, TypeOK, DeleteType
<1>3. met \subseteq met'
  BY DEF DeletePurge, MeetsDelete
<1>4. \A r \in Runs : Executing(r) => /\ run[r].doc \in Docs
                                      /\ run[r].doc = d => {d} \in met'
  BY ExecutingDoc DEF DeletePurge, MeetsDelete, RunsOf
<1>5. Placed'
  BY <1>1 DEF Placed, Executing
<1>6. Overlaps'
  BY <1>1, <1>2, <1>3, <1>4 DEF Overlaps, Executing, Peers
<1>7. RunOwnsRow'
  BY <1>1, <1>3, <1>4 DEF RunOwnsRow, Alone, Executing, Exists
<1>8. DeletePurged'
  BY <1>1, <1>2, <1>3 DEF DeletePurged
<1>9. HashRecorded'
  BY <1>1, <1>2, <1>4 DEF HashRecorded, Executing, Exists
<1>10. NoIndexedPeer'
  BY <1>1, <1>3 DEF NoIndexedPeer, Executing, Peers
<1>11. SafetyInv'
  BY <1>1, <1>2, <1>3 DEF SafetyInv, IndexedSearchable, DeletedUnsearchable, DuplicatesCaught,
                          DurableCopy, Exists, Peers
<1>12. QED
  BY <1>5, <1>6, <1>7, <1>8, <1>9, <1>10, <1>11

(* Chunks taken by a purge whose request ends there, or by a video's, leave the rest alone. *)
LEMMA TakenCore ==
    ASSUME TypeOK, TypeOK', CoreInv,
           (\E d \in Docs : DeletePurgeRaises(d)) \/ (\E d \in Docs : VideoPurge(Owner[d]))
    PROVE  CoreInv'
<1> USE DEF CoreInv
<1>1. /\ UNCHANGED <<row, run, bucket, lost, del>> /\ index' \subseteq index
      /\ index' \cup taken' = index \cup taken /\ met \subseteq met'
  BY DEF DeletePurgeRaises, VideoPurge, MeetsDelete, Take
<1>2. \A r \in Runs : Executing(r) => run[r].doc \in Docs
  BY ExecutingDoc
<1>3. Placed' /\ Overlaps'
  BY <1>1, <1>2 DEF Placed, Overlaps, Executing, Peers
<1>4. RunOwnsRow'
  BY <1>1, <1>2 DEF RunOwnsRow, Alone, Executing, Exists
<1>5. DeletePurged'
  BY <1>1 DEF DeletePurged
<1>6. HashRecorded'
  BY <1>1, <1>2 DEF HashRecorded, Executing, Exists
<1>7. NoIndexedPeer'
  BY <1>1 DEF NoIndexedPeer, Executing, Peers
<1>8. SafetyInv'
  BY <1>1 DEF SafetyInv, IndexedSearchable, DeletedUnsearchable, DuplicatesCaught,
              DurableCopy, Exists, Peers
<1>9. QED
  BY <1>3, <1>4, <1>5, <1>6, <1>7, <1>8

(* The object deletion, and its failure, happen inside a DELETE. *)
LEMMA DeleteObjectCore ==
    ASSUME TypeOK, TypeOK', CoreInv, NEW d \in Docs, DeleteObject(d) \/ DeleteObjectRaises(d)
    PROVE  CoreInv'
<1> USE DEF CoreInv
<1>1. UNCHANGED <<row, run, index, taken, met>> /\ bucket' \cup lost' = bucket \cup lost
  BY DEF DeleteObject, DeleteObjectRaises, RemoveObject
<1>2. \A e \in Docs : IF e = d THEN del[e].pc = "object" /\ del'[e].pc \in {"row", "idle"}
                                 ELSE del'[e] = del[e]
  BY NoDeleteType DEF DeleteObject, DeleteObjectRaises, TypeOK, DeleteType
<1>3. \A r \in Runs : Executing(r) => run[r].doc \in Docs
  BY ExecutingDoc
<1>4. Placed' /\ Overlaps'
  BY <1>1, <1>2, <1>3 DEF Placed, Overlaps, Executing, Peers
<1>5. RunOwnsRow'
  BY <1>1, <1>3 DEF RunOwnsRow, Alone, Executing, Exists
<1>6. DeletePurged'
  BY <1>1, <1>2 DEF DeletePurged
<1>7. HashRecorded'
  BY <1>1, <1>2, <1>3 DEF HashRecorded, Executing, Exists
<1>8. NoIndexedPeer'
  BY <1>1 DEF NoIndexedPeer, Executing, Peers
<1>9. SafetyInv'
  BY <1>1, <1>2 DEF SafetyInv, IndexedSearchable, DeletedUnsearchable, DuplicatesCaught,
                    DurableCopy, Exists, Peers
<1>10. QED
  BY <1>4, <1>5, <1>6, <1>7, <1>8, <1>9

(* The row disappears after its chunks have. *)
LEMMA DeleteRowCore ==
    ASSUME TypeOK, TypeOK', CoreInv, NEW d \in Docs, DeleteRow(d)
    PROVE  CoreInv'
<1> USE DEF CoreInv
<1>1. UNCHANGED <<run, index, taken, bucket, lost, met>> /\ del[d].pc = "row"
  BY DEF DeleteRow
<1>2. \A e \in Docs : IF e = d THEN del'[e].pc = "cancel" ELSE del'[e] = del[e]
  BY DEF DeleteRow, TypeOK, DeleteType
<1>3. /\ row'[d].st = "deleted" /\ row'[d].key # d
      /\ \A e \in Docs \ {d} : row'[e] = row[e]
  BY RowDeleted, NoValues DEF TypeOK
<1>4. \A r \in Runs : Executing(r) => /\ run[r].doc \in Docs
                                      /\ run[r].doc = d => {d} \in met
  BY <1>1, ExecutingDoc DEF Overlaps
<1>5. \A e \in Docs : /\ row'[e].st = "indexed" => row[e].st = "indexed" /\ row'[e] = row[e]
                      /\ e = d => ~Exists(e)'
                      /\ e # d => (Exists(e)' <=> Exists(e)) /\ row'[e] = row[e]
  BY <1>3 DEF Exists, NoRow
<1>6. Placed' /\ Overlaps'
  BY <1>1, <1>2, <1>4 DEF Placed, Overlaps, Executing, Peers
<1>7. RunOwnsRow'
  BY <1>1, <1>3, <1>4, <1>5 DEF RunOwnsRow, Alone, Executing, Exists
<1>8. DeletePurged'
  BY <1>1, <1>2, <1>3 DEF DeletePurged
<1>9. HashRecorded'
  BY <1>1, <1>2, <1>4, <1>5 DEF HashRecorded, Executing, Exists
<1>10. NoIndexedPeer'
  BY <1>1, <1>5 DEF NoIndexedPeer, Executing, Peers
<1>11. IndexedSearchable' /\ DeletedUnsearchable' /\ DuplicatesCaught' /\ DurableCopy'
  <2>1. IndexedSearchable' /\ DuplicatesCaught'
    BY <1>1, <1>2, <1>5 DEF SafetyInv, IndexedSearchable, DuplicatesCaught, Peers
  <2>2. DeletedUnsearchable'
    BY <1>1, <1>3 DEF SafetyInv, DeletedUnsearchable, DeletePurged
  <2>3. DurableCopy'
    BY <1>1, <1>3 DEF SafetyInv, DurableCopy
  <2>4. QED
    BY <2>1, <2>2, <2>3
<1>12. QED
  BY <1>6, <1>7, <1>8, <1>9, <1>10, <1>11 DEF SafetyInv

(* The request, or the process it ran in, is over. *)
LEMMA DeleteOverCore ==
    ASSUME TypeOK, TypeOK', CoreInv, (\E d \in Docs : DeleteCancel(d)) \/ ApiCrash
    PROVE  CoreInv'
<1> USE DEF CoreInv
<1>1. /\ UNCHANGED <<row, index, taken, bucket, lost, met>>
      /\ \A q \in Runs : run'[q].doc = run[q].doc /\ run'[q].pc = run[q].pc /\ run'[q].host = run[q].host
  BY RunsCancelled DEF DeleteCancel, ApiCrash, TypeOK
<1>2. \A e \in Docs : \/ del'[e].pc = del[e].pc
                      \/ del'[e].pc = "idle"
  BY NoDeleteType DEF DeleteCancel, ApiCrash, TypeOK, DeleteType
<1>3. \A e \in Docs : del[e].pc = "cancel" => row[e].st = "deleted"
  BY DEF DeletePurged
<1>4. \A r \in Runs : (Executing(r)' <=> Executing(r)) /\ (Executing(r) => run[r].doc \in Docs)
  BY <1>1, ExecutingDoc DEF Executing
<1>5. Placed' /\ Overlaps'
  BY <1>1, <1>2, <1>4 DEF Placed, Overlaps, Peers
<1>6. RunOwnsRow'
  BY <1>1, <1>4 DEF RunOwnsRow, Alone, Exists
<1>7. DeletePurged'
  BY <1>1, <1>2 DEF DeletePurged
<1>8. HashRecorded'
  BY <1>1, <1>2, <1>3, <1>4 DEF HashRecorded, Exists, NoRow
<1>9. NoIndexedPeer'
  BY <1>1, <1>4 DEF NoIndexedPeer, Peers
<1>10. SafetyInv'
  BY <1>1, <1>2, <1>3 DEF SafetyInv, IndexedSearchable, DeletedUnsearchable, DuplicatesCaught,
                          DurableCopy, Exists, NoRow, Peers
<1>11. QED
  BY <1>5, <1>6, <1>7, <1>8, <1>9, <1>10

(* A registration meets no run of its document. *)
LEMMA RegisterCore ==
    ASSUME TypeOK, TypeOK', Known, CoreInv, NEW d \in Docs, Register(d)
    PROVE  CoreInv'
<1> USE DEF CoreInv
<1>1. UNCHANGED <<run, index, taken, bucket, lost, met, del>>
  BY DEF Register
<1>2. /\ row'[d].st = "pending" /\ row'[d].key # d
      /\ \A e \in Docs \ {d} : row'[e] = row[e]
  BY RowRegistered DEF TypeOK
<1>3. del[d].pc = "idle" /\ \A r \in Runs : run[r].doc # d
  BY DEF Register, Known
<1>4. \A e \in Docs : /\ row'[e].st = "indexed" => row[e].st = "indexed" /\ row'[e] = row[e]
                      /\ row'[e].st = "deleted" => row[e].st = "deleted"
                      /\ e # d => (Exists(e)' <=> Exists(e)) /\ row'[e] = row[e]
  BY <1>2 DEF Exists
<1>5. \A r \in Runs : Executing(r) => run[r].doc \in Docs \ {d}
  BY <1>3, ExecutingDoc
<1>6. Placed' /\ Overlaps'
  BY <1>1 DEF Placed, Overlaps, Executing, Peers
<1>7. RunOwnsRow'
  BY <1>1, <1>4, <1>5 DEF RunOwnsRow, Alone, Executing, Exists
<1>8. DeletePurged'
  BY <1>1, <1>3, <1>4 DEF DeletePurged
<1>9. HashRecorded'
  BY <1>1, <1>4, <1>5 DEF HashRecorded, Executing, Exists
<1>10. NoIndexedPeer'
  BY <1>1, <1>4 DEF NoIndexedPeer, Executing, Peers
<1>11. IndexedSearchable' /\ DeletedUnsearchable' /\ DuplicatesCaught'
  BY <1>1, <1>4 DEF SafetyInv, IndexedSearchable, DeletedUnsearchable, DuplicatesCaught, Peers
<1>12. DurableCopy'
  BY <1>1, <1>2 DEF SafetyInv, DurableCopy
<1>13. QED
  BY <1>6, <1>7, <1>8, <1>9, <1>10, <1>11, <1>12 DEF SafetyInv

-----------------------------------------------------------------------------
(* Nobody knows a document before it is registered. *)
NoneForgotten ==
    \A d \in Docs : row'[d].st = "unregistered" =>
        row[d].st = "unregistered" /\ row'[d].key = row[d].key

(* A step of a run that creates no row makes no document known. *)
LEMMA KnownByFlow ==
    ASSUME Known, NoneForgotten, UNCHANGED <<bg, re, del, sweep>>,
           \A q \in Runs : run'[q].doc = run[q].doc
    PROVE  Known'
BY DEF Known, NoneForgotten

(* The steps of RowsKept create no row. *)
LEMMA KeptForgets == ASSUME RowsKept PROVE NoneForgotten
BY StatusesDisjoint DEF RowsKept, NoneForgotten

(* The API makes known only the document it registers. *)
LEMMA ApiKnown ==
    ASSUME TypeOK, TypeOK', Known, CoreInv, NEW d \in Docs, Api(d)
    PROVE  Known'
<1>1. CASE Register(d)
  <2>1. NoneForgotten
    BY <1>1, RowRegistered DEF NoneForgotten, TypeOK
  <2>2. QED
    <3>1. \A e \in Docs : e # d => bg'[e] = bg[e]
      BY <1>1 DEF Register, TypeOK, DispatchType
    <3>2. row'[d].st # "unregistered"
      BY <1>1, RowRegistered DEF TypeOK
    <3>3. UNCHANGED <<run, re, del, sweep>>
      BY <1>1 DEF Register
    <3>4. QED
      BY <2>1, <3>1, <3>2, <3>3 DEF Known, NoneForgotten
<1>2. CASE DispatchCheck(d)
  <2>1. NoneForgotten
    BY <1>2 DEF DispatchCheck, NoneForgotten
  <2>2. QED
    BY <1>2, <2>1 DEF Known, DispatchCheck, NoneForgotten, TypeOK, DispatchType
<1>3. CASE DispatchEnqueue(d)
  <2>1. NoneForgotten
    BY <1>3 DEF DispatchEnqueue, NoneForgotten
  <2>2. QED
    BY <1>3, <2>1, RunsCreated, NewRunType DEF Known, DispatchEnqueue, NoneForgotten, TypeOK,
       DispatchType
<1>4. CASE DispatchRecord(d)
  <2>1. NoneForgotten
    BY <1>4, FlowKept, KeptForgets DEF TypeOK, DispatchRecord, DispatchType
  <2>2. QED
    BY <1>4, <2>1 DEF Known, DispatchRecord, NoneForgotten, TypeOK, DispatchType
<1>5. CASE DispatchRaises(d)
  <2>1. NoneForgotten
    BY <1>5, StatusKept, KeptForgets DEF TypeOK, DispatchRaises, Settled
  <2>2. QED
    BY <1>5, <2>1, RunsCreated, NewRunType DEF Known, DispatchRaises, NoneForgotten, TypeOK,
       DispatchType
<1>6. CASE RetryReset(d)
  <2>1. NoneForgotten
    BY <1>6, StatusKept, KeptForgets DEF TypeOK, RetryReset, Active
  <2>2. QED
    BY <1>6, <2>1 DEF Known, RetryReset, NoneForgotten, TypeOK, RetryType, Exists, NoRow
<1>7. CASE RetryEnqueue(d)
  <2>1. NoneForgotten
    BY <1>7 DEF RetryEnqueue, NoneForgotten
  <2>2. QED
    BY <1>7, <2>1, RunsCreated, NewRunType DEF Known, RetryEnqueue, NoneForgotten, TypeOK,
       RetryType
<1>8. CASE RetryRecord(d)
  <2>1. NoneForgotten
    BY <1>8, FlowKept, KeptForgets DEF TypeOK, RetryRecord, RetryType
  <2>2. QED
    BY <1>8, <2>1 DEF Known, RetryRecord, NoneForgotten, TypeOK, RetryType
<1>9. CASE RetryRaises(d)
  <2>1. NoneForgotten
    BY <1>9, StatusKept, KeptForgets DEF TypeOK, RetryRaises, Settled
  <2>2. \A q \in Runs : run'[q].doc = run[q].doc \/ run'[q].doc = d
    BY <1>9, RunsCreated, NewRunType DEF RetryRaises, TypeOK
  <2>3. \A e \in Docs : re'[e].pc = "idle" \/ re'[e] = re[e]
    BY <1>9 DEF RetryRaises, TypeOK, RetryType
  <2>4. re[d].pc # "idle" /\ UNCHANGED <<bg, del, sweep>>
    BY <1>9 DEF RetryRaises
  <2>5. QED
    BY <2>1, <2>2, <2>3, <2>4 DEF Known, NoneForgotten
<1>10. CASE DeletePurge(d)
  <2>1. NoneForgotten
    BY <1>10 DEF DeletePurge, NoneForgotten
  <2>2. QED
    BY <1>10, <2>1 DEF Known, DeletePurge, NoneForgotten, TypeOK, DeleteType, Exists, NoRow
<1>10a. CASE DeletePurgeRaises(d)
  BY <1>10a DEF Known, DeletePurgeRaises
<1>11. CASE DeleteObject(d)
  <2>1. NoneForgotten
    BY <1>11 DEF DeleteObject, NoneForgotten
  <2>2. QED
    BY <1>11, <2>1 DEF Known, DeleteObject, NoneForgotten, TypeOK, DeleteType
<1>12. CASE DeleteObjectRaises(d)
  <2>1. NoneForgotten
    BY <1>12 DEF DeleteObjectRaises, NoneForgotten
  <2>2. QED
    BY <1>12, <2>1, NoDeleteType DEF Known, DeleteObjectRaises, NoneForgotten, TypeOK, DeleteType
<1>13. CASE DeleteRow(d)
  <2>1. NoneForgotten
    BY <1>13, RowDeleted DEF NoneForgotten, TypeOK
  <2>2. QED
    BY <1>13, <2>1 DEF Known, DeleteRow, NoneForgotten, TypeOK, DeleteType
<1>14. CASE DeleteCancel(d)
  <2>1. NoneForgotten
    BY <1>14 DEF DeleteCancel, NoneForgotten
  <2>2. QED
    <3>1. \A e \in Docs : del'[e].pc = "idle" \/ del'[e] = del[e]
      BY <1>14, NoDeleteType DEF DeleteCancel, TypeOK, DeleteType
    <3>2. \A q \in Runs : run'[q].doc = run[q].doc
      BY <1>14, RunsCancelled DEF TypeOK
    <3>3. UNCHANGED <<bg, re, sweep>>
      BY <1>14 DEF DeleteCancel
    <3>4. QED
      BY <2>1, <3>1, <3>2, <3>3 DEF Known, NoneForgotten
<1>15. QED
  BY <1>1, <1>2, <1>3, <1>4, <1>5, <1>6, <1>7, <1>8, <1>9, <1>10, <1>10a, <1>11, <1>12,
     <1>13, <1>14 DEF Api

(* No step of a run makes a document known. *)
LEMMA FlowKnown ==
    ASSUME TypeOK, TypeOK', Known, CoreInv, NEW r \in Runs, Flow(r)
    PROVE  Known'
<1>0. Executing(r) => run[r].doc \in Docs /\ run[r].pc # "none"
  BY RunFacts
<1>1. CASE Launch(r)
  <2>1. NoneForgotten
    BY <1>1, <1>0, RowTouched DEF NoneForgotten, TypeOK, Launch, At
  <2>2. \A q \in Runs : run'[q].doc = run[q].doc
    BY <1>1, RunLaunched DEF TypeOK
  <2>3. UNCHANGED <<bg, re, del, sweep>>
    BY <1>1 DEF Launch
  <2>4. QED
    BY <2>1, <2>2, <2>3, KnownByFlow
<1>2. CASE LaunchFails(r)
  <2>1. NoneForgotten
    BY <1>2 DEF LaunchFails, NoneForgotten
  <2>2. \A q \in Runs : run'[q].doc = run[q].doc
    BY <1>2, <1>0, RunEnded DEF LaunchFails, TypeOK, At, PrefectStates
  <2>3. UNCHANGED <<bg, re, del, sweep>>
    BY <1>2 DEF LaunchFails
  <2>4. QED
    BY <2>1, <2>2, <2>3, KnownByFlow
<1>3. CASE CancelStops(r)
  <2>1. NoneForgotten
    BY <1>3 DEF CancelStops, NoneForgotten
  <2>2. \A q \in Runs : run'[q].doc = run[q].doc
    BY <1>3, RunStopped DEF TypeOK
  <2>3. UNCHANGED <<bg, re, del, sweep>>
    BY <1>3 DEF CancelStops
  <2>4. QED
    BY <2>1, <2>2, <2>3, KnownByFlow
<1>4. CASE FetchBegin(r)
  <2>1. NoneForgotten
    BY <1>4, <1>0, RunFacts, StatusKept, KeptForgets DEF TypeOK, FetchBegin, At, Active
  <2>2. \A q \in Runs : run'[q].doc = run[q].doc
    BY <1>4, <1>0, Moved DEF FetchBegin, At, Positions, TaskSteps, FetchSteps, ParseSteps,
       EmbedSteps
  <2>3. UNCHANGED <<bg, re, del, sweep>>
    BY <1>4 DEF FetchBegin
  <2>4. QED
    BY <2>1, <2>2, <2>3, KnownByFlow
<1>5. CASE FetchNoRow(r)
  <2>1. NoneForgotten
    BY <1>5 DEF FetchNoRow, NoneForgotten
  <2>2. \A q \in Runs : run'[q].doc = run[q].doc
    BY <1>5, <1>0, RunEnded DEF FetchNoRow, TypeOK, At, PrefectStates
  <2>3. UNCHANGED <<bg, re, del, sweep>>
    BY <1>5 DEF FetchNoRow
  <2>4. QED
    BY <2>1, <2>2, <2>3, KnownByFlow
<1>6. CASE FetchLoad(r)
  <2>1. NoneForgotten
    BY <1>6 DEF FetchLoad, NoneForgotten
  <2>2. \A q \in Runs : run'[q].doc = run[q].doc
    BY <1>6, <1>0, Moved DEF FetchLoad, At, Positions, TaskSteps, FetchSteps, ParseSteps,
       EmbedSteps
  <2>3. UNCHANGED <<bg, re, del, sweep>>
    BY <1>6 DEF FetchLoad
  <2>4. QED
    BY <2>1, <2>2, <2>3, KnownByFlow
<1>7. CASE FetchSkip(r)
  <2>1. NoneForgotten
    BY <1>7, <1>0, RowSkipped DEF NoneForgotten, TypeOK, FetchSkip, At
  <2>2. \A q \in Runs : run'[q].doc = run[q].doc
    BY <1>7, <1>0, RunEnded DEF FetchSkip, TypeOK, At, PrefectStates
  <2>3. UNCHANGED <<bg, re, del, sweep>>
    BY <1>7 DEF FetchSkip
  <2>4. QED
    BY <2>1, <2>2, <2>3, KnownByFlow
<1>8. CASE FetchStore(r)
  <2>1. NoneForgotten
    BY <1>8 DEF FetchStore, NoneForgotten
  <2>2. \A q \in Runs : run'[q].doc = run[q].doc
    BY <1>8, <1>0, Moved DEF FetchStore, At, Positions, TaskSteps, FetchSteps, ParseSteps,
       EmbedSteps
  <2>3. UNCHANGED <<bg, re, del, sweep>>
    BY <1>8 DEF FetchStore
  <2>4. QED
    BY <2>1, <2>2, <2>3, KnownByFlow
<1>9. CASE FetchRecord(r)
  <2>1. NoneForgotten
    BY <1>9, <1>0, RowRecorded DEF NoneForgotten, TypeOK, FetchRecord, At
  <2>2. \A q \in Runs : run'[q].doc = run[q].doc
    BY <1>9, <1>0, Moved DEF FetchRecord, At, Positions, TaskSteps, FetchSteps, ParseSteps,
       EmbedSteps
  <2>3. UNCHANGED <<bg, re, del, sweep>>
    BY <1>9 DEF FetchRecord
  <2>4. QED
    BY <2>1, <2>2, <2>3, KnownByFlow
<1>10. CASE Parse(r)
  <2>1. NoneForgotten
    BY <1>10, <1>0, RunFacts, StatusKept, KeptForgets DEF TypeOK, Parse, At, Active
  <2>2. \A q \in Runs : run'[q].doc = run[q].doc
    BY <1>10, <1>0, Moved DEF Parse, At, Positions, TaskSteps, FetchSteps, ParseSteps,
       EmbedSteps
  <2>3. UNCHANGED <<bg, re, del, sweep>>
    BY <1>10 DEF Parse
  <2>4. QED
    BY <2>1, <2>2, <2>3, KnownByFlow
<1>11. CASE Caption(r)
  <2>1. NoneForgotten
    BY <1>11 DEF Caption, NoneForgotten
  <2>2. \A q \in Runs : run'[q].doc = run[q].doc
    BY <1>11, <1>0, Moved DEF Caption, At, Positions, TaskSteps, FetchSteps, ParseSteps,
       EmbedSteps
  <2>3. UNCHANGED <<bg, re, del, sweep>>
    BY <1>11 DEF Caption
  <2>4. QED
    BY <2>1, <2>2, <2>3, KnownByFlow
<1>12. CASE EmbedBegin(r)
  <2>1. NoneForgotten
    BY <1>12, <1>0, RunFacts, StatusKept, KeptForgets DEF TypeOK, EmbedBegin, At, Active
  <2>2. \A q \in Runs : run'[q].doc = run[q].doc
    BY <1>12, <1>0, Moved DEF EmbedBegin, At, Positions, TaskSteps, FetchSteps, ParseSteps,
       EmbedSteps
  <2>3. UNCHANGED <<bg, re, del, sweep>>
    BY <1>12 DEF EmbedBegin
  <2>4. QED
    BY <2>1, <2>2, <2>3, KnownByFlow
<1>13. CASE EmbedPurge(r)
  <2>1. NoneForgotten
    BY <1>13 DEF EmbedPurge, NoneForgotten
  <2>2. \A q \in Runs : run'[q].doc = run[q].doc
    BY <1>13, <1>0, Moved DEF EmbedPurge, At, Positions, TaskSteps, FetchSteps, ParseSteps,
       EmbedSteps
  <2>3. UNCHANGED <<bg, re, del, sweep>>
    BY <1>13 DEF EmbedPurge
  <2>4. QED
    BY <2>1, <2>2, <2>3, KnownByFlow
<1>14. CASE EmbedUpsert(r)
  <2>1. NoneForgotten
    BY <1>14 DEF EmbedUpsert, NoneForgotten
  <2>2. \A q \in Runs : run'[q].doc = run[q].doc
    BY <1>14, <1>0, Moved DEF EmbedUpsert, At, Positions, TaskSteps, FetchSteps, ParseSteps,
       EmbedSteps
  <2>3. UNCHANGED <<bg, re, del, sweep>>
    BY <1>14 DEF EmbedUpsert
  <2>4. QED
    BY <2>1, <2>2, <2>3, KnownByFlow
<1>15. CASE EmbedFlip(r)
  <2>1. NoneForgotten
    BY <1>15, <1>0, StatusSet DEF NoneForgotten, TypeOK, EmbedFlip, At, Settled
  <2>2. \A q \in Runs : run'[q].doc = run[q].doc
    BY <1>15, <1>0, Moved DEF EmbedFlip, At, Positions, TaskSteps, FetchSteps, ParseSteps,
       EmbedSteps
  <2>3. UNCHANGED <<bg, re, del, sweep>>
    BY <1>15 DEF EmbedFlip
  <2>4. QED
    BY <2>1, <2>2, <2>3, KnownByFlow
<1>16. CASE RecordMentions(r)
  <2>1. NoneForgotten
    BY <1>16 DEF RecordMentions, NoneForgotten
  <2>2. \A q \in Runs : run'[q].doc = run[q].doc
    BY <1>16, <1>0, RunEnded DEF RecordMentions, TypeOK, At, PrefectStates
  <2>3. UNCHANGED <<bg, re, del, sweep>>
    BY <1>16 DEF RecordMentions
  <2>4. QED
    BY <2>1, <2>2, <2>3, KnownByFlow
<1>17. CASE TaskRetry(r)
  <2>1. NoneForgotten
    BY <1>17 DEF TaskRetry, NoneForgotten
  <2>2. \A q \in Runs : run'[q].doc = run[q].doc
    BY <1>17, RunRetried DEF TypeOK
  <2>3. UNCHANGED <<bg, re, del, sweep>>
    BY <1>17 DEF TaskRetry
  <2>4. QED
    BY <2>1, <2>2, <2>3, KnownByFlow
<1>18. CASE FlowFails(r)
  <2>1. NoneForgotten
    BY <1>18, <1>0, StatusKept, KeptForgets DEF TypeOK, FlowFails, Raises, Settled,
       NoneForgotten, RowsKept
  <2>2. \A q \in Runs : run'[q].doc = run[q].doc
    BY <1>18, <1>0, RunEnded DEF FlowFails, Raises, TypeOK, PrefectStates
  <2>3. UNCHANGED <<bg, re, del, sweep>>
    BY <1>18 DEF FlowFails
  <2>4. QED
    BY <2>1, <2>2, <2>3, KnownByFlow
<1>19. CASE \E w \in Workers : PickUp(r, w)
  <2>1. NoneForgotten
    BY <1>19 DEF PickUp, NoneForgotten
  <2>2. \A q \in Runs : run'[q].doc = run[q].doc
    BY <1>19, RunPicked DEF TypeOK
  <2>3. UNCHANGED <<bg, re, del, sweep>>
    BY <1>19 DEF PickUp
  <2>4. QED
    BY <2>1, <2>2, <2>3, KnownByFlow
<1>20. QED
  BY <1>1, <1>2, <1>3, <1>4, <1>5, <1>6, <1>7, <1>8, <1>9, <1>10, <1>11, <1>12, <1>13, <1>14,
     <1>15, <1>16, <1>17, <1>18, <1>19 DEF Flow, Progress

(* No step of a worker or its reconciler makes a document known. *)
LEMMA WorkerKnown ==
    ASSUME TypeOK, TypeOK', Known, CoreInv, NEW w \in Workers, Worker(w)
    PROVE  Known'
<1>0. sweep[w].pc \in {"reset", "enqueue", "record"} => sweep[w].doc \in Docs
  BY DEF TypeOK, SweepType
<1>1. CASE SweepBegin(w)
  <2>1. NoneForgotten
    BY <1>1 DEF SweepBegin, NoneForgotten
  <2>2. QED
    BY <1>1, <2>1, NoValues DEF Known, SweepBegin, NoneForgotten, TypeOK, SweepType, StaleRows,
       Active
<1>2. CASE SweepPass(w)
  <2>1. NoneForgotten
    BY <1>2 DEF SweepPass, NoneForgotten
  <2>2. QED
    BY <1>2, <2>1 DEF Known, SweepPass, NoneForgotten, TypeOK, SweepType
<1>3. CASE SweepCondemn(w)
  <2>1. NoneForgotten
    BY <1>3 DEF SweepCondemn, NoneForgotten
  <2>2. QED
    BY <1>3, <2>1 DEF Known, SweepCondemn, NoneForgotten, TypeOK, SweepType
<1>4. CASE SweepReset(w)
  <2>1. NoneForgotten
    BY <1>4, <1>0, StatusKept, KeptForgets DEF TypeOK, SweepReset, Active
  <2>2. QED
    BY <1>4, <2>1 DEF Known, SweepReset, NoneForgotten, TypeOK, SweepType
<1>5. CASE SweepEnqueue(w)
  <2>1. NoneForgotten
    BY <1>5 DEF SweepEnqueue, NoneForgotten
  <2>2. QED
    BY <1>5, <1>0, <2>1, RunsCreated, NewRunType DEF Known, SweepEnqueue, NoneForgotten,
       TypeOK, SweepType
<1>6. CASE SweepRecord(w)
  <2>1. NoneForgotten
    BY <1>6, <1>0, FlowKept, KeptForgets DEF TypeOK, SweepRecord, SweepType
  <2>2. QED
    BY <1>6, <2>1, NoValues DEF Known, SweepRecord, Handled, NoneForgotten, TypeOK, SweepType
<1>7. CASE SweepRaises(w)
  <2>1. NoneForgotten
    BY <1>7, <1>0, StatusKept, KeptForgets DEF TypeOK, SweepRaises, Settled
  <2>2. QED
    BY <1>7, <1>0, <2>1, RunsCreated, NewRunType, NoValues DEF Known, SweepRaises, Handled,
       NoneForgotten, TypeOK, SweepType
<1>8. CASE SweepEnd(w)
  <2>1. NoneForgotten
    BY <1>8 DEF SweepEnd, NoneForgotten
  <2>2. QED
    BY <1>8, <2>1 DEF Known, SweepEnd, NoneForgotten, TypeOK, SweepType
<1>9. CASE WorkerCrash(w)
  <2>1. NoneForgotten
    BY <1>9 DEF WorkerCrash, NoneForgotten
  <2>2. QED
    BY <1>9, <2>1, RunsKilled, NoValues DEF Known, WorkerCrash, NoneForgotten, TypeOK, SweepType
<1>10. CASE WorkerRestart(w)
  <2>1. NoneForgotten
    BY <1>10 DEF WorkerRestart, NoneForgotten
  <2>2. QED
    BY <1>10, <2>1 DEF Known, WorkerRestart, NoneForgotten, TypeOK, SweepType
<1>11. CASE Beat(w)
  <2>1. NoneForgotten
    BY <1>11 DEF Beat, NoneForgotten
  <2>2. QED
    BY <1>11, <2>1 DEF Known, Beat, NoneForgotten, TypeOK, SweepType
<1>12. CASE \E d \in Docs : CooldownExpires(w, d)
  <2>1. NoneForgotten
    BY <1>12 DEF CooldownExpires, NoneForgotten
  <2>2. QED
    BY <1>12, <2>1 DEF Known, CooldownExpires, NoneForgotten, TypeOK, SweepType
<1>13. QED
  BY <1>1, <1>2, <1>3, <1>4, <1>5, <1>6, <1>7, <1>8, <1>9, <1>10, <1>11, <1>12 DEF Worker,
     Reconcile

-----------------------------------------------------------------------------
(* The induction. *)

(* An API crash makes no document known. *)
LEMMA CrashKnown == ASSUME TypeOK, Known, ApiCrash PROVE Known'
BY NoDeleteType DEF Known, ApiCrash

(* The passing of time makes no document known. *)
LEMMA AgeKnown ==
    ASSUME TypeOK, TypeOK', Known, NEW d \in Docs, Age(d)
    PROVE  Known'
<1>1. NoneForgotten
  BY AgeTouched DEF NoneForgotten, TypeOK
<1>2. QED
  BY <1>1 DEF Known, NoneForgotten, Age

(* The initial state satisfies the inductive invariant. *)
LEMMA InitInv == Init => IndInv
<1> SUFFICES ASSUME Init PROVE IndInv
  OBVIOUS
<1>1. TypeOK
  BY InitTypes
<1>2. \A r \in Runs : ~Executing(r) /\ run[r].doc = NoDoc
  BY DEF Init, Executing
<1>3. \A d \in Docs : /\ row[d].st = "unregistered" /\ row[d].key = NoKey
                      /\ del[d].pc = "idle" /\ bg[d].pc = "idle" /\ re[d].pc = "idle"
  BY DEF Init, NoDelete
<1>4. Known
  BY <1>2, <1>3, NoValues DEF Init, Known
<1>5. Strengthening
  BY <1>2, <1>3, <1>4 DEF Strengthening, Placed, Overlaps, RunOwnsRow, Alone, DeletePurged,
                          HashRecorded, NoIndexedPeer
<1>6. SafetyInv
  BY <1>3, NoValues DEF SafetyInv, IndexedSearchable, DeletedUnsearchable, DuplicatesCaught,
                        DurableCopy
<1>7. QED
  BY <1>1, <1>5, <1>6 DEF IndInv

(* Every step preserves the parts that are not types, action by action. *)
LEMMA CoreStep == IndInv /\ Next => CoreInv' /\ Known'
<1> SUFFICES ASSUME IndInv, Next PROVE CoreInv' /\ Known'
  OBVIOUS
<1>1. TypeOK /\ TypeOK' /\ Known /\ CoreInv
  BY NextTypes DEF IndInv, Strengthening, CoreInv
<1>2. ASSUME NEW d \in Docs, Api(d) PROVE CoreInv' /\ Known'
  BY <1>1, <1>2, ApiKnown, DispatchFrame, FrameStep, RegisterCore, DeletePurgeCore, TakenCore,
     DeleteObjectCore, DeleteRowCore, DeleteOverCore DEF Api
<1>3. ASSUME NEW d \in Docs, Age(d) PROVE CoreInv' /\ Known'
  BY <1>1, <1>3, AgeKnown, DispatchFrame, FrameStep
<1>4. ASSUME NEW r \in Runs, Flow(r) PROVE CoreInv' /\ Known'
  <2>1. Known'
    BY <1>1, <1>4, FlowKnown
  <2>2. CASE LaunchFails(r) \/ CancelStops(r) \/ FetchNoRow(r) \/ FetchSkip(r) \/ RecordMentions(r)
    BY <1>1, <2>1, <2>2, RunEndFrame, FrameStep
  <2>3. CASE Launch(r)
    BY <1>1, <2>1, <2>3, LaunchCore
  <2>4. CASE FetchBegin(r)
    BY <1>1, <2>1, <2>4, FetchBeginCore
  <2>5. CASE FetchLoad(r)
    BY <1>1, <2>1, <2>5, FetchLoadCore
  <2>6. CASE FetchStore(r)
    BY <1>1, <2>1, <2>6, FetchStoreCore
  <2>7. CASE FetchRecord(r)
    BY <1>1, <2>1, <2>7, FetchRecordCore
  <2>8. CASE Parse(r)
    BY <1>1, <2>1, <2>8, ParseCore
  <2>9. CASE Caption(r)
    BY <1>1, <2>1, <2>9, CaptionCore
  <2>10. CASE EmbedBegin(r)
    BY <1>1, <2>1, <2>10, EmbedBeginCore
  <2>11. CASE EmbedPurge(r)
    BY <1>1, <2>1, <2>11, EmbedPurgeCore
  <2>12. CASE EmbedUpsert(r)
    BY <1>1, <2>1, <2>12, EmbedUpsertCore
  <2>13. CASE EmbedFlip(r)
    BY <1>1, <2>1, <2>13, EmbedFlipCore
  <2>14. CASE TaskRetry(r)
    BY <1>1, <2>1, <2>14, TaskRetryCore
  <2>15. CASE FlowFails(r)
    BY <1>1, <2>1, <2>15, FlowFailsCore
  <2>16. CASE \E w \in Workers : PickUp(r, w)
    BY <1>1, <2>1, <2>16, PickUpCore
  <2>17. QED
    BY <1>4, <2>1, <2>2, <2>3, <2>4, <2>5, <2>6, <2>7, <2>8, <2>9, <2>10, <2>11, <2>12, <2>13,
       <2>14, <2>15, <2>16
       DEF Flow, Progress
<1>5. ASSUME NEW w \in Workers, Worker(w) PROVE CoreInv' /\ Known'
  BY <1>1, <1>5, WorkerKnown, WorkerFrame, FrameStep
<1>6. CASE ApiCrash
  BY <1>1, <1>6, CrashKnown, DeleteOverCore
<1>7. CASE BeatExpires
  <2>1. Known'
    BY <1>1, <1>7 DEF Known, BeatExpires
  <2>2. RowsKept /\ RunsKept /\ DeletesKept /\ UNCHANGED <<index, taken, bucket, lost, met>>
    BY <1>7 DEF RowsKept, RunsKept, DeletesKept, BeatExpires
  <2>3. QED
    BY <1>1, <2>1, <2>2, FrameStep DEF Framed
<1>8. CASE \E d \in Docs : VideoPurge(Owner[d])
  <2>1. Known'
    BY <1>1, <1>8 DEF Known, VideoPurge
  <2>2. QED
    BY <1>1, <1>8, <2>1, TakenCore
<1>9. QED
  BY <1>2, <1>3, <1>4, <1>5, <1>6, <1>7, <1>8 DEF Next

(* IndInv is inductive. *)
LEMMA NextInv == IndInv /\ [Next]_vars => IndInv'
<1>1. IndInv /\ Next => IndInv'
  BY CoreStep, NextTypes DEF IndInv, Strengthening, CoreInv
<1>2. IndInv /\ UNCHANGED vars => IndInv'
  <2> SUFFICES ASSUME IndInv, UNCHANGED vars PROVE IndInv'
    OBVIOUS
  <2>1. TypeOK /\ TypeOK'
    BY NextTypes DEF IndInv
  <2>2. Known'
    <3>1. Known /\ UNCHANGED <<row, run, bg, re, del, sweep>>
      BY DEF vars, IndInv, Strengthening
    <3>2. QED
      BY <3>1 DEF Known
  <2>3. CoreInv'
    <3>1. RowsKept /\ RunsKept /\ DeletesKept /\ UNCHANGED <<index, taken, bucket, lost, met>>
      BY DEF vars, RowsKept, RunsKept, DeletesKept
    <3>2. QED
      BY <2>1, <3>1, FrameStep DEF Framed, IndInv, Strengthening, CoreInv
  <2>4. QED
    BY <2>1, <2>2, <2>3 DEF IndInv, Strengthening, CoreInv
<1>3. QED
  BY <1>1, <1>2

(* The inductive invariant holds in every reachable state. *)
THEOREM Invariance == Spec => []IndInv
<1>1. QED
  BY InitInv, NextInv, PTL DEF Spec

(* An indexed document has its chunks in Qdrant, whatever crashes, retries    *)
(* and sweeps happened (t_embed_index flips the status after the upsert),     *)
(* with two exceptions: two of its runs, or a run and a DELETE of it, were    *)
(* once at work at the same time; or, since its last upsert, somebody else    *)
(* took its chunks, a DELETE that did not get to the row or the purge of a    *)
(* video of its tenant.                                                       *)
THEOREM IndexedIsSearchable == Spec => []IndexedSearchable
<1>1. IndInv => IndexedSearchable
  BY DEF IndInv, SafetyInv
<1>2. QED
  BY <1>1, Invariance, PTL

(* A deleted document left no chunks behind unless a run of it overlapped *)
(* the DELETE (delete_document_route purges before it deletes the row;    *)
(* t_fetch stops when the row is gone).                                   *)
THEOREM DeletedIsUnsearchable == Spec => []DeletedUnsearchable
<1>1. IndInv => DeletedUnsearchable
  BY DEF IndInv, SafetyInv
<1>2. QED
  BY <1>1, Invariance, PTL

(* Two copies of one tenant's content are both indexed only if their runs  *)
(* overlapped (t_fetch checks recorded hashes, and records them before the *)
(* row can be indexed).                                                    *)
THEOREM DuplicatesAreCaught == Spec => []DuplicatesCaught
<1>1. IndInv => DuplicatesCaught
  BY DEF IndInv, SafetyInv
<1>2. QED
  BY <1>1, Invariance, PTL

(* A row names its own durable copy only after the copy was stored, and the *)
(* copy is there unless a DELETE of a document that names it removed it      *)
(* since (t_fetch uploads before it records storage_key).  Nothing is said   *)
(* of the object a storage:// registration names.                            *)
THEOREM CopiesAreDurable == Spec => []DurableCopy
<1>1. IndInv => DurableCopy
  BY DEF IndInv, SafetyInv
<1>2. QED
  BY <1>1, Invariance, PTL

=============================================================================
