--------------------------- MODULE DocIngestTypes ---------------------------
(***************************************************************************)
(* DocIngest keeps its types, for every value of its constants.  The first *)
(* lemmas say what each kind of write does to the rows and to the run      *)
(* records; the safety proof rests on them too.                            *)
(***************************************************************************)
EXTENDS DocIngest, TLAPS

(* set_document_status keeps the row's type and writes only the status (and *)
(* the age) of its document.                                                *)
LEMMA StatusSet ==
    ASSUME RowType, NEW d \in Docs, NEW s \in Active \cup Settled, SetStatus(d, s)
    PROVE  /\ RowType'
           /\ \A e \in Docs \ {d} : row'[e] = row[e]
           /\ \A e \in Docs : /\ row'[e].hash = row[e].hash /\ row'[e].key = row[e].key
                              /\ row'[e].st = IF e = d /\ Exists(d) THEN s ELSE row[e].st
<1> DEFINE x == [row[d] EXCEPT !.st = s, !.stale = FALSE]
<1>1. row[d] \in Rows
  BY DEF RowType
<1>2. /\ x \in Rows /\ x.st = s /\ x.hash = row[d].hash /\ x.key = row[d].key
  BY <1>1 DEF Rows
<1>3. row' = IF Exists(d) THEN [row EXCEPT ![d] = x] ELSE row
  BY DEF SetStatus
<1> HIDE DEF x
<1>4. RowType'
  BY <1>2, <1>3 DEF RowType
<1>5. QED
  BY <1>2, <1>3, <1>4 DEF RowType

(* set_document_flow_run_id keeps the row's type and changes no status, key *)
(* or hash.                                                                 *)
LEMMA FlowSet ==
    ASSUME RowType, NEW d \in Docs, NEW r \in Runs \cup {NoRun}, SetFlow(d, r)
    PROVE  /\ RowType'
           /\ \A e \in Docs : /\ row'[e].hash = row[e].hash /\ row'[e].key = row[e].key
                              /\ row'[e].st = row[e].st
<1> DEFINE x == [row[d] EXCEPT !.flow = r]
<1>1. row[d] \in Rows
  BY DEF RowType
<1>2. /\ x \in Rows /\ x.st = row[d].st /\ x.hash = row[d].hash /\ x.key = row[d].key
  BY <1>1 DEF Rows
<1>3. row' = IF Exists(d) THEN [row EXCEPT ![d] = x] ELSE row
  BY DEF SetFlow
<1> HIDE DEF x
<1>4. RowType'
  BY <1>2, <1>3 DEF RowType
<1>5. QED
  BY <1>2, <1>3, <1>4 DEF RowType

(* A run that advances keeps its document and its worker. *)
LEMMA RunMoved ==
    ASSUME RunType, NEW r \in Runs, NEW p \in Positions \ {"none"}, run[r].pc # "none",
           Advance(r, p) \/ NextTask(r, p)
    PROVE  /\ RunType'
           /\ \A q \in Runs : /\ run'[q].doc = run[q].doc /\ run'[q].host = run[q].host
                              /\ run'[q].pc = IF q = r THEN p ELSE run[q].pc
<1> DEFINE x == [run[r] EXCEPT !.pc = p]
           y == [run[r] EXCEPT !.pc = p, !.try = 0]
<1>1. run \in [Runs -> RunRecords] /\ run[r] \in RunRecords
  BY DEF RunType
<1> p \in Positions /\ 0 \in 0 .. 2
  OBVIOUS
<1>2a. x \in RunRecords /\ x.pc = p /\ x.doc = run[r].doc /\ x.host = run[r].host
  BY <1>1 DEF RunRecords
<1>2b. y \in RunRecords /\ y.pc = p /\ y.doc = run[r].doc /\ y.host = run[r].host
  BY <1>1 DEF RunRecords
<1>3. run' = [run EXCEPT ![r] = x] \/ run' = [run EXCEPT ![r] = y]
  BY DEF Advance, NextTask
<1> HIDE DEF x, y
<1>4. \A q \in Runs : /\ run'[q].doc = run[q].doc /\ run'[q].host = run[q].host
                      /\ run'[q].pc = IF q = r THEN p ELSE run[q].pc
  BY <1>1, <1>2a, <1>2b, <1>3
<1>5. run' \in [Runs -> RunRecords]
  BY <1>1, <1>2a, <1>2b, <1>3
<1>6. RunType'
  BY <1>4, <1>5 DEF RunType
<1>7. QED
  BY <1>4, <1>6

(* A run that ends leaves its worker and keeps its document. *)
LEMMA RunEnded ==
    ASSUME RunType, NEW r \in Runs, NEW s \in PrefectStates, run[r].pc # "none", Ended(r, s)
    PROVE  /\ RunType'
           /\ \A q \in Runs : /\ run'[q].doc = run[q].doc
                              /\ run'[q].host = IF q = r THEN NoWorker ELSE run[q].host
                              /\ run'[q].pc = IF q = r THEN "done" ELSE run[q].pc
<1> DEFINE x == [run[r] EXCEPT !.pc = "done", !.host = NoWorker,
                               !.st = IF run[r].st = "CANCELLED" THEN run[r].st ELSE s]
<1>1. run \in [Runs -> RunRecords] /\ run[r] \in RunRecords
  BY DEF RunType
<1>2. "done" \in Positions
  BY DEF Positions
<1>3. x \in RunRecords /\ x.pc = "done" /\ x.doc = run[r].doc /\ x.host = NoWorker
  BY <1>1, <1>2 DEF RunRecords
<1>4. run' = [run EXCEPT ![r] = x]
  BY DEF Ended
<1> HIDE DEF x
<1>5. \A q \in Runs : /\ run'[q].doc = run[q].doc
                      /\ run'[q].host = IF q = r THEN NoWorker ELSE run[q].host
                      /\ run'[q].pc = IF q = r THEN "done" ELSE run[q].pc
  BY <1>1, <1>3, <1>4
<1>6. run' \in [Runs -> RunRecords]
  BY <1>1, <1>3, <1>4
<1>7. QED
  BY <1>5, <1>6 DEF RunType

(* A run just created is queued for its document and executes nowhere. *)
LEMMA NewRunType == \A d \in Docs : /\ NewRun(d) \in RunRecords
                                    /\ NewRun(d).doc = d /\ NewRun(d).host = NoWorker
                                    /\ NewRun(d).pc = "queued"
<1> "queued" \in Positions /\ "SCHEDULED" \in PrefectStates
  BY DEF Positions, PrefectStates
<1> QED
  BY DEF NewRun, RunRecords

(* A create call, ambiguous or not, only turns unused run records into new *)
(* runs of its document.                                                   *)
LEMMA RunsCreated ==
    ASSUME RunType, LeftType, NEW d \in Docs,
           (\E r \in Runs : Enqueue(d, r)) \/ EnqueueRaises(d)
    PROVE  /\ RunType' /\ LeftType'
           /\ \A q \in Runs : \/ run'[q] = run[q]
                              \/ run[q].pc = "none" /\ run'[q] = NewRun(d)
<1> DEFINE N == NewRun(d)
<1>1. N \in RunRecords /\ N.doc = d
  BY NewRunType
<1>2. LeftType'
  BY DEF LeftType, Enqueue, EnqueueRaises, Spend
<1>3. \/ run' = run
      \/ \E r \in Runs : Unused(r) /\ run' = [run EXCEPT ![r] = N]
      \/ \E r, g \in Runs : Unused(g) /\ run[r].pc = "none" /\ run' = [run EXCEPT ![g] = N, ![r] = N]
  BY DEF Enqueue, EnqueueRaises
<1>4. \A q \in Runs : run'[q] = run[q] \/ (run[q].pc = "none" /\ run'[q] = N)
  <2> HIDE DEF N
  <2> USE DEF RunType
  <2>1. CASE run' = run
    BY <2>1
  <2>2. CASE \E r \in Runs : Unused(r) /\ run' = [run EXCEPT ![r] = N]
    BY <2>2 DEF Unused
  <2>3. CASE \E r, g \in Runs : Unused(g) /\ run[r].pc = "none" /\ run' = [run EXCEPT ![g] = N, ![r] = N]
    BY <2>3 DEF Unused
  <2> QED
    BY <1>3, <2>1, <2>2, <2>3
<1>5. run' \in [Runs -> RunRecords]
  <2> HIDE DEF N
  <2> QED
    BY <1>1, <1>3 DEF RunType
<1>6. QED
  BY <1>1, <1>2, <1>4, <1>5 DEF RunType

-----------------------------------------------------------------------------
(* What the other updates of a row do to it. *)

(* Replacing one row by another of the same type disturbs no other row. *)
LEMMA RowReplaced ==
    ASSUME RowType, NEW d \in Docs, NEW x \in Rows, row' = [row EXCEPT ![d] = x]
    PROVE  /\ RowType'
           /\ row'[d] = x
           /\ \A e \in Docs \ {d} : row'[e] = row[e]
<1> QED
  BY DEF RowType

(* What a registration writes: its key is never the document's own copy. *)
LEMMA RowRegistered ==
    ASSUME RowType, NEW d \in Docs, Register(d)
    PROVE  /\ RowType'
           /\ row'[d].st = "pending" /\ row'[d].key # d /\ row'[d].hash = row[d].hash
           /\ \A e \in Docs \ {d} : row'[e] = row[e]
<1>1. PICK k \in Nameable(d) : row' = [row EXCEPT ![d] = [row[d] EXCEPT !.st = "pending", !.key = k]]
  BY DEF Register
<1>2. k \in Keys /\ k # d
  BY NoValues DEF Nameable, Peers, Keys
<1> DEFINE x == [row[d] EXCEPT !.st = "pending", !.key = k]
<1>3. row[d] \in Rows /\ "pending" \in Active
  BY DEF RowType, Active
<1>4. x \in Rows /\ x.st = "pending" /\ x.key = k /\ x.hash = row[d].hash
  BY <1>2, <1>3 DEF Rows
<1>5. row' = [row EXCEPT ![d] = x]
  BY <1>1
<1> HIDE DEF x
<1>6. QED
  BY <1>2, <1>4, <1>5, RowReplaced

(* What the duplicate exit of t_fetch writes. *)
LEMMA RowSkipped ==
    ASSUME RowType, RunType, NEW r \in Runs, FetchSkip(r), run[r].doc \in Docs
    PROVE  /\ RowType'
           /\ \A e \in Docs : \/ row'[e] = row[e]
                              \/ e = run[r].doc /\ Exists(e) /\ row'[e].st = "skipped"
                                 /\ row'[e].hash = TRUE /\ row'[e].key = row[e].key
<1> DEFINE d == run[r].doc
           x == [row[d] EXCEPT !.st = "skipped", !.hash = TRUE, !.stale = FALSE]
<1>1. row[d] \in Rows /\ "skipped" \in Settled
  BY DEF RowType, Settled
<1>2. x \in Rows /\ x.st = "skipped" /\ x.hash = TRUE /\ x.key = row[d].key
  BY <1>1 DEF Rows
<1>3. row' = IF Exists(d) THEN [row EXCEPT ![d] = x] ELSE row
  BY DEF FetchSkip
<1>4. d \in Docs
  OBVIOUS
<1> HIDE DEF x
<1>5. CASE Exists(d)
  <2>1. row' = [row EXCEPT ![d] = x]
    BY <1>3, <1>5
  <2> HIDE DEF d
  <2>2. QED
    BY <2>1, <1>2, <1>4, <1>5, RowReplaced DEF d
<1>6. CASE ~Exists(d)
  BY <1>3, <1>6 DEF RowType
<1>7. QED
  BY <1>5, <1>6

(* What the merged write at the end of t_fetch writes. *)
LEMMA RowRecorded ==
    ASSUME RowType, RunType, NEW r \in Runs, FetchRecord(r), run[r].doc \in Docs
    PROVE  /\ RowType'
           /\ \A e \in Docs : \/ row'[e] = row[e] /\ (e = run[r].doc => ~Exists(e))
                              \/ e = run[r].doc /\ Exists(e) /\ row'[e].st = "fetching"
                                 /\ row'[e].hash = TRUE /\ row'[e].key = e
<1> DEFINE d == run[r].doc
           x == [row[d] EXCEPT !.st = "fetching", !.hash = TRUE, !.key = d, !.stale = FALSE]
<1>1. row[d] \in Rows /\ "fetching" \in Active /\ d \in Keys
  BY DEF RowType, Active, Keys
<1>2. x \in Rows /\ x.st = "fetching" /\ x.hash = TRUE /\ x.key = d
  BY <1>1 DEF Rows
<1>3. row' = IF Exists(d) THEN [row EXCEPT ![d] = x] ELSE row
  BY DEF FetchRecord
<1>4. d \in Docs
  OBVIOUS
<1> HIDE DEF x
<1>5. CASE Exists(d)
  <2>1. row' = [row EXCEPT ![d] = x]
    BY <1>3, <1>5
  <2> HIDE DEF d
  <2>2. QED
    BY <2>1, <1>2, <1>4, <1>5, RowReplaced DEF d
<1>6. CASE ~Exists(d)
  BY <1>3, <1>6 DEF RowType
<1>7. QED
  BY <1>5, <1>6

(* A write that only moves updated_at. *)
LEMMA RowTouched ==
    ASSUME RowType, NEW d \in Docs, NEW b \in BOOLEAN,
           row' = IF Exists(d) THEN [row EXCEPT ![d].stale = b] ELSE row
    PROVE  /\ RowType'
           /\ \A e \in Docs : /\ row'[e].st = row[e].st /\ row'[e].key = row[e].key
                              /\ row'[e].hash = row[e].hash
<1> DEFINE x == [row[d] EXCEPT !.stale = b]
<1>1. row[d] \in Rows
  BY DEF RowType
<1>2. x \in Rows /\ x.st = row[d].st /\ x.key = row[d].key /\ x.hash = row[d].hash
  BY <1>1 DEF Rows
<1>3. row' = IF Exists(d) THEN [row EXCEPT ![d] = x] ELSE row
  OBVIOUS
<1> HIDE DEF x
<1>4. CASE Exists(d)
  BY <1>2, <1>3, <1>4, RowReplaced
<1>5. CASE ~Exists(d)
  BY <1>3, <1>5 DEF RowType
<1>6. QED
  BY <1>4, <1>5

(* What the DELETE handler's last write does to the row. *)
LEMMA RowDeleted ==
    ASSUME RowType, NEW d \in Docs, DeleteRow(d)
    PROVE  /\ RowType'
           /\ row'[d].st = "deleted" /\ row'[d].key = NoKey
           /\ \A e \in Docs \ {d} : row'[e] = row[e]
<1> DEFINE x == [st |-> "deleted", flow |-> NoRun, key |-> NoKey, hash |-> FALSE, stale |-> FALSE]
<1>1. x \in Rows /\ x.st = "deleted" /\ x.key = NoKey
  BY DEF Rows, NoRow, Keys
<1>2. row' = [row EXCEPT ![d] = x]
  BY DEF DeleteRow
<1> HIDE DEF x
<1>3. QED
  BY <1>1, <1>2, RowReplaced

-----------------------------------------------------------------------------
(* The remaining updates of Prefect's records. *)

(* Replacing one run record by another of the same type and document *)
(* disturbs no other run.                                            *)
LEMMA RunReplaced ==
    ASSUME RunType, NEW r \in Runs, NEW x \in RunRecords, x.doc = run[r].doc,
           run[r].pc # "none" \/ x.pc = "none", run' = [run EXCEPT ![r] = x]
    PROVE  /\ RunType' /\ run'[r] = x
           /\ \A q \in Runs \ {r} : run'[q] = run[q]
BY DEF RunType

(* What picking up a run does to the run records. *)
LEMMA RunPicked ==
    ASSUME RunType, NEW r \in Runs, NEW w \in Workers, PickUp(r, w)
    PROVE  /\ RunType'
           /\ \A q \in Runs : /\ run'[q].doc = run[q].doc
                              /\ run'[q].pc = IF q = r THEN "launch" ELSE run[q].pc
                              /\ run'[q].host = IF q = r THEN w ELSE run[q].host
<1> DEFINE x == [run[r] EXCEPT !.st = "PENDING", !.pc = "launch", !.host = w]
<1>1. run[r] \in RunRecords /\ "PENDING" \in PrefectStates /\ "launch" \in Positions
  BY DEF RunType, PrefectStates, Positions
<1>2. x \in RunRecords /\ x.doc = run[r].doc /\ x.pc = "launch" /\ x.host = w
  BY <1>1 DEF RunRecords
<1>3. run' = [run EXCEPT ![r] = x] /\ run[r].pc # "none"
  BY DEF PickUp
<1> HIDE DEF x
<1>4. RunType' /\ run'[r] = x /\ \A q \in Runs \ {r} : run'[q] = run[q]
  BY <1>2, <1>3, RunReplaced
<1>5. QED
  BY <1>2, <1>4

(* What launching a run does to the run records. *)
LEMMA RunLaunched ==
    ASSUME RunType, NEW r \in Runs, Launch(r)
    PROVE  /\ RunType'
           /\ \A q \in Runs : /\ run'[q].doc = run[q].doc /\ run'[q].host = run[q].host
                              /\ run'[q].pc = IF q = r THEN "fetch" ELSE run[q].pc
<1> DEFINE x == [run[r] EXCEPT !.st = "RUNNING", !.pc = "fetch"]
<1>1. run[r] \in RunRecords /\ "RUNNING" \in PrefectStates /\ "fetch" \in Positions
  BY DEF RunType, PrefectStates, Positions, TaskSteps, FetchSteps
<1>2. x \in RunRecords /\ x.doc = run[r].doc /\ x.pc = "fetch" /\ x.host = run[r].host
  BY <1>1 DEF RunRecords
<1>3. run' = [run EXCEPT ![r] = x] /\ run[r].pc # "none"
  BY DEF Launch, At
<1> HIDE DEF x
<1>4. RunType' /\ run'[r] = x /\ \A q \in Runs \ {r} : run'[q] = run[q]
  BY <1>2, <1>3, RunReplaced
<1>5. QED
  BY <1>2, <1>4

(* A task retry moves the run back to the start of its task. *)
LEMMA RunRetried ==
    ASSUME RunType, NEW r \in Runs, TaskRetry(r)
    PROVE  /\ RunType' /\ run[r].pc \in TaskSteps
           /\ \A q \in Runs : /\ run'[q].doc = run[q].doc /\ run'[q].host = run[q].host
                              /\ run'[q].pc = IF q = r THEN TaskStart(run[r].pc) ELSE run[q].pc
<1> DEFINE p == TaskStart(run[r].pc)
           n == run[r].try + 1
           x == [run[r] EXCEPT !.pc = p, !.try = n]
<1>1. run[r] \in RunRecords /\ run[r].pc \in TaskSteps
  BY DEF RunType, TaskRetry, Raises
<1>2. run[r].try \in 0 .. 2 /\ run[r].try < 2
  <2>1. run[r].try \in 0 .. 2
    BY <1>1 DEF RunRecords
  <2>2. run[r].try < Retries(run[r].pc) /\ Retries(run[r].pc) \in {1, 2}
    BY DEF TaskRetry, Retries
  <2>3. QED
    BY <2>1, <2>2
<1>3. p \in Positions /\ n \in 0 .. 2 /\ run[r].pc # "none"
  BY <1>1, <1>2 DEF TaskStart, Positions, TaskSteps, FetchSteps, ParseSteps, EmbedSteps
<1>4. run' = [run EXCEPT ![r] = x]
  BY DEF TaskRetry
<1> HIDE DEF p, n
<1>5. x \in RunRecords /\ x.doc = run[r].doc /\ x.pc = p /\ x.host = run[r].host
  BY <1>1, <1>3 DEF RunRecords
<1> HIDE DEF x
<1>6. RunType' /\ run'[r] = x /\ \A q \in Runs \ {r} : run'[q] = run[q]
  BY <1>3, <1>4, <1>5, RunReplaced
<1>7. QED
  BY <1>1, <1>5, <1>6 DEF p

(* A cancelled run that is stopped only leaves its worker. *)
LEMMA RunStopped ==
    ASSUME RunType, NEW r \in Runs, CancelStops(r)
    PROVE  /\ RunType'
           /\ \A q \in Runs : /\ run'[q].doc = run[q].doc /\ run'[q].pc = run[q].pc
                              /\ run'[q].host = IF q = r THEN NoWorker ELSE run[q].host
<1> DEFINE x == [run[r] EXCEPT !.host = NoWorker]
<1>1. run[r] \in RunRecords
  BY DEF RunType
<1>2. x \in RunRecords /\ x.doc = run[r].doc /\ x.pc = run[r].pc /\ x.host = NoWorker
  BY <1>1 DEF RunRecords
<1>3. run' = [run EXCEPT ![r] = x]
  BY DEF CancelStops
<1> HIDE DEF x
<1>4. RunType' /\ run'[r] = x /\ \A q \in Runs \ {r} : run'[q] = run[q]
  BY <1>2, <1>3, RunReplaced
<1>5. QED
  BY <1>2, <1>4

(* A worker's crash only takes runs off their worker. *)
LEMMA RunsKilled ==
    ASSUME RunType, NEW w \in Workers, WorkerCrash(w)
    PROVE  /\ RunType'
           /\ \A q \in Runs : /\ run'[q].doc = run[q].doc /\ run'[q].pc = run[q].pc
                              /\ run'[q].host \in {run[q].host, NoWorker}
<1> DEFINE x(q) == [run[q] EXCEPT !.host = NoWorker]
<1>1. \A q \in Runs : run[q] \in RunRecords
  BY DEF RunType
<1>2. \A q \in Runs : /\ x(q) \in RunRecords /\ x(q).doc = run[q].doc
                      /\ x(q).pc = run[q].pc /\ x(q).host = NoWorker
  BY <1>1 DEF RunRecords
<1>3. run' = [q \in Runs |-> IF run[q].host = w THEN x(q) ELSE run[q]]
  BY DEF WorkerCrash
<1> HIDE DEF x
<1>4. \A q \in Runs : run'[q] \in RunRecords
  BY <1>1, <1>2, <1>3
<1>5. \A q \in Runs : /\ run'[q].doc = run[q].doc /\ run'[q].pc = run[q].pc
                      /\ run'[q].host \in {run[q].host, NoWorker}
  BY <1>2, <1>3
<1>6. QED
  BY <1>3, <1>4, <1>5 DEF RunType

(* A forced cancellation changes no run's document, position or worker. *)
LEMMA RunsCancelled ==
    ASSUME RunType, NEW d \in Docs, DeleteCancel(d)
    PROVE  /\ RunType'
           /\ \A q \in Runs : /\ run'[q].doc = run[q].doc /\ run'[q].pc = run[q].pc
                              /\ run'[q].host = run[q].host
<1> DEFINE x(q) == [run[q] EXCEPT !.st = "CANCELLED"]
<1>1. (\A q \in Runs : run[q] \in RunRecords) /\ "CANCELLED" \in PrefectStates
  BY DEF RunType, PrefectStates
<1>2. \A q \in Runs : /\ x(q) \in RunRecords /\ x(q).doc = run[q].doc
                      /\ x(q).pc = run[q].pc /\ x(q).host = run[q].host
  BY <1>1 DEF RunRecords
<1>3. \/ run' = [q \in Runs |-> IF q = del[d].flow THEN x(q) ELSE run[q]]
      \/ run' = run
  BY DEF DeleteCancel
<1> HIDE DEF x
<1>4. \A q \in Runs : run'[q] \in RunRecords
  BY <1>1, <1>2, <1>3
<1>5. \A q \in Runs : /\ run'[q].doc = run[q].doc /\ run'[q].pc = run[q].pc
                      /\ run'[q].host = run[q].host
  BY <1>2, <1>3
<1>6. QED
  BY <1>3, <1>4, <1>5 DEF RunType

(* The fields of a row have their types. *)
LEMMA RowFields ==
    ASSUME RowType, NEW d \in Docs
    PROVE  /\ row[d] \in Rows /\ row[d].st \in Active \cup Settled \cup NoRow
           /\ row[d].flow \in Runs \cup {NoRun}
           /\ row[d].key \in Keys /\ row[d].hash \in BOOLEAN
BY DEF RowType, Rows

(* The sweep's own record keeps its type when a restart is enqueued and *)
(* when it is recorded.                                                 *)
LEMMA SweepMoved ==
    ASSUME SweepType, NEW w \in Workers, SweepRecord(w) \/ SweepEnqueue(w)
    PROVE  SweepType'
<1> DEFINE Sweeps == [pc: {"idle", "loop", "reset", "enqueue", "record"},
                      todo: SUBSET Candidates, doc: Docs \cup {NoDoc}, run: Runs \cup {NoRun}]
           x(r) == [sweep[w] EXCEPT !.pc = "record", !.run = r]
           y    == [sweep[w] EXCEPT !.pc = "loop", !.doc = NoDoc, !.run = NoRun]
<1>1. sweep[w] \in Sweeps /\ sweep \in [Workers -> Sweeps]
  BY DEF SweepType
<1>2. \A r \in Runs : x(r) \in Sweeps /\ x(r).doc = sweep[w].doc /\ x(r).pc = "record"
  BY <1>1
<1>3. y \in Sweeps /\ y.pc = "loop"
  BY <1>1
<1>4. \/ sweep[w].pc = "enqueue" /\ \E r \in Runs : sweep' = [sweep EXCEPT ![w] = x(r)]
      \/ sweep' = [sweep EXCEPT ![w] = y]
  BY DEF SweepRecord, SweepEnqueue, Handled
<1> HIDE DEF x, y
<1>5. CASE sweep[w].pc = "enqueue" /\ \E r \in Runs : sweep' = [sweep EXCEPT ![w] = x(r)]
  BY <1>1, <1>2, <1>5 DEF SweepType
<1>6. CASE sweep' = [sweep EXCEPT ![w] = y]
  BY <1>1, <1>3, <1>6 DEF SweepType
<1>7. QED
  BY <1>4, <1>5, <1>6

(* The overlaps a pick-up notes are sets of documents. *)
LEMMA MetType ==
    ASSUME StoreType, RunType, NEW r \in Runs, \E w \in Workers : PickUp(r, w)
    PROVE  StoreType'
<1> DEFINE d == run[r].doc
           old == {p \in Runs : Executing(p) /\ run[p].doc \in {d} \cup Peers(d)}
<1>1. d \in Docs
  BY DEF RunType, PickUp
<1>2. met' = met \cup {{d, run[q].doc} : q \in old}
                 \cup (IF del[d].pc \in {"object", "row"} THEN {{d}} ELSE {})
  BY DEF PickUp
<1>3. \A q \in old : run[q].doc \in Docs
  BY <1>1 DEF Peers
<1> HIDE DEF d, old
<1>4. {{d, run[q].doc} : q \in old} \subseteq SUBSET Docs
  BY <1>1, <1>3
<1>5. met' \subseteq SUBSET Docs
  BY <1>1, <1>2, <1>4 DEF StoreType
<1>6. QED
  BY <1>5 DEF StoreType, PickUp

(* No DELETE under way is a value of its type. *)
LEMMA NoDeleteType ==
    /\ NoDelete \in [pc: {"idle", "object", "row", "cancel"}, key: Keys, flow: Runs \cup {NoRun}]
    /\ NoDelete.pc = "idle"
BY DEF NoDelete, Keys

(* What the sweep's query returns. *)
LEMMA StaleRowsType ==
    ASSUME RowType
    PROVE  StaleRows \subseteq Candidates
BY RowFields DEF StaleRows, Candidates

(* Every step of the API keeps the types. *)
LEMMA ApiTypes == ASSUME TypeOK, NEW d \in Docs, Api(d) PROVE TypeOK'
<1> USE DEF TypeOK
<1>1. CASE Register(d)
  <2>1. RowType'
    BY <1>1, RowRegistered
  <2>2. StoreType'
    BY <1>1 DEF Register, StoreType
  <2>3. DispatchType'
    BY <1>1 DEF Register, DispatchType
  <2>4. (RunType /\ RetryType /\ DeleteType /\ WorkerType /\ SweepType /\ LeftType)'
    BY <1>1 DEF Register, RunType, RetryType, DeleteType, WorkerType, SweepType, LeftType
  <2>5. QED
    BY <2>1, <2>2, <2>3, <2>4
<1>2. CASE DispatchCheck(d)
  <2>1. DispatchType'
    BY <1>2 DEF DispatchCheck, DispatchType
  <2>2. (RowType /\ RunType /\ StoreType /\ RetryType
       /\ DeleteType /\ WorkerType /\ SweepType /\ LeftType)'
    BY <1>2 DEF DispatchCheck, RowType, RunType, StoreType, RetryType, DeleteType, WorkerType,
       SweepType, LeftType
  <2>3. QED
    BY <2>1, <2>2
<1>3. CASE DispatchEnqueue(d)
  <2>1. RunType'
    BY <1>3, RunsCreated DEF DispatchEnqueue
  <2>2. DispatchType'
    BY <1>3 DEF DispatchEnqueue, DispatchType
  <2>3. LeftType'
    BY <1>3, RunsCreated DEF DispatchEnqueue
  <2>4. (RowType /\ StoreType /\ RetryType /\ DeleteType /\ WorkerType /\ SweepType)'
    BY <1>3 DEF DispatchEnqueue, RowType, StoreType, RetryType, DeleteType, WorkerType,
       SweepType
  <2>5. QED
    BY <2>1, <2>2, <2>3, <2>4
<1>4. CASE DispatchRecord(d)
  <2>1. RowType'
    BY <1>4, FlowSet DEF DispatchRecord, DispatchType
  <2>2. DispatchType'
    BY <1>4 DEF DispatchRecord, DispatchType
  <2>3. (RunType /\ StoreType /\ RetryType
       /\ DeleteType /\ WorkerType /\ SweepType /\ LeftType)'
    BY <1>4 DEF DispatchRecord, RunType, StoreType, RetryType, DeleteType, WorkerType,
       SweepType, LeftType
  <2>4. QED
    BY <2>1, <2>2, <2>3
<1>5. CASE DispatchRaises(d)
  <2>1. RowType'
    BY <1>5, StatusSet DEF DispatchRaises, Settled
  <2>2. RunType'
    BY <1>5, RunsCreated DEF DispatchRaises
  <2>3. DispatchType'
    BY <1>5 DEF DispatchRaises, DispatchType
  <2>4. LeftType'
    BY <1>5, RunsCreated DEF DispatchRaises
  <2>5. (StoreType /\ RetryType /\ DeleteType /\ WorkerType /\ SweepType)'
    BY <1>5 DEF DispatchRaises, StoreType, RetryType, DeleteType, WorkerType, SweepType
  <2>6. QED
    BY <2>1, <2>2, <2>3, <2>4, <2>5
<1>6. CASE RetryReset(d)
  <2>1. RowType'
    BY <1>6, StatusSet DEF RetryReset, Active
  <2>2. RetryType'
    BY <1>6 DEF RetryReset, RetryType
  <2>3. LeftType'
    BY <1>6 DEF RetryReset, LeftType, Spend
  <2>4. (RunType /\ StoreType /\ DispatchType /\ DeleteType /\ WorkerType /\ SweepType)'
    BY <1>6 DEF RetryReset, RunType, StoreType, DispatchType, DeleteType, WorkerType, SweepType
  <2>5. QED
    BY <2>1, <2>2, <2>3, <2>4
<1>7. CASE RetryEnqueue(d)
  <2>1. RunType'
    BY <1>7, RunsCreated DEF RetryEnqueue
  <2>2. RetryType'
    BY <1>7 DEF RetryEnqueue, RetryType
  <2>3. LeftType'
    BY <1>7, RunsCreated DEF RetryEnqueue
  <2>4. (RowType /\ StoreType /\ DispatchType /\ DeleteType /\ WorkerType /\ SweepType)'
    BY <1>7 DEF RetryEnqueue, RowType, StoreType, DispatchType, DeleteType, WorkerType,
       SweepType
  <2>5. QED
    BY <2>1, <2>2, <2>3, <2>4
<1>8. CASE RetryRecord(d)
  <2>1. RowType'
    BY <1>8, FlowSet DEF RetryRecord, RetryType
  <2>2. RetryType'
    BY <1>8 DEF RetryRecord, RetryType
  <2>3. (RunType /\ StoreType /\ DispatchType
       /\ DeleteType /\ WorkerType /\ SweepType /\ LeftType)'
    BY <1>8 DEF RetryRecord, RunType, StoreType, DispatchType, DeleteType, WorkerType,
       SweepType, LeftType
  <2>4. QED
    BY <2>1, <2>2, <2>3
<1>9. CASE RetryRaises(d)
  <2>1. RowType'
    BY <1>9, StatusSet DEF RetryRaises, Settled
  <2>2. RunType'
    BY <1>9, RunsCreated DEF RetryRaises
  <2>3. RetryType'
    BY <1>9 DEF RetryRaises, RetryType
  <2>4. LeftType'
    BY <1>9, RunsCreated DEF RetryRaises
  <2>5. (StoreType /\ DispatchType /\ DeleteType /\ WorkerType /\ SweepType)'
    BY <1>9 DEF RetryRaises, StoreType, DispatchType, DeleteType, WorkerType, SweepType
  <2>6. QED
    BY <2>1, <2>2, <2>3, <2>4, <2>5
<1>10. CASE DeletePurge(d)
  <2>1. StoreType'
    BY <1>10 DEF DeletePurge, MeetsDelete, Take, StoreType
  <2>2. DeleteType'
    BY <1>10, RowFields DEF DeletePurge, DeleteType
  <2>3. LeftType'
    BY <1>10 DEF DeletePurge, LeftType, Spend
  <2>4. (RowType /\ RunType /\ DispatchType /\ RetryType /\ WorkerType /\ SweepType)'
    BY <1>10 DEF DeletePurge, RowType, RunType, DispatchType, RetryType, WorkerType, SweepType
  <2>5. QED
    BY <2>1, <2>2, <2>3, <2>4
<1>11. CASE DeleteObject(d)
  <2>1. StoreType'
    BY <1>11 DEF DeleteObject, RemoveObject, StoreType
  <2>2. DeleteType'
    BY <1>11, RowFields DEF DeleteObject, DeleteType
  <2>3. (RowType /\ RunType /\ DispatchType
       /\ RetryType /\ WorkerType /\ SweepType /\ LeftType)'
    BY <1>11 DEF DeleteObject, RowType, RunType, DispatchType, RetryType, WorkerType,
       SweepType, LeftType
  <2>4. QED
    BY <2>1, <2>2, <2>3
<1>12. CASE DeleteObjectRaises(d)
  <2>1. DeleteType'
    BY <1>12, NoDeleteType DEF DeleteObjectRaises, DeleteType
  <2>2. LeftType'
    BY <1>12 DEF DeleteObjectRaises, LeftType, Spend
  <2>3. StoreType'
    BY <1>12 DEF DeleteObjectRaises, RemoveObject, StoreType
  <2>4. (RowType /\ RunType /\ DispatchType /\ RetryType /\ WorkerType /\ SweepType)'
    BY <1>12 DEF DeleteObjectRaises, RowType, RunType, DispatchType, RetryType, WorkerType,
       SweepType
  <2>5. QED
    BY <2>1, <2>2, <2>3, <2>4
<1>13. CASE DeleteRow(d)
  <2>1. RowType'
    BY <1>13, RowDeleted
  <2>2. DeleteType'
    BY <1>13 DEF DeleteRow, DeleteType
  <2>3. (RunType /\ StoreType /\ DispatchType
       /\ RetryType /\ WorkerType /\ SweepType /\ LeftType)'
    BY <1>13 DEF DeleteRow, RunType, StoreType, DispatchType, RetryType, WorkerType, SweepType,
       LeftType
  <2>4. QED
    BY <2>1, <2>2, <2>3
<1>14. CASE DeleteCancel(d)
  <2>1. RunType'
    BY <1>14, RunsCancelled
  <2>2. StoreType'
    BY <1>14 DEF DeleteCancel, StoreType
  <2>3. DeleteType'
    BY <1>14, NoDeleteType DEF DeleteCancel, DeleteType
  <2>4. LeftType'
    BY <1>14 DEF DeleteCancel, LeftType, Spend
  <2>5. (RowType /\ DispatchType /\ RetryType /\ WorkerType /\ SweepType)'
    BY <1>14 DEF DeleteCancel, RowType, DispatchType, RetryType, WorkerType, SweepType
  <2>6. QED
    BY <2>1, <2>2, <2>3, <2>4, <2>5
<1>15. CASE DeletePurgeRaises(d)
  <2>1. StoreType'
    BY <1>15 DEF DeletePurgeRaises, MeetsDelete, Take, StoreType
  <2>2. LeftType'
    <3> DEFINE m == left["delete"] - 1
               n == left["fault"] - 1
    <3>1. m \in Nat /\ n \in Nat
      BY <1>15 DEF DeletePurgeRaises, LeftType
    <3>2. left' = [left EXCEPT !["delete"] = m, !["fault"] = n]
      BY <1>15 DEF DeletePurgeRaises
    <3> HIDE DEF m, n
    <3>3. QED
      BY <3>1, <3>2 DEF LeftType
  <2>3. (RowType /\ RunType /\ DispatchType
       /\ RetryType /\ DeleteType /\ WorkerType /\ SweepType)'
    BY <1>15 DEF DeletePurgeRaises, RowType, RunType, DispatchType, RetryType, DeleteType,
       WorkerType, SweepType
  <2>4. QED
    BY <2>1, <2>2, <2>3
<1>16. QED
  BY <1>1, <1>2, <1>3, <1>4, <1>5, <1>6, <1>7, <1>8, <1>9, <1>10, <1>11, <1>12, <1>13,
     <1>14, <1>15 DEF Api

(* Every step of a run keeps the types. *)
LEMMA FlowTypes == ASSUME TypeOK, NEW r \in Runs, Flow(r) PROVE TypeOK'
<1> USE DEF TypeOK
<1>b. \A p \in Runs : run[p].pc # "none" => run[p].doc \in Docs
  BY DEF RunType
<1>1. CASE Launch(r)
  <2>1. RowType'
    BY <1>b, <1>1, RowTouched DEF Launch, At
  <2>2. RunType'
    BY <1>1, RunLaunched
  <2>3. (StoreType /\ DispatchType /\ RetryType
       /\ DeleteType /\ WorkerType /\ SweepType /\ LeftType)'
    BY <1>1 DEF Launch, StoreType, DispatchType, RetryType, DeleteType, WorkerType, SweepType,
       LeftType
  <2>4. QED
    BY <2>1, <2>2, <2>3
<1>2. CASE LaunchFails(r)
  <2>1. RunType'
    BY <1>2, RunEnded DEF LaunchFails, At, PrefectStates
  <2>2. LeftType'
    BY <1>2 DEF LaunchFails, LeftType, Spend
  <2>3. (RowType /\ StoreType /\ DispatchType
       /\ RetryType /\ DeleteType /\ WorkerType /\ SweepType)'
    BY <1>2 DEF LaunchFails, RowType, StoreType, DispatchType, RetryType, DeleteType,
       WorkerType, SweepType
  <2>4. QED
    BY <2>1, <2>2, <2>3
<1>3. CASE CancelStops(r)
  <2>1. RunType'
    BY <1>3, RunStopped DEF CancelStops
  <2>2. (RowType /\ StoreType /\ DispatchType /\ RetryType
       /\ DeleteType /\ WorkerType /\ SweepType /\ LeftType)'
    BY <1>3 DEF CancelStops, RowType, StoreType, DispatchType, RetryType, DeleteType,
       WorkerType, SweepType, LeftType
  <2>3. QED
    BY <2>1, <2>2
<1>4. CASE FetchBegin(r)
  <2>1. RowType'
    BY <1>b, <1>4, StatusSet DEF FetchBegin, At, Active
  <2>2. RunType'
    BY <1>4, RunMoved DEF FetchBegin, At, Positions, TaskSteps, FetchSteps, ParseSteps,
       EmbedSteps
  <2>3. (StoreType /\ DispatchType /\ RetryType
       /\ DeleteType /\ WorkerType /\ SweepType /\ LeftType)'
    BY <1>4 DEF FetchBegin, StoreType, DispatchType, RetryType, DeleteType, WorkerType,
       SweepType, LeftType
  <2>4. QED
    BY <2>1, <2>2, <2>3
<1>5. CASE FetchNoRow(r)
  <2>1. RunType'
    BY <1>5, RunEnded DEF FetchNoRow, At, PrefectStates
  <2>2. (RowType /\ StoreType /\ DispatchType /\ RetryType
       /\ DeleteType /\ WorkerType /\ SweepType /\ LeftType)'
    BY <1>5 DEF FetchNoRow, RowType, StoreType, DispatchType, RetryType, DeleteType,
       WorkerType, SweepType, LeftType
  <2>3. QED
    BY <2>1, <2>2
<1>6. CASE FetchLoad(r)
  <2>1. RunType'
    BY <1>6, RunMoved DEF FetchLoad, At, Positions, TaskSteps, FetchSteps, ParseSteps,
       EmbedSteps
  <2>2. (RowType /\ StoreType /\ DispatchType /\ RetryType
       /\ DeleteType /\ WorkerType /\ SweepType /\ LeftType)'
    BY <1>6 DEF FetchLoad, RowType, StoreType, DispatchType, RetryType, DeleteType, WorkerType,
       SweepType, LeftType
  <2>3. QED
    BY <2>1, <2>2
<1>7. CASE FetchSkip(r)
  <2>1. RowType'
    BY <1>b, <1>7, RowSkipped DEF FetchSkip, At
  <2>2. RunType'
    BY <1>7, RunEnded DEF FetchSkip, At, PrefectStates
  <2>3. (StoreType /\ DispatchType /\ RetryType
       /\ DeleteType /\ WorkerType /\ SweepType /\ LeftType)'
    BY <1>7 DEF FetchSkip, StoreType, DispatchType, RetryType, DeleteType, WorkerType,
       SweepType, LeftType
  <2>4. QED
    BY <2>1, <2>2, <2>3
<1>8. CASE FetchStore(r)
  <2>1. StoreType'
    BY <1>b, <1>8 DEF FetchStore, At, StoreType
  <2>2. RunType'
    BY <1>8, RunMoved DEF FetchStore, At, Positions, TaskSteps, FetchSteps, ParseSteps,
       EmbedSteps
  <2>3. (RowType /\ DispatchType /\ RetryType
       /\ DeleteType /\ WorkerType /\ SweepType /\ LeftType)'
    BY <1>8 DEF FetchStore, RowType, DispatchType, RetryType, DeleteType, WorkerType,
       SweepType, LeftType
  <2>4. QED
    BY <2>1, <2>2, <2>3
<1>9. CASE FetchRecord(r)
  <2>1. RowType'
    BY <1>b, <1>9, RowRecorded DEF FetchRecord, At
  <2>2. RunType'
    BY <1>9, RunMoved DEF FetchRecord, At, Positions, TaskSteps, FetchSteps, ParseSteps,
       EmbedSteps
  <2>3. (StoreType /\ DispatchType /\ RetryType
       /\ DeleteType /\ WorkerType /\ SweepType /\ LeftType)'
    BY <1>9 DEF FetchRecord, StoreType, DispatchType, RetryType, DeleteType, WorkerType,
       SweepType, LeftType
  <2>4. QED
    BY <2>1, <2>2, <2>3
<1>10. CASE Parse(r)
  <2>1. RowType'
    BY <1>b, <1>10, StatusSet DEF Parse, At, Active
  <2>2. RunType'
    BY <1>10, RunMoved DEF Parse, At, Positions, TaskSteps, FetchSteps, ParseSteps, EmbedSteps
  <2>3. (StoreType /\ DispatchType /\ RetryType
       /\ DeleteType /\ WorkerType /\ SweepType /\ LeftType)'
    BY <1>10 DEF Parse, StoreType, DispatchType, RetryType, DeleteType, WorkerType, SweepType,
       LeftType
  <2>4. QED
    BY <2>1, <2>2, <2>3
<1>11. CASE Caption(r)
  <2>1. RunType'
    BY <1>11, RunMoved DEF Caption, At, Positions, TaskSteps, FetchSteps, ParseSteps, EmbedSteps
  <2>2. (RowType /\ StoreType /\ DispatchType /\ RetryType
       /\ DeleteType /\ WorkerType /\ SweepType /\ LeftType)'
    BY <1>11 DEF Caption, RowType, StoreType, DispatchType, RetryType, DeleteType, WorkerType,
       SweepType, LeftType
  <2>3. QED
    BY <2>1, <2>2
<1>12. CASE EmbedBegin(r)
  <2>1. RowType'
    BY <1>b, <1>12, StatusSet DEF EmbedBegin, At, Active
  <2>2. RunType'
    BY <1>12, RunMoved DEF EmbedBegin, At, Positions, TaskSteps, FetchSteps, ParseSteps,
       EmbedSteps
  <2>3. (StoreType /\ DispatchType /\ RetryType
       /\ DeleteType /\ WorkerType /\ SweepType /\ LeftType)'
    BY <1>12 DEF EmbedBegin, StoreType, DispatchType, RetryType, DeleteType, WorkerType,
       SweepType, LeftType
  <2>4. QED
    BY <2>1, <2>2, <2>3
<1>13. CASE EmbedPurge(r)
  <2>1. StoreType'
    BY <1>13 DEF EmbedPurge, StoreType
  <2>2. RunType'
    BY <1>13, RunMoved DEF EmbedPurge, At, Positions, TaskSteps, FetchSteps, ParseSteps,
       EmbedSteps
  <2>3. LeftType'
    BY <1>13 DEF EmbedPurge, LeftType, Spend
  <2>4. (RowType /\ DispatchType /\ RetryType /\ DeleteType /\ WorkerType /\ SweepType)'
    BY <1>13 DEF EmbedPurge, RowType, DispatchType, RetryType, DeleteType, WorkerType, SweepType
  <2>5. QED
    BY <2>1, <2>2, <2>3, <2>4
<1>14. CASE EmbedUpsert(r)
  <2>1. StoreType'
    BY <1>b, <1>14 DEF EmbedUpsert, Put, At, StoreType
  <2>2. RunType'
    BY <1>14, RunMoved DEF EmbedUpsert, At, Positions, TaskSteps, FetchSteps, ParseSteps,
       EmbedSteps
  <2>3. (RowType /\ DispatchType /\ RetryType
       /\ DeleteType /\ WorkerType /\ SweepType /\ LeftType)'
    BY <1>14 DEF EmbedUpsert, RowType, DispatchType, RetryType, DeleteType, WorkerType,
       SweepType, LeftType
  <2>4. QED
    BY <2>1, <2>2, <2>3
<1>15. CASE EmbedFlip(r)
  <2>1. RowType'
    BY <1>b, <1>15, StatusSet DEF EmbedFlip, At, Settled
  <2>2. RunType'
    BY <1>15, RunMoved DEF EmbedFlip, At, Positions, TaskSteps, FetchSteps, ParseSteps,
       EmbedSteps
  <2>3. (StoreType /\ DispatchType /\ RetryType
       /\ DeleteType /\ WorkerType /\ SweepType /\ LeftType)'
    BY <1>15 DEF EmbedFlip, StoreType, DispatchType, RetryType, DeleteType, WorkerType,
       SweepType, LeftType
  <2>4. QED
    BY <2>1, <2>2, <2>3
<1>16. CASE RecordMentions(r)
  <2>1. StoreType'
    BY <1>b, <1>16 DEF RecordMentions, At, StoreType
  <2>2. RunType'
    BY <1>16, RunEnded DEF RecordMentions, At, PrefectStates
  <2>3. LeftType'
    BY <1>16 DEF RecordMentions, LeftType, Spend
  <2>4. (RowType /\ DispatchType /\ RetryType /\ DeleteType /\ WorkerType /\ SweepType)'
    BY <1>16 DEF RecordMentions, RowType, DispatchType, RetryType, DeleteType, WorkerType,
       SweepType
  <2>5. QED
    BY <2>1, <2>2, <2>3, <2>4
<1>17. CASE TaskRetry(r)
  <2>1. StoreType'
    BY <1>b, <1>17 DEF TaskRetry, Raises, Put, StoreType
  <2>2. RunType'
    BY <1>17, RunRetried
  <2>3. LeftType'
    BY <1>17 DEF TaskRetry, LeftType, Raises, Spend
  <2>4. (RowType /\ DispatchType /\ RetryType /\ DeleteType /\ WorkerType /\ SweepType)'
    BY <1>17 DEF TaskRetry, RowType, DispatchType, RetryType, DeleteType, WorkerType, SweepType
  <2>5. QED
    BY <2>1, <2>2, <2>3, <2>4
<1>18. CASE FlowFails(r)
  <2>1. RowType'
    BY <1>b, <1>18, StatusSet DEF FlowFails, Raises, Settled, RowType, TaskSteps, FetchSteps,
       ParseSteps, EmbedSteps
  <2>2. StoreType'
    BY <1>b, <1>18 DEF FlowFails, Raises, Put, StoreType
  <2>3. RunType'
    BY <1>18, RunEnded DEF FlowFails, Raises, PrefectStates, TaskSteps, FetchSteps, ParseSteps,
       EmbedSteps
  <2>4. LeftType'
    BY <1>18 DEF FlowFails, LeftType, Raises, Spend
  <2>5. (DispatchType /\ RetryType /\ DeleteType /\ WorkerType /\ SweepType)'
    BY <1>18 DEF FlowFails, DispatchType, RetryType, DeleteType, WorkerType, SweepType
  <2>6. QED
    BY <2>1, <2>2, <2>3, <2>4, <2>5
<1>19. CASE \E w \in Workers : PickUp(r, w)
  <2>1. StoreType'
    BY <1>19, MetType
  <2>2. RunType'
    BY <1>19, RunPicked
  <2>3. (RowType /\ DispatchType /\ RetryType
       /\ DeleteType /\ WorkerType /\ SweepType /\ LeftType)'
    BY <1>19 DEF PickUp, RowType, DispatchType, RetryType, DeleteType, WorkerType, SweepType,
       LeftType
  <2>4. QED
    BY <2>1, <2>2, <2>3
<1>20. QED
  BY <1>1, <1>2, <1>3, <1>4, <1>5, <1>6, <1>7, <1>8, <1>9, <1>10, <1>11, <1>12, <1>13, <1>14,
     <1>15, <1>16, <1>17, <1>18, <1>19 DEF Flow, Progress

(* Every step of a worker and its reconciler keeps the types. *)
LEMMA WorkerTypes == ASSUME TypeOK, NEW w \in Workers, Worker(w) PROVE TypeOK'
<1> USE DEF TypeOK
<1>s. sweep[w].pc \in {"reset", "enqueue", "record"} => sweep[w].doc \in Docs
  BY DEF SweepType
<1>1. CASE SweepBegin(w)
  <2>1. SweepType'
    BY <1>1, StaleRowsType DEF SweepBegin, SweepType
  <2>2. (RowType /\ RunType /\ StoreType /\ DispatchType
       /\ RetryType /\ DeleteType /\ WorkerType /\ LeftType)'
    BY <1>1 DEF SweepBegin, RowType, RunType, StoreType, DispatchType, RetryType, DeleteType,
       WorkerType, LeftType
  <2>3. QED
    BY <2>1, <2>2
<1>2. CASE SweepPass(w)
  <2>1. SweepType'
    BY <1>2 DEF SweepPass, SweepType
  <2>2. LeftType'
    BY <1>2 DEF SweepPass, LeftType, Spend
  <2>3. (RowType /\ RunType /\ StoreType
       /\ DispatchType /\ RetryType /\ DeleteType /\ WorkerType)'
    BY <1>2 DEF SweepPass, RowType, RunType, StoreType, DispatchType, RetryType, DeleteType,
       WorkerType
  <2>4. QED
    BY <2>1, <2>2, <2>3
<1>3. CASE SweepCondemn(w)
  <2>1. SweepType'
    BY <1>3 DEF SweepCondemn, SweepType, Candidates
  <2>2. (RowType /\ RunType /\ StoreType /\ DispatchType
       /\ RetryType /\ DeleteType /\ WorkerType /\ LeftType)'
    BY <1>3 DEF SweepCondemn, RowType, RunType, StoreType, DispatchType, RetryType, DeleteType,
       WorkerType, LeftType
  <2>3. QED
    BY <2>1, <2>2
<1>4. CASE SweepReset(w)
  <2>1. RowType'
    BY <1>4, StatusSet DEF SweepReset, SweepType, Active
  <2>2. SweepType'
    BY <1>4 DEF SweepReset, SweepType
  <2>3. (RunType /\ StoreType /\ DispatchType
       /\ RetryType /\ DeleteType /\ WorkerType /\ LeftType)'
    BY <1>4 DEF SweepReset, RunType, StoreType, DispatchType, RetryType, DeleteType,
       WorkerType, LeftType
  <2>4. QED
    BY <2>1, <2>2, <2>3
<1>5. CASE SweepEnqueue(w)
  <2>1. RunType'
    BY <1>s, <1>5, RunsCreated DEF SweepEnqueue
  <2>2. SweepType'
    BY <1>s, <1>5, SweepMoved DEF SweepEnqueue
  <2>3. LeftType'
    BY <1>s, <1>5, RunsCreated DEF SweepEnqueue
  <2>4. (RowType /\ StoreType /\ DispatchType /\ RetryType /\ DeleteType /\ WorkerType)'
    BY <1>5 DEF SweepEnqueue, RowType, StoreType, DispatchType, RetryType, DeleteType,
       WorkerType
  <2>5. QED
    BY <2>1, <2>2, <2>3, <2>4
<1>6. CASE SweepRecord(w)
  <2>1. RowType'
    BY <1>s, <1>6, FlowSet DEF SweepRecord, SweepType
  <2>2. WorkerType'
    BY <1>s, <1>6 DEF SweepRecord, Handled, WorkerType
  <2>3. SweepType'
    BY <1>s, <1>6, SweepMoved DEF SweepRecord
  <2>4. (RunType /\ StoreType /\ DispatchType /\ RetryType /\ DeleteType /\ LeftType)'
    BY <1>6 DEF SweepRecord, RunType, StoreType, DispatchType, RetryType, DeleteType, LeftType
  <2>5. QED
    BY <2>1, <2>2, <2>3, <2>4
<1>7. CASE SweepRaises(w)
  <2>1. RowType'
    BY <1>s, <1>7, StatusSet DEF SweepRaises, Settled
  <2>2. RunType'
    BY <1>s, <1>7, RunsCreated DEF SweepRaises
  <2>3. WorkerType'
    BY <1>s, <1>7 DEF SweepRaises, Handled, WorkerType
  <2>4. SweepType'
    BY <1>7 DEF SweepRaises, SweepType, Handled
  <2>5. LeftType'
    BY <1>s, <1>7, RunsCreated DEF SweepRaises
  <2>6. (StoreType /\ DispatchType /\ RetryType /\ DeleteType)'
    BY <1>7 DEF SweepRaises, StoreType, DispatchType, RetryType, DeleteType
  <2>7. QED
    BY <2>1, <2>2, <2>3, <2>4, <2>5, <2>6
<1>8. CASE SweepEnd(w)
  <2>1. SweepType'
    BY <1>8 DEF SweepEnd, SweepType
  <2>2. (RowType /\ RunType /\ StoreType /\ DispatchType
       /\ RetryType /\ DeleteType /\ WorkerType /\ LeftType)'
    BY <1>8 DEF SweepEnd, RowType, RunType, StoreType, DispatchType, RetryType, DeleteType,
       WorkerType, LeftType
  <2>3. QED
    BY <2>1, <2>2
<1>9. CASE WorkerCrash(w)
  <2>1. RunType'
    BY <1>9, RunsKilled
  <2>2. WorkerType'
    BY <1>9 DEF WorkerCrash, WorkerType
  <2>3. SweepType'
    BY <1>9 DEF WorkerCrash, SweepType
  <2>4. LeftType'
    BY <1>9 DEF WorkerCrash, LeftType, Spend
  <2>5. (RowType /\ StoreType /\ DispatchType /\ RetryType /\ DeleteType)'
    BY <1>9 DEF WorkerCrash, RowType, StoreType, DispatchType, RetryType, DeleteType
  <2>6. QED
    BY <2>1, <2>2, <2>3, <2>4, <2>5
<1>10. CASE WorkerRestart(w)
  <2>1. WorkerType'
    BY <1>10 DEF WorkerRestart, WorkerType
  <2>2. (RowType /\ RunType /\ StoreType /\ DispatchType
       /\ RetryType /\ DeleteType /\ SweepType /\ LeftType)'
    BY <1>10 DEF WorkerRestart, RowType, RunType, StoreType, DispatchType, RetryType,
       DeleteType, SweepType, LeftType
  <2>3. QED
    BY <2>1, <2>2
<1>11. CASE Beat(w)
  <2>1. WorkerType'
    BY <1>11 DEF Beat, WorkerType
  <2>2. (RowType /\ RunType /\ StoreType /\ DispatchType
       /\ RetryType /\ DeleteType /\ SweepType /\ LeftType)'
    BY <1>11 DEF Beat, RowType, RunType, StoreType, DispatchType, RetryType, DeleteType,
       SweepType, LeftType
  <2>3. QED
    BY <2>1, <2>2
<1>12. CASE \E d \in Docs : CooldownExpires(w, d)
  <2>1. WorkerType'
    BY <1>12 DEF CooldownExpires, WorkerType
  <2>2. (RowType /\ RunType /\ StoreType /\ DispatchType
       /\ RetryType /\ DeleteType /\ SweepType /\ LeftType)'
    BY <1>12 DEF CooldownExpires, RowType, RunType, StoreType, DispatchType, RetryType,
       DeleteType, SweepType, LeftType
  <2>3. QED
    BY <2>1, <2>2
<1>13. QED
  BY <1>1, <1>2, <1>3, <1>4, <1>5, <1>6, <1>7, <1>8, <1>9, <1>10, <1>11, <1>12 DEF Worker,
     Reconcile

(* An API crash keeps the types. *)
LEMMA CrashTypes == ASSUME TypeOK, ApiCrash PROVE TypeOK'
<1>1. DispatchType' /\ RetryType' /\ LeftType'
  BY DEF TypeOK, ApiCrash, DispatchType, RetryType, LeftType, Spend
<1>2. DeleteType'
  BY NoDeleteType DEF TypeOK, ApiCrash, DeleteType
<1>3. QED
  BY <1>1, <1>2 DEF TypeOK, ApiCrash, RowType, RunType, StoreType, WorkerType, SweepType

(* The passing of time keeps the types. *)
LEMMA AgeTypes == ASSUME TypeOK, NEW d \in Docs, Age(d) PROVE TypeOK'
<1>1. row' = IF Exists(d) THEN [row EXCEPT ![d].stale = TRUE] ELSE row
  BY DEF Age, Exists, Active, NoRow
<1>2. RowType'
  BY <1>1, RowTouched DEF TypeOK
<1>3. QED
  BY <1>2 DEF TypeOK, Age, RunType, StoreType, DispatchType, RetryType, DeleteType,
              WorkerType, SweepType, LeftType

(* A video's purge keeps the types. *)
LEMMA VideoPurgeTypes == ASSUME TypeOK, NEW d \in Docs, VideoPurge(Owner[d]) PROVE TypeOK'
<1>1. StoreType'
  BY DEF TypeOK, VideoPurge, Take, StoreType
<1>2. QED
  BY <1>1 DEF TypeOK, VideoPurge, RowType, RunType, DispatchType, RetryType, DeleteType,
              WorkerType, SweepType, LeftType

(* The initial state has the right types. *)
LEMMA InitTypes == Init => TypeOK
<1> SUFFICES ASSUME Init PROVE TypeOK
  OBVIOUS
<1>1. RowType
  BY DEF Init, RowType, Rows, NoRow, Keys
<1>2. RunType
  BY DEF Init, RunType, RunRecords, PrefectStates, Positions
<1>3. StoreType /\ DispatchType /\ RetryType /\ DeleteType /\ WorkerType /\ SweepType
  BY NoDeleteType DEF Init, StoreType, DispatchType, RetryType, DeleteType, WorkerType, SweepType
<1>4. LeftType
  BY Bounds DEF Init, LeftType
<1>5. QED
  BY <1>1, <1>2, <1>3, <1>4 DEF TypeOK

(* TypeOK is inductive. *)
LEMMA NextTypes == TypeOK /\ [Next]_vars => TypeOK'
<1> SUFFICES ASSUME TypeOK, [Next]_vars PROVE TypeOK'
  OBVIOUS
<1>1. CASE \E d \in Docs : Api(d) \/ Age(d)
  BY <1>1, ApiTypes, AgeTypes
<1>2. CASE \E r \in Runs : Flow(r)
  BY <1>2, FlowTypes
<1>3. CASE \E w \in Workers : Worker(w)
  BY <1>3, WorkerTypes
<1>4. CASE ApiCrash
  BY <1>4, CrashTypes
<1>5. CASE BeatExpires
  BY <1>5 DEF BeatExpires, TypeOK, RowType, RunType, StoreType, DispatchType, RetryType,
              DeleteType, WorkerType, SweepType, LeftType
<1>6. CASE \E d \in Docs : VideoPurge(Owner[d])
  BY <1>6, VideoPurgeTypes
<1>7. CASE UNCHANGED vars
  BY <1>7 DEF vars, TypeOK, RowType, RunType, StoreType, DispatchType, RetryType,
              DeleteType, WorkerType, SweepType, LeftType
<1>8. QED
  BY <1>1, <1>2, <1>3, <1>4, <1>5, <1>6, <1>7 DEF Next

(* Every reachable state has the right types, for any number of documents, *)
(* workers and faults.                                                     *)
THEOREM TypeCorrect == Spec => []TypeOK
<1>1. QED
  BY InitTypes, NextTypes, PTL DEF Spec

=============================================================================
