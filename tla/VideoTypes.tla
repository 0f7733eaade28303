----------------------------- MODULE VideoTypes -----------------------------
(***************************************************************************)
(* VideoIngest keeps its types, for any number of videos, tenants, workers *)
(* and runs.  TypeOK alone is not inductive: a run that executes has a     *)
(* worker, a tenant and a video, a DELETE under way has a row, and every   *)
(* created_at comes from a registration that was counted.                  *)
(***************************************************************************)
EXTENDS VideoIngest, FiniteSetTheorems, WellFoundedInduction, TLAPS

Positions == {"launch"} \cup TaskSteps
Quiet == {"idle"}

(* A run executes somewhere exactly while its process has a position. *)
RunShape(x) == /\ (x.host # NoWorker) <=> (x.pc \in Positions)
               /\ x.pc # "none" => x.vid \in Videos /\ x.user \in Users

(* Claims exist only while they are scheduled, one for each video. *)
DispatchShape(e) == /\ e.claims # {} => e.pc = "enqueue"
                    /\ \A c, d \in e.claims : c.vid = d.vid => c = d

(* Every created_at is one of the registrations that happened. *)
Counted == /\ \A v \in Videos : row[v].born + left.register <= MaxRegisters
           /\ left.register <= MaxRegisters /\ left.fault <= MaxFaults

RunsOK     == \A r \in Runs : RunShape(run[r])
DispatchOK == \A w \in Workers : DispatchShape(disp[w])

(* A DELETE under way works for the tenant whose row is still there. *)
DeletesOK  == \A v \in Videos : del[v].pc \notin Quiet => Exists(v) /\ del[v].user = row[v].owner

(* Run r goes to p, or ends; every other run stays where it is. *)
Moved(r, p) == /\ \A q \in Runs \ {r} : run'[q] = run[q]
               /\ run'[r].vid = run[r].vid /\ run'[r].user = run[r].user /\ run'[r].pc = p

LeftType == left \in [{"register", "retry", "delete", "fault", "crash"} -> Nat]

(* What the variables of the program keep; the histories follow them. *)
ProgramInv == /\ RowType /\ StoreType /\ RunType /\ DispatchType /\ DeleteType /\ OtherType
              /\ RunsOK /\ DispatchOK /\ DeletesOK /\ Counted

TypeInv == ProgramInv /\ HistoryType

-----------------------------------------------------------------------------
(* Numbers.                                                                *)

(* A nonempty set of naturals below a bound has a greatest element. *)
LEMMA HasMax ==
    ASSUME NEW S, NEW n \in Nat, S \subseteq 0 .. n, S # {}
    PROVE  Max(S) \in S /\ \A y \in S : y <= Max(S)
<1>1. PICK z \in 0 .. n : z \in S
  OBVIOUS
<1> DEFINE T == {y \in 0 .. n : n - y \in S}
<1>2. n - z \in T
  <2>1. n - z \in 0 .. n /\ n - (n - z) = z
    OBVIOUS
  <2> QED
    BY <1>1, <2>1
<1>3. T \subseteq Nat /\ T # {}
  <2>1. \A y \in T : y \in Nat
    OBVIOUS
  <2> QED
    BY <1>2, <2>1
<1> HIDE DEF T
<1> DEFINE R == {ss \in Nat \X Nat : ss[1] < ss[2]}
<1>r. IsWellFoundedOn(R, Nat)
  BY NatLessThanWellFounded DEF OpToRel
<1> HIDE DEF R
<1>4. PICK m \in T : \A y \in T : ~(<<y, m>> \in R)
  BY <1>3, <1>r, WFMin
<1>5. \A y \in T : ~(y < m)
  <2> TAKE y \in T
  <2>1. y \in Nat /\ m \in Nat
    BY <1>3
  <2>2. <<y, m>> \notin R
    BY <1>4
  <2> QED
    BY <2>1, <2>2 DEF R
<1>6. n - m \in S /\ m \in 0 .. n
  BY DEF T
<1>7. \A y \in S : n - m >= y
  <2> TAKE y \in S
  <2>1. y \in 0 .. n /\ n - (n - y) = y
    OBVIOUS
  <2>2. n - y \in T
    BY <2>1 DEF T
  <2>3. ~(n - y < m)
    BY <1>5, <2>2
  <2> QED
    BY <1>6, <2>1, <2>3
<1>8. Max(S) \in S /\ \A y \in S : Max(S) >= y
  BY <1>6, <1>7 DEF Max
<1>9. Max(S) \in 0 .. n /\ \A y \in S : y \in 0 .. n
  BY <1>8
<1> QED
  BY <1>8, <1>9

(* A set of videos is finite, and its size is a number. *)
LEMMA VideoSets == ASSUME NEW S \in SUBSET Videos PROVE IsFiniteSet(S) /\ Cardinality(S) \in Nat
  BY Finite, FS_Subset, FS_CardinalityType

LEMMA MinOfTwo == ASSUME NEW a \in Nat, NEW b \in Nat PROVE Min({a, b}) \in {a, b} /\ Min({a, b}) <= b
<1>1. CASE a <= b
  <2>1. \A y \in {a, b} : a <= y
    BY <1>1
  <2>2. Min({a, b}) \in {a, b} /\ \A y \in {a, b} : Min({a, b}) <= y
    BY <2>1 DEF Min
  <2> QED
    BY <2>2
<1>2. CASE b <= a
  <2>1. \A y \in {a, b} : b <= y
    BY <1>2
  <2>2. Min({a, b}) \in {a, b} /\ \A y \in {a, b} : Min({a, b}) <= y
    BY <2>1 DEF Min
  <2> QED
    BY <2>2
<1> QED
  BY <1>1, <1>2


-----------------------------------------------------------------------------
(* Rows.                                                                   *)

Statuses == {"pending"} \cup Inflight \cup Settled

(* Replacing one row by another of its type disturbs no other row. *)
LEMMA RowReplaced ==
    ASSUME RowType, NEW v \in Videos, NEW x \in Rows, (x.st = "absent") = (x.owner = NoUser),
           row' = [row EXCEPT ![v] = x]
    PROVE  RowType' /\ row'[v] = x /\ \A y \in Videos \ {v} : row'[y] = row[y]
BY DEF RowType

(* db.set_status changes the status of a row that is there, and nothing else. *)
LEMMA StatusSet ==
    ASSUME RowType, NEW v \in Videos, NEW s \in Statuses, SetStatus(v, s)
    PROVE  /\ RowType'
           /\ \A y \in Videos : /\ row'[y].owner = row[y].owner /\ row'[y].born = row[y].born
                                /\ row'[y].st = IF y = v /\ Exists(v) THEN s ELSE row[y].st
<1> DEFINE x == [row[v] EXCEPT !.st = s]
<1>1. row[v] \in Rows /\ (row[v].st = "absent") = (row[v].owner = NoUser) /\ s # "absent"
  BY DEF RowType, Statuses, Inflight, Settled
<1>2. x \in Rows /\ x.st = s /\ x.owner = row[v].owner /\ x.born = row[v].born
  BY <1>1 DEF Rows, Statuses
<1>3. row' = IF Exists(v) THEN [row EXCEPT ![v] = x] ELSE row
  BY DEF SetStatus
<1> HIDE DEF x
<1>4. CASE Exists(v)
  <2>1. (x.st = "absent") = (x.owner = NoUser)
    BY <1>1, <1>2, <1>4 DEF Exists
  <2>2. RowType' /\ row'[v] = x /\ \A y \in Videos \ {v} : row'[y] = row[y]
    BY <1>2, <1>3, <1>4, <2>1, RowReplaced
  <2> QED
    BY <1>2, <1>4, <2>2
<1>5. CASE ~Exists(v)
  BY <1>3, <1>5 DEF RowType
<1> QED
  BY <1>4, <1>5

(* The write of the content hash reports the fetch again. *)
LEMMA RowHashed ==
    ASSUME RowType, RunType, NEW r \in Runs, FetchHash(r), run[r].vid \in Videos
    PROVE  /\ RowType'
           /\ \A y \in Videos : /\ row'[y].owner = row[y].owner /\ row'[y].born = row[y].born
                                /\ row'[y].st = IF y = run[r].vid /\ Exists(y) THEN "fetching" ELSE row[y].st
<1> DEFINE v == run[r].vid
           x == [row[v] EXCEPT !.st = "fetching", !.hash = TRUE]
<1>1. row[v] \in Rows /\ (row[v].st = "absent") = (row[v].owner = NoUser)
  BY DEF RowType
<1>2. x \in Rows /\ x.st = "fetching" /\ x.owner = row[v].owner /\ x.born = row[v].born
  BY <1>1 DEF Rows, Inflight
<1>3. row' = IF Exists(v) THEN [row EXCEPT ![v] = x] ELSE row
  BY DEF FetchHash
<1>v. v \in Videos
  OBVIOUS
<1> HIDE DEF x
<1>4. CASE Exists(v)
  <2>1. (x.st = "absent") = (x.owner = NoUser)
    BY <1>1, <1>2, <1>4 DEF Exists
  <2>2. row' = [row EXCEPT ![v] = x]
    BY <1>3, <1>4
  <2> HIDE DEF v
  <2>3. RowType' /\ row'[v] = x /\ \A y \in Videos \ {v} : row'[y] = row[y]
    BY <1>2, <1>v, <2>1, <2>2, RowReplaced
  <2> QED
    BY <1>2, <1>v, <1>4, <2>3 DEF v
<1>5. CASE ~Exists(v)
  BY <1>3, <1>5 DEF RowType
<1> QED
  BY <1>4, <1>5

(* A registration keeps the owner of a row that is there, and gives a new row *)
(* a created_at of its own.                                                   *)
LEMMA RowRegistered ==
    ASSUME RowType, LeftType, Counted, NEW v \in Videos, NEW u \in Users, Register(v, u)
    PROVE  /\ RowType' /\ LeftType' /\ Counted'
           /\ \A y \in Videos \ {v} : row'[y] = row[y]
           /\ row'[v].st = "pending" /\ row'[v].owner = IF Exists(v) THEN row[v].owner ELSE u
           /\ left'.fault = left.fault
<1> DEFINE old == [row[v] EXCEPT !.st = "pending", !.hash = row[v].hash \/ v \notin Uploads]
           m == Max({row[y].born : y \in Videos})
           new == [st |-> "pending", owner |-> u, hash |-> v \notin Uploads, born |-> 1 + m]
           x == IF Exists(v) THEN old ELSE new
           n == MaxRegisters - left.register
<1>1. /\ left.register \in Nat /\ left.register > 0 /\ left.fault \in Nat /\ MaxRegisters \in Nat
      /\ left' = [left EXCEPT !["register"] = left.register - 1]
  BY Bounds DEF LeftType, Register, Spend
<1>2. LeftType' /\ left'.register = left.register - 1 /\ left'.fault = left.fault
  BY <1>1 DEF LeftType
<1>3. n \in Nat /\ n < MaxRegisters
  BY <1>1 DEF Counted
<1>4. \A y \in Videos : row[y] \in Rows /\ row[y].born \in 0 .. n
  <2> TAKE y \in Videos
  <2>1. row[y] \in Rows /\ row[y].born \in Nat
    BY DEF RowType, Rows
  <2> QED
    BY <1>1, <2>1 DEF Counted
<1>5. m \in 0 .. n
  <2> DEFINE S == {row[y].born : y \in Videos}
  <2>1. S \subseteq 0 .. n /\ \A y \in S : y \in 0 .. n
    BY <1>4
  <2>2. S # {}
    OBVIOUS
  <2> HIDE DEF S
  <2>3. Max(S) \in S
    BY <1>3, <2>1, <2>2, HasMax
  <2>4. Max(S) \in 0 .. n
    BY <2>1, <2>3
  <2> QED
    BY <2>4 DEF S
<1>6. row' = [row EXCEPT ![v] = x]
  BY DEF Register
<1>7. x \in Rows /\ x.st = "pending" /\ x.owner = (IF Exists(v) THEN row[v].owner ELSE u)
      /\ x.born <= n + 1 /\ x.born \in Nat
  <2> HIDE DEF n, m
  <2>1. row[v] \in Rows /\ row[v].born \in 0 .. n
    BY <1>4
  <2>2. CASE Exists(v)
    <3>1. old \in Rows /\ old.st = "pending" /\ old.owner = row[v].owner /\ old.born = row[v].born
      BY <2>1 DEF Rows
    <3> HIDE DEF old
    <3> QED
      BY <1>3, <2>1, <2>2, <3>1
  <2>3. CASE ~Exists(v)
    <3>1. 1 + m \in 0 .. MaxRegisters /\ 1 + m <= n + 1
      BY <1>1, <1>3, <1>5
    <3>2. new \in Rows /\ new.st = "pending" /\ new.owner = u /\ new.born = 1 + m
      BY <3>1 DEF Rows
    <3> HIDE DEF new
    <3> QED
      BY <2>3, <3>1, <3>2
  <2> QED
    BY <2>2, <2>3
<1>8. (x.st = "absent") = (x.owner = NoUser)
  <2>1. Exists(v) => row[v].owner # NoUser
    BY DEF RowType, Exists
  <2> HIDE DEF x
  <2> QED
    BY <1>7, <2>1, NoValues
<1> HIDE DEF x
<1>9. RowType' /\ row'[v] = x /\ \A y \in Videos \ {v} : row'[y] = row[y]
  BY <1>6, <1>7, <1>8, RowReplaced
<1>10. Counted'
  <2>1. \A y \in Videos : row'[y].born + left'.register <= MaxRegisters
    <3> TAKE y \in Videos
    <3>1. CASE y = v
      BY <1>1, <1>2, <1>7, <1>9, <3>1
    <3>2. CASE y # v
      <4>1. row'[y] = row[y] /\ row[y].born \in 0 .. n
        BY <1>4, <1>9, <3>2
      <4> QED
        BY <1>1, <1>2, <4>1
    <3> QED
      BY <3>1, <3>2
  <2> QED
    BY <1>1, <1>2, <2>1, Bounds DEF Counted
<1> QED
  BY <1>2, <1>7, <1>9, <1>10

(* The dispatcher's UPDATE moves pending rows to 'queued'. *)
LEMMA RowsClaimed ==
    ASSUME RowType, NEW won \in SUBSET Pending,
           row' = [v \in Videos |-> IF v \in won THEN [row[v] EXCEPT !.st = "queued"] ELSE row[v]]
    PROVE  /\ RowType'
           /\ \A y \in Videos : /\ row'[y].owner = row[y].owner /\ row'[y].born = row[y].born
                                /\ row'[y].st = IF y \in won THEN "queued" ELSE row[y].st
<1> DEFINE x(y) == [row[y] EXCEPT !.st = "queued"]
<1>1. \A y \in Videos : row[y] \in Rows /\ (row[y].st = "absent") = (row[y].owner = NoUser)
  BY DEF RowType
<1>2. \A y \in Videos : /\ x(y) \in Rows /\ x(y).st = "queued" /\ x(y).owner = row[y].owner
                        /\ x(y).born = row[y].born
  BY <1>1 DEF Rows, Inflight
<1>3. row' = [v \in Videos |-> IF v \in won THEN x(v) ELSE row[v]]
  OBVIOUS
<1> HIDE DEF x
<1>4. \A y \in Videos : row'[y] = IF y \in won THEN x(y) ELSE row[y]
  BY <1>3
<1>5. \A y \in Videos : row'[y] \in Rows
  BY <1>1, <1>2, <1>4
<1>6. \A y \in Videos : /\ row'[y].owner = row[y].owner /\ row'[y].born = row[y].born
                        /\ row'[y].st = IF y \in won THEN "queued" ELSE row[y].st
  BY <1>2, <1>4
<1>7. \A y \in won : row[y].st = "pending" /\ y \in Videos
  BY DEF Pending
<1>8. \A y \in Videos : (row'[y].st = "absent") = (row'[y].owner = NoUser)
  BY <1>1, <1>6, <1>7
<1>9. row' \in [Videos -> Rows]
  BY <1>3, <1>4, <1>5
<1> QED
  BY <1>6, <1>8, <1>9 DEF RowType


-----------------------------------------------------------------------------
(* Runs.                                                                   *)

(* Replacing one run record by another of its type disturbs no other run. *)
LEMMA RunReplaced ==
    ASSUME RunType, RunsOK, NEW r \in Runs, NEW x \in RunRecords, RunShape(x),
           run' = [run EXCEPT ![r] = x]
    PROVE  RunType' /\ RunsOK' /\ run'[r] = x /\ \A q \in Runs \ {r} : run'[q] = run[q]
BY DEF RunType, RunsOK

(* A run that goes on keeps its video, its tenant and its worker. *)
LEMMA RunMoved ==
    ASSUME RunType, RunsOK, NEW r \in Runs, NEW p \in Positions, Executing(r),
           Advance(r, p) \/ NextTask(r, p)
    PROVE  RunType' /\ RunsOK' /\ Moved(r, p)
<1> DEFINE x == [run[r] EXCEPT !.pc = p]
           y == [run[r] EXCEPT !.pc = p, !.try = 0]
<1>1. run[r] \in RunRecords /\ RunShape(run[r]) /\ run[r].pc \in Positions /\ run[r].pc # "none"
  BY DEF RunType, RunsOK, RunShape, Executing, Positions, TaskSteps, FetchSteps, SampleSteps, EmbedSteps
<1>2. p \in {"none", "queued", "launch", "done"} \cup TaskSteps /\ 0 \in 0 .. 2
  BY DEF Positions
<1>3. x \in RunRecords /\ x.pc = p /\ x.vid = run[r].vid /\ x.user = run[r].user /\ x.host = run[r].host
  BY <1>1, <1>2 DEF RunRecords
<1>4. y \in RunRecords /\ y.pc = p /\ y.vid = run[r].vid /\ y.user = run[r].user /\ y.host = run[r].host
  BY <1>1, <1>2 DEF RunRecords
<1>5. RunShape(x) /\ RunShape(y)
  BY <1>1, <1>3, <1>4 DEF RunShape
<1>6. run' = [run EXCEPT ![r] = x] \/ run' = [run EXCEPT ![r] = y]
  BY DEF Advance, NextTask
<1> HIDE DEF x, y
<1> QED
  BY <1>3, <1>4, <1>5, <1>6, RunReplaced DEF Moved

(* A run that ends leaves its worker. *)
LEMMA RunEnded ==
    ASSUME RunType, RunsOK, NEW r \in Runs, Executing(r), Ended(r)
    PROVE  RunType' /\ RunsOK' /\ Moved(r, "done")
<1> DEFINE x == [run[r] EXCEPT !.pc = "done", !.host = NoWorker]
<1>1. run[r] \in RunRecords /\ RunShape(run[r]) /\ run[r].pc \in Positions /\ run[r].pc # "none"
      /\ "done" \notin Positions
  BY DEF RunType, RunsOK, RunShape, Executing, Positions, TaskSteps, FetchSteps, SampleSteps, EmbedSteps
<1>2. x \in RunRecords /\ x.pc = "done" /\ x.vid = run[r].vid /\ x.user = run[r].user /\ x.host = NoWorker
  BY <1>1 DEF RunRecords
<1>3. RunShape(x)
  BY <1>1, <1>2 DEF RunShape
<1>4. run' = [run EXCEPT ![r] = x]
  BY DEF Ended
<1> HIDE DEF x
<1> QED
  BY <1>2, <1>3, <1>4, RunReplaced DEF Moved

(* A run that is picked up begins to execute. *)
LEMMA RunPicked ==
    ASSUME RunType, RunsOK, NEW r \in Runs, NEW w \in Workers, PickUp(r, w)
    PROVE  RunType' /\ RunsOK' /\ Moved(r, "launch")
<1> DEFINE x == [run[r] EXCEPT !.pc = "launch", !.host = w]
<1>1. run[r] \in RunRecords /\ RunShape(run[r]) /\ run[r].pc = "queued"
  BY DEF RunType, RunsOK, PickUp
<1>2. x \in RunRecords /\ x.pc = "launch" /\ x.vid = run[r].vid /\ x.user = run[r].user /\ x.host = w
  BY <1>1 DEF RunRecords
<1>3. RunShape(x)
  BY <1>1, <1>2, NoValues DEF RunShape, Positions
<1>4. run' = [run EXCEPT ![r] = x]
  BY DEF PickUp
<1> HIDE DEF x
<1> QED
  BY <1>2, <1>3, <1>4, RunReplaced DEF Moved

(* A task that is retried begins again at its first step. *)
LEMMA RunRetried ==
    ASSUME RunType, RunsOK, NEW r \in Runs, TaskRetry(r)
    PROVE  RunType' /\ RunsOK' /\ Moved(r, TaskStart(run[r].pc))
<1> DEFINE p == TaskStart(run[r].pc)
           n == run[r].try + 1
           x == [run[r] EXCEPT !.pc = p, !.try = n]
<1>1. run[r] \in RunRecords /\ RunShape(run[r]) /\ run[r].pc \in TaskSteps
  BY DEF RunType, RunsOK, TaskRetry, Raises
<1>2. p \in TaskSteps /\ "none" \notin TaskSteps
  BY <1>1 DEF TaskStart, TaskSteps, FetchSteps, SampleSteps, EmbedSteps
<1>3. n \in 0 .. 2
  <2>1. run[r].try \in 0 .. 2
    BY <1>1 DEF RunRecords
  <2>2. run[r].try < Retries(run[r].pc) /\ Retries(run[r].pc) \in {0, 1, 2}
    BY DEF TaskRetry, Retries
  <2> QED
    BY <2>1, <2>2
<1>4. run' = [run EXCEPT ![r] = x]
  BY DEF TaskRetry
<1> HIDE DEF p, n
<1>5. x \in RunRecords /\ x.pc = p /\ x.vid = run[r].vid /\ x.user = run[r].user /\ x.host = run[r].host
  BY <1>1, <1>2, <1>3 DEF RunRecords
<1>6. RunShape(x)
  BY <1>1, <1>2, <1>5 DEF RunShape, Positions
<1> HIDE DEF x
<1> QED
  BY <1>4, <1>5, <1>6, RunReplaced DEF Moved, p

(* A run just created waits for a worker. *)
LEMMA NewRunShape ==
    ASSUME NEW c \in Claims
    PROVE  /\ NewRun(c) \in RunRecords /\ RunShape(NewRun(c))
           /\ NewRun(c).vid = c.vid /\ NewRun(c).user = c.user /\ NewRun(c).pc = "queued"
<1> DEFINE x == NewRun(c)
<1>1. c.vid \in Videos /\ c.user \in Users
  BY DEF Claims
<1>2. /\ x \in RunRecords /\ x.vid = c.vid /\ x.user = c.user /\ x.pc = "queued" /\ x.host = NoWorker
  BY <1>1 DEF NewRun, RunRecords
<1>3. "queued" \notin Positions
  BY DEF Positions, TaskSteps, FetchSteps, SampleSteps, EmbedSteps
<1> HIDE DEF x
<1>4. RunShape(x)
  BY <1>1, <1>2, <1>3 DEF RunShape
<1> QED
  BY <1>2, <1>4 DEF x

(* A crash ends the runs of its worker and no other. *)
LEMMA RunsKilled ==
    ASSUME RunType, RunsOK, NEW w \in Workers, WorkerCrash(w)
    PROVE  /\ RunType' /\ RunsOK'
           /\ \A q \in Runs : run'[q] = run[q] \/ run'[q].pc = "done"
<1> DEFINE x(q) == [run[q] EXCEPT !.pc = "done", !.host = NoWorker]
<1>1. \A q \in Runs : run[q] \in RunRecords /\ RunShape(run[q])
  BY DEF RunType, RunsOK
<1>2. \A q \in Runs : /\ x(q) \in RunRecords /\ x(q).pc = "done" /\ x(q).host = NoWorker
                      /\ x(q).vid = run[q].vid /\ x(q).user = run[q].user
  BY <1>1 DEF RunRecords
<1>3. \A q \in Runs : run[q].host = w => RunShape(x(q))
  <2> TAKE q \in Runs
  <2> HAVE run[q].host = w
  <2>1. run[q].pc \in Positions /\ "none" \notin Positions /\ "done" \notin Positions
    BY <1>1, NoValues DEF RunShape, Positions, TaskSteps, FetchSteps, SampleSteps, EmbedSteps
  <2> HIDE DEF x
  <2> QED
    BY <1>1, <1>2, <2>1 DEF RunShape
<1>4. run' = [q \in Runs |-> IF run[q].host = w THEN x(q) ELSE run[q]]
  BY DEF WorkerCrash
<1> HIDE DEF x
<1>5. \A q \in Runs : run'[q] = IF run[q].host = w THEN x(q) ELSE run[q]
  BY <1>4
<1>6. \A q \in Runs : /\ run'[q] \in RunRecords /\ RunShape(run'[q])
                      /\ run'[q] = run[q] \/ run'[q].pc = "done"
  BY <1>1, <1>2, <1>3, <1>5
<1> QED
  BY <1>4, <1>6 DEF RunType, RunsOK

(* A create call, answered or not, only turns unused run records into new runs *)
(* of the claim.                                                              *)
LEMMA RunsCreated ==
    ASSUME RunType, RunsOK, NEW c \in Claims,
           \/ UNCHANGED run
           \/ \E r \in Runs : Unused(r) /\ run' = [run EXCEPT ![r] = NewRun(c)]
           \/ \E r \in Runs : /\ Unused(r) /\ r + 1 \in Runs
                              /\ run' = [run EXCEPT ![r] = NewRun(c), ![r + 1] = NewRun(c)]
    PROVE  /\ RunType' /\ RunsOK'
           /\ \A q \in Runs : run'[q] = run[q] \/ run'[q] = NewRun(c)
<1> DEFINE N == NewRun(c)
<1>1. N \in RunRecords /\ RunShape(N)
  BY NewRunShape
<1>2. \/ run' = run
      \/ \E r \in Runs : run' = [run EXCEPT ![r] = N]
      \/ \E r, s \in Runs : run' = [run EXCEPT ![r] = N, ![s] = N]
  OBVIOUS
<1> HIDE DEF N
<1>3. \A q \in Runs : run'[q] = run[q] \/ run'[q] = N
  BY <1>2 DEF RunType
<1>4. RunType'
  BY <1>1, <1>2 DEF RunType
<1>5. RunsOK'
  BY <1>1, <1>3 DEF RunsOK
<1> QED
  BY <1>3, <1>4, <1>5 DEF N

-----------------------------------------------------------------------------
(* Dispatchers, DELETE requests, stores and bounds.                        *)

DispatchRecords == [pc: {"idle", "select", "update", "enqueue"}, slots: 0 .. MaxInflight,
                    ids: SUBSET Videos, claims: SUBSET Claims]

(* A step of one dispatcher only has to look at that dispatcher. *)
LEMMA DispatchReplaced ==
    ASSUME DispatchType, DispatchOK, NEW w \in Workers, NEW x \in DispatchRecords, DispatchShape(x),
           disp' = [disp EXCEPT ![w] = x]
    PROVE  /\ DispatchType' /\ DispatchOK' /\ disp'[w] = x
           /\ \A y \in Workers \ {w} : disp'[y] = disp[y]
BY DEF DispatchType, DispatchOK, DispatchRecords

LEMMA IdleShape == Idle \in DispatchRecords /\ DispatchShape(Idle) /\ Idle.claims = {}
  BY Bounds DEF Idle, DispatchRecords, DispatchShape

(* What is left to schedule after a claim is what was there without it. *)
LEMMA RestShape ==
    ASSUME DispatchType, DispatchOK, NEW w \in Workers, NEW c \in disp[w].claims
    PROVE  /\ Rest(w, c) \in DispatchRecords /\ DispatchShape(Rest(w, c)) /\ c \in Claims
           /\ Rest(w, c).claims = disp[w].claims \ {c}
<1> DEFINE x == [disp[w] EXCEPT !.claims = disp[w].claims \ {c}]
<1>1. disp[w] \in DispatchRecords /\ DispatchShape(disp[w])
  BY DEF DispatchType, DispatchOK, DispatchRecords
<1>2. c \in Claims
  BY <1>1 DEF DispatchRecords
<1>3. x \in DispatchRecords /\ x.claims = disp[w].claims \ {c} /\ x.pc = disp[w].pc
  BY <1>1 DEF DispatchRecords
<1>4. DispatchShape(x)
  BY <1>1, <1>3 DEF DispatchShape
<1>5. Rest(w, c) = IF disp[w].claims = {c} THEN Idle ELSE x
  BY DEF Rest
<1> HIDE DEF x
<1> QED
  BY <1>2, <1>3, <1>4, <1>5, IdleShape

(* The history of who waited stays small. *)
LEMMA PassesShape ==
    ASSUME OtherType, NEW won \in SUBSET Videos, Passes(won)
    PROVE  passed' \in [Users -> [Users -> 0 .. 2]]
<1> DEFINE got(y) == Cardinality({v \in won : row[v].owner = y})
           n(u, x) == IF got(u) > 0 \/ \A v \in Pending : row[v].owner # u THEN 0
                      ELSE Min({passed[u][x] + got(x), 2})
<1>1. \A y : got(y) \in Nat
  BY VideoSets
<1>2. passed' = [u \in Users |-> [x \in Users |-> n(u, x)]]
  BY DEF Passes
<1> HIDE DEF got
<1>3. \A u, x \in Users : n(u, x) \in 0 .. 2
  <2> TAKE u, x \in Users
  <2>1. passed[u][x] + got(x) \in Nat
    BY <1>1 DEF OtherType
  <2>2. Min({passed[u][x] + got(x), 2}) \in 0 .. 2
    BY <2>1, MinOfTwo
  <2> QED
    BY <2>2
<1> HIDE DEF n
<1> QED
  BY <1>2, <1>3

(* Only a bound that is spent changes, and it goes down. *)
LEMMA Spent ==
    ASSUME LeftType, NEW b \in {"register", "retry", "delete", "fault", "crash"}, Spend(b)
    PROVE  /\ LeftType' /\ left'[b] < left[b]
           /\ \A n \in {"register", "retry", "delete", "fault", "crash"} :
                left'[n] <= left[n] /\ (n # b => left'[n] = left[n])
BY DEF LeftType, Spend


(* Spending anything but a registration keeps what is counted. *)
LEMMA CountedKept ==
    ASSUME TypeInv, \A y \in Videos : row'[y].born = row[y].born,
           UNCHANGED left \/ \E b \in {"retry", "delete", "fault", "crash"} : Spend(b)
    PROVE  LeftType' /\ Counted' /\ left'.fault <= left.fault
<1>1. LeftType /\ Counted
  BY DEF TypeInv, ProgramInv, OtherType, LeftType
<1>2. LeftType' /\ left'.register = left.register /\ left'.fault <= left.fault
  <2>1. CASE UNCHANGED left
    BY <1>1, <2>1 DEF LeftType
  <2>2. CASE \E b \in {"retry", "delete", "fault", "crash"} : Spend(b)
    BY <1>1, <2>2, Spent
  <2> QED
    BY <2>1, <2>2
<1>3. left.fault \in Nat /\ left'.fault \in Nat /\ MaxFaults \in Nat
  BY <1>1, <1>2, Bounds DEF LeftType
<1>4. \A y \in Videos : row'[y].born + left'.register <= MaxRegisters
  BY <1>1, <1>2 DEF Counted
<1>5. left'.register <= MaxRegisters /\ left'.fault <= MaxFaults
  BY <1>1, <1>2, <1>3 DEF Counted
<1> QED
  BY <1>2, <1>4, <1>5 DEF Counted

(* A step that leaves rows and DELETE requests alone keeps them; so does one *)
(* that changes statuses but removes no row.                                *)
LEMMA DeletesKept ==
    ASSUME RowType, DeletesOK, UNCHANGED del,
           \A y \in Videos : /\ row'[y].owner = row[y].owner
                             /\ Exists(y) => row'[y].st # "absent"
    PROVE  DeletesOK'
BY DEF DeletesOK, Exists

(* A variable that does not change keeps its type. *)
LEMMA Frames ==
    /\ RowType /\ UNCHANGED row => RowType'
    /\ StoreType /\ UNCHANGED stores => StoreType'
    /\ RunType /\ RunsOK /\ UNCHANGED run => RunType' /\ RunsOK'
    /\ DispatchType /\ DispatchOK /\ UNCHANGED disp => DispatchType' /\ DispatchOK'
    /\ DeleteType /\ UNCHANGED del => DeleteType'
    /\ DeletesOK /\ UNCHANGED <<row, del>> => DeletesOK'
<1>1. RowType /\ UNCHANGED row => RowType'
  BY DEF RowType
<1>2. StoreType /\ UNCHANGED stores => StoreType'
  BY DEF StoreType, stores
<1>3. RunType /\ RunsOK /\ UNCHANGED run => RunType' /\ RunsOK'
  BY DEF RunType, RunsOK
<1>4. DispatchType /\ DispatchOK /\ UNCHANGED disp => DispatchType' /\ DispatchOK'
  BY DEF DispatchType, DispatchOK
<1>5. DeleteType /\ UNCHANGED del => DeleteType'
  BY DEF DeleteType
<1>6. DeletesOK /\ UNCHANGED <<row, del>> => DeletesOK'
  BY DEF DeletesOK, Exists
<1> QED
  BY <1>1, <1>2, <1>3, <1>4, <1>5, <1>6

LEMMA OthersKept ==
    ASSUME OtherType, LeftType', UNCHANGED <<up, passed>>, disturbed' \subseteq Videos
    PROVE  OtherType'
BY DEF OtherType, LeftType

LEMMA DisturbType == ASSUME OtherType, NEW v \in Videos, Disturb(v) PROVE disturbed' \subseteq Videos
  BY DEF OtherType, Disturb

DeleteRecords == [pc: {"idle", "frames", "text", "thumbs", "file", "row"},
                  user: Users \cup {NoUser}]

(* A step of one DELETE request leaves those of other videos alone. *)
LEMMA DeleteReplaced ==
    ASSUME DeleteType, NEW v \in Videos, NEW x \in DeleteRecords, del' = [del EXCEPT ![v] = x]
    PROVE  DeleteType' /\ del'[v] = x /\ \A y \in Videos \ {v} : del'[y] = del[y]
BY DEF DeleteType, DeleteRecords

LEMMA DeleteMoved ==
    ASSUME DeleteType, NEW v \in Videos, NEW from,
           NEW to \in {"idle", "frames", "text", "thumbs", "file", "row"},
           DeleteStep(v, from, to)
    PROVE  /\ DeleteType' /\ del[v].pc = from /\ del'[v].pc = to
           /\ del'[v].user = IF to = "idle" THEN NoUser ELSE del[v].user
           /\ \A y \in Videos \ {v} : del'[y] = del[y]
<1> DEFINE u == IF to = "idle" THEN NoUser ELSE del[v].user
           x == [del[v] EXCEPT !.pc = to, !.user = u]
<1>1. del[v] \in DeleteRecords /\ u \in Users \cup {NoUser}
  BY DEF DeleteType, DeleteRecords
<1>2. del' = [del EXCEPT ![v] = x]
  BY DEF DeleteStep, DeleteType
<1> HIDE DEF u
<1>3. x \in DeleteRecords /\ x.pc = to /\ x.user = u
  BY <1>1 DEF DeleteRecords
<1> HIDE DEF x
<1>4. DeleteType' /\ del'[v] = x /\ \A y \in Videos \ {v} : del'[y] = del[y]
  BY <1>2, <1>3, DeleteReplaced
<1> QED
  BY <1>3, <1>4 DEF u, DeleteStep

(* The two purges touch one entry of their collection. *)
LEMMA FramesPurged ==
    ASSUME frames \in [Videos -> Users \cup {NoUser}], NEW v \in Videos, NEW u, PurgeFrames(u, v)
    PROVE  /\ frames' \in [Videos -> Users \cup {NoUser}]
           /\ \A y \in Videos \ {v} : frames'[y] = frames[y]
           /\ frames'[v] = IF frames[v] = u THEN NoUser ELSE frames[v]
<1> DEFINE f == IF frames[v] = u THEN NoUser ELSE frames[v]
<1>1. f \in Users \cup {NoUser}
  OBVIOUS
<1>2. frames' = [frames EXCEPT ![v] = f]
  BY DEF PurgeFrames
<1>3. frames' \in [Videos -> Users \cup {NoUser}] /\ frames'[v] = f
      /\ \A y \in Videos \ {v} : frames'[y] = frames[y]
  <2> HIDE DEF f
  <2> QED
    BY <1>1, <1>2
<1> QED
  BY <1>3

LEMMA TextPurged ==
    ASSUME captions \in [Videos -> Users \cup {NoUser}], docs \subseteq Users,
           NEW v \in Videos, NEW u, PurgeText(u, v)
    PROVE  /\ captions' \in [Videos -> Users \cup {NoUser}] /\ docs' \subseteq Users
           /\ \A y \in Videos \ {v} : captions'[y] = captions[y]
           /\ captions'[v] = IF captions[v] = u THEN NoUser ELSE captions[v]
<1> DEFINE f == IF captions[v] = u THEN NoUser ELSE captions[v]
<1>1. f \in Users \cup {NoUser}
  OBVIOUS
<1>2. captions' = [captions EXCEPT ![v] = f] /\ docs' = docs \ {u}
  BY DEF PurgeText
<1>3. captions' \in [Videos -> Users \cup {NoUser}] /\ captions'[v] = f
      /\ \A y \in Videos \ {v} : captions'[y] = captions[y]
  <2> HIDE DEF f
  <2> QED
    BY <1>1, <1>2
<1> QED
  BY <1>2, <1>3


-----------------------------------------------------------------------------
(* The steps.                                                              *)

LEMMA StartTypes == Init => TypeInv
<1> SUFFICES ASSUME Init PROVE TypeInv
  OBVIOUS
<1>1. RowType
  <2>1. NoRow \in Rows /\ NoRow.st = "absent" /\ NoRow.owner = NoUser
    BY Bounds DEF NoRow, Rows
  <2> QED
    BY <2>1 DEF Init, RowType
<1>2. StoreType
  BY VideoIds DEF Init, StoreType
<1>3. RunType /\ RunsOK
  <2> DEFINE x == [vid |-> NoVideo, user |-> NoUser, pc |-> "none", try |-> 0, host |-> NoWorker]
  <2>1. x \in RunRecords /\ x.pc = "none" /\ x.host = NoWorker
    BY DEF RunRecords
  <2>2. "none" \notin Positions
    BY DEF Positions, TaskSteps, FetchSteps, SampleSteps, EmbedSteps
  <2>3. run = [r \in Runs |-> x]
    BY DEF Init
  <2> HIDE DEF x
  <2> QED
    BY <2>1, <2>2, <2>3 DEF RunType, RunsOK, RunShape
<1>4. DispatchType /\ DispatchOK
  BY IdleShape DEF Init, DispatchType, DispatchOK, DispatchRecords
<1>5. DeleteType
  BY DEF Init, DeleteType
<1>6. DeletesOK
  BY DEF Init, DeletesOK, Quiet
<1>7. OtherType
  BY Bounds DEF Init, OtherType
<1>8. Counted
  BY Bounds DEF Init, Counted, NoRow
<1>9. HistoryType
  BY DEF Init, HistoryType
<1> QED
  BY <1>1, <1>2, <1>3, <1>4, <1>5, <1>6, <1>7, <1>8, <1>9 DEF TypeInv, ProgramInv

(* What a request may do. *)
LEMMA RequestTypes ==
    ASSUME TypeInv, NEW v \in Videos,
           (\E u \in Users : Register(v, u)) \/ Retry(v) \/ DeleteBegin(v) \/ Delete(v) \/ DeleteRaises(v)
    PROVE  ProgramInv'
<1> USE DEF TypeInv, ProgramInv
<1>0. LeftType
  BY DEF OtherType, LeftType
<1>1. ASSUME NEW u \in Users, Register(v, u) PROVE ProgramInv'
  <2>1. RowType' /\ LeftType' /\ Counted' /\ (\A y \in Videos \ {v} : row'[y] = row[y])
        /\ row'[v].st = "pending" /\ row'[v].owner = IF Exists(v) THEN row[v].owner ELSE u
    BY <1>0, <1>1, RowRegistered
  <2>2. UNCHANGED <<stores, run, disp, del, up, passed>> /\ disturbed' \subseteq Videos
    BY <1>1, DisturbType DEF Register
  <2>3. DeletesOK'
    BY <2>1, <2>2 DEF DeletesOK, Exists
  <2> QED
    BY <2>1, <2>2, <2>3, Frames, OthersKept
<1>2. CASE Retry(v)
  <2>1. RowType' /\ \A y \in Videos : /\ row'[y].owner = row[y].owner /\ row'[y].born = row[y].born
                                      /\ Exists(y) => row'[y].st # "absent"
    BY <1>2, StatusSet DEF Retry, Statuses, Exists
  <2>2. UNCHANGED <<stores, run, disp, del, up, passed>> /\ disturbed' \subseteq Videos
    BY <1>2, DisturbType DEF Retry
  <2>3. LeftType' /\ Counted'
    BY <1>2, <2>1, CountedKept DEF Retry
  <2>4. DeletesOK'
    BY <2>1, <2>2, DeletesKept
  <2> QED
    BY <2>1, <2>2, <2>3, <2>4, Frames, OthersKept
<1>3. CASE DeleteBegin(v)
  <2>1. row[v].owner \in Users \cup {NoUser}
    BY DEF RowType, Rows
  <2>2. DeleteType' /\ del'[v].pc = "frames" /\ del'[v].user = row[v].owner
        /\ \A y \in Videos \ {v} : del'[y] = del[y]
    <3>1. [pc |-> "frames", user |-> row[v].owner] \in DeleteRecords
      BY <2>1 DEF DeleteRecords
    <3>2. del' = [del EXCEPT ![v] = [pc |-> "frames", user |-> row[v].owner]]
      BY <1>3 DEF DeleteBegin
    <3>3. DeleteType' /\ del'[v] = [pc |-> "frames", user |-> row[v].owner]
          /\ \A y \in Videos \ {v} : del'[y] = del[y]
      BY <3>1, <3>2, DeleteReplaced
    <3> QED
      BY <3>3
  <2>3. UNCHANGED <<row, stores, run, disp, up, passed>> /\ disturbed' \subseteq Videos /\ Exists(v)
    BY <1>3, DisturbType DEF DeleteBegin
  <2>4. LeftType' /\ Counted'
    BY <1>3, <2>3, CountedKept DEF DeleteBegin
  <2>5. DeletesOK'
    BY <2>2, <2>3 DEF DeletesOK, Exists
  <2> QED
    BY <2>2, <2>3, <2>4, <2>5, Frames, OthersKept
<1>4. ASSUME NEW from \in {"frames", "text", "thumbs", "file"}, NEW to \in {"text", "thumbs", "file", "row"},
             DeleteStep(v, from, to), UNCHANGED <<row, run, disp, up, disturbed, passed>>, StoreType',
             UNCHANGED left \/ Spend("fault")
      PROVE  ProgramInv'
  <2>1. /\ DeleteType' /\ del[v].pc = from /\ del'[v].user = del[v].user
        /\ \A y \in Videos \ {v} : del'[y] = del[y]
    BY <1>4, DeleteMoved
  <2>2. LeftType' /\ Counted'
    BY <1>4, CountedKept
  <2>3. DeletesOK'
    BY <1>4, <2>1 DEF DeletesOK, Exists, Quiet
  <2>4. disturbed' \subseteq Videos
    BY <1>4 DEF OtherType
  <2> QED
    BY <1>4, <2>1, <2>2, <2>3, <2>4, Frames, OthersKept
<1>5. CASE DeleteFrames(v)
  <2>1. StoreType' /\ (UNCHANGED left \/ Spend("fault"))
    BY <1>5, FramesPurged DEF DeleteFrames, FramesSwallowed, StoreType
  <2> QED
    BY <1>4, <1>5, <2>1 DEF DeleteFrames
<1>6. CASE DeleteText(v)
  <2>1. StoreType' /\ (UNCHANGED left \/ Spend("fault"))
    BY <1>6, TextPurged DEF DeleteText, TextSwallowed, StoreType
  <2> QED
    BY <1>4, <1>6, <2>1 DEF DeleteText
<1>7. CASE DeleteThumbs(v)
  <2>1. StoreType'
    BY <1>7 DEF DeleteThumbs, StoreType
  <2> QED
    BY <1>4, <1>7, <2>1 DEF DeleteThumbs
<1>8. CASE DeleteFile(v)
  <2>1. StoreType'
    BY <1>8 DEF DeleteFile, StoreType
  <2> QED
    BY <1>4, <1>8, <2>1 DEF DeleteFile
<1>9. CASE DeleteRow(v)
  <2>1. NoRow \in Rows /\ NoRow.st = "absent" /\ NoRow.owner = NoUser /\ NoRow.born = 0
    BY Bounds DEF NoRow, Rows
  <2>2. RowType' /\ row'[v] = NoRow /\ \A y \in Videos \ {v} : row'[y] = row[y]
    BY <1>9, <2>1, RowReplaced DEF DeleteRow
  <2>3. DeleteType' /\ del'[v].pc = "idle" /\ \A y \in Videos \ {v} : del'[y] = del[y]
    BY <1>9, DeleteMoved DEF DeleteRow
  <2>4. UNCHANGED <<stores, run, disp, up, left, passed>> /\ disturbed' \subseteq Videos
    BY <1>9, DisturbType DEF DeleteRow
  <2>5. LeftType' /\ left.register \in Nat
    BY <1>0, <2>4 DEF LeftType
  <2>6. Counted'
    <3>1. \A y \in Videos : row'[y].born + left'.register <= MaxRegisters
      BY <2>1, <2>2, <2>4, <2>5, Bounds DEF Counted
    <3> QED
      BY <2>4, <3>1 DEF Counted
  <2>7. DeletesOK'
    BY <2>2, <2>3 DEF DeletesOK, Exists, Quiet
  <2> QED
    BY <2>2, <2>3, <2>4, <2>5, <2>6, <2>7, Frames, OthersKept
<1>10. CASE DeleteRaises(v)
  <2>3. DeleteType' /\ del'[v].pc = "idle" /\ \A y \in Videos \ {v} : del'[y] = del[y]
    BY <1>10, DeleteMoved DEF DeleteRaises
  <2>4. UNCHANGED <<row, stores, run, disp, up, disturbed, passed>>
    BY <1>10 DEF DeleteRaises
  <2>5. LeftType' /\ Counted'
    BY <1>10, <2>4, CountedKept DEF DeleteRaises
  <2>6. DeletesOK'
    BY <2>3, <2>4 DEF DeletesOK, Exists, Quiet
  <2>7. disturbed' \subseteq Videos
    BY <2>4 DEF OtherType
  <2> QED
    BY <2>3, <2>4, <2>5, <2>6, <2>7, Frames, OthersKept
<1> QED
  BY <1>1, <1>2, <1>3, <1>5, <1>6, <1>7, <1>8, <1>9, <1>10 DEF Delete


(* A dispatcher picks no more than there is, and schedules it with its owner. *)
LEMMA PickedVideos == \A n : Picked(n) \subseteq Videos
  BY DEF Picked, Pending

LEMMA InFlightSize == Cardinality(InFlight) \in Nat /\ IsFiniteSet(InFlight)
<1>1. InFlight \in SUBSET Videos
  BY DEF InFlight
<1> QED
  BY <1>1, VideoSets

(* The claims a dispatcher comes away with. *)
ClaimsOf(won) == {[vid |-> v, user |-> row[v].owner] : v \in won}

LEMMA ClaimedShape ==
    ASSUME RowType, NEW won \in SUBSET Pending
    PROVE  /\ ClaimsOf(won) \subseteq Claims
           /\ \A c \in ClaimsOf(won) : c.vid \in won /\ c.user = row[c.vid].owner
           /\ \A c, d \in ClaimsOf(won) : c.vid = d.vid => c = d
<1>1. \A v \in won : v \in Videos /\ row[v].owner \in Users
  BY DEF Pending, RowType, Rows
<1>2. \A v \in won : [vid |-> v, user |-> row[v].owner] \in Claims
  BY <1>1 DEF Claims
<1> QED
  BY <1>2 DEF ClaimsOf

LEMMA DispatchTypes ==
    ASSUME TypeInv, NEW w \in Workers, Dispatch(w)
    PROVE  ProgramInv'
<1> USE DEF TypeInv, ProgramInv
<1>0. disp[w] \in DispatchRecords /\ DispatchShape(disp[w]) /\ LeftType
  BY DEF DispatchType, DispatchOK, DispatchRecords, OtherType, LeftType
<1>1. ASSUME NEW x \in DispatchRecords, DispatchShape(x), disp' = [disp EXCEPT ![w] = x],
             UNCHANGED <<row, stores, run, del, up, left, disturbed, passed>>
      PROVE  ProgramInv'
  <2>1. DispatchType' /\ DispatchOK'
    BY <1>1, DispatchReplaced
  <2>2. LeftType' /\ Counted'
    BY <1>1, CountedKept
  <2>3. disturbed' \subseteq Videos
    BY <1>1 DEF OtherType
  <2> QED
    BY <1>1, <2>1, <2>2, <2>3, Frames, OthersKept
<1>2. CASE DispatchCount(w)
  <2> DEFINE x == [disp[w] EXCEPT !.pc = "select", !.slots = MaxInflight - Cardinality(InFlight)]
  <2>1. MaxInflight - Cardinality(InFlight) \in 0 .. MaxInflight
    BY <1>2, InFlightSize, Bounds DEF DispatchCount
  <2>2. disp[w].claims = {}
    BY <1>0, <1>2 DEF DispatchShape, DispatchCount
  <2>3. x \in DispatchRecords /\ x.claims = {}
    <3> DEFINE n == MaxInflight - Cardinality(InFlight)
    <3>1. n \in 0 .. MaxInflight
      BY <2>1
    <3> HIDE DEF n
    <3>2. [disp[w] EXCEPT !.pc = "select", !.slots = n] \in DispatchRecords
          /\ [disp[w] EXCEPT !.pc = "select", !.slots = n].claims = {}
      BY <1>0, <2>2, <3>1 DEF DispatchRecords
    <3> QED
      BY <3>2 DEF n
  <2>4. DispatchShape(x)
    BY <2>3 DEF DispatchShape
  <2>5. disp' = [disp EXCEPT ![w] = x] /\ UNCHANGED <<row, stores, run, del, up, left, disturbed, passed>>
    BY <1>2, <1>0 DEF DispatchCount, DispatchType
  <2> HIDE DEF x
  <2> QED
    BY <1>1, <2>3, <2>4, <2>5
<1>3. CASE DispatchSelect(w)
  <2> DEFINE y == [pc |-> "update", slots |-> disp[w].slots, ids |-> Picked(disp[w].slots), claims |-> {}]
             x == IF Pending = {} THEN Idle ELSE y
  <2>1. y \in DispatchRecords /\ y.claims = {}
    <3>1. disp[w].slots \in 0 .. MaxInflight /\ Picked(disp[w].slots) \in SUBSET Videos
      BY <1>0, PickedVideos DEF DispatchRecords
    <3> QED
      BY <3>1 DEF DispatchRecords
  <2>2. DispatchShape(y)
    BY <2>1 DEF DispatchShape
  <2>3. x \in DispatchRecords /\ DispatchShape(x)
    <3> HIDE DEF y
    <3> QED
      BY <2>1, <2>2, IdleShape
  <2>4. disp' = [disp EXCEPT ![w] = x] /\ UNCHANGED <<row, stores, run, del, up, left, disturbed, passed>>
    BY <1>3 DEF DispatchSelect
  <2> HIDE DEF x
  <2> QED
    BY <1>1, <2>3, <2>4
<1>4. CASE DispatchClaim(w)
  <2> DEFINE won == disp[w].ids \cap Pending
             y == [pc |-> "enqueue", slots |-> 0, ids |-> {}, claims |-> ClaimsOf(won)]
             x == IF won = {} THEN Idle ELSE y
  <2>1. /\ row' = [v \in Videos |-> IF v \in won THEN [row[v] EXCEPT !.st = "queued"] ELSE row[v]]
        /\ disp' = [disp EXCEPT ![w] = x]
        /\ Passes(won)
        /\ disturbed' = disturbed \cup {v \in won : del[v].pc # "idle"}
        /\ UNCHANGED <<stores, run, del, up, left>>
    BY <1>4 DEF DispatchClaim, Claim, ClaimsOf
  <2>2. won \in SUBSET Pending /\ won \in SUBSET Videos
    BY DEF Pending
  <2>3. y \in DispatchRecords /\ DispatchShape(y)
    <3>1. ClaimsOf(won) \in SUBSET Claims /\ \A c, d \in ClaimsOf(won) : c.vid = d.vid => c = d
      BY <2>2, ClaimedShape
    <3> HIDE DEF won
    <3>2. y \in DispatchRecords /\ y.pc = "enqueue" /\ y.claims = ClaimsOf(won)
      BY <3>1, Bounds DEF DispatchRecords
    <3> HIDE DEF y
    <3> QED
      BY <3>1, <3>2 DEF DispatchShape
  <2>4. x \in DispatchRecords /\ DispatchShape(x)
    <3> HIDE DEF y
    <3> QED
      BY <2>3, IdleShape
  <2> HIDE DEF won, x
  <2>5. RowType' /\ \A z \in Videos : /\ row'[z].owner = row[z].owner /\ row'[z].born = row[z].born
                                     /\ row'[z].st = IF z \in won THEN "queued" ELSE row[z].st
    BY <2>1, <2>2, RowsClaimed
  <2>6. DispatchType' /\ DispatchOK'
    BY <2>1, <2>4, DispatchReplaced
  <2>7. LeftType' /\ Counted'
    BY <2>1, <2>5, CountedKept
  <2>8. DeletesOK'
    BY <2>1, <2>5, DeletesKept DEF Exists
  <2>9. OtherType'
    <3>1. passed' \in [Users -> [Users -> 0 .. 2]]
      BY <2>1, <2>2, PassesShape
    <3> QED
      BY <2>1, <2>2, <2>7, <3>1 DEF OtherType, LeftType
  <2> QED
    BY <2>1, <2>5, <2>6, <2>7, <2>8, <2>9, Frames
<1>5. CASE DispatchEnqueue(w)
  <2>1. PICK c \in disp[w].claims :
          /\ disp' = [disp EXCEPT ![w] = Rest(w, c)]
          /\ \/ \E r \in Runs : Unused(r) /\ run' = [run EXCEPT ![r] = NewRun(c)]
             \/ \E r \in Runs : /\ Unused(r) /\ r + 1 \in Runs
                                /\ run' = [run EXCEPT ![r] = NewRun(c), ![r + 1] = NewRun(c)]
          /\ UNCHANGED left \/ Spend("fault")
          /\ disturbed' \in {disturbed, disturbed \cup {c.vid}}
    BY <1>5 DEF DispatchEnqueue
  <2>2. UNCHANGED <<row, stores, del, up, passed>>
    BY <1>5 DEF DispatchEnqueue
  <2>3. Rest(w, c) \in DispatchRecords /\ DispatchShape(Rest(w, c)) /\ c \in Claims
    BY RestShape
  <2>4. DispatchType' /\ DispatchOK'
    BY <2>1, <2>3, DispatchReplaced
  <2>5. RunType' /\ RunsOK'
    BY <2>1, <2>3, RunsCreated
  <2>6. LeftType' /\ Counted'
    BY <2>1, <2>2, CountedKept
  <2>7. disturbed' \subseteq Videos
    BY <2>1, <2>3 DEF OtherType, Claims
  <2> QED
    BY <2>2, <2>4, <2>5, <2>6, <2>7, Frames, OthersKept
<1>6. CASE DispatchRaises(w)
  <2>1. PICK c \in disp[w].claims :
          /\ UNCHANGED run \/ \E r \in Runs : Unused(r) /\ run' = [run EXCEPT ![r] = NewRun(c)]
          /\ disturbed' \in {disturbed, disturbed \cup {c.vid}}
          /\ SetStatus(c.vid, "pending") \/ UNCHANGED row
          /\ disp' = [disp EXCEPT ![w] = Rest(w, c)] \/ disp' = [disp EXCEPT ![w] = Idle]
    BY <1>6 DEF DispatchRaises
  <2>2. UNCHANGED <<stores, del, up, passed>> /\ Spend("fault")
    BY <1>6 DEF DispatchRaises
  <2>3. Rest(w, c) \in DispatchRecords /\ DispatchShape(Rest(w, c)) /\ c \in Claims /\ c.vid \in Videos
    BY RestShape DEF Claims
  <2>4. DispatchType' /\ DispatchOK'
    BY <2>1, <2>3, IdleShape, DispatchReplaced
  <2>5. RunType' /\ RunsOK'
    BY <2>1, <2>3, RunsCreated
  <2>6. RowType' /\ \A y \in Videos : /\ row'[y].owner = row[y].owner /\ row'[y].born = row[y].born
                                      /\ Exists(y) => row'[y].st # "absent"
    <3>1. CASE SetStatus(c.vid, "pending")
      BY <2>3, <3>1, StatusSet DEF Statuses, Exists
    <3>2. CASE UNCHANGED row
      BY <3>2, Frames DEF Exists
    <3> QED
      BY <2>1, <3>1, <3>2
  <2>7. LeftType' /\ Counted'
    BY <2>2, <2>6, CountedKept
  <2>8. disturbed' \subseteq Videos
    BY <2>1, <2>3 DEF OtherType
  <2>9. DeletesOK'
    BY <2>2, <2>6, DeletesKept
  <2> QED
    BY <2>2, <2>4, <2>5, <2>6, <2>7, <2>8, <2>9, Frames, OthersKept
<1> QED
  BY <1>2, <1>3, <1>4, <1>5, <1>6 DEF Dispatch


(* A run that executes has a video and a tenant. *)
LEMMA ExecutingRun ==
    ASSUME RunsOK, NEW r \in Runs, Executing(r)
    PROVE  run[r].vid \in Videos /\ run[r].user \in Users /\ run[r].pc \in Positions
BY DEF RunsOK, RunShape, Executing, Positions, TaskSteps, FetchSteps, SampleSteps, EmbedSteps

(* What an exception in a task leaves: the stores keep their types. *)
LEMMA RaisedStores ==
    ASSUME StoreType, RunsOK, NEW r \in Runs, Raises(r)
    PROVE  StoreType' /\ (UNCHANGED left \/ Spend("fault"))
<1>1. run[r].vid \in Videos /\ run[r].user \in Users
  BY ExecutingRun DEF Raises
<1>2. \/ UNCHANGED <<thumbs, frames>>
      \/ thumbs' = thumbs \cup {<<run[r].user, run[r].vid>>} /\ UNCHANGED frames
      \/ frames' = [frames EXCEPT ![run[r].vid] = run[r].user] /\ UNCHANGED thumbs
  BY DEF Raises
<1>3. UNCHANGED <<files, captions, docs>> /\ (UNCHANGED left \/ Spend("fault"))
  BY DEF Raises
<1> QED
  BY <1>1, <1>2, <1>3 DEF StoreType

LEMMA FlowTypes ==
    ASSUME TypeInv, NEW r \in Runs, Flow(r)
    PROVE  ProgramInv'
<1> USE DEF TypeInv, ProgramInv
<1> DEFINE v == run[r].vid
           Bystanders == UNCHANGED <<disp, del, up, disturbed, passed>>
<1>0. TaskSteps \subseteq Positions /\ "launch" \in Positions
  BY DEF Positions
<1> USE DEF TaskSteps, FetchSteps, SampleSteps, EmbedSteps
(* A step that writes no row. *)
<1>1. ASSUME RunType', RunsOK', StoreType', UNCHANGED row, Bystanders, UNCHANGED left \/ Spend("fault")
      PROVE  ProgramInv'
  <2>1. LeftType' /\ Counted'
    BY <1>1, CountedKept
  <2>2. disturbed' \subseteq Videos
    BY <1>1 DEF OtherType
  <2> QED
    BY <1>1, <2>1, <2>2, Frames, OthersKept
(* A step that writes a status. *)
<1>2. ASSUME RunType', RunsOK', StoreType', NEW s \in Statuses, SetStatus(v, s), v \in Videos, Bystanders,
             UNCHANGED left \/ Spend("fault")
      PROVE  ProgramInv'
  <2>1. RowType' /\ \A y \in Videos : /\ row'[y].owner = row[y].owner /\ row'[y].born = row[y].born
                                      /\ Exists(y) => row'[y].st # "absent"
    <3> HIDE DEF v
    <3> QED
      BY <1>2, StatusSet DEF Statuses, Inflight, Settled, Exists
  <2>2. LeftType' /\ Counted'
    BY <1>2, <2>1, CountedKept
  <2>3. DeletesOK'
    BY <1>2, <2>1, DeletesKept
  <2>4. disturbed' \subseteq Videos
    BY <1>2 DEF OtherType
  <2> QED
    BY <1>2, <2>1, <2>2, <2>3, <2>4, Frames, OthersKept
<1>3. ASSUME NEW p \in Positions, Executing(r), Advance(r, p) \/ NextTask(r, p)
      PROVE  RunType' /\ RunsOK' /\ v \in Videos /\ run[r].user \in Users
  BY <1>3, RunMoved, ExecutingRun
<1>4. ASSUME Executing(r), Ended(r)
      PROVE  RunType' /\ RunsOK' /\ v \in Videos /\ run[r].user \in Users
  BY <1>4, RunEnded, ExecutingRun
<1>5. UNCHANGED stores => StoreType'
  BY Frames
<1>s. Inflight \cup Settled \subseteq Statuses
  BY DEF Statuses
<1>6. ASSUME NEW at, NEW s \in Inflight, NEW to \in TaskSteps, Report(r, at, s, to) PROVE ProgramInv'
  BY <1>0, <1>2, <1>3, <1>5, <1>6, <1>s DEF Report, At
<1>7. ASSUME NEW w \in Workers, PickUp(r, w) PROVE ProgramInv'
  BY <1>1, <1>5, <1>7, RunPicked DEF PickUp
<1>8. CASE Launch(r)
  BY <1>0, <1>1, <1>3, <1>5, <1>8 DEF Launch, At
<1>9. CASE LaunchFails(r)
  BY <1>1, <1>4, <1>5, <1>9 DEF LaunchFails, At
<1>10. CASE FetchBegin(r)
  BY <1>6, <1>10 DEF FetchBegin, Inflight
<1>11. CASE FetchLoad(r)
  BY <1>0, <1>1, <1>3, <1>5, <1>11 DEF FetchLoad, At
<1>12. CASE FetchHash(r)
  <2>1. RunType' /\ RunsOK' /\ v \in Videos
    BY <1>0, <1>3, <1>12 DEF FetchHash, At
  <2>2. RowType' /\ \A y \in Videos : /\ row'[y].owner = row[y].owner /\ row'[y].born = row[y].born
                                      /\ Exists(y) => row'[y].st # "absent"
    BY <1>12, <2>1, RowHashed DEF Exists
  <2>3. UNCHANGED <<stores, disp, del, up, left, disturbed, passed>>
    BY <1>12 DEF FetchHash
  <2>4. LeftType' /\ Counted'
    BY <2>2, <2>3, CountedKept
  <2>5. DeletesOK'
    BY <2>2, <2>3, DeletesKept
  <2>6. disturbed' \subseteq Videos
    BY <2>3 DEF OtherType
  <2> QED
    BY <2>1, <2>2, <2>3, <2>4, <2>5, <2>6, Frames, OthersKept
<1>13. CASE FetchCheck(r)
  BY <1>0, <1>1, <1>3, <1>5, <1>13 DEF FetchCheck, At
<1>14. CASE FetchSkip(r)
  BY <1>2, <1>4, <1>5, <1>14, <1>s DEF FetchSkip, At, Settled
<1>15. CASE SampleBegin(r)
  BY <1>6, <1>15 DEF SampleBegin, Inflight
<1>16. CASE SampleClear(r)
  <2>1. StoreType'
    BY <1>16 DEF SampleClear, StoreType
  <2> QED
    BY <1>0, <1>1, <1>3, <1>16, <2>1 DEF SampleClear, At
<1>17. CASE SamplePut(r)
  <2>1. RunType' /\ RunsOK' /\ v \in Videos /\ run[r].user \in Users
    BY <1>0, <1>3, <1>17 DEF SamplePut, At
  <2>2. StoreType'
    BY <1>17, <2>1 DEF SamplePut, StoreType
  <2> QED
    BY <1>1, <1>17, <2>1, <2>2 DEF SamplePut
<1>18. CASE EmbedBegin(r)
  BY <1>6, <1>18 DEF EmbedBegin, Inflight
<1>19. CASE EmbedPurge(r)
  <2>1. RunType' /\ RunsOK' /\ v \in Videos
    BY <1>0, <1>3, <1>19 DEF EmbedPurge, At
  <2>2. StoreType' /\ (UNCHANGED left \/ Spend("fault"))
    BY <1>19, <2>1, FramesPurged DEF EmbedPurge, FramesSwallowed, StoreType
  <2> QED
    BY <1>1, <1>19, <2>1, <2>2 DEF EmbedPurge
<1>20. CASE EmbedPurgeText(r)
  <2>1. RunType' /\ RunsOK' /\ v \in Videos
    BY <1>0, <1>3, <1>20 DEF EmbedPurgeText, At
  <2>2. StoreType' /\ (UNCHANGED left \/ Spend("fault"))
    BY <1>20, <2>1, TextPurged DEF EmbedPurgeText, TextSwallowed, StoreType
  <2> QED
    BY <1>1, <1>20, <2>1, <2>2 DEF EmbedPurgeText
<1>21. CASE EmbedUpsert(r)
  <2>1. RunType' /\ RunsOK' /\ v \in Videos /\ run[r].user \in Users
    BY <1>0, <1>3, <1>21 DEF EmbedUpsert, At
  <2>2. StoreType'
    BY <1>21, <2>1 DEF EmbedUpsert, StoreType
  <2> QED
    BY <1>1, <1>21, <2>1, <2>2 DEF EmbedUpsert
<1>22. CASE EmbedFlip(r)
  BY <1>0, <1>2, <1>3, <1>5, <1>22, <1>s DEF EmbedFlip, At, Settled
<1>23. CASE Captions(r)
  BY <1>0, <1>1, <1>3, <1>4, <1>5, <1>23 DEF Captions, At
<1>24. CASE Transcript(r)
  <2>1. RunType' /\ RunsOK' /\ v \in Videos /\ run[r].user \in Users
    BY <1>4, <1>24 DEF Transcript, At
  <2>2. StoreType'
    BY <1>24, <2>1 DEF Transcript, StoreType
  <2> QED
    BY <1>1, <1>24, <2>1, <2>2 DEF Transcript
<1>25. CASE TaskRetry(r)
  BY <1>1, <1>25, RunRetried, RaisedStores DEF TaskRetry, Raises
<1>26. CASE FlowFails(r)
  <2>1. RunType' /\ RunsOK' /\ v \in Videos
    BY <1>4, <1>26 DEF FlowFails, Raises
  <2>2. StoreType' /\ (UNCHANGED left \/ Spend("fault")) /\ Bystanders
    BY <1>26, RaisedStores DEF FlowFails, Raises
  <2>3. CASE SetStatus(v, "failed")
    BY <1>2, <1>s, <2>1, <2>2, <2>3 DEF Settled
  <2>4. CASE UNCHANGED row
    BY <1>1, <2>1, <2>2, <2>4
  <2> QED
    BY <1>26, <2>3, <2>4 DEF FlowFails
<1> QED
  BY <1>7, <1>8, <1>9, <1>10, <1>11, <1>12, <1>13, <1>14, <1>15, <1>16, <1>17, <1>18, <1>19, <1>20,
     <1>21, <1>22, <1>23, <1>24, <1>25, <1>26 DEF Flow

(* Every step keeps the types of the program's variables. *)
LEMMA NextProgram == TypeInv /\ [Next]_vars => ProgramInv'
<1> SUFFICES ASSUME TypeInv, [Next]_vars PROVE ProgramInv'
  OBVIOUS
<1> USE DEF TypeInv, ProgramInv
<1>1. ASSUME NEW u \in Users, IndexDocument(u) PROVE ProgramInv'
  <2>1. StoreType'
    BY <1>1 DEF IndexDocument, StoreType
  <2>2. UNCHANGED <<row, run, disp, del, up, left, disturbed, passed>>
    BY <1>1 DEF IndexDocument
  <2>3. LeftType' /\ Counted'
    BY <2>2, CountedKept
  <2>4. disturbed' \subseteq Videos
    BY <2>2 DEF OtherType
  <2> QED
    BY <2>1, <2>2, <2>3, <2>4, Frames, OthersKept
<1>2. ASSUME NEW w \in Workers, WorkerCrash(w) PROVE ProgramInv'
  <2>1. RunType' /\ RunsOK'
    BY <1>2, RunsKilled
  <2>2. DispatchType' /\ DispatchOK'
    BY <1>2, IdleShape, DispatchReplaced DEF WorkerCrash
  <2>3. UNCHANGED <<row, stores, del, disturbed, passed>> /\ Spend("crash")
    BY <1>2 DEF WorkerCrash
  <2>4. LeftType' /\ Counted'
    BY <2>3, CountedKept
  <2>5. OtherType'
    BY <1>2, <2>3, <2>4 DEF OtherType, LeftType, WorkerCrash
  <2> QED
    BY <2>1, <2>2, <2>3, <2>4, <2>5, Frames
<1>3. ASSUME NEW w \in Workers, WorkerRestart(w) PROVE ProgramInv'
  <2>1. UNCHANGED <<row, stores, run, disp, del, left, disturbed, passed>>
    BY <1>3 DEF WorkerRestart
  <2>2. LeftType' /\ Counted'
    BY <2>1, CountedKept
  <2>3. OtherType'
    BY <1>3, <2>1 DEF OtherType, WorkerRestart
  <2> QED
    BY <2>1, <2>2, <2>3, Frames
<1>4. CASE UNCHANGED vars
  <2>1. UNCHANGED <<row, stores, run, disp, del, up, left, disturbed, passed>>
    BY <1>4 DEF vars
  <2>2. LeftType' /\ Counted'
    BY <2>1, CountedKept
  <2>3. OtherType'
    BY <2>1 DEF OtherType
  <2> QED
    BY <2>1, <2>2, <2>3, Frames
<1>5. CASE Next
  <2>1. CASE \E v \in Videos : (\E u \in Users : Register(v, u)) \/ Retry(v) \/ DeleteBegin(v)
                               \/ Delete(v) \/ DeleteRaises(v)
    BY <2>1, RequestTypes
  <2>2. CASE \E r \in Runs : Flow(r)
    BY <2>2, FlowTypes
  <2>3. CASE \E w \in Workers : Dispatch(w) \/ WorkerCrash(w) \/ WorkerRestart(w)
    BY <2>3, <1>2, <1>3, DispatchTypes
  <2> QED
    BY <1>1, <1>5, <2>1, <2>2, <2>3 DEF Next
<1> QED
  BY <1>4, <1>5

(* What a DELETE has taken or missed is about a video and a tenant. *)
LEMMA DeleteHistory ==
    ASSUME TypeInv, NEW v \in Videos, Delete(v)
    PROVE  HistoryType'
<1>1. del[v].pc \notin Quiet => del[v].user \in Users
  BY DEF TypeInv, ProgramInv, DeletesOK, RowType, Rows, Exists
<1>2. HistoryType
  BY DEF TypeInv
<1>3. CASE DeleteFrames(v)
  <2>1. del[v].user \in Users
    BY <1>1, <1>3 DEF DeleteFrames, DeleteStep, Quiet
  <2> QED
    BY <1>2, <1>3, <2>1 DEF DeleteFrames, HistoryType
<1>4. CASE DeleteText(v)
  <2>1. del[v].user \in Users
    BY <1>1, <1>4 DEF DeleteText, DeleteStep, Quiet
  <2> QED
    BY <1>2, <1>4, <2>1 DEF DeleteText, HistoryType
<1>5. CASE DeleteThumbs(v)
  BY <1>2, <1>5 DEF DeleteThumbs, HistoryType
<1>6. CASE DeleteFile(v) \/ DeleteRow(v)
  BY <1>2, <1>6 DEF DeleteFile, DeleteRow, history, HistoryType
<1> QED
  BY <1>3, <1>4, <1>5, <1>6 DEF Delete

(* No other step adds to them: an upsert makes a video whole again. *)
LEMMA HistoryOtherwise ==
    ASSUME [Next]_vars, \A v \in Videos : ~Delete(v)
    PROVE  taken' \subseteq taken /\ UNCHANGED missed
<1>1. CASE UNCHANGED vars
  BY <1>1 DEF vars, history
<1>2. CASE \E v \in Videos : (\E u \in Users : Register(v, u)) \/ Retry(v) \/ DeleteBegin(v) \/ DeleteRaises(v)
  BY <1>2 DEF Register, Retry, DeleteBegin, DeleteRaises, history
<1>3. CASE \E u \in Users : IndexDocument(u)
  BY <1>3 DEF IndexDocument, history
<1>4. ASSUME NEW w \in Workers, Dispatch(w) \/ WorkerCrash(w) \/ WorkerRestart(w)
      PROVE  UNCHANGED history
  BY <1>4 DEF Dispatch, DispatchCount, DispatchSelect, DispatchClaim, Claim, DispatchEnqueue, DispatchRaises,
              WorkerCrash, WorkerRestart
<1>5. ASSUME NEW r \in Runs, Flow(r) PROVE taken' \subseteq taken /\ UNCHANGED missed
  <2>1. CASE EmbedUpsert(r)
    BY <2>1 DEF EmbedUpsert
  <2>2. CASE TaskRetry(r) \/ FlowFails(r)
    BY <2>2 DEF TaskRetry, FlowFails, Raises
  <2>3. CASE \E w \in Workers : PickUp(r, w)
    BY <2>3 DEF PickUp, history
  <2>4. CASE Launch(r) \/ LaunchFails(r) \/ FetchLoad(r) \/ FetchHash(r) \/ FetchCheck(r) \/ FetchSkip(r)
    BY <2>4 DEF Launch, LaunchFails, FetchLoad, FetchHash, FetchCheck, FetchSkip, history
  <2>5. CASE FetchBegin(r) \/ SampleBegin(r) \/ EmbedBegin(r)
    BY <2>5 DEF FetchBegin, SampleBegin, EmbedBegin, Report, history
  <2>6. CASE \/ SampleClear(r) \/ SamplePut(r) \/ EmbedPurge(r) \/ EmbedPurgeText(r)
             \/ EmbedFlip(r) \/ Captions(r) \/ Transcript(r)
    BY <2>6 DEF SampleClear, SamplePut, EmbedPurge, EmbedPurgeText, EmbedFlip, Captions, Transcript, history
  <2> QED
    BY <1>5, <2>1, <2>2, <2>3, <2>4, <2>5, <2>6 DEF Flow
<1> QED
  BY <1>1, <1>2, <1>3, <1>4, <1>5 DEF Next, history

(* Every step keeps the types. *)
LEMMA NextTypes == TypeInv /\ [Next]_vars => TypeInv'
<1> SUFFICES ASSUME TypeInv, [Next]_vars PROVE HistoryType'
  BY NextProgram DEF TypeInv
<1>1. CASE \E v \in Videos : Delete(v)
  BY <1>1, DeleteHistory
<1>2. CASE \A v \in Videos : ~Delete(v)
  BY <1>2, HistoryOtherwise DEF TypeInv, HistoryType
<1> QED
  BY <1>1, <1>2

(* The strengthened types hold in every reachable state. *)
LEMMA TypesHold == Spec => []TypeInv
  BY StartTypes, NextTypes, PTL DEF Spec

(* Every variable stays in its range, whatever the numbers of videos, tenants, *)
(* workers and runs (VideoIngest).                                           *)
THEOREM VideoTypesCorrect == Spec => []TypeOK
<1>1. TypeInv => TypeOK
  BY DEF TypeInv, ProgramInv, TypeOK
<1> QED
  BY <1>1, TypesHold, PTL

=============================================================================
