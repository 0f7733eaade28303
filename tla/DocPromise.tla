----------------------------- MODULE DocPromise -----------------------------
(***************************************************************************)
(* What the service promises a client about a document it accepted,        *)
(* without rows, runs, workers or sweeps: when it may be found, when it may *)
(* not, and which of its lives may follow which.  DocIngest keeps it (module *)
(* DocRefinement).                                                          *)
(*                                                                         *)
(* The promise has two provisos, which the code has too: it is off for a    *)
(* document once two of its runs, or a run and a DELETE, were at work at     *)
(* once, and a document may stay ready while its chunks have been taken: by  *)
(* a DELETE that got no further, or by the purge of a video.                 *)
(***************************************************************************)
CONSTANT Items

VARIABLE life  \* [Items -> what a client is told, what became of its chunks, whether the
               \* first proviso failed]

Stages == {"none", "working", "ready", "refused", "gone"}
Lives  == [stage: Stages, chunks: {"none", "found", "taken"}, tangled: BOOLEAN]

Unknown == [stage |-> "none", chunks |-> "none", tangled |-> FALSE]

PromiseInit == life = [i \in Items |-> Unknown]

-----------------------------------------------------------------------------
(* How one life a may become b.                                            *)

Accept(a, b) == a.stage = "none" /\ b = [a EXCEPT !.stage = "working"]

(* While it is worked on, and after it was refused, its chunks come and go. *)
Work(a, b) == a.stage \in {"working", "refused"} /\ b = [a EXCEPT !.chunks = b.chunks]

(* It is called ready only once its chunks were put there. *)
Publish(a, b) ==
    /\ a.stage \in {"working", "refused"} /\ a.chunks # "none"
    /\ b = [a EXCEPT !.stage = "ready"]

(* Skipped as a duplicate, or failed.  Nothing is taken away, but the upsert that failed *)
(* last may have been applied.                                                           *)
RefuseIt(a, b) ==
    /\ a.stage \in {"working", "ready"}
    /\ b.chunks \in {a.chunks, "found"}
    /\ b = [a EXCEPT !.stage = "refused", !.chunks = b.chunks]

(* Ingested again: it can be found until the new chunks replace the old. *)
Reopen(a, b) == a.stage \in {"ready", "refused"} /\ b = [a EXCEPT !.stage = "working"]

(* Chunks are taken under a document whose stage does not tell. *)
Take(a, b) == a.chunks = "found" /\ b = [a EXCEPT !.chunks = "taken"]

(* Gone is for ever, and only what is not found goes. *)
Remove(a, b) ==
    /\ a.stage \in {"working", "ready", "refused"} /\ a.chunks # "found"
    /\ b = [a EXCEPT !.stage = "gone"]

Tangle(a, b) == b.tangled

Moves(a, b) ==
    \/ Accept(a, b) \/ Work(a, b) \/ Publish(a, b) \/ RefuseIt(a, b) \/ Reopen(a, b)
    \/ Take(a, b) \/ Remove(a, b) \/ Tangle(a, b)

(* Every document lives its own life. *)
PromiseNext ==
    /\ life' \in [Items -> Lives]
    /\ \A i \in Items : life'[i] = life[i] \/ Moves(life[i], life'[i])

PromiseSpec == PromiseInit /\ [][PromiseNext]_life

-----------------------------------------------------------------------------
(* What a client may rely on: a document that is ready is found unless its   *)
(* chunks were taken since they were put there, and one that is gone is not. *)
Kept == \A i \in Items : ~life[i].tangled =>
            /\ life[i].stage = "ready" => life[i].chunks # "none"
            /\ life[i].stage = "gone" => life[i].chunks # "found"

=============================================================================
