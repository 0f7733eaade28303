--------------------------- MODULE DocRefinement ---------------------------
(* DocIngest implements DocPromise: the refinement mapping. *)
EXTENDS DocIngest

(* The stage a client sees is the row's status and nothing else: a document whose DELETE *)
(* was cut short still shows the status it had.                                          *)
StageOf(d) ==
    CASE row[d].st = "unregistered" -> "none"
      [] row[d].st = "deleted"      -> "gone"
      [] row[d].st = "indexed"      -> "ready"
      [] row[d].st \in Active       -> "working"
      [] OTHER                      -> "refused"

ChunksOf(d) == IF d \in index THEN "found" ELSE IF d \in taken THEN "taken" ELSE "none"

LifeOf(d) == [stage |-> StageOf(d), chunks |-> ChunksOf(d), tangled |-> {d} \in met]

Promise == INSTANCE DocPromise WITH Items <- Docs, life <- [d \in Docs |-> LifeOf(d)]

(* Every behaviour of API, Prefect, workers, sweeps and video purges, seen       *)
(* through the row's status and the index, is one the promise allows: no         *)
(* document is ready before its chunks are there, none comes back once it is     *)
(* gone, none goes while it can be found, and a ready one loses its chunks only  *)
(* to a DELETE or a video's purge until it is ingested again.                    *)
ImplementsPromise == Promise!PromiseSpec

=============================================================================
