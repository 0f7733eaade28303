---------------------------- MODULE MCDocIngest ----------------------------
(* Small instances of DocIngest for TLC. *)
EXTENDS DocRefinement, TLC

\* One tenant, and every document a copy of the same content: the case in
\* which the documents of an instance interact.
MCOwner   == [d \in Docs |-> "tenant"]
MCContent == [d \in Docs |-> "sha"]

Symmetry == Permutations(Docs)

=============================================================================
