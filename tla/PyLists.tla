------------------------------ MODULE PyLists ------------------------------
(* What Python's sorted() and list comprehensions make of a list. *)
EXTENDS Integers, Sequences, FiniteSets

(* s, when s[i] belongs before what is at the places after[i]: equals keep the *)
(* order they came in.                                                       *)
Stably(s, after) ==
    LET Place(i) == 1 + Cardinality({j \in DOMAIN s : i \in after[j] \/ (j \notin after[i] /\ j < i)})
    IN  [n \in DOMAIN s |-> s[CHOOSE i \in DOMAIN s : Place(i) = n]]

Sorted(s, Before(_, _)) == Stably(s, [i \in DOMAIN s |-> {j \in DOMAIN s : Before(s[i], s[j])}])

(* What is at the places At, in its order. *)
Taken(s, At) ==
    LET Place(i) == 1 + Cardinality({j \in At : j < i})
    IN  [n \in 1 .. Cardinality(At) |-> s[CHOOSE i \in At : Place(i) = n]]

Filtered(s, Passes(_)) == Taken(s, {i \in DOMAIN s : Passes(s[i])})

=============================================================================
