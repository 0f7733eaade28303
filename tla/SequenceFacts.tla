---------------------------- MODULE SequenceFacts ----------------------------
(***************************************************************************)
(* Facts the proofs about this project's sequences rest on, none of them    *)
(* about the project: induction up to a bound, what a fold from the left     *)
(* computes, and that counting the elements before each one puts a set in   *)
(* order.  Each is stated over sets and functions, never over an operator,   *)
(* so that it can be cited.                                                 *)
(***************************************************************************)
EXTENDS Integers, Sequences, FiniteSets, SequencesExt, PyLists,
        FiniteSetTheorems, SequenceTheorems, WellFoundedInduction, TLAPS

(* A set of numbers has a least one. *)
LEMMA LeastIsMember ==
    ASSUME NEW S \in SUBSET Nat, S # {}
    PROVE  Min(S) \in S /\ \A y \in S : Min(S) <= y
<1> DEFINE R == OpToRel(<, Nat)
<1>1. IsWellFoundedOn(R, Nat)
  BY NatLessThanWellFounded
<1>2. \A x, y \in Nat : y < x => <<y, x>> \in R
  BY DEF OpToRel
<1> HIDE DEF R
<1>3. PICK x \in S : \A y \in S : <<y, x>> \notin R
  BY <1>1, WFMin
<1>4. ASSUME NEW y \in S PROVE x <= y
  <2>1. x \in Nat /\ y \in Nat /\ <<y, x>> \notin R
    BY <1>3
  <2>2. ~(y < x)
    BY <1>2, <2>1
  <2> QED
    BY <2>1, <2>2
<1> QED
  BY <1>4 DEF Min

(* Induction up to n, over the set of numbers a claim holds of. *)
LEMMA Upward ==
    ASSUME NEW n \in Nat, NEW Holds, 0 \in Holds,
           \A k \in 1 .. n : k - 1 \in Holds => k \in Holds
    PROVE  \A k \in 0 .. n : k \in Holds
<1> DEFINE Fails == {k \in 0 .. n : k \notin Holds}
<1>1. SUFFICES ASSUME Fails # {} PROVE FALSE
  OBVIOUS
<1> DEFINE least == Min(Fails)
<1>2. least \in Fails /\ \A k \in Fails : least <= k
  <2>1. Fails \in SUBSET Nat
    OBVIOUS
  <2> QED
    BY <1>1, <2>1, LeastIsMember
<1> HIDE DEF least
<1>3. least \in 1 .. n /\ least - 1 \in 0 .. n
  BY <1>2
<1>4. least - 1 \in Holds
  BY <1>2, <1>3
<1> QED
  BY <1>2, <1>3, <1>4

(* A set of numbers up to n has a greatest one. *)
LEMMA GreatestIsMember ==
    ASSUME NEW n \in Nat, NEW S \in SUBSET (1 .. n), S # {}
    PROVE  Max(S) \in S /\ \A y \in S : y <= Max(S)
<1> DEFINE Turned == {n - y : y \in S}
<1>1. Turned \in SUBSET Nat /\ Turned # {}
  <2>1. \A y \in S : n - y \in Nat
    OBVIOUS
  <2> QED
    BY <2>1
<1>2. PICK m \in Turned : \A y \in Turned : m <= y
  BY <1>1, LeastIsMember
<1>3. PICK x \in S : m = n - x
  BY <1>2
<1>4. \A y \in S : x >= y
  <2> SUFFICES ASSUME NEW y \in S PROVE x >= y
    OBVIOUS
  <2>1. n - y \in Turned
    OBVIOUS
  <2>2. n - x <= n - y /\ x \in Int /\ y \in Int
    BY <1>2, <1>3, <2>1
  <2> QED
    BY <2>2
<1>5. Max(S) \in S /\ \A y \in S : Max(S) >= y
  BY <1>3, <1>4, Zenon DEF Max
<1> QED
  BY <1>5

LEMMA GreatestOfInterval ==
    ASSUME NEW k \in Nat, k > 0
    PROVE  Max(1 .. k) = k /\ (1 .. k) \ {k} = 1 .. k - 1
<1>1. (1 .. k) # {}
  OBVIOUS
<1>2. Max(1 .. k) \in 1 .. k /\ \A y \in 1 .. k : y <= Max(1 .. k)
  BY <1>1, GreatestIsMember
<1> QED
  BY <1>2

(* What MapThenFoldSet evaluates: from b, by the step g, the greatest last.   *)
IsTree(it, n, St, b, g) ==
    /\ it \in [SUBSET (1 .. n) -> St]
    /\ \A U \in SUBSET (1 .. n) :
           it[U] = IF U = {} THEN b ELSE g[<<it[U \ {Max(U)}], Max(U)>>]

(* It exists, whatever the step. *)
LEMMA FoldTree ==
    ASSUME NEW n \in Nat, NEW St, NEW b \in St, NEW g \in [St \X (1 .. n) -> St]
    PROVE  \E it : IsTree(it, n, St, b, g)
<1> DEFINE Grown(m, it) == \A U \in SUBSET (1 .. m) :
                               it[U] = IF U = {} THEN b ELSE g[<<it[U \ {Max(U)}], Max(U)>>]
           Holds == {m \in 0 .. n : \E it \in [SUBSET (1 .. m) -> St] : Grown(m, it)}
<1>1. 0 \in Holds
  <2> DEFINE it == [U \in SUBSET (1 .. 0) |-> b]
  <2>1. it \in [SUBSET (1 .. 0) -> St]
    OBVIOUS
  <2>2. \A U \in SUBSET (1 .. 0) : U = {} /\ it[U] = b
    OBVIOUS
  <2>3. Grown(0, it)
    BY <2>2
  <2>4. 0 \in 0 .. n
    OBVIOUS
  <2> HIDE DEF it, Grown
  <2> QED
    BY <2>1, <2>3, <2>4, Zenon
<1>2. ASSUME NEW k \in 1 .. n, k - 1 \in Holds PROVE k \in Holds
  <2>1. PICK old \in [SUBSET (1 .. k - 1) -> St] : Grown(k - 1, old)
    BY <1>2
  <2>a. k \in Nat /\ k \in 0 .. n /\ k \in 1 .. k
    OBVIOUS
  <2> DEFINE it == [U \in SUBSET (1 .. k) |->
                       IF k \in U THEN g[<<old[U \ {k}], k>>] ELSE old[U]]
  <2>2. ASSUME NEW U \in SUBSET (1 .. k), k \in U
        PROVE  /\ Max(U) = k /\ U \ {k} \in SUBSET (1 .. k - 1) /\ U \ {k} \in SUBSET (1 .. k)
               /\ it[U] = g[<<old[U \ {k}], k>>] /\ it[U \ {k}] = old[U \ {k}]
    <3>0. U # {}
      BY <2>2
    <3>1. Max(U) \in U /\ \A y \in U : y <= Max(U)
      BY <2>a, <3>0, GreatestIsMember
    <3>2. Max(U) = k
      <4>1. k <= Max(U)
        BY <2>2, <3>1
      <4>2. Max(U) \in 1 .. k
        BY <3>1
      <4> QED
        BY <4>1, <4>2
    <3>3. U \ {k} \in SUBSET (1 .. k - 1) /\ U \ {k} \in SUBSET (1 .. k)
      OBVIOUS
    <3> QED
      BY <2>2, <3>2, <3>3
  <2>3. ASSUME NEW U \in SUBSET (1 .. k), k \notin U
        PROVE  U \in SUBSET (1 .. k - 1) /\ it[U] = old[U]
    BY <2>3
  <2>4. it \in [SUBSET (1 .. k) -> St]
    <3> SUFFICES ASSUME NEW U \in SUBSET (1 .. k) PROVE it[U] \in St
      BY Zenon
    <3>1. CASE k \in U
      <4>1. old[U \ {k}] \in St
        BY <2>2, <3>1
      <4>2. <<old[U \ {k}], k>> \in St \X (1 .. n)
        BY <4>1
      <4>3. g[<<old[U \ {k}], k>>] \in St
        BY <4>2
      <4> QED
        BY <2>2, <3>1, <4>3
    <3>2. CASE k \notin U
      BY <2>3, <3>2
    <3> QED
      BY <3>1, <3>2
  <2>5. ASSUME NEW U \in SUBSET (1 .. k)
        PROVE  it[U] = IF U = {} THEN b ELSE g[<<it[U \ {Max(U)}], Max(U)>>]
    <3>1. CASE k \in U
      BY <2>2, <3>1
    <3>2. CASE k \notin U /\ U = {}
      BY <2>1, <2>3, <3>2
    <3>3. CASE k \notin U /\ U # {}
      <4>1. U \in SUBSET (1 .. k - 1) /\ it[U] = old[U]
        BY <2>3, <3>3
      <4>2. Max(U) \in U
        BY <2>a, <3>3, GreatestIsMember
      <4>3. U \ {Max(U)} \in SUBSET (1 .. k) /\ k \notin U \ {Max(U)}
        BY <3>3
      <4>4. it[U \ {Max(U)}] = old[U \ {Max(U)}]
        BY <2>3, <4>3
      <4>5. old[U] = g[<<old[U \ {Max(U)}], Max(U)>>]
        BY <2>1, <3>3, <4>1
      <4> QED
        BY <3>3, <4>1, <4>4, <4>5
    <3> QED
      BY <3>1, <3>2, <3>3
  <2> HIDE DEF it
  <2>6. Grown(k, it)
    BY <2>5
  <2> HIDE DEF Grown
  <2> QED
    BY <2>a, <2>4, <2>6, Zenon
<1> HIDE DEF Holds
<1>3. n \in Holds
  <2>1. \A k \in 1 .. n : k - 1 \in Holds => k \in Holds
    BY <1>2
  <2>2. \A k \in 0 .. n : k \in Holds
    BY <1>1, <2>1, Upward
  <2> QED
    BY <2>2
<1> QED
  BY <1>3, Zenon DEF Holds, IsTree

(* A fold goes by the step g, as long as what it has made is in St. *)
GoesBy(fold, n, St, b, g) ==
    /\ n \in Nat /\ b \in St /\ g \in [St \X (1 .. n) -> St] /\ fold[{}] = b
    /\ \A k \in 1 .. n : fold[1 .. k - 1] \in St => fold[1 .. k] = g[<<fold[1 .. k - 1], k>>]

(* F[k] is what it has made of the first k elements. *)
RunsBy(F, n, St, b, g) ==
    /\ F \in [0 .. n -> St]
    /\ F[0] = b /\ \A k \in 1 .. n : F[k] = g[<<F[k - 1], k>>]

RunsUpTo(fold, n, St, b, g) == \E F : RunsBy(F, n, St, b, g) /\ F[n] = fold[1 .. n]

LEMMA FoldedUp ==
    ASSUME NEW n, NEW St, NEW b, NEW g, NEW fold, GoesBy(fold, n, St, b, g)
    PROVE  RunsUpTo(fold, n, St, b, g)
<1> USE DEF GoesBy
<1> DEFINE Holds == {k \in 0 .. n : fold[1 .. k] \in St}
           F == [k \in 0 .. n |-> fold[1 .. k]]
<1>1. 0 \in Holds /\ F[0] = b
  <2>1. 1 .. 0 = {} /\ 0 \in 0 .. n
    OBVIOUS
  <2> QED
    BY <2>1
<1>2. \A k \in 1 .. n : k - 1 \in Holds => k \in Holds
  <2> SUFFICES ASSUME NEW k \in 1 .. n, fold[1 .. k - 1] \in St PROVE fold[1 .. k] \in St
    OBVIOUS
  <2>1. <<fold[1 .. k - 1], k>> \in St \X (1 .. n)
    OBVIOUS
  <2> QED
    BY <2>1
<1> HIDE DEF Holds
<1>3. \A k \in 0 .. n : k \in Holds
  BY <1>1, <1>2, Upward
<1>4. F \in [0 .. n -> St]
  BY <1>3 DEF Holds
<1>5. ASSUME NEW k \in 1 .. n PROVE F[k] = g[<<F[k - 1], k>>]
  <2>1. k - 1 \in 0 .. n /\ k \in 0 .. n
    OBVIOUS
  <2>2. fold[1 .. k - 1] \in St
    BY <1>3, <2>1 DEF Holds
  <2> QED
    BY <2>1, <2>2
<1>6. F[n] = fold[1 .. n]
  OBVIOUS
<1> HIDE DEF F
<1> QED
  BY <1>1, <1>4, <1>5, <1>6 DEF RunsBy, RunsUpTo

(* R orders the elements of A. *)
Orders(R, A) ==
    /\ \A i \in A : <<i, i>> \notin R
    /\ \A i, j \in A : i # j => <<i, j>> \in R \/ <<j, i>> \in R
    /\ \A i, j, k \in A : <<i, j>> \in R /\ <<j, k>> \in R => <<i, k>> \in R

(* The place of an element is one more than the number of those ahead of it. *)
Counts(place, R, A) ==
    \A i \in A : place[i] = 1 + Cardinality({j \in A : <<j, i>> \in R})

(* p lists the elements of A by their places 1 .. n, in their order.         *)
Lists(p, place, n, R, A) ==
    /\ p \in [1 .. n -> A]
    /\ \A i \in A : place[i] \in 1 .. n /\ p[place[i]] = i
    /\ \A m \in 1 .. n : place[p[m]] = m
    /\ \A m, k \in 1 .. n : m < k => <<p[m], p[k]>> \in R

(* Counting the elements that precede each one puts a finite set in order:   *)
(* the places are 1 .. n, each taken once, in the order that was given.      *)
LEMMA Placed ==
    ASSUME NEW n \in Nat, NEW A, IsFiniteSet(A), Cardinality(A) = n,
           NEW R, Orders(R, A), NEW place, Counts(place, R, A)
    PROVE  \E p : Lists(p, place, n, R, A)
<1> DEFINE Before(i) == {j \in A : <<j, i>> \in R}
<1> USE DEF Orders, Counts
<1>1. \A i \in A : /\ IsFiniteSet(Before(i)) /\ Cardinality(Before(i)) \in Nat
                   /\ place[i] = 1 + Cardinality(Before(i))
  <2> SUFFICES ASSUME NEW i \in A
               PROVE  IsFiniteSet(Before(i)) /\ Cardinality(Before(i)) \in Nat
    OBVIOUS
  <2>1. Before(i) \in SUBSET A
    OBVIOUS
  <2>2. IsFiniteSet(Before(i))
    BY <2>1, FS_Subset
  <2> QED
    BY <2>2, FS_CardinalityType
<1>2. \A i \in A : place[i] \in 1 .. n
  <2> SUFFICES ASSUME NEW i \in A PROVE place[i] \in 1 .. n
    OBVIOUS
  <2>1. IsFiniteSet(A \ {i}) /\ Cardinality(A \ {i}) = n - 1
    BY FS_RemoveElement
  <2>2. Before(i) \in SUBSET (A \ {i})
    OBVIOUS
  <2> HIDE DEF Before
  <2>3. Cardinality(Before(i)) <= n - 1
    BY <2>1, <2>2, FS_Subset
  <2> QED
    BY <1>1, <2>3
<1>3. \A i, j \in A : <<i, j>> \in R => place[i] < place[j]
  <2> SUFFICES ASSUME NEW i \in A, NEW j \in A, <<i, j>> \in R PROVE place[i] < place[j]
    OBVIOUS
  <2>1. IsFiniteSet(Before(i) \cup {i}) /\ Cardinality(Before(i) \cup {i}) = Cardinality(Before(i)) + 1
    <3>1. i \notin Before(i)
      OBVIOUS
    <3> QED
      BY <1>1, <3>1, FS_AddElement
  <2>2. Before(i) \cup {i} \in SUBSET Before(j)
    OBVIOUS
  <2> HIDE DEF Before
  <2>3. Cardinality(Before(i) \cup {i}) <= Cardinality(Before(j))
    BY <1>1, <2>2, FS_Subset
  <2> QED
    BY <1>1, <2>1, <2>3
<1> HIDE DEF Before
<1> DEFINE f == [i \in A |-> place[i]]
<1>4. f \in Injection(A, 1 .. n)
  <2>1. f \in [A -> 1 .. n]
    BY <1>2
  <2>2. \A i, j \in A : f[i] = f[j] => i = j
    <3> SUFFICES ASSUME NEW i \in A, NEW j \in A, f[i] = f[j], i # j PROVE FALSE
      OBVIOUS
    <3>1. place[i] < place[j] \/ place[j] < place[i]
      BY <1>3
    <3> QED
      BY <1>2, <3>1
  <2> QED
    BY <2>1, <2>2 DEF Injection, IsInjective
<1>5. f \in Surjection(A, 1 .. n)
  <2>1. IsFiniteSet(1 .. n) /\ Cardinality(1 .. n) = n
    BY FS_Interval
  <2> HIDE DEF f
  <2> QED
    BY <1>4, <2>1, FS_Injection
<1>6. \A m \in 1 .. n : \E i \in A : place[i] = m
  BY <1>5 DEF Surjection
<1> HIDE DEF f
<1> DEFINE p == [m \in 1 .. n |-> CHOOSE i \in A : place[i] = m]
<1>7. \A m \in 1 .. n : p[m] \in A /\ place[p[m]] = m
  BY <1>6
<1>8. p \in [1 .. n -> A]
  BY <1>7
<1> HIDE DEF p
<1>9. \A i, j \in A : place[i] = place[j] => i = j
  <2> SUFFICES ASSUME NEW i \in A, NEW j \in A, place[i] = place[j], i # j PROVE FALSE
    OBVIOUS
  <2>1. place[i] < place[j] \/ place[j] < place[i]
    BY <1>3
  <2> QED
    BY <1>2, <2>1
<1>10. \A i \in A : p[place[i]] = i
  BY <1>2, <1>7, <1>9
<1>11. \A m, k \in 1 .. n : m < k => <<p[m], p[k]>> \in R
  <2> SUFFICES ASSUME NEW m \in 1 .. n, NEW k \in 1 .. n, m < k, <<p[m], p[k]>> \notin R
               PROVE  FALSE
    OBVIOUS
  <2>1. p[m] \in A /\ p[k] \in A /\ place[p[m]] = m /\ place[p[k]] = k
    BY <1>7
  <2>2. p[m] # p[k]
    BY <2>1
  <2>3. place[p[k]] < place[p[m]]
    BY <1>3, <2>1, <2>2
  <2> QED
    BY <2>1, <2>3
<1>12. Lists(p, place, n, R, A)
  BY <1>2, <1>7, <1>8, <1>10, <1>11 DEF Lists
<1> QED
  BY <1>12

(* B says which of 1 .. n is better than which, as a comparison of keys does. *)
Prefers(B, n) ==
    /\ \A i, j \in 1 .. n : <<i, j>> \in B => <<j, i>> \notin B
    /\ \A i, j, k \in 1 .. n : <<i, j>> \notin B /\ <<j, k>> \notin B => <<i, k>> \notin B

(* Ahead are those that are better, and those that are no worse and came first. *)
CountsStably(place, B, n) ==
    \A i \in 1 .. n : place[i] = 1 + Cardinality({j \in 1 .. n :
        <<j, i>> \in B \/ (<<i, j>> \notin B /\ j < i)})

(* p is an arrangement of 1 .. n. *)
Arranges(p, n) ==
    /\ p \in [1 .. n -> 1 .. n]
    /\ \A i \in 1 .. n : \E m \in 1 .. n : p[m] = i
    /\ \A m, k \in 1 .. n : p[m] = p[k] => m = k

(* It puts each one in its place, and nothing after what it is better than. *)
Sorts(p, place, B, n) ==
    /\ \A m, i \in 1 .. n : place[i] = m <=> p[m] = i
    /\ \A m, k \in 1 .. n : m < k => <<p[k], p[m]>> \notin B

(* What a stable sort does. *)
LEMMA Arranged ==
    ASSUME NEW n \in Nat, NEW B, Prefers(B, n), NEW place, CountsStably(place, B, n)
    PROVE  \E p : Arranges(p, n) /\ Sorts(p, place, B, n)
<1> USE DEF Prefers, CountsStably
<1> DEFINE R == {x \in (1 .. n) \X (1 .. n) :
                    <<x[1], x[2]>> \in B \/ (<<x[2], x[1]>> \notin B /\ x[1] < x[2])}
<1>1. \A i, j \in 1 .. n : <<i, j>> \in R <=> <<i, j>> \in B \/ (<<j, i>> \notin B /\ i < j)
  OBVIOUS
<1> HIDE DEF R
<1>2. IsFiniteSet(1 .. n) /\ Cardinality(1 .. n) = n
  BY FS_Interval
<1>3. \A i \in 1 .. n : <<i, i>> \notin R
  BY <1>1
<1>4. \A i, j \in 1 .. n : i # j => <<i, j>> \in R \/ <<j, i>> \in R
  <2> SUFFICES ASSUME NEW i \in 1 .. n, NEW j \in 1 .. n, i # j
               PROVE  <<i, j>> \in R \/ <<j, i>> \in R
    OBVIOUS
  <2>1. i < j \/ j < i
    OBVIOUS
  <2> QED
    BY <1>1, <2>1
<1>5. \A i, j, k \in 1 .. n : <<i, j>> \in R /\ <<j, k>> \in R => <<i, k>> \in R
  <2> SUFFICES ASSUME NEW i \in 1 .. n, NEW j \in 1 .. n, NEW k \in 1 .. n,
                      <<i, j>> \in R, <<j, k>> \in R
               PROVE  <<i, k>> \in R
    OBVIOUS
  <2>1. <<i, j>> \in B \/ (<<j, i>> \notin B /\ i < j)
    BY <1>1
  <2>2. <<j, k>> \in B \/ (<<k, j>> \notin B /\ j < k)
    BY <1>1
  <2>3. CASE <<i, j>> \in B \/ <<j, k>> \in B
    <3>1. <<i, k>> \in B
      BY <2>1, <2>2, <2>3
    <3> QED
      BY <1>1, <3>1
  <2>4. CASE <<j, i>> \notin B /\ i < j /\ <<k, j>> \notin B /\ j < k
    <3>1. <<k, i>> \notin B
      BY <2>4
    <3>2. i < k
      BY <2>4
    <3> QED
      BY <1>1, <3>1, <3>2
  <2> QED
    BY <2>1, <2>2, <2>3, <2>4
<1>6. \A i \in 1 .. n : place[i] = 1 + Cardinality({j \in 1 .. n : <<j, i>> \in R})
  <2> SUFFICES ASSUME NEW i \in 1 .. n
               PROVE  place[i] = 1 + Cardinality({j \in 1 .. n : <<j, i>> \in R})
    OBVIOUS
  <2>1. {j \in 1 .. n : <<j, i>> \in R}
            = {j \in 1 .. n : <<j, i>> \in B \/ (<<i, j>> \notin B /\ j < i)}
    BY <1>1
  <2> QED
    BY <2>1
<1>7. PICK p : Lists(p, place, n, R, 1 .. n)
  <2>1. Orders(R, 1 .. n)
    BY <1>3, <1>4, <1>5 DEF Orders
  <2>2. Counts(place, R, 1 .. n)
    BY <1>6 DEF Counts
  <2> QED
    BY <1>2, <2>1, <2>2, Placed
<1> USE DEF Lists
<1>8. Arranges(p, n)
  <2>1. \A i \in 1 .. n : \E m \in 1 .. n : p[m] = i
    BY <1>7
  <2>2. \A m, k \in 1 .. n : p[m] = p[k] => m = k
    BY <1>7
  <2> QED
    BY <1>7, <2>1, <2>2 DEF Arranges
<1>9. \A m, i \in 1 .. n : place[i] = m <=> p[m] = i
  BY <1>7
<1>10. \A m, k \in 1 .. n : m < k => <<p[k], p[m]>> \notin B
  <2> SUFFICES ASSUME NEW m \in 1 .. n, NEW k \in 1 .. n, m < k
               PROVE  <<p[k], p[m]>> \notin B
    OBVIOUS
  <2>1. <<p[m], p[k]>> \in R /\ p[m] \in 1 .. n /\ p[k] \in 1 .. n
    BY <1>7
  <2> QED
    BY <1>1, <2>1
<1> QED
  BY <1>8, <1>9, <1>10 DEF Sorts

CountsAmong(place, At) ==
    \A i \in At : place[i] = 1 + Cardinality({j \in At : j < i})

(* p lists the numbers of At, the smaller first, and each in its place. *)
Selects(p, place, At) ==
    /\ Cardinality(At) \in Nat
    /\ p \in [1 .. Cardinality(At) -> At]
    /\ \A m \in 1 .. Cardinality(At), i \in At : place[i] = m <=> p[m] = i
    /\ \A m, k \in 1 .. Cardinality(At) : m < k => p[m] < p[k]
    /\ \A i \in At : \E m \in 1 .. Cardinality(At) : p[m] = i

(* What a list comprehension does. *)
LEMMA Picked ==
    ASSUME NEW n \in Nat, NEW At \in SUBSET (1 .. n), NEW place, CountsAmong(place, At)
    PROVE  \E p : Selects(p, place, At)
<1> USE DEF CountsAmong
<1> DEFINE R == {x \in At \X At : x[1] < x[2]}
<1>1. \A i, j \in At : <<i, j>> \in R <=> i < j
  OBVIOUS
<1> HIDE DEF R
<1>2. IsFiniteSet(At) /\ Cardinality(At) \in Nat
  <2>1. IsFiniteSet(1 .. n)
    BY FS_Interval
  <2>2. IsFiniteSet(At)
    BY <2>1, FS_Subset
  <2> QED
    BY <2>2, FS_CardinalityType
<1>3. Orders(R, At)
  <2>1. \A i \in At : <<i, i>> \notin R
    BY <1>1
  <2>2. \A i, j \in At : i # j => <<i, j>> \in R \/ <<j, i>> \in R
    <3> SUFFICES ASSUME NEW i \in At, NEW j \in At, i # j PROVE i < j \/ j < i
      BY <1>1
    <3> QED
      OBVIOUS
  <2>3. \A i, j, k \in At : <<i, j>> \in R /\ <<j, k>> \in R => <<i, k>> \in R
    <3> SUFFICES ASSUME NEW i \in At, NEW j \in At, NEW k \in At, i < j, j < k PROVE i < k
      BY <1>1
    <3> QED
      OBVIOUS
  <2> QED
    BY <2>1, <2>2, <2>3 DEF Orders
<1>4. Counts(place, R, At)
  <2> SUFFICES ASSUME NEW i \in At
               PROVE  place[i] = 1 + Cardinality({j \in At : <<j, i>> \in R})
    BY DEF Counts
  <2>1. {j \in At : <<j, i>> \in R} = {j \in At : j < i}
    BY <1>1
  <2> QED
    BY <2>1
<1>5. PICK p : Lists(p, place, Cardinality(At), R, At)
  BY <1>2, <1>3, <1>4, Placed
<1>6. /\ p \in [1 .. Cardinality(At) -> At]
      /\ \A i \in At : place[i] \in 1 .. Cardinality(At) /\ p[place[i]] = i
      /\ \A m \in 1 .. Cardinality(At) : place[p[m]] = m
      /\ \A m, k \in 1 .. Cardinality(At) : m < k => <<p[m], p[k]>> \in R
  BY <1>5 DEF Lists
<1>7. \A m \in 1 .. Cardinality(At), i \in At : place[i] = m <=> p[m] = i
  BY <1>6
<1>8. \A m, k \in 1 .. Cardinality(At) : m < k => p[m] < p[k]
  BY <1>1, <1>6
<1>9. \A i \in At : \E m \in 1 .. Cardinality(At) : p[m] = i
  BY <1>6
<1> QED
  BY <1>2, <1>6, <1>7, <1>8, <1>9 DEF Selects

(* r has the elements of s in another order. *)
Rearranges(r, s) == \E p : Arranges(p, Len(s)) /\ r = [m \in 1 .. Len(s) |-> s[p[m]]]

LEMMA RearrangedSeq ==
    ASSUME NEW S, NEW s \in Seq(S), NEW r, Rearranges(r, s)
    PROVE  /\ r \in Seq(S) /\ Len(r) = Len(s)
           /\ \A m \in 1 .. Len(s) : \E i \in 1 .. Len(s) : r[m] = s[i]
           /\ \A i \in 1 .. Len(s) : \E m \in 1 .. Len(s) : r[m] = s[i]
<1>1. PICK p : Arranges(p, Len(s)) /\ r = [m \in 1 .. Len(s) |-> s[p[m]]]
  BY DEF Rearranges
<1>2. \A m \in 1 .. Len(s) : p[m] \in 1 .. Len(s) /\ r[m] = s[p[m]] /\ r[m] \in S
  BY <1>1, ElementOfSeq DEF Arranges
<1>3. r \in Seq(S) /\ Len(r) = Len(s)
  <2>1. Len(s) \in Nat
    BY LenProperties
  <2>2. r \in [1 .. Len(s) -> S]
    BY <1>1, <1>2
  <2> QED
    BY <2>1, <2>2
<1> QED
  BY <1>1, <1>2, <1>3 DEF Arranges

(* The same, of the sets of what each one belongs before. *)
Consistent(after, n) ==
    /\ \A i, j \in 1 .. n : j \in after[i] => i \notin after[j]
    /\ \A i, j, k \in 1 .. n : j \notin after[i] /\ k \notin after[j] => k \notin after[i]

(* What PyLists says of a stable sort: it arranges, and puts nothing after    *)
(* what it belongs before.                                                   *)
LEMMA StablySorted ==
    ASSUME NEW S, NEW s \in Seq(S), NEW after, Consistent(after, Len(s))
    PROVE  \E p : /\ Arranges(p, Len(s))
                  /\ Stably(s, after) = [m \in 1 .. Len(s) |-> s[p[m]]]
                  /\ \A m, k \in 1 .. Len(s) : m < k => p[m] \notin after[p[k]]
<1> DEFINE n == Len(s)
           Ahead(i) == {j \in DOMAIN s : i \in after[j] \/ (j \notin after[i] /\ j < i)}
           B == {x \in (1 .. n) \X (1 .. n) : x[2] \in after[x[1]]}
           place == [i \in 1 .. n |-> 1 + Cardinality(Ahead(i))]
<1>1. n \in Nat /\ DOMAIN s = 1 .. n
  BY LenProperties
<1>2. Stably(s, after) = [m \in DOMAIN s |-> s[CHOOSE i \in DOMAIN s : 1 + Cardinality(Ahead(i)) = m]]
  BY Zenon DEF Stably
<1>0. \A i, j \in 1 .. n : <<i, j>> \in B <=> j \in after[i]
  OBVIOUS
<1> HIDE DEF B
<1>3. CountsStably(place, B, n)
  <2> SUFFICES ASSUME NEW i \in 1 .. n
               PROVE  {j \in 1 .. n : <<j, i>> \in B \/ (<<i, j>> \notin B /\ j < i)} = Ahead(i)
    BY DEF CountsStably
  <2> QED
    BY <1>0, <1>1
<1>7. Prefers(B, n)
  BY <1>0 DEF Prefers, Consistent
<1> HIDE DEF Ahead
<1>4. PICK p : Arranges(p, n) /\ Sorts(p, place, B, n)
  BY <1>1, <1>3, <1>7, Arranged
<1>5. \A m \in 1 .. n : (CHOOSE i \in DOMAIN s : 1 + Cardinality(Ahead(i)) = m) = p[m]
  <2> SUFFICES ASSUME NEW m \in 1 .. n
               PROVE  (CHOOSE i \in DOMAIN s : 1 + Cardinality(Ahead(i)) = m) = p[m]
    OBVIOUS
  <2>1. \A i \in 1 .. n : 1 + Cardinality(Ahead(i)) = m <=> p[m] = i
    BY <1>4 DEF Sorts
  <2>2. p[m] \in 1 .. n
    BY <1>4 DEF Arranges
  <2> QED
    BY <1>1, <2>1, <2>2
<1>6. Stably(s, after) = [m \in 1 .. n |-> s[p[m]]]
  BY <1>1, <1>2, <1>5
<1>8. \A m, k \in 1 .. n : m < k => p[m] \notin after[p[k]]
  BY <1>0, <1>4 DEF Sorts, Arranges
<1> QED
  BY <1>4, <1>6, <1>8

(* p lists the numbers of At, the smaller first. *)
Picks(p, At) ==
    /\ Cardinality(At) \in Nat
    /\ p \in [1 .. Cardinality(At) -> At]
    /\ \A m, k \in 1 .. Cardinality(At) : m < k => p[m] < p[k]
    /\ \A i \in At : \E m \in 1 .. Cardinality(At) : p[m] = i

(* r has the elements of s at the places At, in their order. *)
SubList(r, s, At) == \E p : Picks(p, At) /\ r = [m \in 1 .. Cardinality(At) |-> s[p[m]]]

(* What PyLists says of a comprehension. *)
LEMMA TakenInOrder ==
    ASSUME NEW S, NEW s \in Seq(S), NEW At \in SUBSET (1 .. Len(s))
    PROVE  SubList(Taken(s, At), s, At)
<1> DEFINE n == Len(s)
           Place(i) == 1 + Cardinality({j \in At : j < i})
           place == [i \in At |-> Place(i)]
<1>1. n \in Nat
  BY LenProperties
<1>2. Taken(s, At) = [m \in 1 .. Cardinality(At) |-> s[CHOOSE i \in At : Place(i) = m]]
  BY Zenon DEF Taken
<1>3. CountsAmong(place, At)
  BY DEF CountsAmong
<1> HIDE DEF Place
<1>4. PICK p : Selects(p, place, At)
  BY <1>1, <1>3, Picked
<1>5. \A m \in 1 .. Cardinality(At) : (CHOOSE i \in At : Place(i) = m) = p[m]
  <2> SUFFICES ASSUME NEW m \in 1 .. Cardinality(At)
               PROVE  (CHOOSE i \in At : Place(i) = m) = p[m]
    OBVIOUS
  <2>1. p[m] \in At /\ \A i \in At : Place(i) = m <=> p[m] = i
    BY <1>4 DEF Selects
  <2> QED
    BY <2>1
<1>6. Taken(s, At) = [m \in 1 .. Cardinality(At) |-> s[p[m]]]
  BY <1>2, <1>5
<1>7. Picks(p, At)
  BY <1>4 DEF Selects, Picks
<1> QED
  BY <1>6, <1>7 DEF SubList

(* What stands together is taken as it stands. *)
LEMMA TakenInterval ==
    ASSUME NEW s, NEW a \in Nat, NEW m \in Nat
    PROVE  Taken(s, a + 1 .. a + m) = [k \in 1 .. m |-> s[a + k]]
<1> DEFINE At == a + 1 .. a + m
           Place(i) == 1 + Cardinality({j \in At : j < i})
<1>1. Taken(s, At) = [k \in 1 .. Cardinality(At) |-> s[CHOOSE i \in At : Place(i) = k]]
  BY Zenon DEF Taken
<1>2. Cardinality(At) = m
  BY FS_Interval
<1>3. ASSUME NEW i \in At PROVE Place(i) = i - a
  <2>1. {j \in At : j < i} = a + 1 .. i - 1
    OBVIOUS
  <2>2. Cardinality(a + 1 .. i - 1) = i - 1 - a
    <3>1. a + 1 \in Int /\ i - 1 \in Int /\ i - 1 >= a
      OBVIOUS
    <3> QED
      BY <3>1, FS_Interval
  <2>3. Cardinality({j \in At : j < i}) = i - 1 - a
    BY <2>1, <2>2, Zenon
  <2>4. i \in Int /\ 1 + (i - 1 - a) = i - a
    OBVIOUS
  <2> HIDE DEF At
  <2> QED
    BY <2>3, <2>4
<1>4. \A k \in 1 .. m : a + k \in At /\ \A i \in At : i - a = k <=> i = a + k
  OBVIOUS
<1> HIDE DEF At, Place
<1>5. \A k \in 1 .. m : (CHOOSE i \in At : Place(i) = k) = a + k
  BY <1>3, <1>4
<1> QED
  BY <1>1, <1>2, <1>5 DEF At

(* These are all of them, and no other. *)
Those(r, s, At) ==
    /\ \A m \in 1 .. Len(r) : \E i \in At : r[m] = s[i]
    /\ \A i \in At : \E m \in 1 .. Len(r) : r[m] = s[i]

InOrder(r, s, At) ==
    \A m, k \in 1 .. Len(r) : m < k => \E i, j \in At : i < j /\ r[m] = s[i] /\ r[k] = s[j]

LEMMA SubListSeq ==
    ASSUME NEW S, NEW s \in Seq(S), NEW At \in SUBSET (1 .. Len(s)), NEW r, SubList(r, s, At)
    PROVE  /\ r \in Seq(S) /\ Len(r) = Cardinality(At) /\ Len(r) <= Len(s)
           /\ Those(r, s, At) /\ InOrder(r, s, At)
<1>1. PICK p : Picks(p, At) /\ r = [m \in 1 .. Cardinality(At) |-> s[p[m]]]
  BY DEF SubList
<1> DEFINE n == Cardinality(At)
<1>2. /\ n \in Nat /\ Len(s) \in Nat
      /\ \A m \in 1 .. n : p[m] \in At /\ r[m] = s[p[m]]
      /\ \A m, k \in 1 .. n : m < k => p[m] < p[k]
      /\ \A i \in At : \E m \in 1 .. n : p[m] = i
  BY <1>1, LenProperties DEF Picks
<1>3. n <= Len(s)
  <2>1. IsFiniteSet(1 .. Len(s)) /\ Cardinality(1 .. Len(s)) = Len(s)
    <3>1. 1 \in Int /\ Len(s) \in Int /\ Len(s) >= 0
      BY <1>2
    <3>2. /\ IsFiniteSet(1 .. Len(s))
          /\ Cardinality(1 .. Len(s)) = IF 1 > Len(s) THEN 0 ELSE Len(s) - 1 + 1
      BY <3>1, FS_Interval
    <3> QED
      BY <3>1, <3>2
  <2>2. Cardinality(At) <= Cardinality(1 .. Len(s))
    BY <2>1, FS_Subset
  <2> QED
    BY <2>1, <2>2
<1>4. r \in [1 .. n -> S]
  <2>1. \A m \in 1 .. n : s[p[m]] \in S
    BY <1>2, ElementOfSeq
  <2> QED
    BY <1>1, <2>1
<1> HIDE DEF n
<1>5. r \in Seq(S) /\ Len(r) = n
  BY <1>2, <1>4
<1>6. \A m \in 1 .. Len(r) : \E i \in At : r[m] = s[i]
  BY <1>2, <1>5
<1>7. \A i \in At : \E m \in 1 .. Len(r) : r[m] = s[i]
  <2> SUFFICES ASSUME NEW i \in At PROVE \E m \in 1 .. Len(r) : r[m] = s[i]
    OBVIOUS
  <2>1. PICK m \in 1 .. n : p[m] = i
    BY <1>2
  <2> QED
    BY <1>2, <1>5, <2>1
<1>8. InOrder(r, s, At)
  BY <1>2, <1>5 DEF InOrder
<1> QED
  BY <1>3, <1>5, <1>6, <1>7, <1>8 DEF n, Those

LEMMA SubListFits ==
    ASSUME NEW S, NEW s \in Seq(S), NEW At \in SUBSET (1 .. Len(s)), NEW r, SubList(r, s, At),
           NEW T, \A i \in At : s[i] \in T
    PROVE  r \in Seq(T) /\ Len(r) <= Len(s)
<1>1. r \in Seq(S) /\ Len(r) = Cardinality(At) /\ Len(r) <= Len(s)
  BY SubListSeq
<1>2. Len(r) \in Nat /\ r \in [1 .. Len(r) -> S]
  BY <1>1, LenProperties
<1>3. PICK p : Picks(p, At) /\ r = [m \in 1 .. Cardinality(At) |-> s[p[m]]]
  BY DEF SubList
<1>4. \A m \in 1 .. Len(r) : r[m] = s[p[m]] /\ p[m] \in At
  BY <1>1, <1>3 DEF Picks
<1>5. r \in [1 .. Len(r) -> T]
  BY <1>2, <1>4
<1> QED
  BY <1>1, <1>2, <1>5

(* Numbering the members of a set of numbers uses 1 up to how many they are. *)
LEMMA Numbered ==
    ASSUME NEW n \in Nat, NEW At \in SUBSET (1 .. n)
    PROVE  /\ Cardinality(At) \in Nat
           /\ \A i \in At : Cardinality({j \in At : j <= i}) \in 1 .. Cardinality(At)
           /\ \A m \in 1 .. Cardinality(At) : \E i \in At : Cardinality({j \in At : j <= i}) = m
<1> DEFINE place == [i \in At |-> 1 + Cardinality({j \in At : j < i})]
<1>1. CountsAmong(place, At)
  BY DEF CountsAmong
<1> HIDE DEF place
<1>2. PICK p : Selects(p, place, At)
  BY <1>1, Picked
<1>3. \A i \in At : Cardinality({j \in At : j <= i}) = place[i]
  <2> SUFFICES ASSUME NEW i \in At PROVE Cardinality({j \in At : j <= i}) = place[i]
    OBVIOUS
  <2> DEFINE B == {j \in At : j < i}
  <2>1. {j \in At : j <= i} = B \cup {i} /\ i \notin B
    <3>1. i \in Int /\ \A j \in At : j \in Int
      OBVIOUS
    <3>2. \A j \in At : j <= i <=> j < i \/ j = i
      BY <3>1
    <3>3. \A j : j \in {k \in At : k <= i} <=> j \in B \cup {i}
      BY <3>2
    <3>4. i \notin B
      BY <3>1
    <3> HIDE DEF B
    <3> QED
      BY <3>3, <3>4
  <2>2. IsFiniteSet(B)
    <3>1. B \in SUBSET (1 .. n)
      OBVIOUS
    <3> QED
      BY <3>1, FS_Interval, FS_Subset
  <2>3. place[i] = 1 + Cardinality(B)
    BY <1>1 DEF CountsAmong
  <2> HIDE DEF B
  <2>4. Cardinality(B \cup {i}) = Cardinality(B) + 1 /\ Cardinality(B) \in Nat
    BY <2>1, <2>2, FS_AddElement, FS_CardinalityType
  <2> QED
    BY <2>1, <2>3, <2>4
<1>4. \A m \in 1 .. Cardinality(At) : p[m] \in At /\ place[p[m]] = m
  BY <1>2 DEF Selects
<1>5. \A i \in At : \E m \in 1 .. Cardinality(At) : place[i] = m
  <2> SUFFICES ASSUME NEW i \in At PROVE \E m \in 1 .. Cardinality(At) : place[i] = m
    OBVIOUS
  <2>1. PICK m \in 1 .. Cardinality(At) : p[m] = i
    BY <1>2 DEF Selects
  <2> QED
    BY <1>2, <2>1 DEF Selects
<1>6. \A m \in 1 .. Cardinality(At) : \E i \in At : Cardinality({j \in At : j <= i}) = m
  <2> SUFFICES ASSUME NEW m \in 1 .. Cardinality(At)
               PROVE  \E i \in At : Cardinality({j \in At : j <= i}) = m
    OBVIOUS
  <2>1. p[m] \in At /\ place[p[m]] = m
    BY <1>4
  <2>2. Cardinality({j \in At : j <= p[m]}) = m
    BY <1>3, <2>1
  <2> QED
    BY <2>1, <2>2
<1>7. \A i \in At : Cardinality({j \in At : j <= i}) \in 1 .. Cardinality(At)
  BY <1>3, <1>5
<1> QED
  BY <1>2, <1>6, <1>7 DEF Selects

(* FlattenSeq puts the sequences together from the left. *)
LEMMA Flattening ==
    ASSUME NEW S, NEW lists \in Seq(Seq(S)), lists # <<>>
    PROVE  \E F \in [1 .. Len(lists) -> Seq(S)] :
               /\ FlattenSeq(lists) = F[Len(lists)]
               /\ \A k \in 1 .. Len(lists) : F[k] = IF k = 1 THEN lists[k] ELSE F[k - 1] \o lists[k]
<1> DEFINE n == Len(lists)
           St == Seq(S)
           g == [x \in St \X (1 .. n) |-> x[1] \o lists[x[2]]]
           IsFlat(f) == f = [i \in 1 .. n |-> IF i = 1 THEN lists[i] ELSE f[i - 1] \o lists[i]]
           flat == CHOOSE f : IsFlat(f)
<1>1. n \in Nat /\ n # 0 /\ \A i \in 1 .. n : lists[i] \in St
  BY LenProperties, ElementOfSeq, EmptySeq
<1>2. \A x \in St, y \in St : x \o y \in St
  BY ConcatProperties
<1>3. g \in [St \X (1 .. n) -> St]
  BY <1>1, <1>2
<1>4. <<>> \in St
  BY EmptySeq
<1>5. \A x \in St, k \in 1 .. n : g[<<x, k>>] = x \o lists[k]
  OBVIOUS
<1>6. FlattenSeq(lists) = flat[n]
  BY <1>1, Zenon DEF FlattenSeq
<1> HIDE DEF St, g, flat
<1>7. PICK it : IsTree(it, n, St, <<>>, g)
  BY <1>1, <1>3, <1>4, FoldTree
<1> DEFINE F == [k \in 1 .. n |-> it[1 .. k]]
<1>8. \A k \in 1 .. n : F[k] \in St /\ F[k] = IF k = 1 THEN lists[k] ELSE F[k - 1] \o lists[k]
  <2> SUFFICES ASSUME NEW k \in 1 .. n
               PROVE  /\ it[1 .. k] \in St
                      /\ it[1 .. k] = IF k = 1 THEN lists[k] ELSE it[1 .. k - 1] \o lists[k]
    BY <1>1
  <2>1. Max(1 .. k) = k /\ (1 .. k) \ {k} = 1 .. k - 1
    BY <1>1, GreatestOfInterval
  <2>2. (1 .. k) \in SUBSET (1 .. n) /\ (1 .. k - 1) \in SUBSET (1 .. n) /\ k \in 1 .. k
    BY <1>1
  <2>3. it[1 .. k - 1] \in St /\ it[1 .. k] \in St
    BY <1>7, <2>2 DEF IsTree
  <2>4. it[1 .. k] = g[<<it[1 .. k - 1], k>>]
    BY <1>7, <2>1, <2>2 DEF IsTree
  <2>5. it[1 .. k] = it[1 .. k - 1] \o lists[k]
    BY <1>5, <2>3, <2>4
  <2>6. CASE k = 1
    <3>1. 1 .. k - 1 = {}
      BY <2>6
    <3>2. it[1 .. k - 1] = <<>>
      BY <1>7, <3>1 DEF IsTree
    <3>3. <<>> \o lists[k] = lists[k]
      BY <1>1, ConcatEmptySeq DEF St
    <3> QED
      BY <2>3, <2>5, <2>6, <3>2, <3>3
  <2> QED
    BY <2>3, <2>5, <2>6
<1> HIDE DEF F
<1>9. IsFlat(F)
  BY <1>8 DEF F
<1>10. IsFlat(flat)
  BY <1>9, Zenon DEF flat
<1>11. \A k \in 1 .. n : flat[k] = IF k = 1 THEN lists[k] ELSE flat[k - 1] \o lists[k]
  BY <1>10
<1>12. DOMAIN flat = 1 .. n /\ flat = [i \in DOMAIN flat |-> flat[i]]
  BY <1>10
<1> DEFINE Holds == {k \in 0 .. n : k = 0 \/ flat[k] \in St}
<1> HIDE DEF IsFlat
<1>13. \A k \in 1 .. n : k - 1 \in Holds => k \in Holds
  <2> SUFFICES ASSUME NEW k \in 1 .. n, k - 1 = 0 \/ flat[k - 1] \in St PROVE flat[k] \in St
    BY <1>1
  <2>1. CASE k = 1
    BY <1>1, <1>11, <2>1
  <2>2. CASE k # 1
    BY <1>1, <1>2, <1>11, <2>2
  <2> QED
    BY <2>1, <2>2
<1>14. 0 \in Holds
  BY <1>1
<1> HIDE DEF Holds
<1>15. \A k \in 0 .. n : k \in Holds
  BY <1>1, <1>13, <1>14, Upward
<1>16. \A k \in 1 .. n : flat[k] \in St
  BY <1>1, <1>15 DEF Holds
<1>17. flat \in [1 .. n -> St]
  BY <1>12, <1>16
<1> QED
  BY <1>6, <1>11, <1>17 DEF St

(* So one more at the end goes to the end. *)
LEMMA FlattenedAppend ==
    ASSUME NEW S, NEW lists \in Seq(Seq(S)), NEW t \in Seq(S)
    PROVE  /\ FlattenSeq(lists) \in Seq(S)
           /\ FlattenSeq(Append(lists, t)) = FlattenSeq(lists) \o t
<1> DEFINE n == Len(lists)
           more == Append(lists, t)
<1>1. n \in Nat /\ \A i \in 1 .. n : lists[i] \in Seq(S)
  BY LenProperties, ElementOfSeq
<1>2. more \in Seq(Seq(S)) /\ Len(more) = n + 1 /\ more[n + 1] = t /\ \A i \in 1 .. n : more[i] = lists[i]
  BY AppendProperties
<1>3. more # <<>>
  BY <1>1, <1>2, EmptySeq
<1> HIDE DEF more
<1>4. PICK G \in [1 .. Len(more) -> Seq(S)] :
          /\ FlattenSeq(more) = G[Len(more)]
          /\ \A k \in 1 .. Len(more) : G[k] = IF k = 1 THEN more[k] ELSE G[k - 1] \o more[k]
  BY <1>2, <1>3, Flattening
<1>5. CASE lists = <<>>
  <2>1. FlattenSeq(lists) = <<>> /\ n = 0
    BY <1>5, EmptySeq, Zenon DEF FlattenSeq
  <2>2. FlattenSeq(more) = t
    BY <1>2, <1>4, <2>1
  <2>3. <<>> \o t = t
    BY ConcatEmptySeq
  <2> QED
    BY <2>1, <2>2, <2>3, EmptySeq DEF more
<1>6. CASE lists # <<>>
  <2>1. PICK F \in [1 .. n -> Seq(S)] :
            /\ FlattenSeq(lists) = F[n]
            /\ \A k \in 1 .. n : F[k] = IF k = 1 THEN lists[k] ELSE F[k - 1] \o lists[k]
    BY <1>6, Flattening
  <2>2. n # 0
    BY <1>6, EmptySeq
  <2>a. n \in 1 .. n /\ n \in 0 .. n /\ n + 1 \in 1 .. Len(more) /\ n + 1 # 1 /\ (n + 1) - 1 = n
    BY <1>1, <1>2, <2>2
  <2> DEFINE Holds == {k \in 0 .. n : k = 0 \/ G[k] = F[k]}
  <2>3. \A k \in 1 .. n : k - 1 \in Holds => k \in Holds
    <3> SUFFICES ASSUME NEW k \in 1 .. n, k - 1 = 0 \/ G[k - 1] = F[k - 1] PROVE G[k] = F[k]
      BY <1>1
    <3>1. k \in 1 .. Len(more) /\ more[k] = lists[k]
      BY <1>1, <1>2
    <3>2. G[k] = IF k = 1 THEN lists[k] ELSE G[k - 1] \o lists[k]
      BY <1>4, <3>1
    <3>3. F[k] = IF k = 1 THEN lists[k] ELSE F[k - 1] \o lists[k]
      BY <2>1
    <3> QED
      BY <3>2, <3>3
  <2>4. 0 \in Holds
    BY <1>1
  <2> HIDE DEF Holds
  <2>5. \A k \in 0 .. n : k \in Holds
    BY <1>1, <2>3, <2>4, Upward
  <2>6. G[n] = F[n]
    BY <2>2, <2>a, <2>5 DEF Holds
  <2>7. G[n + 1] = G[n] \o t
    BY <1>2, <1>4, <2>a
  <2>8. FlattenSeq(more) = G[n + 1]
    BY <1>2, <1>4, <2>a
  <2>9. F[n] \in Seq(S)
    BY <2>1, <2>a
  <2> QED
    BY <2>1, <2>6, <2>7, <2>8, <2>9 DEF more
<1> QED
  BY <1>5, <1>6

LEMMA ConcatAppend ==
    ASSUME NEW S, NEW s \in Seq(S), NEW t \in Seq(S), NEW e \in S
    PROVE  s \o Append(t, e) = Append(s \o t, e)
  OBVIOUS

LEMMA SubSeqAppend ==
    ASSUME NEW S, NEW s \in Seq(S), NEW k \in 1 .. Len(s)
    PROVE  SubSeq(s, 1, k) = Append(SubSeq(s, 1, k - 1), s[k])
<1> DEFINE front == SubSeq(s, 1, k - 1)
<1>1. Len(s) \in Nat /\ \A i \in 1 .. Len(s) : s[i] \in S
  BY LenProperties, ElementOfSeq
<1>2. front \in Seq(S)
  <2>1. 1 \in Int /\ k - 1 \in Int /\ \A i \in 1 .. k - 1 : s[i] \in S
    BY <1>1
  <2> QED
    BY <2>1, SubSeqProperties
<1>3. SubSeq(s, 1, k) = front \o <<s[k]>>
  BY <1>1, SubSeqRecursiveSecond
<1> HIDE DEF front
<1>4. Append(front, s[k]) = front \o <<s[k]>>
  BY <1>1, <1>2, AppendIsConcat
<1> QED
  BY <1>3, <1>4 DEF front

=============================================================================
