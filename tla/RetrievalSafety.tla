-------------------------- MODULE RetrievalSafety --------------------------
(***************************************************************************)
(* Proofs about retrieval: what merging, fusing, boosting, reranking and     *)
(* cutting the hits of two branches does to any lists of hits, and from it   *)
(* the invariants of one question (module Search), for any corpus, any       *)
(* thresholds and any answers of the model.                                 *)
(***************************************************************************)
EXTENDS Search, SequenceFacts

-----------------------------------------------------------------------------
(* _merge_hits.                                                            *)

LEMMA HitsSorted ==
    ASSUME NEW s \in Seq(Hits)
    PROVE  /\ Rearranges(Sorted(s, BetterHit), s)
           /\ \A m, k \in 1 .. Len(s) :
                  m < k => ~BetterHit(Sorted(s, BetterHit)[k], Sorted(s, BetterHit)[m])
<1> DEFINE n == Len(s)
           Better(i, j) == BetterHit(s[i], s[j])
           after == [i \in DOMAIN s |-> {j \in DOMAIN s : Better(i, j)}]
<1>1. n \in Nat /\ DOMAIN s = 1 .. n /\ \A i \in 1 .. n : s[i] \in Hits
  BY LenProperties, ElementOfSeq
<1>2. \A i, j \in 1 .. n : j \in after[i] <=> Better(i, j)
  BY <1>1
<1>3. Consistent(after, n)
  <2>1. \A i \in 1 .. n : s[i].score \in Nat /\ s[i].pt \in Nat
    BY <1>1, Shapes DEF Hits
  <2>2. \A i, j \in 1 .. n : Better(i, j) => ~Better(j, i)
    BY <2>1 DEF BetterHit
  <2>3. \A i, j, k \in 1 .. n : ~Better(i, j) /\ ~Better(j, k) => ~Better(i, k)
    BY <2>1 DEF BetterHit
  <2> HIDE DEF Better, after
  <2> QED
    BY <1>2, <2>2, <2>3 DEF Consistent
<1>4. Sorted(s, BetterHit) = Stably(s, after)
  BY Zenon DEF Sorted
<1> HIDE DEF Better, after
<1>5. PICK p : /\ Arranges(p, n) /\ Stably(s, after) = [m \in 1 .. n |-> s[p[m]]]
               /\ \A m, k \in 1 .. n : m < k => p[m] \notin after[p[k]]
  BY <1>3, StablySorted
<1>6. \A m, k \in 1 .. n : m < k => ~BetterHit(s[p[k]], s[p[m]])
  <2>1. \A m \in 1 .. n : p[m] \in 1 .. n
    BY <1>5 DEF Arranges
  <2> QED
    BY <1>2, <1>5, <2>1 DEF Better
<1> QED
  BY <1>4, <1>5, <1>6 DEF Rearranges

-----------------------------------------------------------------------------
(* _fuse: what a branch ranks, and the windows. *)

RankedHits == [pt: Points, rrf: Nat]

LEMMA RanksSorted ==
    ASSUME NEW s \in Seq(RankedHits)
    PROVE  /\ Rearranges(Sorted(s, Higher), s)
           /\ \A m, k \in 1 .. Len(s) :
                  m < k => ~Higher(Sorted(s, Higher)[k], Sorted(s, Higher)[m])
<1> DEFINE n == Len(s)
           Better(i, j) == Higher(s[i], s[j])
           after == [i \in DOMAIN s |-> {j \in DOMAIN s : Better(i, j)}]
<1>1. n \in Nat /\ DOMAIN s = 1 .. n /\ \A i \in 1 .. n : s[i] \in RankedHits
  BY LenProperties, ElementOfSeq
<1>2. \A i, j \in 1 .. n : j \in after[i] <=> Better(i, j)
  BY <1>1
<1>3. Consistent(after, n)
  <2>1. \A i \in 1 .. n : s[i].rrf \in Nat
    BY <1>1, Shapes DEF RankedHits
  <2>2. \A i, j \in 1 .. n : Better(i, j) => ~Better(j, i)
    BY <2>1 DEF Higher
  <2>3. \A i, j, k \in 1 .. n : ~Better(i, j) /\ ~Better(j, k) => ~Better(i, k)
    BY <2>1 DEF Higher
  <2> HIDE DEF Better, after
  <2> QED
    BY <1>2, <2>2, <2>3 DEF Consistent
<1>4. Sorted(s, Higher) = Stably(s, after)
  BY Zenon DEF Sorted
<1> HIDE DEF Better, after
<1>5. PICK p : /\ Arranges(p, n) /\ Stably(s, after) = [m \in 1 .. n |-> s[p[m]]]
               /\ \A m, k \in 1 .. n : m < k => p[m] \notin after[p[k]]
  BY <1>3, StablySorted
<1>6. \A m, k \in 1 .. n : m < k => ~Higher(s[p[k]], s[p[m]])
  <2>1. \A m \in 1 .. n : p[m] \in 1 .. n
    BY <1>5 DEF Arranges
  <2> QED
    BY <1>2, <1>5, <2>1 DEF Better
<1> QED
  BY <1>4, <1>5, <1>6 DEF Rearranges

LEMMA WindowsSorted ==
    ASSUME NEW s \in Seq(Windows)
    PROVE  /\ Rearranges(Sorted(s, BetterWindow), s)
           /\ \A m, k \in 1 .. Len(s) :
                  m < k => ~BetterWindow(Sorted(s, BetterWindow)[k], Sorted(s, BetterWindow)[m])
<1> DEFINE n == Len(s)
           Better(i, j) == BetterWindow(s[i], s[j])
           after == [i \in DOMAIN s |-> {j \in DOMAIN s : Better(i, j)}]
<1>1. n \in Nat /\ DOMAIN s = 1 .. n /\ \A i \in 1 .. n : s[i] \in Windows
  BY LenProperties, ElementOfSeq
<1>2. \A i, j \in 1 .. n : j \in after[i] <=> Better(i, j)
  BY <1>1
<1>3. Consistent(after, n)
  <2>1. \A i \in 1 .. n : s[i].rrf \in Nat /\ s[i].video \in Nat /\ s[i].t \in Nat
    BY <1>1, Shapes DEF Windows
  <2>2. \A i, j \in 1 .. n : Better(i, j) => ~Better(j, i)
    BY <2>1 DEF BetterWindow, Earlier
  <2>3. \A i, j, k \in 1 .. n : ~Better(i, j) /\ ~Better(j, k) => ~Better(i, k)
    <3> SUFFICES ASSUME NEW i \in 1 .. n, NEW j \in 1 .. n, NEW k \in 1 .. n, ~Better(i, j), ~Better(j, k)
                 PROVE  ~Better(i, k)
      OBVIOUS
    <3>1. s[i].rrf <= s[j].rrf /\ s[j].rrf <= s[k].rrf
      BY <2>1 DEF BetterWindow
    <3>2. CASE s[i].rrf # s[k].rrf
      BY <2>1, <3>1, <3>2 DEF BetterWindow
    <3>3. CASE s[i].rrf = s[k].rrf
      <4>1. s[i].rrf = s[j].rrf /\ s[j].rrf = s[k].rrf
        BY <2>1, <3>1, <3>3
      <4>2. ~Earlier(s[i], s[j]) /\ ~Earlier(s[j], s[k])
        BY <4>1 DEF BetterWindow
      <4>3. ~Earlier(s[i], s[k])
        BY <2>1, <4>2 DEF Earlier
      <4> QED
        BY <2>1, <3>3, <4>3 DEF BetterWindow
    <3> QED
      BY <3>2, <3>3
  <2> HIDE DEF Better, after
  <2> QED
    BY <1>2, <2>2, <2>3 DEF Consistent
<1>4. Sorted(s, BetterWindow) = Stably(s, after)
  BY Zenon DEF Sorted
<1> HIDE DEF Better, after
<1>5. PICK p : /\ Arranges(p, n) /\ Stably(s, after) = [m \in 1 .. n |-> s[p[m]]]
               /\ \A m, k \in 1 .. n : m < k => p[m] \notin after[p[k]]
  BY <1>3, StablySorted
<1>6. \A m, k \in 1 .. n : m < k => ~BetterWindow(s[p[k]], s[p[m]])
  <2>1. \A m \in 1 .. n : p[m] \in 1 .. n
    BY <1>5 DEF Arranges
  <2> QED
    BY <1>2, <1>5, <2>1 DEF Better
<1> QED
  BY <1>4, <1>5, <1>6 DEF Rearranges

-----------------------------------------------------------------------------
(* The fold of _merge_hits. *)

LEMMA OfferFits ==
    ASSUME NEW best \in Seq(Hits), NEW h \in Hits
    PROVE  Offer(best, h) \in Seq(Hits)
<1>1. DOMAIN best = 1 .. Len(best) /\ Len(best) \in Nat /\ \A i \in DOMAIN best : best[i] \in Hits
  BY LenProperties, ElementOfSeq
<1>2. CASE \E i \in DOMAIN best : best[i].pt = h.pt
  <2> DEFINE r == [i \in 1 .. Len(best) |->
                      IF best[i].pt = h.pt /\ h.score > best[i].score THEN h ELSE best[i]]
  <2>1. r \in [1 .. Len(best) -> Hits]
    BY <1>1
  <2>2. r \in Seq(Hits)
    BY <1>1, <2>1
  <2>3. Offer(best, h) = r
    BY <1>1, <1>2 DEF Offer
  <2> QED
    BY <2>2, <2>3
<1>3. CASE ~\E i \in DOMAIN best : best[i].pt = h.pt
  <2>1. Offer(best, h) = Append(best, h)
    BY <1>3, Zenon DEF Offer
  <2> QED
    BY <2>1, AppendProperties
<1> QED
  BY <1>2, <1>3

LEMMA OfferRuns ==
    ASSUME NEW s \in Seq(Hits)
    PROVE  \E F : /\ F \in [0 .. Len(s) -> Seq(Hits)]
                  /\ F[0] = <<>> /\ F[Len(s)] = FoldLeft(Offer, <<>>, s)
                  /\ \A k \in 1 .. Len(s) : F[k] = Offer(F[k - 1], s[k])
<1> DEFINE n == Len(s)
           St == Seq(Hits)
           g == [x \in St \X (1 .. n) |-> Offer(x[1], s[x[2]])]
           IsFold(iter) == iter = [S \in SUBSET (DOMAIN s) |->
               IF S = {} THEN <<>> ELSE Offer(iter[S \ {Max(S)}], s[Max(S)])]
           fold == CHOOSE iter : IsFold(iter)
<1>1. n \in Nat /\ DOMAIN s = 1 .. n /\ \A i \in 1 .. n : s[i] \in Hits
  BY LenProperties, ElementOfSeq
<1>2. g \in [St \X (1 .. n) -> St]
  BY <1>1, OfferFits
<1>3. <<>> \in St
  BY EmptySeq
<1>4. \A x \in St, k \in 1 .. n : g[<<x, k>>] = Offer(x, s[k])
  OBVIOUS
<1>5. FoldLeft(Offer, <<>>, s) = fold[DOMAIN s]
  BY Zenon DEF FoldLeft, MapThenFoldSet
<1> HIDE DEF St, g, fold
<1>6. PICK it : IsTree(it, n, St, <<>>, g)
  BY <1>1, <1>2, <1>3, FoldTree
<1>7. IsFold(it)
  <2>1. it \in [SUBSET (DOMAIN s) -> St]
    BY <1>1, <1>6 DEF IsTree
  <2>2. \A S \in SUBSET (DOMAIN s) : it[S] = IF S = {} THEN <<>> ELSE Offer(it[S \ {Max(S)}], s[Max(S)])
    <3> SUFFICES ASSUME NEW S \in SUBSET (DOMAIN s), S # {}
                 PROVE  it[S] = Offer(it[S \ {Max(S)}], s[Max(S)])
      BY <1>1, <1>6 DEF IsTree
    <3>1. Max(S) \in 1 .. n
      BY <1>1, GreatestIsMember
    <3>2. it[S \ {Max(S)}] \in St
      BY <2>1
    <3>3. it[S] = g[<<it[S \ {Max(S)}], Max(S)>>]
      BY <1>1, <1>6 DEF IsTree
    <3> QED
      BY <1>4, <3>1, <3>2, <3>3
  <2> QED
    BY <2>1, <2>2
<1>8. IsFold(fold)
  BY <1>7, Zenon DEF fold
<1> DEFINE F == [k \in 0 .. n |-> fold[1 .. k]]
<1>9. F[0] = <<>> /\ F[n] = FoldLeft(Offer, <<>>, s)
  <2>1. fold[{}] = <<>> /\ 1 .. 0 = {}
    BY <1>8
  <2> QED
    BY <1>1, <1>5, <2>1
<1>10. \A k \in 1 .. n : F[k] = Offer(F[k - 1], s[k])
  <2> SUFFICES ASSUME NEW k \in 1 .. n PROVE fold[1 .. k] = Offer(fold[1 .. k - 1], s[k])
    OBVIOUS
  <2>1. Max(1 .. k) = k /\ (1 .. k) \ {k} = 1 .. k - 1
    BY GreatestOfInterval
  <2>2. (1 .. k) \in SUBSET (DOMAIN s) /\ (1 .. k) # {}
    <3>1. \A x \in 1 .. k : x \in 1 .. n
      BY <1>1
    <3>2. k \in 1 .. k
      BY <1>1
    <3> QED
      BY <1>1, <3>1, <3>2
  <2>3. fold[1 .. k] = Offer(fold[(1 .. k) \ {Max(1 .. k)}], s[Max(1 .. k)])
    BY <1>8, <2>2
  <2> QED
    BY <2>1, <2>3
<1> HIDE DEF IsFold
<1>11. \A k \in 0 .. n : F[k] \in St
  <2> DEFINE Holds == {k \in 0 .. n : F[k] \in St}
  <2>1. 0 \in Holds
    BY <1>1, <1>3, <1>9
  <2>2. \A k \in 1 .. n : k - 1 \in Holds => k \in Holds
    <3> SUFFICES ASSUME NEW k \in 1 .. n, F[k - 1] \in St PROVE F[k] \in St
      BY <1>1
    <3> HIDE DEF F
    <3> QED
      BY <1>1, <1>10, OfferFits DEF St
  <2> HIDE DEF Holds
  <2>3. \A k \in 0 .. n : k \in Holds
    BY <1>1, <2>1, <2>2, Upward
  <2> QED
    BY <2>3 DEF Holds
<1>12. F \in [0 .. n -> St]
  BY <1>11
<1> HIDE DEF F
<1> QED
  BY <1>9, <1>10, <1>12 DEF St

(* What has been kept of the first k hits: each point once, a hit that was    *)
(* met, and none that was met scored better.                                 *)
Offered(best, s, k) ==
    /\ \A i, j \in 1 .. Len(best) : best[i].pt = best[j].pt => i = j
    /\ \A i \in 1 .. Len(best) : \E j \in 1 .. k : best[i] = s[j]
    /\ \A j \in 1 .. k : \E i \in 1 .. Len(best) : best[i].pt = s[j].pt /\ best[i].score >= s[j].score
    /\ Len(best) <= k

LEMMA OfferKeeps ==
    ASSUME NEW s \in Seq(Hits), NEW k \in 1 .. Len(s), NEW best \in Seq(Hits),
           Offered(best, s, k - 1)
    PROVE  Offered(Offer(best, s[k]), s, k)
<1> DEFINE h == s[k]
           r == Offer(best, h)
<1>1. /\ Len(best) \in Nat /\ DOMAIN best = 1 .. Len(best) /\ h \in Hits
      /\ \A i \in 1 .. Len(best) : best[i] \in Hits
      /\ \A j \in 1 .. Len(s) : s[j] \in Hits
      /\ Len(s) \in Nat /\ k \in Int /\ k <= Len(s) /\ 1 <= k
  BY LenProperties, ElementOfSeq
<1>2. \A x \in Hits : x.score \in Int
  BY DEF Hits
<1>3. \A j \in 1 .. k : j \in 1 .. k - 1 \/ j = k
  BY <1>1
<1>4. CASE \E i \in DOMAIN best : best[i].pt = h.pt
  <2>1. PICK c \in 1 .. Len(best) : best[c].pt = h.pt
    BY <1>1, <1>4
  <2> DEFINE q == [i \in 1 .. Len(best) |->
                      IF best[i].pt = h.pt /\ h.score > best[i].score THEN h ELSE best[i]]
  <2>2. r = q
    BY <1>1, <1>4 DEF Offer
  <2>3. Len(q) = Len(best)
    <3>1. q \in [1 .. Len(best) -> Hits]
      BY <1>1
    <3> QED
      BY <1>1, <3>1
  <2>4. \A i \in 1 .. Len(best) : i # c => q[i] = best[i]
    BY <2>1 DEF Offered
  <2>5. q[c] = IF h.score > best[c].score THEN h ELSE best[c]
    BY <2>1
  <2> HIDE DEF q
  <2>6. \A i \in 1 .. Len(best) : q[i].pt = best[i].pt /\ q[i].score >= best[i].score
    <3> SUFFICES ASSUME NEW i \in 1 .. Len(best)
                 PROVE  q[i].pt = best[i].pt /\ q[i].score >= best[i].score
      OBVIOUS
    <3>1. best[i].score \in Int /\ h.score \in Int
      BY <1>1, <1>2
    <3> QED
      BY <2>1, <2>4, <2>5, <3>1
  <2>7. \A i, j \in 1 .. Len(q) : q[i].pt = q[j].pt => i = j
    BY <2>3, <2>6 DEF Offered
  <2>8. \A i \in 1 .. Len(q) : \E j \in 1 .. k : q[i] = s[j]
    <3> SUFFICES ASSUME NEW i \in 1 .. Len(best) PROVE \E j \in 1 .. k : q[i] = s[j]
      BY <2>3
    <3>1. q[i] = best[i] \/ q[i] = s[k]
      BY <2>4, <2>5
    <3>2. k \in 1 .. k /\ \A j \in 1 .. k - 1 : j \in 1 .. k
      BY <1>1
    <3> QED
      BY <3>1, <3>2 DEF Offered
  <2>9. \A j \in 1 .. k : \E i \in 1 .. Len(q) : q[i].pt = s[j].pt /\ q[i].score >= s[j].score
    <3> SUFFICES ASSUME NEW j \in 1 .. k
                 PROVE  \E i \in 1 .. Len(best) : q[i].pt = s[j].pt /\ q[i].score >= s[j].score
      BY <2>3
    <3>1. CASE j = k
      <4>1. best[c].score \in Int /\ h.score \in Int
        BY <1>1, <1>2, <2>1
      <4>2. q[c].pt = s[j].pt /\ q[c].score >= s[j].score
        BY <2>1, <2>5, <3>1, <4>1
      <4> QED
        BY <4>2
    <3>2. CASE j \in 1 .. k - 1
      <4>1. PICK i \in 1 .. Len(best) : best[i].pt = s[j].pt /\ best[i].score >= s[j].score
        BY <3>2 DEF Offered
      <4>2. best[i].score \in Int /\ q[i].score \in Int /\ s[j].score \in Int
        BY <1>1, <1>2, <2>4, <2>5, <3>2
      <4>3. q[i].pt = s[j].pt /\ q[i].score >= s[j].score
        BY <2>6, <4>1, <4>2
      <4> QED
        BY <4>3
    <3> QED
      BY <1>3, <3>1, <3>2
  <2>10. Len(q) <= k
    BY <1>1, <2>3 DEF Offered
  <2> QED
    BY <2>2, <2>7, <2>8, <2>9, <2>10 DEF Offered
<1>5. CASE ~\E i \in DOMAIN best : best[i].pt = h.pt
  <2>1. r = Append(best, h)
    BY <1>5, Zenon DEF Offer
  <2>2. /\ Len(r) = Len(best) + 1 /\ r[Len(best) + 1] = h
        /\ \A i \in 1 .. Len(best) : r[i] = best[i]
    BY <1>1, <2>1, AppendProperties
  <2> HIDE DEF r
  <2>3. \A i \in 1 .. Len(r) : i \in 1 .. Len(best) \/ i = Len(best) + 1
    BY <1>1, <2>2
  <2>4. \A i, j \in 1 .. Len(r) : r[i].pt = r[j].pt => i = j
    <3>1. \A i \in 1 .. Len(best) : r[i].pt # h.pt
      BY <1>1, <1>5, <2>2
    <3>2. \A i, j \in 1 .. Len(best) : r[i].pt = r[j].pt => i = j
      BY <2>2 DEF Offered
    <3> QED
      BY <2>2, <2>3, <3>1, <3>2
  <2>5. \A i \in 1 .. Len(r) : \E j \in 1 .. k : r[i] = s[j]
    <3> SUFFICES ASSUME NEW i \in 1 .. Len(r) PROVE \E j \in 1 .. k : r[i] = s[j]
      OBVIOUS
    <3>1. k \in 1 .. k /\ \A j \in 1 .. k - 1 : j \in 1 .. k
      BY <1>1
    <3>2. CASE i \in 1 .. Len(best)
      <4>1. \E j \in 1 .. k - 1 : best[i] = s[j]
        BY <3>2 DEF Offered
      <4> QED
        BY <2>2, <3>1, <3>2, <4>1
    <3>3. CASE i = Len(best) + 1
      BY <2>2, <3>1, <3>3
    <3> QED
      BY <2>3, <3>2, <3>3
  <2>6. \A j \in 1 .. k : \E i \in 1 .. Len(r) : r[i].pt = s[j].pt /\ r[i].score >= s[j].score
    <3> SUFFICES ASSUME NEW j \in 1 .. k
                 PROVE  \E i \in 1 .. Len(r) : r[i].pt = s[j].pt /\ r[i].score >= s[j].score
      OBVIOUS
    <3>1. CASE j = k
      <4>1. Len(best) + 1 \in 1 .. Len(r) /\ h.score >= h.score
        BY <1>1, <1>2, <2>2
      <4> QED
        BY <2>2, <3>1, <4>1
    <3>2. CASE j \in 1 .. k - 1
      <4>1. PICK i \in 1 .. Len(best) : best[i].pt = s[j].pt /\ best[i].score >= s[j].score
        BY <3>2 DEF Offered
      <4>2. i \in 1 .. Len(r)
        BY <1>1, <2>2
      <4> QED
        BY <2>2, <4>1, <4>2
    <3> QED
      BY <1>3, <3>1, <3>2
  <2>7. Len(r) <= k
    BY <1>1, <2>2 DEF Offered
  <2>8. Offered(r, s, k)
    BY <2>4, <2>5, <2>6, <2>7 DEF Offered
  <2> QED
    BY <2>8 DEF r
<1> QED
  BY <1>4, <1>5

LEMMA OfferedAll ==
    ASSUME NEW s \in Seq(Hits)
    PROVE  /\ FoldLeft(Offer, <<>>, s) \in Seq(Hits)
           /\ Offered(FoldLeft(Offer, <<>>, s), s, Len(s))
<1>1. Len(s) \in Nat
  BY LenProperties
<1>2. PICK F : /\ F \in [0 .. Len(s) -> Seq(Hits)]
               /\ F[0] = <<>> /\ F[Len(s)] = FoldLeft(Offer, <<>>, s)
               /\ \A k \in 1 .. Len(s) : F[k] = Offer(F[k - 1], s[k])
  BY OfferRuns
<1> DEFINE Holds == {k \in 0 .. Len(s) : Offered(F[k], s, k)}
<1>3. 0 \in Holds
  <2>1. Offered(<<>>, s, 0)
    BY DEF Offered
  <2> QED
    BY <1>1, <1>2, <2>1
<1>4. \A k \in 1 .. Len(s) : k - 1 \in Holds => k \in Holds
  <2> SUFFICES ASSUME NEW k \in 1 .. Len(s), Offered(F[k - 1], s, k - 1)
               PROVE  Offered(F[k], s, k)
    BY <1>1
  <2>1. F[k - 1] \in Seq(Hits)
    BY <1>1, <1>2
  <2> QED
    BY <1>2, <2>1, OfferKeeps
<1> HIDE DEF Holds
<1>5. \A k \in 0 .. Len(s) : k \in Holds
  BY <1>1, <1>3, <1>4, Upward
<1>6. Len(s) \in 0 .. Len(s)
  BY <1>1
<1> QED
  BY <1>2, <1>5, <1>6 DEF Holds

(* FlattenSeq: every hit of every list, and no other. *)
HitsOf(lists) == UNION {{lists[l][i] : i \in 1 .. Len(lists[l])} : l \in 1 .. Len(lists)}

LEMMA Flattened ==
    ASSUME NEW lists \in Seq(Seq(Hits))
    PROVE  /\ FlattenSeq(lists) \in Seq(Hits)
           /\ {FlattenSeq(lists)[i] : i \in 1 .. Len(FlattenSeq(lists))} = HitsOf(lists)
           /\ Len(lists) = 0 => FlattenSeq(lists) = <<>>
           /\ Len(lists) = 1 => FlattenSeq(lists) = lists[1]
           /\ Len(lists) = 2 => FlattenSeq(lists) = lists[1] \o lists[2]
<1> DEFINE n == Len(lists)
           St == Seq(Hits)
           In(s) == {s[i] : i \in 1 .. Len(s)}
<1>1. n \in Nat /\ DOMAIN lists = 1 .. n /\ \A i \in 1 .. n : lists[i] \in St
  BY LenProperties, ElementOfSeq
<1>2. CASE n = 0
  <2>1. FlattenSeq(lists) = lists /\ lists = <<>>
    BY <1>1, <1>2, Zenon, EmptySeq DEF FlattenSeq
  <2>2. <<>> \in Seq(Hits) /\ Len(<<>>) = 0
    BY EmptySeq
  <2>3. HitsOf(lists) = {}
    BY <1>2 DEF HitsOf
  <2> QED
    BY <1>2, <2>1, <2>2, <2>3
<1>3. CASE n # 0
  <2>0. lists # <<>>
    BY <1>3, EmptySeq
  <2>1. PICK flat : /\ FlattenSeq(lists) = flat[n]
                    /\ \A k \in 1 .. n : flat[k] = IF k = 1 THEN lists[k] ELSE flat[k - 1] \o lists[k]
    BY <2>0, Flattening
  <2>2. \A x \in St, y \in St : x \o y \in St /\ In(x \o y) = In(x) \cup In(y)
    <3> SUFFICES ASSUME NEW x \in St, NEW y \in St
                 PROVE  x \o y \in St /\ In(x \o y) = In(x) \cup In(y)
      OBVIOUS
    <3>1. /\ x \o y \in St /\ Len(x \o y) = Len(x) + Len(y) /\ Len(x) \in Nat /\ Len(y) \in Nat
          /\ \A i \in 1 .. Len(x) + Len(y) :
                 (x \o y)[i] = IF i <= Len(x) THEN x[i] ELSE y[i - Len(x)]
      BY ConcatProperties, LenProperties
    <3>2. \A i \in 1 .. Len(x) : i \in 1 .. Len(x \o y) /\ (x \o y)[i] = x[i]
      BY <3>1
    <3>3. \A i \in 1 .. Len(y) : Len(x) + i \in 1 .. Len(x \o y) /\ (x \o y)[Len(x) + i] = y[i]
      BY <3>1
    <3>4. \A i \in 1 .. Len(x \o y) :
              \/ i \in 1 .. Len(x) /\ (x \o y)[i] = x[i]
              \/ i - Len(x) \in 1 .. Len(y) /\ (x \o y)[i] = y[i - Len(x)]
      BY <3>1
    <3> DEFINE xy == x \o y
    <3> HIDE DEF xy
    <3>5. In(xy) = In(x) \cup In(y)
      <4>1. In(xy) \subseteq In(x) \cup In(y)
        BY <3>4 DEF xy
      <4>2. In(x) \subseteq In(xy)
        BY <3>2 DEF xy
      <4>3. In(y) \subseteq In(xy)
        BY <3>3 DEF xy
      <4> QED
        BY <4>1, <4>2, <4>3
    <3> QED
      BY <3>1, <3>5 DEF xy
  <2>3. FlattenSeq(lists) = flat[n]
    BY <2>1
  <2>4. \A k \in 1 .. n : flat[k] = IF k = 1 THEN lists[k] ELSE flat[k - 1] \o lists[k]
    BY <2>1
  <2> HIDE DEF St
  <2> DEFINE Upto(k) == UNION {In(lists[l]) : l \in 1 .. k}
             Holds == {k \in 0 .. n : k = 0 \/ (flat[k] \in St /\ In(flat[k]) = Upto(k))}
  <2>5. 0 \in Holds
    BY <1>1
  <2>6. ASSUME NEW k \in 1 .. n, k - 1 \in Holds PROVE k \in Holds
    <3>1. Upto(k) = Upto(k - 1) \cup In(lists[k])
      <4>1. \A l \in 1 .. k : l \in 1 .. k - 1 \/ l = k
        BY <1>1
      <4>2. k \in 1 .. k /\ \A l \in 1 .. k - 1 : l \in 1 .. k
        BY <1>1
      <4> HIDE DEF In
      <4> QED
        BY <4>1, <4>2
    <3>2. CASE k = 1
      <4>1. Upto(0) = {}
        OBVIOUS
      <4>2. flat[k] = lists[k] /\ Upto(k) = In(lists[k])
        BY <2>4, <3>1, <3>2, <4>1
      <4>3. lists[k] \in St /\ k \in 0 .. n
        BY <1>1
      <4> QED
        BY <4>2, <4>3
    <3>3. CASE k # 1
      <4> HIDE DEF In, Upto
      <4>0. k - 1 # 0 /\ k \in 0 .. n
        BY <1>1, <3>3
      <4>1. flat[k - 1] \in St /\ In(flat[k - 1]) = Upto(k - 1)
        BY <2>6, <4>0
      <4>2. flat[k] = flat[k - 1] \o lists[k]
        BY <2>4, <3>3
      <4>3. lists[k] \in St
        BY <1>1
      <4> QED
        BY <2>2, <3>1, <4>0, <4>1, <4>2, <4>3
    <3> QED
      BY <3>2, <3>3
  <2> HIDE DEF Holds
  <2>7. \A k \in 0 .. n : k \in Holds
    <3>1. \A k \in 1 .. n : k - 1 \in Holds => k \in Holds
      BY <2>6
    <3> QED
      BY <1>1, <2>5, <3>1, Upward
  <2>8. flat[n] \in St /\ In(flat[n]) = Upto(n)
    <3>1. n \in 0 .. n
      BY <1>1
    <3> QED
      BY <1>3, <2>7, <3>1 DEF Holds
  <2>9. Upto(n) = HitsOf(lists)
    BY DEF HitsOf
  <2>10. CASE n = 1
    <3>1. flat[n] = lists[1]
      BY <2>4, <2>10
    <3> QED
      BY <2>3, <2>8, <2>9, <2>10, <3>1 DEF St
  <2>11. CASE n = 2
    <3>1. 1 \in 1 .. n /\ 2 \in 1 .. n /\ 2 # 1 /\ 2 - 1 = 1
      BY <1>1, <2>11
    <3>2. flat[2] = flat[1] \o lists[2] /\ flat[1] = lists[1]
      BY <2>4, <3>1
    <3>3. flat[n] = lists[1] \o lists[2]
      BY <2>11, <3>2
    <3> HIDE DEF Upto, In
    <3>4. FlattenSeq(lists) = lists[1] \o lists[2]
      BY <2>3, <3>3
    <3>5. FlattenSeq(lists) \in Seq(Hits)
      BY <2>3, <2>8 DEF St
    <3>6. {FlattenSeq(lists)[i] : i \in 1 .. Len(FlattenSeq(lists))} = HitsOf(lists)
      BY <2>3, <2>8, <2>9 DEF In
    <3> QED
      BY <2>11, <3>4, <3>5, <3>6
  <2>12. CASE n # 1 /\ n # 2
    BY <1>3, <2>3, <2>8, <2>9, <2>12 DEF St
  <2> QED
    BY <2>10, <2>11, <2>12
<1> QED
  BY <1>2, <1>3

(* The hits of S that none of the same point beats. *)
BestOf(S) == {h \in S : \A g \in S : g.pt = h.pt => g.score <= h.score}

(* r ranks the hits S: each point once, at its best, and the best of them first. *)
RanksAll(r, S) ==
    /\ r \in Seq(Hits)
    /\ \A i \in 1 .. Len(r) : r[i] \in BestOf(S)
    /\ \A h \in BestOf(S) : \E i \in 1 .. Len(r) : r[i] = h
    /\ \A h \in S : \E i \in 1 .. Len(r) : r[i].pt = h.pt /\ r[i].score >= h.score
    /\ \A i, j \in 1 .. Len(r) : i < j => r[i].pt # r[j].pt /\ BetterHit(r[i], r[j])

LEMMA MergedHits ==
    ASSUME NEW lists \in Seq(Seq(Hits))
    PROVE  /\ RanksAll(MergeHits(lists), HitsOf(lists))
           /\ Len(MergeHits(lists)) <= Len(FlattenSeq(lists))
<1> DEFINE s == FlattenSeq(lists)
           S == HitsOf(lists)
           f == FoldLeft(Offer, <<>>, s)
           r == Sorted(f, BetterHit)
<1>1. s \in Seq(Hits) /\ S = {s[i] : i \in 1 .. Len(s)}
  BY Flattened
<1>2. MergeHits(lists) = r
  BY DEF MergeHits
<1> HIDE DEF s, S
<1>3. f \in Seq(Hits) /\ Offered(f, s, Len(s))
  BY <1>1, OfferedAll
<1> HIDE DEF f
<1>4. Rearranges(r, f) /\ \A m, k \in 1 .. Len(f) : m < k => ~BetterHit(r[k], r[m])
  BY <1>3, HitsSorted
<1> HIDE DEF r
<1>5. /\ r \in Seq(Hits) /\ Len(r) = Len(f)
      /\ \A m \in 1 .. Len(f) : \E i \in 1 .. Len(f) : r[m] = f[i]
      /\ \A i \in 1 .. Len(f) : \E m \in 1 .. Len(f) : r[m] = f[i]
  BY <1>3, <1>4, RearrangedSeq
<1>6. /\ Len(f) \in Nat /\ Len(s) \in Nat
      /\ \A i \in 1 .. Len(f) : r[i] \in Hits /\ f[i] \in Hits
      /\ \A i \in 1 .. Len(s) : s[i] \in Hits
  BY <1>1, <1>3, <1>5, LenProperties, ElementOfSeq
<1>7. \A x \in Hits : x.score \in Nat /\ x.pt \in Nat
  BY Shapes DEF Hits
<1>8. \A x, y \in Hits : x.pt = y.pt /\ x.score = y.score => x = y
  BY DEF Hits
<1>9. \A i, j \in 1 .. Len(r) : r[i].pt = r[j].pt => i = j
  <2>1. PICK p : Arranges(p, Len(f)) /\ r = [m \in 1 .. Len(f) |-> f[p[m]]]
    BY <1>4 DEF Rearranges
  <2>2. \A i \in 1 .. Len(f) : p[i] \in 1 .. Len(f) /\ r[i] = f[p[i]]
    BY <2>1 DEF Arranges
  <2>3. \A i, j \in 1 .. Len(f) : r[i].pt = r[j].pt => p[i] = p[j]
    <3>1. \A i, j \in 1 .. Len(f) : f[i].pt = f[j].pt => i = j
      BY <1>3 DEF Offered
    <3>2. ASSUME NEW i \in 1 .. Len(f), NEW j \in 1 .. Len(f), r[i].pt = r[j].pt
          PROVE  p[i] = p[j]
      <4>1. f[p[i]].pt = f[p[j]].pt /\ p[i] \in 1 .. Len(f) /\ p[j] \in 1 .. Len(f)
        BY <2>2, <3>2
      <4> QED
        BY <3>1, <4>1
    <3> QED
      BY <3>2
  <2> QED
    BY <1>5, <2>1, <2>3 DEF Arranges
<1>10. \A i \in 1 .. Len(f) : f[i] \in BestOf(S)
  <2> SUFFICES ASSUME NEW i \in 1 .. Len(f) PROVE f[i] \in BestOf(S)
    OBVIOUS
  <2>1. f[i] \in S
    BY <1>1, <1>3 DEF Offered
  <2>2. ASSUME NEW g \in S, g.pt = f[i].pt PROVE g.score <= f[i].score
    <3>1. PICK j \in 1 .. Len(s) : g = s[j]
      BY <1>1
    <3>2. PICK m \in 1 .. Len(f) : f[m].pt = s[j].pt /\ f[m].score >= s[j].score
      BY <1>3 DEF Offered
    <3>3. m = i
      BY <1>3, <2>2, <3>1, <3>2 DEF Offered
    <3> QED
      BY <1>6, <1>7, <3>1, <3>2, <3>3
  <2> QED
    BY <2>1, <2>2 DEF BestOf
<1>11. \A h \in S : h \in Hits /\ \E i \in 1 .. Len(r) : r[i].pt = h.pt /\ r[i].score >= h.score
  <2> SUFFICES ASSUME NEW h \in S
               PROVE  h \in Hits /\ \E i \in 1 .. Len(r) : r[i].pt = h.pt /\ r[i].score >= h.score
    OBVIOUS
  <2>1. PICK j \in 1 .. Len(s) : h = s[j]
    BY <1>1
  <2>2. PICK i \in 1 .. Len(f) : f[i].pt = s[j].pt /\ f[i].score >= s[j].score
    BY <1>3 DEF Offered
  <2>3. PICK m \in 1 .. Len(f) : r[m] = f[i]
    BY <1>5
  <2> QED
    BY <1>5, <1>6, <2>1, <2>2, <2>3
<1>12. \A h \in BestOf(S) : \E i \in 1 .. Len(r) : r[i] = h
  <2> SUFFICES ASSUME NEW h \in BestOf(S) PROVE \E i \in 1 .. Len(r) : r[i] = h
    OBVIOUS
  <2>1. h \in S /\ \A g \in S : g.pt = h.pt => g.score <= h.score
    BY DEF BestOf
  <2>2. PICK i \in 1 .. Len(r) : r[i].pt = h.pt /\ r[i].score >= h.score
    BY <1>11, <2>1
  <2>3. r[i] \in S
    BY <1>5, <1>10 DEF BestOf
  <2>4. r[i].score <= h.score /\ r[i].score \in Nat /\ h.score \in Nat /\ r[i] \in Hits /\ h \in Hits
    BY <1>7, <1>11, <2>1, <2>2, <2>3
  <2> QED
    BY <1>8, <2>2, <2>4
<1>13. \A i, j \in 1 .. Len(r) : i < j => r[i].pt # r[j].pt /\ BetterHit(r[i], r[j])
  <2> SUFFICES ASSUME NEW i \in 1 .. Len(r), NEW j \in 1 .. Len(r), i < j
               PROVE  r[i].pt # r[j].pt /\ BetterHit(r[i], r[j])
    OBVIOUS
  <2>1. r[i].pt # r[j].pt
    BY <1>5, <1>6, <1>9
  <2>2. ~BetterHit(r[j], r[i])
    BY <1>4, <1>5
  <2>3. r[i].score \in Nat /\ r[j].score \in Nat /\ r[i].pt \in Nat /\ r[j].pt \in Nat
    BY <1>5, <1>6, <1>7
  <2> QED
    BY <2>1, <2>2, <2>3 DEF BetterHit
<1>14. \A i \in 1 .. Len(r) : r[i] \in BestOf(S)
  BY <1>5, <1>10
<1>15. RanksAll(r, S)
  BY <1>5, <1>11, <1>12, <1>13, <1>14 DEF RanksAll
<1>16. Len(r) <= Len(s)
  BY <1>3, <1>5 DEF Offered
<1> QED
  BY <1>2, <1>15, <1>16 DEF S, s

(* The ranking is the hits' alone: whatever lists they came in. *)
LEMMA RankingUnique ==
    ASSUME NEW S, NEW r, NEW q, RanksAll(r, S), RanksAll(q, S)
    PROVE  Len(r) <= Len(q) /\ \A i \in 1 .. Len(r) : r[i] = q[i]
<1>1. /\ Len(r) \in Nat /\ Len(q) \in Nat
      /\ \A i \in 1 .. Len(r) : r[i] \in Hits
      /\ \A i \in 1 .. Len(q) : q[i] \in Hits
  BY LenProperties, ElementOfSeq DEF RanksAll
<1>2. \A x \in Hits : x.score \in Nat /\ x.pt \in Nat
  BY Shapes DEF Hits
<1>3. \A x, y \in Hits : BetterHit(x, y) => ~BetterHit(y, x)
  BY <1>2 DEF BetterHit
<1> DEFINE Holds == {k \in 0 .. Len(r) : k <= Len(q) /\ \A i \in 1 .. k : r[i] = q[i]}
<1>4. 0 \in Holds
  BY <1>1
<1>5. ASSUME NEW k \in 1 .. Len(r), k - 1 \in Holds PROVE k \in Holds
  <2>1. k - 1 <= Len(q) /\ \A i \in 1 .. k - 1 : r[i] = q[i] /\ i \in 1 .. Len(r) /\ i < k
    BY <1>1, <1>5
  <2>2. PICK j \in 1 .. Len(q) : q[j] = r[k]
    BY DEF RanksAll
  <2>3. j \notin 1 .. k - 1
    BY <2>1, <2>2 DEF RanksAll
  <2>4. k <= j /\ k \in 1 .. Len(q)
    BY <1>1, <2>3
  <2>5. PICK i \in 1 .. Len(r) : r[i] = q[k]
    BY <2>4 DEF RanksAll
  <2>6. i \notin 1 .. k - 1
    <3> SUFFICES ASSUME i \in 1 .. k - 1 PROVE FALSE
      OBVIOUS
    <3>1. q[i] = q[k] /\ i < k /\ i \in 1 .. Len(q)
      BY <1>1, <2>1, <2>4, <2>5
    <3> QED
      BY <2>4, <3>1 DEF RanksAll
  <2>7. r[k] = q[k]
    <3>1. i = k \/ k < i
      BY <1>1, <2>6
    <3>2. j = k \/ k < j
      BY <1>1, <2>4
    <3>3. CASE i = k \/ j = k
      BY <2>2, <2>5, <3>3
    <3>4. CASE k < i /\ k < j
      <4>1. BetterHit(r[k], q[k])
        BY <2>5, <3>4 DEF RanksAll
      <4>2. BetterHit(q[k], r[k])
        BY <2>2, <2>4, <3>4 DEF RanksAll
      <4> QED
        BY <1>1, <1>3, <2>4, <4>1, <4>2
    <3> QED
      BY <3>1, <3>2, <3>3, <3>4
  <2>8. \A m \in 1 .. k : m \in 1 .. k - 1 \/ m = k
    BY <1>1
  <2> QED
    BY <1>1, <2>1, <2>4, <2>7, <2>8
<1> HIDE DEF Holds
<1>6. \A k \in 0 .. Len(r) : k \in Holds
  <2>1. \A k \in 1 .. Len(r) : k - 1 \in Holds => k \in Holds
    BY <1>5
  <2> QED
    BY <1>1, <1>4, <2>1, Upward
<1>7. Len(r) \in 0 .. Len(r)
  BY <1>1
<1> QED
  BY <1>6, <1>7 DEF Holds

LEMMA SameRanking ==
    ASSUME NEW S, NEW r, NEW q, RanksAll(r, S), RanksAll(q, S)
    PROVE  r = q
<1>1. r \in Seq(Hits) /\ q \in Seq(Hits) /\ Len(r) \in Nat /\ Len(q) \in Nat
  BY LenProperties DEF RanksAll
<1>2. Len(r) <= Len(q) /\ \A i \in 1 .. Len(r) : r[i] = q[i]
  BY RankingUnique
<1>3. Len(q) <= Len(r)
  BY RankingUnique
<1>4. Len(r) = Len(q)
  BY <1>1, <1>2, <1>3
<1> QED
  BY <1>1, <1>2, <1>4, SeqEqual

(* Merging one list that is best first leaves its best score. *)
LEMMA TopOfOneList ==
    ASSUME NEW hits \in Seq(Hits), Descending(hits)
    PROVE  TopScore(MergeHits(<<hits>>)) = TopScore(hits)
<1> DEFINE r == MergeHits(<<hits>>)
           S == HitsOf(<<hits>>)
<1>1. S = {hits[i] : i \in 1 .. Len(hits)}
  BY DEF HitsOf
<1>2. RanksAll(r, S)
  <2>1. <<hits>> \in Seq(Seq(Hits))
    OBVIOUS
  <2> QED
    BY <2>1, MergedHits
<1> HIDE DEF r, S
<1>3. /\ Len(hits) \in Nat /\ Len(r) \in Nat /\ r \in Seq(Hits)
      /\ \A i \in 1 .. Len(hits) : hits[i] \in Hits
      /\ \A i \in 1 .. Len(r) : r[i] \in Hits
  BY <1>2, LenProperties, ElementOfSeq DEF RanksAll
<1>4. \A x \in Hits : x.score \in Nat
  BY DEF Hits
<1>5. CASE hits = <<>>
  <2>1. S = {}
    BY <1>1, <1>5
  <2>2. Len(r) = 0
    BY <1>2, <1>3, <2>1 DEF RanksAll, BestOf
  <2>3. r = <<>>
    BY <1>3, <2>2, EmptySeq
  <2> QED
    BY <1>5, <2>3 DEF TopScore, r
<1>6. CASE hits # <<>>
  <2>1. 1 \in 1 .. Len(hits) /\ hits[1] \in S
    BY <1>1, <1>3, <1>6, EmptySeq
  <2>2. PICK i \in 1 .. Len(r) : r[i].score >= hits[1].score
    BY <1>2, <2>1 DEF RanksAll
  <2>3. 1 \in 1 .. Len(r) /\ r # <<>>
    BY <1>3, <2>2, EmptySeq
  <2>4. r[1].score >= r[i].score
    <3>1. i = 1 \/ BetterHit(r[1], r[i])
      BY <1>2, <1>3, <2>2, <2>3 DEF RanksAll
    <3>2. r[1].score \in Nat /\ r[i].score \in Nat
      BY <1>3, <1>4, <2>3
    <3> QED
      BY <3>1, <3>2 DEF BetterHit
  <2>5. r[1].score <= hits[1].score
    <3>1. r[1] \in S
      BY <1>2, <2>3 DEF RanksAll, BestOf
    <3>2. PICK j \in 1 .. Len(hits) : r[1] = hits[j]
      BY <1>1, <3>1
    <3>3. hits[1].score \in Nat /\ hits[j].score \in Nat
      BY <1>3, <1>4, <2>1
    <3>4. j = 1 \/ hits[1].score >= hits[j].score
      BY <1>3, <2>1, <3>2 DEF Descending
    <3> QED
      BY <3>2, <3>3, <3>4
  <2>6. r[1].score = hits[1].score
    <3>1. r[1].score \in Nat /\ r[i].score \in Nat /\ hits[1].score \in Nat
      BY <1>3, <1>4, <2>1, <2>3
    <3> QED
      BY <2>2, <2>4, <2>5, <3>1
  <2> QED
    BY <1>6, <2>3, <2>6 DEF TopScore, r
<1> QED
  BY <1>5, <1>6

-----------------------------------------------------------------------------
(* The comprehensions: what passes, in its order. *)

LEMMA VideoKept ==
    ASSUME NEW S, NEW s \in Seq(S)
    PROVE  SubList(Filtered(s, OfVideo), s, {i \in 1 .. Len(s) : OfVideo(s[i])})
<1> DEFINE At == {i \in DOMAIN s : OfVideo(s[i])}
<1>1. Filtered(s, OfVideo) = Taken(s, At)
  BY Zenon DEF Filtered
<1>2. At \in SUBSET (1 .. Len(s)) /\ At = {i \in 1 .. Len(s) : OfVideo(s[i])}
  BY LenProperties
<1> HIDE DEF At
<1> QED
  BY <1>1, <1>2, TakenInOrder

LEMMA PaperKept ==
    ASSUME NEW S, NEW s \in Seq(S)
    PROVE  SubList(Filtered(s, OfPaper), s, {i \in 1 .. Len(s) : OfPaper(s[i])})
<1> DEFINE At == {i \in DOMAIN s : OfPaper(s[i])}
<1>1. Filtered(s, OfPaper) = Taken(s, At)
  BY Zenon DEF Filtered
<1>2. At \in SUBSET (1 .. Len(s)) /\ At = {i \in 1 .. Len(s) : OfPaper(s[i])}
  BY LenProperties
<1> HIDE DEF At
<1> QED
  BY <1>1, <1>2, TakenInOrder

LEMMA TextKept ==
    ASSUME NEW S, NEW s \in Seq(S)
    PROVE  SubList(Filtered(s, HasText), s, {i \in 1 .. Len(s) : HasText(s[i])})
<1> DEFINE At == {i \in DOMAIN s : HasText(s[i])}
<1>1. Filtered(s, HasText) = Taken(s, At)
  BY Zenon DEF Filtered
<1>2. At \in SUBSET (1 .. Len(s)) /\ At = {i \in 1 .. Len(s) : HasText(s[i])}
  BY LenProperties
<1> HIDE DEF At
<1> QED
  BY <1>1, <1>2, TakenInOrder

LEMMA ReadableKept ==
    ASSUME NEW S, NEW s \in Seq(S)
    PROVE  SubList(Filtered(s, Readable), s, {i \in 1 .. Len(s) : Readable(s[i])})
<1> DEFINE At == {i \in DOMAIN s : Readable(s[i])}
<1>1. Filtered(s, Readable) = Taken(s, At)
  BY Zenon DEF Filtered
<1>2. At \in SUBSET (1 .. Len(s)) /\ At = {i \in 1 .. Len(s) : Readable(s[i])}
  BY LenProperties
<1> HIDE DEF At
<1> QED
  BY <1>1, <1>2, TakenInOrder

-----------------------------------------------------------------------------
(* The weight of a rank. *)

Weights == {Rrf(k) : k \in 0 .. MaxRanked - 1}

LEMMA Division ==
    ASSUME NEW a \in Nat, NEW b \in Nat, b > 0
    PROVE  a \div b \in Nat /\ b * (a \div b) <= a /\ a < b * (a \div b) + b
  OBVIOUS

LEMMA Times ==
    ASSUME NEW a \in Nat, NEW b \in Nat, NEW c \in Nat, a <= b
    PROVE  a * c <= b * c /\ c * a <= c * b
  OBVIOUS

LEMMA RrfFits ==
    ASSUME NEW k \in Nat
    PROVE  Rrf(k) \in Nat /\ Rrf(k) <= Rrf(0)
<1> DEFINE q == Scale \div (RRF_K + k)
           p == Scale \div RRF_K
<1>1. Scale \in Nat /\ RRF_K \in Nat /\ RRF_K > 0 /\ RRF_K + k \in Nat /\ RRF_K + k > 0
  BY Exact
<1>2. q \in Nat /\ (RRF_K + k) * q <= Scale
  BY <1>1, Division
<1>3. p \in Nat /\ Scale < RRF_K * p + RRF_K
  BY <1>1, Division
<1>4. Rrf(k) = q /\ Rrf(0) = p
  BY <1>1 DEF Rrf
<1> HIDE DEF p, q
<1>5. q <= p
  <2> SUFFICES ASSUME p + 1 <= q PROVE FALSE
    BY <1>2, <1>3
  <2>1. RRF_K * (p + 1) <= RRF_K * q
    BY <1>1, <1>2, <1>3, Times
  <2>2. RRF_K * q <= (RRF_K + k) * q
    <3>1. RRF_K <= RRF_K + k
      BY <1>1
    <3> QED
      BY <1>1, <1>2, <3>1, Times
  <2>3. RRF_K * (p + 1) = RRF_K * p + RRF_K
    BY <1>1, <1>3
  <2>4. RRF_K * (p + 1) \in Nat /\ RRF_K * q \in Nat /\ (RRF_K + k) * q \in Nat
    BY <1>1, <1>2, <1>3
  <2> QED
    BY <1>1, <1>2, <1>3, <2>1, <2>2, <2>3, <2>4
<1> QED
  BY <1>2, <1>4, <1>5

LEMMA WeightsFit == \A a \in Weights : a \in Nat /\ a <= Rrf(0)
  BY Exact, RrfFits DEF Weights

(* One and a half times any two weights is more than any one of them, as    *)
(* long as a branch ranks no more than twice RRF_K hits.                    *)
LEMMA TwoOutweigh ==
    ASSUME MaxRanked <= 2 * RRF_K, NEW a \in Weights, NEW b \in Weights
    PROVE  (3 * (a + b)) \div 2 > Rrf(0)
<1> DEFINE p == Rrf(0)
<1>1. Scale \in Nat /\ Scale > 0 /\ RRF_K \in Nat /\ RRF_K > 0 /\ MaxRanked \in Nat
  BY Exact
<1>2. p \in Nat /\ RRF_K * p <= Scale
  <2>1. Scale \div RRF_K \in Nat /\ RRF_K * (Scale \div RRF_K) <= Scale
    BY <1>1, Division
  <2>2. p = Scale \div RRF_K
    BY <1>1 DEF Rrf
  <2> QED
    BY <2>1, <2>2
<1>3. \A c \in Weights : c \in Nat /\ 3 * c > p
  <2> SUFFICES ASSUME NEW c \in Weights PROVE c \in Nat /\ 3 * c > p
    OBVIOUS
  <2>1. PICK k \in 0 .. MaxRanked - 1 : c = Rrf(k)
    BY DEF Weights
  <2> DEFINE d == RRF_K + k
  <2>2. d \in Nat /\ d > 0 /\ d < 3 * RRF_K /\ k \in Nat
    BY <1>1, <2>1
  <2>3. Scale = d * c /\ c \in Nat
    <3>1. Scale % (2 * d) = 0
      BY <2>1, Exact
    <3>2. Scale = (2 * d) * (Scale \div (2 * d)) /\ Scale \div (2 * d) \in Nat
      BY <1>1, <2>2, <3>1
    <3> DEFINE e == Scale \div (2 * d)
    <3>3. Scale = d * (2 * e) /\ e \in Nat
      BY <2>2, <3>2
    <3> HIDE DEF d, e
    <3>4. (d * (2 * e)) \div d = 2 * e
      BY <2>2, <3>3
    <3>5. c = 2 * e
      BY <2>1, <3>3, <3>4 DEF Rrf, d
    <3> QED
      BY <3>3, <3>5
  <2> HIDE DEF d, p
  <2>4. c > 0
    <3> SUFFICES ASSUME c = 0 PROVE FALSE
      BY <2>3
    <3>1. d * c = 0
      BY <2>2
    <3> QED
      BY <1>1, <2>3, <3>1
  <2>5. RRF_K * p <= d * c
    BY <1>2, <2>3
  <2>6. d * c < RRF_K * (3 * c)
    <3>1. (d + 1) * c <= (3 * RRF_K) * c
      <4>1. d + 1 \in Nat /\ 3 * RRF_K \in Nat /\ d + 1 <= 3 * RRF_K
        BY <1>1, <2>2
      <4> QED
        BY <2>3, <4>1, Times
    <3>2. (d + 1) * c = d * c + c /\ (3 * RRF_K) * c = RRF_K * (3 * c)
      BY <1>1, <2>2, <2>3
    <3>3. d * c \in Nat /\ RRF_K * (3 * c) \in Nat
      BY <1>1, <2>2, <2>3
    <3> QED
      BY <2>3, <2>4, <3>1, <3>2, <3>3
  <2>7. 3 * c > p
    <3> SUFFICES ASSUME 3 * c <= p PROVE FALSE
      BY <1>2, <2>3
    <3>1. RRF_K * (3 * c) <= RRF_K * p
      BY <1>1, <1>2, <2>3, Times
    <3>2. RRF_K * (3 * c) \in Nat /\ RRF_K * p \in Nat /\ d * c \in Nat
      BY <1>1, <1>2, <2>2, <2>3
    <3> QED
      BY <2>5, <2>6, <3>1, <3>2
  <2> QED
    BY <2>3, <2>7
<1> HIDE DEF p
<1>4. a \in Nat /\ b \in Nat /\ 3 * a >= p + 1 /\ 3 * b >= p + 1
  BY <1>2, <1>3
<1>5. 3 * (a + b) >= 2 * (p + 1)
  BY <1>2, <1>4
<1>6. (3 * (a + b)) \div 2 >= p + 1
  BY <1>2, <1>4, <1>5
<1> QED
  BY <1>2, <1>4, <1>6 DEF p

-----------------------------------------------------------------------------
(* What _fuse ranks. *)

VideoPoints == {p \in Points : OfVideo(p)}
PaperPoints == {p \in Points : OfPaper(p)}

RankedOf(P) == [pt: P, rrf: Weights]

LEMMA PointsListed ==
    ASSUME NEW P, NEW hits \in Seq(Hits), \A i \in 1 .. Len(hits) : hits[i].pt \in P
    PROVE  PointsOf(hits) \in Seq(P) /\ Len(PointsOf(hits)) = Len(hits)
<1>1. Len(hits) \in Nat /\ DOMAIN hits = 1 .. Len(hits)
  BY LenProperties
<1>2. PointsOf(hits) \in [1 .. Len(hits) -> P]
  BY <1>1 DEF PointsOf
<1> QED
  BY <1>1, <1>2

LEMMA RankedFits ==
    ASSUME NEW P, NEW pts \in Seq(P), Len(pts) <= MaxRanked
    PROVE  Ranked(pts) \in Seq(RankedOf(P)) /\ Len(Ranked(pts)) = Len(pts)
<1>1. Len(pts) \in Nat /\ DOMAIN pts = 1 .. Len(pts) /\ \A i \in 1 .. Len(pts) : pts[i] \in P
  BY LenProperties, ElementOfSeq
<1>2. \A i \in 1 .. Len(pts) : Rrf(i - 1) \in Weights
  <2> SUFFICES ASSUME NEW i \in 1 .. Len(pts) PROVE i - 1 \in 0 .. MaxRanked - 1
    BY DEF Weights
  <2> QED
    BY <1>1, Exact
<1>3. Ranked(pts) \in [1 .. Len(pts) -> RankedOf(P)]
  BY <1>1, <1>2 DEF Ranked, RankedOf
<1> QED
  BY <1>1, <1>3

LEMMA VideoFits ==
    ASSUME NEW pts \in Seq(Points)
    PROVE  Filtered(pts, OfVideo) \in Seq(VideoPoints) /\ Len(Filtered(pts, OfVideo)) <= Len(pts)
<1> DEFINE r == Filtered(pts, OfVideo)
           At == {i \in 1 .. Len(pts) : OfVideo(pts[i])}
<1>1. SubList(r, pts, At) /\ At \in SUBSET (1 .. Len(pts))
  BY VideoKept
<1>2. \A i \in At : pts[i] \in VideoPoints
  BY ElementOfSeq DEF VideoPoints
<1> HIDE DEF r, At
<1>3. r \in Seq(VideoPoints) /\ Len(r) <= Len(pts)
  BY <1>1, <1>2, SubListFits
<1> QED
  BY <1>3 DEF r

LEMMA PaperFits ==
    ASSUME NEW pts \in Seq(Points)
    PROVE  Filtered(pts, OfPaper) \in Seq(PaperPoints) /\ Len(Filtered(pts, OfPaper)) <= Len(pts)
<1> DEFINE r == Filtered(pts, OfPaper)
           At == {i \in 1 .. Len(pts) : OfPaper(pts[i])}
<1>1. SubList(r, pts, At) /\ At \in SUBSET (1 .. Len(pts))
  BY PaperKept
<1>2. \A i \in At : pts[i] \in PaperPoints
  BY ElementOfSeq DEF PaperPoints
<1> HIDE DEF r, At
<1>3. r \in Seq(PaperPoints) /\ Len(r) <= Len(pts)
  BY <1>1, <1>2, SubListFits
<1> QED
  BY <1>3 DEF r

(* The hits a branch returns: of its own collection, and no more than it ranks. *)
BranchHits(hits, P) ==
    /\ hits \in Seq(Hits) /\ Len(hits) <= MaxRanked
    /\ \A i \in 1 .. Len(hits) : hits[i].pt \in P

LEMMA MomentsFit ==
    ASSUME NEW vhits, BranchHits(vhits, Frames), NEW thits, BranchHits(thits, Points \ Frames)
    PROVE  Moments(vhits, thits) \in Seq(RankedOf(VideoPoints))
<1> DEFINE vr == Ranked(PointsOf(vhits))
           tr == Ranked(Filtered(PointsOf(thits), OfVideo))
           M  == RankedOf(VideoPoints)
<1>1. vr \in Seq(M)
  <2>1. \A i \in 1 .. Len(vhits) : vhits[i].pt \in VideoPoints
    BY Shapes DEF BranchHits, VideoPoints, OfVideo
  <2>2. PointsOf(vhits) \in Seq(VideoPoints) /\ Len(PointsOf(vhits)) <= MaxRanked
    BY <2>1, PointsListed DEF BranchHits
  <2> QED
    BY <2>2, RankedFits
<1>2. tr \in Seq(M)
  <2>1. PointsOf(thits) \in Seq(Points) /\ Len(PointsOf(thits)) <= MaxRanked
    <3>1. \A i \in 1 .. Len(thits) : thits[i].pt \in Points
      BY DEF BranchHits
    <3> QED
      BY <3>1, PointsListed DEF BranchHits
  <2> DEFINE f == Filtered(PointsOf(thits), OfVideo)
  <2>2. f \in Seq(VideoPoints) /\ Len(f) <= Len(PointsOf(thits))
    BY <2>1, VideoFits
  <2> HIDE DEF f
  <2>3. Len(f) <= MaxRanked
    <3>1. Len(f) \in Nat /\ Len(PointsOf(thits)) \in Nat /\ MaxRanked \in Nat
      BY <2>1, <2>2, LenProperties, Exact
    <3> QED
      BY <2>1, <2>2, <3>1
  <2>4. Ranked(f) \in Seq(M)
    BY <2>2, <2>3, RankedFits
  <2> QED
    BY <2>4 DEF f
<1> HIDE DEF vr, tr, M
<1>3. vr \o tr \in Seq(M)
  BY <1>1, <1>2, ConcatProperties
<1>4. M \subseteq RankedHits
  BY WeightsFit DEF M, RankedOf, RankedHits, VideoPoints
<1>5. vr \o tr \in Seq(RankedHits)
  BY <1>3, <1>4, SeqMonotonic
<1>6. Rearranges(Sorted(vr \o tr, Higher), vr \o tr)
  BY <1>5, RanksSorted
<1>7. Sorted(vr \o tr, Higher) \in Seq(M)
  BY <1>3, <1>6, RearrangedSeq
<1>8. Moments(vhits, thits) = Sorted(vr \o tr, Higher)
  BY Zenon DEF Moments, vr, tr
<1> QED
  BY <1>7, <1>8 DEF M

-----------------------------------------------------------------------------
(* The fold of _fuse: the windows as the hits join them. *)

(* A window stands at the second of one of its points, every point of it is  *)
(* of its video and near that second, and it weighs what its points weigh.   *)
Tight(w) ==
    /\ HasFrame(w) => Video[w.frame] = w.video /\ Apart(w.t, Second[w.frame]) <= FUSION_WINDOW_S
    /\ HasText(w)  => Video[w.text] = w.video /\ Apart(w.t, Second[w.text]) <= FUSION_WINDOW_S
    /\ (HasFrame(w) /\ w.t = Second[w.frame]) \/ (HasText(w) /\ w.t = Second[w.text])
    /\ ~Agreeing(w) => w.rrf \in Weights
    /\ Agreeing(w)  => \E a, b \in Weights : w.rrf = a + b

TightWindows == {w \in Windows : Tight(w)}

LEMMA OpenFits ==
    ASSUME NEW h \in RankedOf(VideoPoints)
    PROVE  Window(h) \in TightWindows
<1> DEFINE w == Window(h)
<1>1. /\ h.pt \in Points /\ Video[h.pt] # NoVideo /\ h.rrf \in Weights /\ h.rrf \in Nat
      /\ h.pt # NoPoint /\ Video[h.pt] \in Nat /\ Second[h.pt] \in Nat /\ NoPoint \in Nat
      /\ FUSION_WINDOW_S \in Nat
  BY WeightsFit, Shapes, Exact DEF RankedOf, VideoPoints, OfVideo
<1>2. /\ w.video = Video[h.pt] /\ w.t = Second[h.pt] /\ w.rrf = h.rrf
      /\ w.frame = (IF h.pt \in Frames THEN h.pt ELSE NoPoint)
      /\ w.text = (IF h.pt \in Frames THEN NoPoint ELSE h.pt)
  BY <1>1 DEF Window
<1>3. w \in Windows
  BY <1>1 DEF Window, Windows
<1> HIDE DEF w
<1>4. Apart(w.t, Second[h.pt]) <= FUSION_WINDOW_S
  BY <1>1, <1>2 DEF Apart
<1>5. Tight(w)
  BY <1>1, <1>2, <1>4 DEF Tight, HasFrame, HasText, Agreeing
<1> QED
  BY <1>3, <1>5 DEF TightWindows, w

LEMMA AbsorbFits ==
    ASSUME NEW w \in TightWindows, NEW h \in RankedOf(VideoPoints), Covers(w, h)
    PROVE  Absorb(w, h) \in TightWindows
<1>1. /\ h.pt \in Points /\ h.rrf \in Weights /\ h.rrf \in Nat /\ h.pt # NoPoint
      /\ Video[h.pt] = w.video /\ Apart(w.t, Second[h.pt]) <= FUSION_WINDOW_S
  BY WeightsFit, Shapes DEF RankedOf, VideoPoints, Covers
<1>2. w \in Windows /\ Tight(w)
  BY DEF TightWindows
<1>3. \A a, b \in Weights : a \in Nat /\ b \in Nat
  BY WeightsFit
<1>4. CASE h.pt \in Frames /\ ~HasFrame(w)
  <2> DEFINE r == [w EXCEPT !.frame = h.pt, !.rrf = w.rrf + h.rrf]
  <2>1. HasText(w) /\ ~Agreeing(w) /\ w.rrf \in Weights
    BY <1>2, <1>4 DEF Tight, Agreeing
  <2>2. /\ r.frame = h.pt /\ r.text = w.text /\ r.video = w.video /\ r.t = w.t
        /\ r.rrf = w.rrf + h.rrf /\ r \in Windows
    <3>1. w.rrf + h.rrf \in Nat
      BY <1>1, <1>3, <2>1
    <3>2. h.pt \in Points
      BY <1>1
    <3> QED
      BY <1>2, <1>4, <3>1, <3>2 DEF Windows
  <2>3. Absorb(w, h) = r
    BY <1>4 DEF Absorb
  <2> HIDE DEF r
  <2>4. HasFrame(r) /\ HasText(r) /\ Agreeing(r)
    BY <1>1, <2>1, <2>2 DEF HasFrame, HasText, Agreeing
  <2>5. Tight(r)
    BY <1>1, <1>2, <1>4, <2>1, <2>2, <2>4 DEF Tight
  <2> QED
    BY <2>2, <2>3, <2>5 DEF TightWindows
<1>5. CASE h.pt \notin Frames /\ ~HasText(w)
  <2> DEFINE r == [w EXCEPT !.text = h.pt, !.rrf = w.rrf + h.rrf]
  <2>1. HasFrame(w) /\ ~Agreeing(w) /\ w.rrf \in Weights
    BY <1>2, <1>5 DEF Tight, Agreeing
  <2>2. /\ r.text = h.pt /\ r.frame = w.frame /\ r.video = w.video /\ r.t = w.t
        /\ r.rrf = w.rrf + h.rrf /\ r \in Windows
    <3>1. w.rrf + h.rrf \in Nat
      BY <1>1, <1>3, <2>1
    <3>2. h.pt \in Points
      BY <1>1
    <3> QED
      BY <1>2, <1>5, <3>1, <3>2 DEF Windows
  <2>3. Absorb(w, h) = r
    BY <1>5 DEF Absorb
  <2> HIDE DEF r
  <2>4. HasFrame(r) /\ HasText(r) /\ Agreeing(r)
    BY <1>1, <2>1, <2>2 DEF HasFrame, HasText, Agreeing
  <2>5. Tight(r)
    BY <1>1, <1>2, <1>5, <2>1, <2>2, <2>4 DEF Tight
  <2> QED
    BY <2>2, <2>3, <2>5 DEF TightWindows
<1>6. CASE (h.pt \in Frames /\ HasFrame(w)) \/ (h.pt \notin Frames /\ HasText(w))
  <2>1. Absorb(w, h) = w
    BY <1>6 DEF Absorb
  <2> QED
    BY <2>1
<1> QED
  BY <1>4, <1>5, <1>6

LEMMA JoinFits ==
    ASSUME NEW ws \in Seq(TightWindows), NEW h \in RankedOf(VideoPoints)
    PROVE  Join(ws, h) \in Seq(TightWindows)
<1> DEFINE near == {i \in DOMAIN ws : Covers(ws[i], h)}
           first == CHOOSE i \in near : \A j \in near : i <= j
<1>1. DOMAIN ws = 1 .. Len(ws) /\ Len(ws) \in Nat /\ \A i \in DOMAIN ws : ws[i] \in TightWindows
  BY LenProperties, ElementOfSeq
<1>2. CASE near = {}
  <2>1. Join(ws, h) = Append(ws, Window(h))
    BY <1>2, Zenon DEF Join
  <2>2. Window(h) \in TightWindows
    BY OpenFits
  <2> QED
    BY <2>1, <2>2, AppendProperties
<1>3. CASE near # {}
  <2>1. first \in near
    <3>1. near \in SUBSET Nat
      BY <1>1
    <3>2. Min(near) \in near /\ \A j \in near : Min(near) <= j
      BY <1>3, <3>1, LeastIsMember
    <3> QED
      BY <3>2
  <2> DEFINE r == [ws EXCEPT ![first] = Absorb(ws[first], h)]
  <2>2. Join(ws, h) = r
    BY <1>3 DEF Join
  <2>3. first \in 1 .. Len(ws) /\ Covers(ws[first], h)
    BY <1>1, <2>1
  <2> HIDE DEF first, near
  <2>4. Absorb(ws[first], h) \in TightWindows
    BY <1>1, <2>3, AbsorbFits
  <2>5. r \in Seq(TightWindows)
    BY <2>4, <2>3, ExceptSeq
  <2> QED
    BY <2>2, <2>5
<1> QED
  BY <1>2, <1>3

LEMMA JoinRuns ==
    ASSUME NEW s \in Seq(RankedOf(VideoPoints))
    PROVE  \E F : /\ F \in [0 .. Len(s) -> Seq(TightWindows)]
                  /\ F[0] = <<>> /\ F[Len(s)] = FoldLeft(Join, <<>>, s)
                  /\ \A k \in 1 .. Len(s) : F[k] = Join(F[k - 1], s[k])
<1> DEFINE n == Len(s)
           St == Seq(TightWindows)
           g == [x \in St \X (1 .. n) |-> Join(x[1], s[x[2]])]
           IsFold(iter) == iter = [S \in SUBSET (DOMAIN s) |->
               IF S = {} THEN <<>> ELSE Join(iter[S \ {Max(S)}], s[Max(S)])]
           fold == CHOOSE iter : IsFold(iter)
<1>1. n \in Nat /\ DOMAIN s = 1 .. n /\ \A i \in 1 .. n : s[i] \in RankedOf(VideoPoints)
  BY LenProperties, ElementOfSeq
<1>2. g \in [St \X (1 .. n) -> St]
  BY <1>1, JoinFits
<1>3. <<>> \in St
  BY EmptySeq
<1>4. \A x \in St, k \in 1 .. n : g[<<x, k>>] = Join(x, s[k])
  OBVIOUS
<1>5. FoldLeft(Join, <<>>, s) = fold[DOMAIN s]
  BY Zenon DEF FoldLeft, MapThenFoldSet
<1> HIDE DEF St, g, fold
<1>6. PICK it : IsTree(it, n, St, <<>>, g)
  BY <1>1, <1>2, <1>3, FoldTree
<1>7. IsFold(it)
  <2>1. it \in [SUBSET (DOMAIN s) -> St]
    BY <1>1, <1>6 DEF IsTree
  <2>2. \A S \in SUBSET (DOMAIN s) : it[S] = IF S = {} THEN <<>> ELSE Join(it[S \ {Max(S)}], s[Max(S)])
    <3> SUFFICES ASSUME NEW S \in SUBSET (DOMAIN s), S # {}
                 PROVE  it[S] = Join(it[S \ {Max(S)}], s[Max(S)])
      BY <1>1, <1>6 DEF IsTree
    <3>1. Max(S) \in 1 .. n
      BY <1>1, GreatestIsMember
    <3>2. it[S \ {Max(S)}] \in St
      BY <2>1
    <3>3. it[S] = g[<<it[S \ {Max(S)}], Max(S)>>]
      BY <1>1, <1>6 DEF IsTree
    <3> QED
      BY <1>4, <3>1, <3>2, <3>3
  <2> QED
    BY <2>1, <2>2
<1>8. IsFold(fold)
  BY <1>7, Zenon DEF fold
<1> DEFINE F == [k \in 0 .. n |-> fold[1 .. k]]
<1>9. F[0] = <<>> /\ F[n] = FoldLeft(Join, <<>>, s)
  <2>1. fold[{}] = <<>> /\ 1 .. 0 = {}
    BY <1>8
  <2> QED
    BY <1>1, <1>5, <2>1
<1>10. \A k \in 1 .. n : F[k] = Join(F[k - 1], s[k])
  <2> SUFFICES ASSUME NEW k \in 1 .. n PROVE fold[1 .. k] = Join(fold[1 .. k - 1], s[k])
    OBVIOUS
  <2>1. Max(1 .. k) = k /\ (1 .. k) \ {k} = 1 .. k - 1
    BY GreatestOfInterval
  <2>2. (1 .. k) \in SUBSET (DOMAIN s) /\ (1 .. k) # {}
    <3>1. \A x \in 1 .. k : x \in 1 .. n
      BY <1>1
    <3>2. k \in 1 .. k
      BY <1>1
    <3> QED
      BY <1>1, <3>1, <3>2
  <2>3. fold[1 .. k] = Join(fold[(1 .. k) \ {Max(1 .. k)}], s[Max(1 .. k)])
    BY <1>8, <2>2
  <2> QED
    BY <2>1, <2>3
<1> HIDE DEF IsFold
<1>11. \A k \in 0 .. n : F[k] \in St
  <2> DEFINE Holds == {k \in 0 .. n : F[k] \in St}
  <2>1. 0 \in Holds
    BY <1>1, <1>3, <1>9
  <2>2. \A k \in 1 .. n : k - 1 \in Holds => k \in Holds
    <3> SUFFICES ASSUME NEW k \in 1 .. n, F[k - 1] \in St PROVE F[k] \in St
      BY <1>1
    <3> HIDE DEF F
    <3> QED
      BY <1>1, <1>10, JoinFits DEF St
  <2> HIDE DEF Holds
  <2>3. \A k \in 0 .. n : k \in Holds
    BY <1>1, <2>1, <2>2, Upward
  <2> QED
    BY <2>3 DEF Holds
<1>12. F \in [0 .. n -> St]
  BY <1>11
<1> HIDE DEF F
<1> QED
  BY <1>9, <1>10, <1>12 DEF St

LEMMA JoinedAll ==
    ASSUME NEW s \in Seq(RankedOf(VideoPoints))
    PROVE  FoldLeft(Join, <<>>, s) \in Seq(TightWindows)
<1>1. Len(s) \in Nat
  BY LenProperties
<1>2. PICK F : /\ F \in [0 .. Len(s) -> Seq(TightWindows)]
               /\ F[0] = <<>> /\ F[Len(s)] = FoldLeft(Join, <<>>, s)
               /\ \A k \in 1 .. Len(s) : F[k] = Join(F[k - 1], s[k])
  BY JoinRuns
<1>3. Len(s) \in 0 .. Len(s)
  BY <1>1
<1> QED
  BY <1>2, <1>3

-----------------------------------------------------------------------------
(* What _fuse returns. *)

(* The frame and the words of a window are of one moment. *)
Close(w) ==
    Agreeing(w) => /\ Video[w.frame] = Video[w.text]
                   /\ Apart(Second[w.frame], Second[w.text]) <= FUSION_WINDOW_S

CloseWindows == {w \in Windows : Close(w)}

(* A window of one signal weighs at most what the first rank does; one of two *)
(* weighs more.                                                              *)
Weighed(w) ==
    /\ ~Agreeing(w) => w.rrf <= Rrf(0)
    /\ Agreeing(w) /\ MaxRanked <= 2 * RRF_K => w.rrf > Rrf(0)

FusedWindows == {w \in CloseWindows : Weighed(w)}

LEMMA TightIsClose ==
    ASSUME NEW w \in TightWindows
    PROVE  Close(w)
<1> SUFFICES ASSUME Agreeing(w)
             PROVE  /\ Video[w.frame] = Video[w.text]
                    /\ Apart(Second[w.frame], Second[w.text]) <= FUSION_WINDOW_S
  BY DEF Close
<1>1. /\ w \in Windows /\ w.frame \in Points /\ w.text \in Points /\ w.t \in Nat
      /\ w.frame # NoPoint /\ w.text # NoPoint
  BY Shapes DEF TightWindows, Windows, Agreeing, HasFrame, HasText
<1>2. /\ Video[w.frame] = w.video /\ Apart(w.t, Second[w.frame]) <= FUSION_WINDOW_S
      /\ Video[w.text] = w.video /\ Apart(w.t, Second[w.text]) <= FUSION_WINDOW_S
      /\ w.t = Second[w.frame] \/ w.t = Second[w.text]
  BY DEF TightWindows, Tight, Agreeing
<1>3. Second[w.frame] \in Nat /\ Second[w.text] \in Nat /\ FUSION_WINDOW_S \in Nat
  BY <1>1, Shapes, Exact
<1> QED
  BY <1>1, <1>2, <1>3 DEF Apart

LEMMA CrossModalFits ==
    ASSUME NEW w \in TightWindows
    PROVE  CrossModal(w) \in FusedWindows
<1>1. w \in Windows /\ Tight(w) /\ Close(w)
  BY TightIsClose DEF TightWindows
<1>2. CASE ~Agreeing(w)
  <2>1. CrossModal(w) = w
    BY <1>2 DEF CrossModal
  <2>2. Weighed(w)
    <3>1. w.rrf \in Weights
      BY <1>1, <1>2 DEF Tight
    <3> QED
      BY <1>2, <3>1, WeightsFit DEF Weighed
  <2> QED
    BY <1>1, <2>1, <2>2 DEF FusedWindows, CloseWindows
<1>3. CASE Agreeing(w)
  <2>1. PICK a \in Weights, b \in Weights : w.rrf = a + b
    BY <1>1, <1>3 DEF Tight
  <2> DEFINE more == (3 * (a + b)) \div 2
             r == [w EXCEPT !.rrf = more]
  <2>2. more \in Nat
    BY WeightsFit
  <2>3. CrossModal(w) = r
    BY <1>3, <2>1 DEF CrossModal
  <2>4. MaxRanked <= 2 * RRF_K => more > Rrf(0)
    BY TwoOutweigh
  <2> HIDE DEF more
  <2>5. r \in Windows /\ r.frame = w.frame /\ r.text = w.text /\ r.rrf = more
    BY <1>1, <2>2 DEF Windows
  <2> HIDE DEF r
  <2>6. Close(r) /\ Agreeing(r)
    BY <1>1, <1>3, <2>5 DEF Close, Agreeing, HasFrame, HasText
  <2>7. Weighed(r)
    BY <2>4, <2>5, <2>6 DEF Weighed
  <2> QED
    BY <2>3, <2>5, <2>6, <2>7 DEF FusedWindows, CloseWindows
<1> QED
  BY <1>2, <1>3

LEMMA ChunkFits ==
    ASSUME NEW h \in RankedOf(PaperPoints)
    PROVE  Window(h) \in FusedWindows
<1> DEFINE w == Window(h)
<1>1. /\ h.pt \in Points /\ Video[h.pt] = NoVideo /\ h.pt \notin Frames
      /\ h.rrf \in Weights /\ h.rrf \in Nat /\ Video[h.pt] \in Nat
  BY WeightsFit, Shapes DEF RankedOf, PaperPoints, OfPaper
<1>2. w.frame = NoPoint /\ w.text = h.pt /\ w.rrf = h.rrf
  BY <1>1 DEF Window
<1>3. w \in Windows
  BY <1>1 DEF Window, Windows
<1> HIDE DEF w
<1>4. ~Agreeing(w)
  BY <1>2 DEF Agreeing, HasFrame
<1>5. w.rrf <= Rrf(0)
  BY <1>1, <1>2, WeightsFit
<1>6. Close(w) /\ Weighed(w)
  BY <1>4, <1>5 DEF Close, Weighed
<1> QED
  BY <1>3, <1>6 DEF FusedWindows, CloseWindows, w

(* Moments, by agreement first. *)
Agreed(ws) == \A i, j \in 1 .. Len(ws) : i < j /\ Agreeing(ws[j]) => Agreeing(ws[i])

LEMMA FuseFits ==
    ASSUME NEW vhits, BranchHits(vhits, Frames), NEW thits, BranchHits(thits, Points \ Frames)
    PROVE  /\ Fuse(vhits, thits) \in Seq(CloseWindows)
           /\ MaxRanked <= 2 * RRF_K => Agreed(Fuse(vhits, thits))
<1> DEFINE timed  == FoldLeft(Join, <<>>, Moments(vhits, thits))
           papers == Filtered(PointsOf(thits), OfPaper)
           chunks == Ranked(papers)
           both == [i \in DOMAIN timed |-> CrossModal(timed[i])]
           alone == [i \in DOMAIN chunks |-> Window(chunks[i])]
           s == both \o alone
           r == Sorted(s, BetterWindow)
<1>1. Fuse(vhits, thits) = r
  BY Zenon DEF Fuse
<1>2. timed \in Seq(TightWindows)
  BY MomentsFit, JoinedAll
<1>3. chunks \in Seq(RankedOf(PaperPoints))
  <2>1. PointsOf(thits) \in Seq(Points) /\ Len(PointsOf(thits)) <= MaxRanked
    <3>1. \A i \in 1 .. Len(thits) : thits[i].pt \in Points
      BY DEF BranchHits
    <3> QED
      BY <3>1, PointsListed DEF BranchHits
  <2>2. papers \in Seq(PaperPoints) /\ Len(papers) <= Len(PointsOf(thits))
    BY <2>1, PaperFits
  <2> HIDE DEF papers
  <2>3. Len(papers) <= MaxRanked
    <3>1. Len(papers) \in Nat /\ Len(PointsOf(thits)) \in Nat /\ MaxRanked \in Nat
      BY <2>1, <2>2, LenProperties, Exact
    <3> QED
      BY <2>1, <2>2, <3>1
  <2> QED
    BY <2>2, <2>3, RankedFits
<1> HIDE DEF timed, chunks
<1>4. both \in Seq(FusedWindows)
  <2>1. Len(timed) \in Nat /\ DOMAIN timed = 1 .. Len(timed) /\ \A i \in DOMAIN timed : timed[i] \in TightWindows
    BY <1>2, LenProperties, ElementOfSeq
  <2>2. both \in [1 .. Len(timed) -> FusedWindows]
    BY <2>1, CrossModalFits
  <2> QED
    BY <2>1, <2>2
<1>5. alone \in Seq(FusedWindows)
  <2>1. Len(chunks) \in Nat /\ DOMAIN chunks = 1 .. Len(chunks) /\ \A i \in DOMAIN chunks : chunks[i] \in RankedOf(PaperPoints)
    BY <1>3, LenProperties, ElementOfSeq
  <2>2. alone \in [1 .. Len(chunks) -> FusedWindows]
    BY <2>1, ChunkFits
  <2> QED
    BY <2>1, <2>2
<1> HIDE DEF both, alone
<1>6. s \in Seq(FusedWindows)
  BY <1>4, <1>5, ConcatProperties
<1> HIDE DEF s
<1>7. s \in Seq(Windows)
  <2>1. FusedWindows \subseteq Windows
    BY DEF FusedWindows, CloseWindows
  <2> QED
    BY <1>6, <2>1, SeqMonotonic
<1>8. /\ Rearranges(r, s)
      /\ \A m, k \in 1 .. Len(s) : m < k => ~BetterWindow(r[k], r[m])
  BY <1>7, WindowsSorted
<1> HIDE DEF r
<1>9. r \in Seq(FusedWindows) /\ Len(r) = Len(s)
  BY <1>6, <1>8, RearrangedSeq
<1>10. r \in Seq(CloseWindows)
  <2>1. FusedWindows \subseteq CloseWindows
    BY DEF FusedWindows
  <2> QED
    BY <1>9, <2>1, SeqMonotonic
<1>11. ASSUME MaxRanked <= 2 * RRF_K PROVE Agreed(r)
  <2> SUFFICES ASSUME NEW i \in 1 .. Len(r), NEW j \in 1 .. Len(r), i < j,
                      Agreeing(r[j]), ~Agreeing(r[i])
               PROVE  FALSE
    BY DEF Agreed
  <2>1. r[i] \in FusedWindows /\ r[j] \in FusedWindows
    BY <1>9, ElementOfSeq
  <2>2. r[i].rrf <= Rrf(0) /\ r[j].rrf > Rrf(0)
    BY <1>11, <2>1 DEF FusedWindows, Weighed
  <2>3. r[i].rrf \in Nat /\ r[j].rrf \in Nat
    BY <2>1 DEF FusedWindows, CloseWindows, Windows
  <2>4. Rrf(0) \in Nat
    BY RrfFits
  <2>5. ~BetterWindow(r[j], r[i])
    BY <1>8, <1>9
  <2> QED
    BY <2>2, <2>3, <2>4, <2>5 DEF BetterWindow
<1> QED
  BY <1>1, <1>10, <1>11

-----------------------------------------------------------------------------
(* What graph.boost_windows returns. *)

LEMMA BoostedFits ==
    ASSUME NEW w \in CloseWindows, NEW matched
    PROVE  /\ Boosted(w, matched) \in CloseWindows
           /\ Boosted(w, matched).frame = w.frame /\ Boosted(w, matched).text = w.text
<1>1. w \in Windows /\ Close(w)
  BY DEF CloseWindows
<1> DEFINE r == [w EXCEPT !.rrf = w.rrf + MAX_BOOST, !.boosted = TRUE]
<1>2. r \in Windows /\ r.frame = w.frame /\ r.text = w.text
  <2>1. w.rrf + MAX_BOOST \in Nat
    BY <1>1, Exact DEF Windows
  <2> QED
    BY <1>1, <2>1 DEF Windows
<1>3. Boosted(w, matched) = IF WindowSource(w) \in matched THEN r ELSE w
  BY DEF Boosted
<1> HIDE DEF r
<1>4. Close(r)
  BY <1>1, <1>2 DEF Close, Agreeing, HasFrame, HasText
<1> QED
  BY <1>1, <1>2, <1>3, <1>4 DEF CloseWindows

(* The same windows, up to what does not show in an answer. *)
SameEvidence(r, ws) == Len(r) = Len(ws) /\ Evidence(r) = Evidence(ws)

LEMMA RearrangedEvidence ==
    ASSUME NEW s \in Seq(CloseWindows), NEW r, Rearranges(r, s)
    PROVE  SameEvidence(r, s)
<1>1. /\ r \in Seq(CloseWindows) /\ Len(r) = Len(s)
      /\ \A m \in 1 .. Len(s) : \E i \in 1 .. Len(s) : r[m] = s[i]
      /\ \A i \in 1 .. Len(s) : \E m \in 1 .. Len(s) : r[m] = s[i]
  BY RearrangedSeq
<1>2. DOMAIN r = 1 .. Len(s) /\ DOMAIN s = 1 .. Len(s)
  BY <1>1, LenProperties
<1>3. \A e : e \in Evidence(r) <=> e \in Evidence(s)
  BY <1>1, <1>2 DEF Evidence
<1> QED
  BY <1>1, <1>3 DEF SameEvidence

LEMMA BoostFits ==
    ASSUME NEW ws \in Seq(CloseWindows), NEW matched
    PROVE  /\ BoostWindows(ws, matched) \in Seq(CloseWindows)
           /\ SameEvidence(BoostWindows(ws, matched), ws)
<1> DEFINE s == [i \in DOMAIN ws |-> Boosted(ws[i], matched)]
           r == Sorted(s, BetterWindow)
<1>1. CASE matched = {}
  <2>1. BoostWindows(ws, matched) = ws
    BY <1>1, Zenon DEF BoostWindows
  <2> QED
    BY <2>1 DEF SameEvidence
<1>2. CASE matched # {}
  <2>1. BoostWindows(ws, matched) = r
    BY <1>2, Zenon DEF BoostWindows
  <2>2. Len(ws) \in Nat /\ DOMAIN ws = 1 .. Len(ws) /\ \A i \in DOMAIN ws : ws[i] \in CloseWindows
    BY LenProperties, ElementOfSeq
  <2>3. s \in [1 .. Len(ws) -> CloseWindows]
    BY <2>2, BoostedFits
  <2>4. s \in Seq(CloseWindows) /\ Len(s) = Len(ws) /\ DOMAIN s = 1 .. Len(ws)
    BY <2>2, <2>3
  <2>5. \A i \in 1 .. Len(ws) : s[i].frame = ws[i].frame /\ s[i].text = ws[i].text
    BY <2>2, BoostedFits
  <2> HIDE DEF s
  <2>6. Evidence(s) = Evidence(ws)
    <3>1. \A e : e \in Evidence(s) <=> e \in Evidence(ws)
      BY <2>2, <2>4, <2>5 DEF Evidence
    <3> QED
      BY <3>1
  <2>7. s \in Seq(Windows)
    <3>1. CloseWindows \subseteq Windows
      BY DEF CloseWindows
    <3> QED
      BY <2>4, <3>1, SeqMonotonic
  <2>8. Rearranges(r, s)
    BY <2>7, WindowsSorted
  <2> HIDE DEF r
  <2>9. r \in Seq(CloseWindows) /\ SameEvidence(r, s)
    BY <2>4, <2>8, RearrangedSeq, RearrangedEvidence
  <2> QED
    BY <2>1, <2>4, <2>6, <2>9 DEF SameEvidence
<1> QED
  BY <1>1, <1>2

-----------------------------------------------------------------------------
(* What rerank returns. *)

LEMMA ReadSorted ==
    ASSUME NEW ws \in Seq(CloseWindows), NEW ce \in [Points -> Int]
    PROVE  Rearranges(BestRead(ws, ce), Filtered(ws, Readable))
<1> DEFINE s == Filtered(ws, Readable)
           At == {i \in 1 .. Len(ws) : Readable(ws[i])}
           n == Len(s)
           Better(i, j) == ce[s[i].text] > ce[s[j].text]
           after == [i \in DOMAIN s |-> {j \in DOMAIN s : Better(i, j)}]
<1>0. BestRead(ws, ce) = Stably(s, after)
  BY Zenon DEF BestRead, Sorted
<1>1. s \in Seq({w \in CloseWindows : Readable(w)})
  <2>1. SubList(s, ws, At) /\ At \in SUBSET (1 .. Len(ws))
    BY ReadableKept
  <2>2. \A i \in At : ws[i] \in {w \in CloseWindows : Readable(w)}
    BY ElementOfSeq
  <2> HIDE DEF s, At
  <2> QED
    BY <2>1, <2>2, SubListFits
<1> HIDE DEF s
<1>2. n \in Nat /\ DOMAIN s = 1 .. n /\ \A i \in 1 .. n : s[i] \in CloseWindows /\ Readable(s[i])
  BY <1>1, LenProperties, ElementOfSeq
<1>3. \A i, j \in 1 .. n : j \in after[i] <=> Better(i, j)
  BY <1>2
<1>4. Consistent(after, n)
  <2>1. \A i \in 1 .. n : ce[s[i].text] \in Int
    <3>1. \A i \in 1 .. n : s[i].text \in Points
      BY <1>2 DEF CloseWindows, Windows, Readable, HasText
    <3> QED
      BY <3>1
  <2>2. \A i, j \in 1 .. n : Better(i, j) => ~Better(j, i)
    BY <2>1
  <2>3. \A i, j, k \in 1 .. n : ~Better(i, j) /\ ~Better(j, k) => ~Better(i, k)
    BY <2>1
  <2> HIDE DEF Better, after
  <2> QED
    BY <1>3, <2>2, <2>3 DEF Consistent
<1> HIDE DEF Better, after
<1> QED
  BY <1>0, <1>1, <1>4, StablySorted DEF Rearranges, s

(* The windows the cross-encoder could read trade places among themselves.   *)
LEMMA RerankFits ==
    ASSUME NEW ws \in Seq(CloseWindows), NEW ce \in [Points -> Int]
    PROVE  /\ Rerank(ws, ce) \in Seq(CloseWindows)
           /\ SameEvidence(Rerank(ws, ce), ws)
           /\ \A i \in 1 .. Len(ws) : Readable(ws[i]) \/ Rerank(ws, ce)[i] = ws[i]
<1> DEFINE f == Filtered(ws, Readable)
           best == BestRead(ws, ce)
           At == {i \in 1 .. Len(ws) : Readable(ws[i])}
           Nth(i) == Cardinality({j \in 1 .. i : Readable(ws[j])})
           r == [i \in DOMAIN ws |-> IF Readable(ws[i]) THEN best[Nth(i)] ELSE ws[i]]
<1>1. Len(ws) \in Nat /\ DOMAIN ws = 1 .. Len(ws) /\ \A i \in 1 .. Len(ws) : ws[i] \in CloseWindows
  BY LenProperties, ElementOfSeq
<1>2. Rerank(ws, ce) = r
  BY Zenon DEF Rerank
<1>3. \A i \in At : Nth(i) = Cardinality({j \in At : j <= i})
  <2> SUFFICES ASSUME NEW i \in At
               PROVE  {j \in 1 .. i : Readable(ws[j])} = {j \in At : j <= i}
    OBVIOUS
  <2>1. \A j : (j \in 1 .. i) <=> (j \in 1 .. Len(ws) /\ j <= i)
    BY <1>1
  <2> QED
    BY <2>1
<1>4. SubList(f, ws, At)
  BY ReadableKept
<1> HIDE DEF f
<1>5. /\ f \in Seq(CloseWindows) /\ Len(f) = Cardinality(At)
      /\ \A m \in 1 .. Len(f) : \E i \in At : f[m] = ws[i]
      /\ \A i \in At : \E m \in 1 .. Len(f) : f[m] = ws[i]
  <2>1. At \in SUBSET (1 .. Len(ws))
    OBVIOUS
  <2> HIDE DEF At, Nth, r
  <2>2. f \in Seq(CloseWindows) /\ Len(f) = Cardinality(At) /\ Those(f, ws, At)
    BY <1>4, <2>1, SubListSeq
  <2> QED
    BY <2>2 DEF Those
<1>6. Rearranges(best, f)
  BY ReadSorted DEF f
<1> HIDE DEF best
<1>7. /\ best \in Seq(CloseWindows) /\ Len(best) = Len(f)
      /\ \A m \in 1 .. Len(f) : \E i \in 1 .. Len(f) : best[m] = f[i]
      /\ \A i \in 1 .. Len(f) : \E m \in 1 .. Len(f) : best[m] = f[i]
  <2> HIDE DEF At, Nth, r
  <2>1. f \in Seq(CloseWindows)
    BY <1>5
  <2> QED
    BY <1>6, <2>1, RearrangedSeq
<1>8. /\ Cardinality(At) \in Nat
      /\ \A i \in At : Nth(i) \in 1 .. Cardinality(At)
      /\ \A m \in 1 .. Cardinality(At) : \E i \in At : Nth(i) = m
  <2>1. At \in SUBSET (1 .. Len(ws))
    OBVIOUS
  <2> HIDE DEF At, Nth
  <2>2. /\ Cardinality(At) \in Nat
        /\ \A i \in At : Cardinality({j \in At : j <= i}) \in 1 .. Cardinality(At)
        /\ \A m \in 1 .. Cardinality(At) : \E i \in At : Cardinality({j \in At : j <= i}) = m
    BY <1>1, <2>1, Numbered
  <2> QED
    BY <1>3, <2>2
<1>9. \A i \in 1 .. Len(ws) : i \in At <=> Readable(ws[i])
  OBVIOUS
<1>10. /\ \A i \in At : r[i] = best[Nth(i)]
       /\ \A i \in 1 .. Len(ws) : i \notin At => r[i] = ws[i]
  BY <1>1
<1>11. r \in Seq(CloseWindows) /\ Len(r) = Len(ws) /\ DOMAIN r = 1 .. Len(ws)
  <2>1. \A i \in 1 .. Len(ws) : (IF Readable(ws[i]) THEN best[Nth(i)] ELSE ws[i]) \in CloseWindows
    <3>1. \A m \in 1 .. Len(best) : best[m] \in CloseWindows
      BY <1>7, ElementOfSeq
    <3> HIDE DEF Nth
    <3> QED
      BY <1>1, <1>5, <1>7, <1>8, <3>1
  <2>2. r \in [1 .. Len(ws) -> CloseWindows]
    BY <1>1, <2>1
  <2> QED
    BY <1>1, <2>2
<1> HIDE DEF r, Nth, At
<1>12. \A i \in 1 .. Len(ws) : \E j \in 1 .. Len(ws) : r[i] = ws[j]
  <2> SUFFICES ASSUME NEW i \in 1 .. Len(ws) PROVE \E j \in 1 .. Len(ws) : r[i] = ws[j]
    OBVIOUS
  <2>1. CASE i \in At
    <3>1. r[i] = best[Nth(i)] /\ Nth(i) \in 1 .. Len(f)
      BY <1>5, <1>8, <1>10, <2>1
    <3>2. PICK m \in 1 .. Len(f) : best[Nth(i)] = f[m]
      BY <1>7, <3>1
    <3>3. PICK j \in At : f[m] = ws[j]
      BY <1>5
    <3> QED
      BY <3>1, <3>2, <3>3 DEF At
  <2>2. CASE i \notin At
    BY <1>10, <2>2
  <2> QED
    BY <2>1, <2>2
<1>13. \A j \in 1 .. Len(ws) : \E i \in 1 .. Len(ws) : r[i] = ws[j]
  <2> SUFFICES ASSUME NEW j \in 1 .. Len(ws) PROVE \E i \in 1 .. Len(ws) : r[i] = ws[j]
    OBVIOUS
  <2>1. CASE j \in At
    <3>1. PICK m \in 1 .. Len(f) : f[m] = ws[j]
      BY <1>5, <2>1
    <3>2. PICK k \in 1 .. Len(f) : best[k] = f[m]
      BY <1>7
    <3>3. PICK i \in At : Nth(i) = k
      BY <1>5, <1>8
    <3>4. r[i] = ws[j] /\ i \in 1 .. Len(ws)
      BY <1>10, <3>1, <3>2, <3>3 DEF At
    <3> QED
      BY <3>4
  <2>2. CASE j \notin At
    BY <1>10, <2>2
  <2> QED
    BY <2>1, <2>2
<1>14. SameEvidence(r, ws)
  <2>1. \A e : e \in Evidence(r) <=> e \in Evidence(ws)
    BY <1>1, <1>11, <1>12, <1>13 DEF Evidence
  <2> QED
    BY <1>11, <2>1 DEF SameEvidence
<1>15. \A i \in 1 .. Len(ws) : Readable(ws[i]) \/ r[i] = ws[i]
  BY <1>9, <1>10
<1> QED
  BY <1>2, <1>11, <1>14, <1>15

-----------------------------------------------------------------------------
(* What _citation_windows returns. *)

(* r is cut from ws: no window of it lacks words if any window has them, and  *)
(* its order is that of ws.                                                  *)
CutFrom(r, ws) ==
    /\ (\E i \in 1 .. Len(ws) : HasText(ws[i])) => \A i \in 1 .. Len(r) : HasText(r[i])
    /\ \A i, j \in 1 .. Len(r) :
           i < j => \E m, n \in 1 .. Len(ws) : m < n /\ ws[m] = r[i] /\ ws[n] = r[j]

LEMMA CiteFits ==
    ASSUME NEW ws \in Seq(CloseWindows), NEW k \in Nat
    PROVE  /\ CitationWindows(ws, k) \in Seq(CloseWindows)
           /\ CutFrom(CitationWindows(ws, k), ws)
<1> DEFINE texty  == Filtered(ws, HasText)
           At == {i \in 1 .. Len(ws) : HasText(ws[i])}
           served == IF texty # <<>> THEN texty ELSE ws
           l == IF k < Len(served) THEN k ELSE Len(served)
           r == SubSeq(served, 1, l)
<1>1. CitationWindows(ws, k) = r
  BY DEF CitationWindows
<1>2. At \in SUBSET (1 .. Len(ws)) /\ Len(ws) \in Nat
  BY LenProperties
<1>3. SubList(texty, ws, At)
  BY TextKept
<1> HIDE DEF texty, At
<1>4. /\ texty \in Seq(CloseWindows) /\ Len(texty) \in Nat
      /\ \A m \in 1 .. Len(texty) : \E i \in At : texty[m] = ws[i]
      /\ \A i \in At : \E m \in 1 .. Len(texty) : texty[m] = ws[i]
      /\ InOrder(texty, ws, At)
  <2> HIDE DEF served, l, r
  <2>1. texty \in Seq(CloseWindows) /\ Those(texty, ws, At) /\ InOrder(texty, ws, At)
    BY <1>2, <1>3, SubListSeq
  <2> QED
    BY <2>1, LenProperties DEF Those
<1>5. served \in Seq(CloseWindows) /\ Len(served) \in Nat /\ \A i \in 1 .. Len(served) : served[i] \in CloseWindows
  <2>1. served \in Seq(CloseWindows)
    BY <1>4
  <2> HIDE DEF served
  <2> QED
    BY <2>1, LenProperties, ElementOfSeq
<1>6. \A i, j \in 1 .. Len(served) :
          i < j => \E m, n \in 1 .. Len(ws) : m < n /\ ws[m] = served[i] /\ ws[n] = served[j]
  <2>1. CASE texty # <<>>
    <3> SUFFICES ASSUME NEW i \in 1 .. Len(texty), NEW j \in 1 .. Len(texty), i < j
                 PROVE  \E m, n \in 1 .. Len(ws) : m < n /\ ws[m] = texty[i] /\ ws[n] = texty[j]
      BY <2>1
    <3>1. PICK m \in At, n \in At : m < n /\ texty[i] = ws[m] /\ texty[j] = ws[n]
      BY <1>4 DEF InOrder
    <3> QED
      BY <3>1, <1>2
  <2>2. CASE texty = <<>>
    BY <2>2
  <2> QED
    BY <2>1, <2>2
<1>7. (\E i \in 1 .. Len(ws) : HasText(ws[i])) => \A i \in 1 .. Len(served) : HasText(served[i])
  <2> SUFFICES ASSUME NEW i \in 1 .. Len(ws), HasText(ws[i])
               PROVE  \A j \in 1 .. Len(served) : HasText(served[j])
    OBVIOUS
  <2>1. i \in At
    BY DEF At
  <2>2. PICK m \in 1 .. Len(texty) : texty[m] = ws[i]
    BY <1>4, <2>1
  <2>3. texty # <<>>
    BY <1>4, <2>2, EmptySeq
  <2>4. \A j \in 1 .. Len(texty) : HasText(texty[j])
    BY <1>4 DEF At
  <2> QED
    BY <2>3, <2>4
<1> HIDE DEF served
<1>8. l \in Nat /\ l <= Len(served)
  BY <1>5
<1> HIDE DEF l
<1>9. /\ r \in Seq(CloseWindows) /\ Len(r) = l
      /\ \A i \in 1 .. l : r[i] = served[i] /\ i \in 1 .. Len(served)
  <2>1. \A i \in 1 .. l : served[i] \in CloseWindows /\ i \in 1 .. Len(served)
    BY <1>5, <1>8
  <2>2. /\ r \in Seq(CloseWindows) /\ Len(r) = (IF 1 <= l THEN l - 1 + 1 ELSE 0)
        /\ \A i \in 1 .. l - 1 + 1 : r[i] = served[1 + i - 1]
    BY <1>8, <2>1, SubSeqProperties
  <2>3. l - 1 + 1 = l /\ \A i \in 1 .. l : 1 + i - 1 = i
    BY <1>8
  <2>4. Len(r) = l
    BY <1>8, <2>2
  <2> QED
    BY <2>1, <2>2, <2>3, <2>4
<1> HIDE DEF r
<1>10. (\E i \in 1 .. Len(ws) : HasText(ws[i])) => \A i \in 1 .. Len(r) : HasText(r[i])
  BY <1>7, <1>9
<1>11. \A i, j \in 1 .. Len(r) :
           i < j => \E m, n \in 1 .. Len(ws) : m < n /\ ws[m] = r[i] /\ ws[n] = r[j]
  <2> SUFFICES ASSUME NEW i \in 1 .. Len(r), NEW j \in 1 .. Len(r), i < j
               PROVE  \E m, n \in 1 .. Len(ws) : m < n /\ ws[m] = r[i] /\ ws[n] = r[j]
    OBVIOUS
  <2>1. i \in 1 .. Len(served) /\ j \in 1 .. Len(served) /\ r[i] = served[i] /\ r[j] = served[j]
    BY <1>9
  <2>2. PICK m \in 1 .. Len(ws), n \in 1 .. Len(ws) : m < n /\ ws[m] = served[i] /\ ws[n] = served[j]
    BY <1>6, <2>1
  <2> QED
    BY <2>1, <2>2
<1>12. CutFrom(r, ws)
  BY <1>10, <1>11, Zenon DEF CutFrom
<1> QED
  BY <1>1, <1>9, <1>12

-----------------------------------------------------------------------------
(* The lists of a branch, merged. *)

LEMMA MergeSize ==
    ASSUME NEW lists \in Seq(Seq(Hits))
    PROVE  /\ Len(lists) = 0 => Len(MergeHits(lists)) = 0
           /\ Len(lists) = 1 => Len(MergeHits(lists)) <= Len(lists[1])
           /\ Len(lists) = 2 => Len(MergeHits(lists)) <= Len(lists[1]) + Len(lists[2])
<1>1. Len(MergeHits(lists)) <= Len(FlattenSeq(lists)) /\ Len(MergeHits(lists)) \in Nat
  BY MergedHits, LenProperties DEF RanksAll
<1>2. ASSUME Len(lists) = 0 PROVE Len(MergeHits(lists)) = 0
  <2>1. FlattenSeq(lists) = <<>> /\ Len(<<>>) = 0
    BY <1>2, Flattened, EmptySeq
  <2> QED
    BY <1>1, <2>1
<1>3. ASSUME Len(lists) = 1 PROVE Len(MergeHits(lists)) <= Len(lists[1])
  <2>1. FlattenSeq(lists) = lists[1]
    BY <1>3, Flattened
  <2> QED
    BY <1>1, <2>1
<1>4. ASSUME Len(lists) = 2 PROVE Len(MergeHits(lists)) <= Len(lists[1]) + Len(lists[2])
  <2>1. FlattenSeq(lists) = lists[1] \o lists[2]
    BY <1>4, Flattened
  <2>2. lists[1] \in Seq(Hits) /\ lists[2] \in Seq(Hits)
    BY <1>4, ElementOfSeq
  <2>3. Len(lists[1] \o lists[2]) = Len(lists[1]) + Len(lists[2])
    BY <2>2, ConcatProperties
  <2> QED
    BY <1>1, <2>1, <2>3
<1> QED
  BY <1>2, <1>3, <1>4

LEMMA MergedWithin ==
    ASSUME NEW lists \in Seq(Seq(Hits)), NEW P,
           \A l \in 1 .. Len(lists) : \A i \in 1 .. Len(lists[l]) : lists[l][i].pt \in P
    PROVE  \A i \in 1 .. Len(MergeHits(lists)) : MergeHits(lists)[i].pt \in P
<1> DEFINE r == MergeHits(lists)
<1>1. \A h \in HitsOf(lists) : h.pt \in P
  BY DEF HitsOf
<1>2. \A i \in 1 .. Len(r) : r[i] \in HitsOf(lists)
  BY MergedHits DEF RanksAll, BestOf
<1> QED
  BY <1>1, <1>2

LEMMA QueriesFit ==
    ASSUME NEW qs \in QueryLists
    PROVE  /\ Len(qs) \in {1, 2} /\ DOMAIN qs = 1 .. Len(qs) /\ \A i \in 1 .. Len(qs) : qs[i] \in Queries
           /\ Len(qs) = 2 => (qs[1] = "original" /\ qs[2] = "other")
                             \/ (qs[1] = "other" /\ qs[2] = "original")
  BY DEF QueryLists, Queries

(* The first lists of a branch, one for each query, as Qdrant answers them. *)
BranchLists(lists, qs, answers) ==
    /\ lists \in Seq(Seq(Hits)) /\ Len(lists) <= Len(qs)
    /\ \A l \in DOMAIN lists : lists[l] \in answers[qs[l]]

LEMMA VisualFits ==
    ASSUME NEW qs \in QueryLists, NEW lists, BranchLists(lists, qs, VisualLists)
    PROVE  BranchHits(MergeHits(lists), Frames)
<1>1. /\ DOMAIN lists = 1 .. Len(lists) /\ Len(lists) \in Nat
      /\ \A l \in 1 .. Len(lists) : lists[l] \in Seq(Hits)
  BY LenProperties, ElementOfSeq DEF BranchLists
<1>0. /\ lists \in Seq(Seq(Hits)) /\ Len(lists) <= Len(qs)
      /\ \A l \in DOMAIN lists : lists[l] \in VisualLists[qs[l]]
  BY DEF BranchLists
<1>2. \A l \in 1 .. Len(lists) : qs[l] \in Queries /\ l \in DOMAIN qs
  <2>1. Len(qs) \in {1, 2} /\ DOMAIN qs = 1 .. Len(qs) /\ \A l \in 1 .. Len(qs) : qs[l] \in Queries
    BY QueriesFit
  <2>2. \A l \in 1 .. Len(lists) : l \in 1 .. Len(qs)
    BY <1>0, <1>1, <2>1
  <2> QED
    BY <2>1, <2>2
<1>3. \A l \in 1 .. Len(lists) : \A i \in 1 .. Len(lists[l]) : lists[l][i].pt \in Frames
  <2> SUFFICES ASSUME NEW l \in 1 .. Len(lists), NEW i \in 1 .. Len(lists[l])
               PROVE  lists[l][i].pt \in Frames
    OBVIOUS
  <2>1. lists[l] \in VisualLists[qs[l]] /\ DOMAIN lists[l] = 1 .. Len(lists[l])
    BY <1>0, <1>1, LenProperties
  <2> QED
    BY <1>2, <2>1, QdrantAnswers
<1>4. MergeHits(lists) \in Seq(Hits) /\ Len(MergeHits(lists)) \in Nat
  BY <1>0, MergedHits, LenProperties DEF RanksAll
<1>5. Len(MergeHits(lists)) <= MaxRanked
  <2>0. MaxRanked \in Nat
    BY Exact
  <2>1. CASE Len(lists) = 0
    <3>1. Len(MergeHits(lists)) = 0
      BY <1>0, <2>1, MergeSize
    <3> QED
      BY <2>0, <3>1
  <2>2. CASE Len(lists) = 1
    <3>1. Len(lists[1]) <= MaxRanked /\ Len(lists[1]) \in Nat
      BY <1>0, <1>1, <1>2, <2>2, QdrantAnswers, LenProperties
    <3>2. Len(MergeHits(lists)) <= Len(lists[1])
      BY <1>0, <2>2, MergeSize
    <3> QED
      BY <1>4, <2>0, <3>1, <3>2
  <2>3. CASE Len(lists) = 2
    <3> DEFINE a == Len(lists[1])
               b == Len(lists[2])
               size == Len(MergeHits(lists))
    <3>1. a \in Nat /\ b \in Nat /\ size \in Nat
      BY <1>1, <1>4, <2>3, LenProperties
    <3>2. size <= a + b
      BY <1>0, <2>3, MergeSize
    <3>3. Len(qs) = 2
      <4> DEFINE k == Len(qs)
      <4>1. k \in {1, 2}
        BY QueriesFit
      <4>2. 2 <= k
        BY <1>0, <2>3
      <4> HIDE DEF k
      <4>3. k = 2
        BY <4>1, <4>2
      <4> QED
        BY <4>3 DEF k
    <3>4. 1 \in DOMAIN lists /\ 2 \in DOMAIN lists
      BY <1>1, <2>3
    <3>5. lists[1] \in VisualLists[qs[1]] /\ lists[2] \in VisualLists[qs[2]]
      BY <1>0, <3>4
    <3>6. a + b <= MaxRanked \/ b + a <= MaxRanked
      <4>1. CASE qs[1] = "original" /\ qs[2] = "other"
        BY <3>5, <4>1, QdrantAnswers
      <4>2. CASE qs[1] = "other" /\ qs[2] = "original"
        BY <3>5, <4>2, QdrantAnswers
      <4> QED
        BY <3>3, <4>1, <4>2, QueriesFit
    <3> HIDE DEF a, b, size
    <3>7. size <= MaxRanked
      BY <2>0, <3>1, <3>2, <3>6
    <3> QED
      BY <3>7 DEF size
  <2>4. Len(qs) \in {1, 2}
    BY QueriesFit
  <2> QED
    BY <1>0, <1>1, <2>1, <2>2, <2>3, <2>4
<1>6. \A i \in 1 .. Len(MergeHits(lists)) : MergeHits(lists)[i].pt \in Frames
  BY <1>0, <1>3, MergedWithin
<1> QED
  BY <1>4, <1>5, <1>6 DEF BranchHits

LEMMA TextFits ==
    ASSUME NEW qs \in QueryLists, NEW lists, BranchLists(lists, qs, TextLists)
    PROVE  BranchHits(MergeHits(lists), Points \ Frames)
<1>1. /\ DOMAIN lists = 1 .. Len(lists) /\ Len(lists) \in Nat
      /\ \A l \in 1 .. Len(lists) : lists[l] \in Seq(Hits)
  BY LenProperties, ElementOfSeq DEF BranchLists
<1>0. /\ lists \in Seq(Seq(Hits)) /\ Len(lists) <= Len(qs)
      /\ \A l \in DOMAIN lists : lists[l] \in TextLists[qs[l]]
  BY DEF BranchLists
<1>2. \A l \in 1 .. Len(lists) : qs[l] \in Queries /\ l \in DOMAIN qs
  <2>1. Len(qs) \in {1, 2} /\ DOMAIN qs = 1 .. Len(qs) /\ \A l \in 1 .. Len(qs) : qs[l] \in Queries
    BY QueriesFit
  <2>2. \A l \in 1 .. Len(lists) : l \in 1 .. Len(qs)
    BY <1>0, <1>1, <2>1
  <2> QED
    BY <2>1, <2>2
<1>3. \A l \in 1 .. Len(lists) : \A i \in 1 .. Len(lists[l]) : lists[l][i].pt \in Points \ Frames
  <2> SUFFICES ASSUME NEW l \in 1 .. Len(lists), NEW i \in 1 .. Len(lists[l])
               PROVE  lists[l][i].pt \in Points \ Frames
    OBVIOUS
  <2>1. lists[l] \in TextLists[qs[l]] /\ DOMAIN lists[l] = 1 .. Len(lists[l])
    BY <1>0, <1>1, LenProperties
  <2>2. lists[l][i] \in Hits
    BY <1>1, ElementOfSeq
  <2> QED
    BY <1>2, <2>1, <2>2, QdrantAnswers DEF Hits
<1>4. MergeHits(lists) \in Seq(Hits) /\ Len(MergeHits(lists)) \in Nat
  BY <1>0, MergedHits, LenProperties DEF RanksAll
<1>5. Len(MergeHits(lists)) <= MaxRanked
  <2>0. MaxRanked \in Nat
    BY Exact
  <2>1. CASE Len(lists) = 0
    <3>1. Len(MergeHits(lists)) = 0
      BY <1>0, <2>1, MergeSize
    <3> QED
      BY <2>0, <3>1
  <2>2. CASE Len(lists) = 1
    <3>1. Len(lists[1]) <= MaxRanked /\ Len(lists[1]) \in Nat
      BY <1>0, <1>1, <1>2, <2>2, QdrantAnswers, LenProperties
    <3>2. Len(MergeHits(lists)) <= Len(lists[1])
      BY <1>0, <2>2, MergeSize
    <3> QED
      BY <1>4, <2>0, <3>1, <3>2
  <2>3. CASE Len(lists) = 2
    <3> DEFINE a == Len(lists[1])
               b == Len(lists[2])
               size == Len(MergeHits(lists))
    <3>1. a \in Nat /\ b \in Nat /\ size \in Nat
      BY <1>1, <1>4, <2>3, LenProperties
    <3>2. size <= a + b
      BY <1>0, <2>3, MergeSize
    <3>3. Len(qs) = 2
      <4> DEFINE k == Len(qs)
      <4>1. k \in {1, 2}
        BY QueriesFit
      <4>2. 2 <= k
        BY <1>0, <2>3
      <4> HIDE DEF k
      <4>3. k = 2
        BY <4>1, <4>2
      <4> QED
        BY <4>3 DEF k
    <3>4. 1 \in DOMAIN lists /\ 2 \in DOMAIN lists
      BY <1>1, <2>3
    <3>5. lists[1] \in TextLists[qs[1]] /\ lists[2] \in TextLists[qs[2]]
      BY <1>0, <3>4
    <3>6. a + b <= MaxRanked \/ b + a <= MaxRanked
      <4>1. CASE qs[1] = "original" /\ qs[2] = "other"
        BY <3>5, <4>1, QdrantAnswers
      <4>2. CASE qs[1] = "other" /\ qs[2] = "original"
        BY <3>5, <4>2, QdrantAnswers
      <4> QED
        BY <3>3, <4>1, <4>2, QueriesFit
    <3> HIDE DEF a, b, size
    <3>7. size <= MaxRanked
      BY <2>0, <3>1, <3>2, <3>6
    <3> QED
      BY <3>7 DEF size
  <2>4. Len(qs) \in {1, 2}
    BY QueriesFit
  <2> QED
    BY <1>0, <1>1, <2>1, <2>2, <2>3, <2>4
<1>6. \A i \in 1 .. Len(MergeHits(lists)) : MergeHits(lists)[i].pt \in Points \ Frames
  BY <1>0, <1>3, MergedWithin
<1> QED
  BY <1>4, <1>5, <1>6 DEF BranchHits

-----------------------------------------------------------------------------
(* The invariant of one question.                                          *)

Ended == pc \in {"done", "failed"}

(* What is known of the tenant before the question. *)
Known == {Source[p] : p \in Points}

(* The client has nothing but the trace until the question ends. *)
ReplyInv ==
    /\ pc = "done"   => reply.code = "200" /\ reply.text # "none"
    /\ pc = "failed" => reply.code # "none" /\ reply.text = "none"
    /\ ~Ended        => reply.code = "none" /\ reply.text = "none"
    /\ kind = "stream" /\ pc \notin {"ask", "done", "failed"} => events = <<"trace">>
    /\ kind = "stream" /\ pc = "done"   => events = <<"trace", "citations", "answer", "done">>
    /\ kind = "stream" /\ pc = "failed" => events = <<"trace", "error">>

(* Before the branches start there is nothing to search with but the question. *)
BranchInv ==
    /\ pc \in {"ask", "enhance"} =>
           vis.pc = "idle" /\ vis.lists = <<>> /\ txt.pc = "idle" /\ txt.lists = <<>>
    /\ pc = "enhance" => flags.enhance
    /\ flags.enhance \/ queries = <<"original">>
    /\ vis.pc = "idle" => Len(vis.lists) < Len(queries)
    /\ txt.pc = "idle" => txt.lists = <<>>
    /\ txt.pc = "search" => Len(txt.lists) < Len(queries)
    /\ BranchLists(vis.lists, queries, VisualLists)
    /\ BranchLists(txt.lists, queries, TextLists)

(* The visual score is the question's own, unless the question was enhanced. *)
ScoreInv ==
    /\ pc \in {"ask", "enhance", "branches", "failed"} \/ vis.pc = "done"
    /\ vis.pc = "done" /\ ~flags.enhance => asked = vis.best

(* Behind the gate there is evidence that cleared a threshold. *)
GateInv ==
    /\ pc \in {"resolve", "call", "check"} => GatePasses
    /\ calls.made > 0 \/ reply.text = "answer" => GatePasses /\ vis.pc = "done"
    /\ calls.made > 0 => pc \in {"call", "check", "done", "failed"}

(* The cached titles may be old, and never older than the question. *)
TitlesInv ==
    /\ Known \subseteq sources /\ sources \subseteq Known \cup NewSources
    /\ titles = NoList \/ Known \subseteq titles
    /\ spare.fault <= MaxFaults
    /\ reply.text = "answer" =>
           /\ raw.cites \subseteq DOMAIN windows
           /\ raw.names \cap (Known \ CitedSources) = {} \/ spare.fault < MaxFaults

WindowsInv ==
    /\ windows \in Seq(CloseWindows)
    /\ pc = "graph" /\ MaxRanked <= 2 * RRF_K => Agreed(windows)

SearchInv == SearchTypeOK /\ ReplyInv /\ BranchInv /\ ScoreInv /\ GateInv /\ TitlesInv /\ WindowsInv

LEMMA NoLists ==
    ASSUME NEW qs, Len(qs) \in Nat, NEW answers
    PROVE  BranchLists(<<>>, qs, answers)
<1>1. <<>> \in Seq(Seq(Hits)) /\ Len(<<>>) = 0 /\ DOMAIN <<>> = {}
  BY EmptySeq
<1> QED
  BY <1>1 DEF BranchLists

LEMMA OneMoreList ==
    ASSUME NEW qs, Len(qs) \in Nat, NEW answers, NEW lists, BranchLists(lists, qs, answers),
           Len(lists) < Len(qs), NEW hits \in answers[qs[Len(lists) + 1]], hits \in Seq(Hits)
    PROVE  BranchLists(Append(lists, hits), qs, answers)
<1> DEFINE n == Len(lists)
           more == Append(lists, hits)
<1>1. lists \in Seq(Seq(Hits)) /\ n \in Nat /\ DOMAIN lists = 1 .. n
  BY LenProperties DEF BranchLists
<1>2. /\ more \in Seq(Seq(Hits)) /\ Len(more) = n + 1
      /\ \A i \in 1 .. n : more[i] = lists[i]
      /\ more[n + 1] = hits
  BY <1>1, AppendProperties
<1>3. \A i \in 1 .. n : lists[i] \in answers[qs[i]]
  BY <1>1 DEF BranchLists
<1>4. hits \in answers[qs[n + 1]] /\ n + 1 <= Len(qs)
  BY <1>1
<1> HIDE DEF n, more
<1>5. DOMAIN more = 1 .. n + 1
  BY <1>2, LenProperties
<1>6. \A i \in 1 .. n + 1 : more[i] \in answers[qs[i]]
  <2> SUFFICES ASSUME NEW i \in 1 .. n + 1 PROVE more[i] \in answers[qs[i]]
    OBVIOUS
  <2>1. i \in 1 .. n \/ i = n + 1
    BY <1>1
  <2> QED
    BY <1>2, <1>3, <1>4, <2>1
<1>7. BranchLists(more, qs, answers)
  BY <1>2, <1>4, <1>5, <1>6 DEF BranchLists
<1> QED
  BY <1>7 DEF more

LEMMA CloseIsWindow == CloseWindows \subseteq Windows
  BY DEF CloseWindows

LEMMA InitHolds == SearchInit => SearchInv
<1> SUFFICES ASSUME SearchInit PROVE SearchInv
  OBVIOUS
<1>1. SearchTypeOK
  <2>1. flags \in Flags /\ kind \in {"post", "stream"}
    BY Settings DEF SearchInit
  <2>2. vis \in Branch /\ txt \in Branch /\ windows \in Seq(Windows)
    BY EmptySeq DEF SearchInit, Branch
  <2>3. events \in Seq({"trace", "citations", "answer", "done", "error"})
    BY EmptySeq DEF SearchInit
  <2>4. sources \subseteq Nat /\ titles \subseteq Nat /\ own \in Models \cup {NoModel} /\ asked \in Nat
    BY Shapes DEF SearchInit, NoList, Unsearched
  <2>5. spare \in [settings: Nat, fault: Nat] /\ calls \in [made: Nat, spent: Nat]
    BY Settings DEF SearchInit
  <2>6. /\ cfg \in [model: Models \cup {EnvModel, NoModel}, source: {"user", "server", "none"}]
        /\ raw \in [cites: SUBSET Nat, names: SUBSET Nat]
        /\ reply \in [code: {"none", "200", "500", "502"}, by: Models \cup {EnvModel, NoModel},
                      text: {"none", "abstained", "closest", "answer", "withheld"}]
    BY DEF SearchInit, NoAnswer
  <2>7. pc = "ask" /\ queries \in QueryLists
    BY DEF SearchInit, QueryLists
  <2> QED
    BY <2>1, <2>2, <2>3, <2>4, <2>5, <2>6, <2>7 DEF SearchTypeOK
<1>2. ReplyInv
  BY DEF SearchInit, ReplyInv, Ended
<1>3. BranchInv
  <2>1. Len(queries) = 1 /\ queries = <<"original">> /\ Len(<<>>) = 0
    BY EmptySeq DEF SearchInit
  <2>2. BranchLists(<<>>, queries, VisualLists) /\ BranchLists(<<>>, queries, TextLists)
    BY <2>1, NoLists
  <2> QED
    BY <2>1, <2>2 DEF SearchInit, BranchInv
<1>4. ScoreInv /\ GateInv
  BY DEF SearchInit, ScoreInv, GateInv
<1>5. TitlesInv
  <2>1. Known = sources
    BY DEF Known, SearchInit
  <2>2. spare.fault <= MaxFaults
    BY Settings DEF SearchInit
  <2> QED
    BY <2>1, <2>2 DEF SearchInit, TitlesInv
<1>6. WindowsInv
  BY EmptySeq DEF SearchInit, WindowsInv
<1> QED
  BY <1>1, <1>2, <1>3, <1>4, <1>5, <1>6 DEF SearchInv

-----------------------------------------------------------------------------
(* Types. *)

EventNames == {"trace", "citations", "answer", "done", "error"}

LEMMA AnsweredTypes ==
    ASSUME SearchTypeOK,
           NEW text \in {"abstained", "closest", "answer", "withheld"},
           NEW by \in Models \cup {EnvModel, NoModel}, Answered(text, by)
    PROVE  /\ pc' = "done"
           /\ reply' \in [code: {"none", "200", "500", "502"}, by: Models \cup {EnvModel, NoModel},
                          text: {"none", "abstained", "closest", "answer", "withheld"}]
           /\ events' \in Seq(EventNames)
<1>1. events \in Seq(EventNames)
  BY DEF SearchTypeOK, EventNames
<1>2. <<"citations", "answer", "done">> \in Seq(EventNames)
  BY DEF EventNames
<1>3. events \o <<"citations", "answer", "done">> \in Seq(EventNames)
  BY <1>1, <1>2, ConcatProperties
<1> QED
  BY <1>1, <1>3 DEF Answered

LEMMA RaiseTypes ==
    ASSUME SearchTypeOK, Raise \/ Unavailable
    PROVE  /\ pc' = "failed"
           /\ reply' \in [code: {"none", "200", "500", "502"}, by: Models \cup {EnvModel, NoModel},
                          text: {"none", "abstained", "closest", "answer", "withheld"}]
           /\ events' \in Seq(EventNames)
<1>1. events \in Seq(EventNames) /\ "error" \in EventNames
  BY DEF SearchTypeOK, EventNames
<1>2. Append(events, "error") \in Seq(EventNames)
  BY <1>1, AppendProperties
<1>3. events' \in Seq(EventNames)
  BY <1>1, <1>2 DEF Raise, Unavailable
<1>4. pc' = "failed"
  BY DEF Raise, Unavailable
<1>5. reply' \in [code: {"none", "200", "500", "502"}, by: Models \cup {EnvModel, NoModel},
                  text: {"none", "abstained", "closest", "answer", "withheld"}]
  BY DEF Raise, Unavailable, SearchTypeOK
<1> QED
  BY <1>3, <1>4, <1>5

LEMMA TopScoreFits ==
    ASSUME NEW hits \in Seq(Hits)
    PROVE  TopScore(hits) \in Nat
<1>1. CASE hits = <<>>
  BY <1>1 DEF TopScore
<1>2. CASE hits # <<>>
  <2>1. hits[1] \in Hits
    BY <1>2, EmptySeq, LenProperties, ElementOfSeq
  <2> QED
    BY <1>2, <2>1 DEF TopScore, Hits
<1> QED
  BY <1>1, <1>2

(* What one more list of hits does to the visual branch. *)
LEMMA VisualTypes ==
    ASSUME SearchInv, SearchVisual
    PROVE  vis' \in Branch /\ asked' \in Nat
<1>1. SearchTypeOK /\ BranchInv /\ vis.pc = "idle"
  BY DEF SearchInv, SearchVisual
<1> DEFINE n == Len(vis.lists) + 1
<1>2. PICK hits \in VisualLists[queries[n]] :
          /\ vis' = IF n < Len(queries) THEN [vis EXCEPT !.lists = Append(vis.lists, hits)]
                    ELSE [pc |-> "done", lists |-> Append(vis.lists, hits),
                          best |-> TopScore(MergeHits(Append(vis.lists, hits)))]
          /\ asked' = IF queries[n] = "original" THEN TopScore(hits) ELSE asked
  BY DEF SearchVisual
<1>3. vis.lists \in Seq(Seq(Hits)) /\ vis.best \in Nat /\ vis \in Branch /\ asked \in Nat
  BY <1>1 DEF SearchTypeOK, Branch
<1>4. n \in Nat /\ n <= Len(queries) /\ n >= 1
  <2>1. Len(vis.lists) \in Nat /\ Len(vis.lists) < Len(queries)
    BY <1>1, <1>3, LenProperties DEF BranchInv
  <2> QED
    BY <1>1, <2>1 DEF SearchTypeOK, QueryLists
<1>5. hits \in Seq(Hits)
  <2>1. queries \in QueryLists
    BY <1>1 DEF SearchTypeOK
  <2>2. queries[n] \in Queries
    <3>1. /\ Len(queries) \in {1, 2} /\ DOMAIN queries = 1 .. Len(queries)
          /\ \A i \in 1 .. Len(queries) : queries[i] \in Queries
      BY <2>1, QueriesFit
    <3> QED
      BY <1>4, <3>1
  <2> QED
    BY <2>2, QdrantAnswers
<1> DEFINE lists == Append(vis.lists, hits)
<1>6. lists \in Seq(Seq(Hits))
  BY <1>3, <1>5, AppendProperties
<1>7. TopScore(MergeHits(lists)) \in Nat /\ TopScore(hits) \in Nat
  BY <1>5, <1>6, TopScoreFits, MergedHits DEF RanksAll
<1> HIDE DEF lists, n
<1>8. [vis EXCEPT !.lists = lists] \in Branch
  BY <1>3, <1>6 DEF Branch
<1>9. [pc |-> "done", lists |-> lists, best |-> TopScore(MergeHits(lists))] \in Branch
  BY <1>6, <1>7 DEF Branch
<1>10. vis' \in Branch
  BY <1>2, <1>8, <1>9 DEF lists
<1>11. asked' \in Nat
  BY <1>2, <1>3, <1>7
<1> QED
  BY <1>10, <1>11

LEMMA TextTypes ==
    ASSUME SearchInv, SearchText
    PROVE  txt' \in Branch
<1>1. SearchTypeOK /\ BranchInv /\ txt.pc = "search"
  BY DEF SearchInv, SearchText
<1> DEFINE n == Len(txt.lists) + 1
<1>2. PICK hits \in TextLists[queries[n]] :
          txt' = [txt EXCEPT !.lists = Append(txt.lists, hits),
                             !.pc = IF n < Len(queries) THEN "search" ELSE "done"]
  BY DEF SearchText
<1>3. txt.lists \in Seq(Seq(Hits)) /\ txt \in Branch
  BY <1>1 DEF SearchTypeOK, Branch
<1>4. n \in Nat /\ n <= Len(queries) /\ n >= 1
  <2>1. Len(txt.lists) \in Nat /\ Len(txt.lists) < Len(queries)
    BY <1>1, <1>3, LenProperties DEF BranchInv
  <2> QED
    BY <1>1, <2>1 DEF SearchTypeOK, QueryLists
<1>5. hits \in Seq(Hits)
  <2>1. queries \in QueryLists
    BY <1>1 DEF SearchTypeOK
  <2>2. queries[n] \in Queries
    <3>1. /\ Len(queries) \in {1, 2} /\ DOMAIN queries = 1 .. Len(queries)
          /\ \A i \in 1 .. Len(queries) : queries[i] \in Queries
      BY <2>1, QueriesFit
    <3> QED
      BY <1>4, <3>1
  <2> QED
    BY <2>2, QdrantAnswers
<1> DEFINE lists == Append(txt.lists, hits)
<1>6. lists \in Seq(Seq(Hits))
  BY <1>3, <1>5, AppendProperties
<1> HIDE DEF lists, n
<1> QED
  BY <1>2, <1>3, <1>6 DEF Branch, lists

(* The windows of one step, from those before it. *)
LEMMA WindowsKept ==
    ASSUME SearchInv, SearchNext
    PROVE  windows' \in Seq(CloseWindows)
<1>1. windows \in Seq(CloseWindows)
  BY DEF SearchInv, WindowsInv
<1>2. CASE FuseBranches
  <2>1. BranchHits(MergeHits(vis.lists), Frames)
    BY VisualFits DEF SearchInv, SearchTypeOK, BranchInv
  <2>2. BranchHits(MergeHits(txt.lists), Points \ Frames)
    BY TextFits DEF SearchInv, SearchTypeOK, BranchInv
  <2> QED
    BY <1>2, <2>1, <2>2, FuseFits DEF FuseBranches
<1>3. CASE Boost
  BY <1>1, <1>3, BoostFits DEF Boost
<1>4. CASE RerankWindows
  <2>1. \A ce \in CrossScores : ce \in [Points -> Int]
    BY Settings
  <2> QED
    BY <1>1, <1>4, <2>1, RerankFits DEF RerankWindows
<1>5. CASE Cite
  <2>1. TOP_K \in Nat
    BY Settings
  <2> QED
    BY <1>1, <1>5, <2>1, CiteFits DEF Cite
<1>6. CASE UNCHANGED windows
  BY <1>1, <1>6
<1>7. SearchNext => FuseBranches \/ Boost \/ RerankWindows \/ Cite \/ UNCHANGED windows
  BY DEF SearchNext, Request, Meanwhile, Branches, Ranks, Answers, Ask, Enhance, SearchVisual,
         SearchGate, SearchText, BranchRaises, JoinRaises, CiteRaises, Abstain, PassGate, Resolve,
         ResolveRaises, CallAnswers, CallFailsRetryably, CallFails, Check, CheckFailsOpen,
         ChangeModel, AddSource, CacheTitles
<1> QED
  BY <1>2, <1>3, <1>4, <1>5, <1>6, <1>7

LEMMA TypesKept ==
    ASSUME SearchInv, SearchNext
    PROVE  SearchTypeOK'
<1>1. SearchTypeOK
  BY DEF SearchInv
<1>2. windows' \in Seq(Windows)
  BY WindowsKept, CloseIsWindow, SeqMonotonic
<1> DEFINE Replies == [code: {"none", "200", "500", "502"}, by: Models \cup {EnvModel, NoModel},
                       text: {"none", "abstained", "closest", "answer", "withheld"}]
           Stages == {"ask", "enhance", "branches", "graph", "rerank", "cite", "gate", "resolve",
                      "call", "check", "done", "failed"}
           Configs == [model: Models \cup {EnvModel, NoModel}, source: {"user", "server", "none"}]
           Budget == [settings: Nat, fault: Nat]
           Raws == [cites: SUBSET Nat, names: SUBSET Nat]
           Calls == [made: Nat, spent: Nat]
<1>3. /\ flags \in Flags /\ kind \in {"post", "stream"} /\ pc \in Stages
      /\ queries \in QueryLists /\ vis \in Branch /\ txt \in Branch
      /\ cfg \in Configs /\ calls \in Calls /\ raw \in Raws /\ reply \in Replies
      /\ events \in Seq(EventNames) /\ own \in Models \cup {NoModel}
      /\ sources \subseteq Nat /\ titles \subseteq Nat /\ asked \in Nat /\ spare \in Budget
  BY <1>1 DEF SearchTypeOK, EventNames
<1>4. SUFFICES /\ flags' \in Flags /\ kind' \in {"post", "stream"} /\ pc' \in Stages
               /\ queries' \in QueryLists /\ vis' \in Branch /\ txt' \in Branch
               /\ cfg' \in Configs /\ calls' \in Calls /\ raw' \in Raws /\ reply' \in Replies
               /\ events' \in Seq(EventNames) /\ own' \in Models \cup {NoModel}
               /\ sources' \subseteq Nat /\ titles' \subseteq Nat /\ asked' \in Nat /\ spare' \in Budget
  BY <1>2 DEF SearchTypeOK, EventNames
<1>5. SpendOne("fault") \/ SpendOne("settings") => spare' \in Budget
  <2>1. ASSUME SpendOne("fault") PROVE spare' \in Budget
    <3>1. spare["fault"] > 0 /\ spare' = [spare EXCEPT !["fault"] = spare["fault"] - 1]
      BY <2>1 DEF SpendOne
    <3>2. spare.settings \in Nat /\ spare.fault \in Nat
      BY <1>3
    <3>3. spare["settings"] \in Nat /\ spare["fault"] \in Nat
      BY <3>2
    <3> QED
      BY <1>3, <3>1, <3>3 DEF Budget
  <2>2. ASSUME SpendOne("settings") PROVE spare' \in Budget
    <3>1. spare["settings"] > 0 /\ spare' = [spare EXCEPT !["settings"] = spare["settings"] - 1]
      BY <2>2 DEF SpendOne
    <3>2. spare.settings \in Nat /\ spare.fault \in Nat
      BY <1>3
    <3>3. spare["settings"] \in Nat /\ spare["fault"] \in Nat
      BY <3>2
    <3> QED
      BY <1>3, <3>1, <3>3 DEF Budget
  <2> QED
    BY <2>1, <2>2
<1>6. \A t \in {"abstained", "closest", "answer", "withheld"}, by \in Models \cup {EnvModel, NoModel} :
          Answered(t, by) => pc' \in Stages /\ reply' \in Replies /\ events' \in Seq(EventNames)
  BY <1>1, AnsweredTypes
<1>7. Raise \/ Unavailable => pc' \in Stages /\ reply' \in Replies /\ events' \in Seq(EventNames)
  BY <1>1, RaiseTypes
<1> HIDE DEF Replies, Budget, Raws, Configs
<1>8. CASE Ask
  <2>1. <<"trace">> \in Seq(EventNames) /\ <<>> \in Seq(EventNames)
    BY EmptySeq DEF EventNames
  <2> QED
    BY <1>3, <1>8, <2>1 DEF Ask
<1>9. CASE Enhance
  BY <1>3, <1>9 DEF Enhance, QueryLists
<1>10. CASE SearchVisual
  <2>1. vis' \in Branch /\ asked' \in Nat
    BY <1>10, VisualTypes
  <2> QED
    BY <1>3, <1>10, <2>1 DEF SearchVisual
<1>11. CASE SearchGate
  <2>1. txt' \in Branch
    BY <1>3, <1>11, Settings DEF SearchGate, Branch
  <2> QED
    BY <1>3, <1>11, <2>1 DEF SearchGate
<1>12. CASE SearchText
  <2>1. txt' \in Branch
    BY <1>12, TextTypes
  <2> QED
    BY <1>3, <1>12, <2>1 DEF SearchText
<1>13. CASE BranchRaises
  <2>1. vis' \in Branch /\ txt' \in Branch
    BY <1>3, <1>13 DEF BranchRaises, Branch
  <2> QED
    BY <1>3, <1>5, <1>13, <2>1 DEF BranchRaises
<1>14. CASE JoinRaises
  BY <1>3, <1>7, <1>14 DEF JoinRaises
<1>15. CASE FuseBranches \/ Boost \/ RerankWindows \/ PassGate
  BY <1>3, <1>15 DEF FuseBranches, Boost, RerankWindows, PassGate
<1>16. CASE Cite
  <2>1. vis' \in Branch /\ txt' \in Branch
    BY <1>3, <1>16, EmptySeq DEF Cite, Branch
  <2> QED
    BY <1>3, <1>16, <2>1 DEF Cite
<1>17. CASE CiteRaises \/ ResolveRaises
  BY <1>3, <1>5, <1>7, <1>17 DEF CiteRaises, ResolveRaises
<1>18. CASE Abstain
  BY <1>3, <1>6, <1>18 DEF Abstain
<1>19. CASE Resolve
  <2>1. cfg' \in Configs
    BY <1>3, <1>19 DEF Resolve, Configs
  <2> QED
    BY <1>3, <1>6, <1>19, <2>1 DEF Resolve
<1>20. CASE CallAnswers
  <2>1. raw' \in Raws
    BY <1>20, Settings DEF CallAnswers, Raws
  <2>2. calls' \in Calls
    BY <1>3, <1>20 DEF CallAnswers
  <2> QED
    BY <1>3, <1>20, <2>1, <2>2 DEF CallAnswers
<1>21. CASE CallFailsRetryably
  <2>1. calls' \in Calls
    <3>1. calls.made \in Nat /\ calls.spent \in Nat /\ LLM_TIMEOUT_S \in Nat /\ RETRY_DELAYS \in Seq(Nat)
      BY <1>3, Settings
    <3>2. calls.made < Len(RETRY_DELAYS) => RETRY_DELAYS[calls.made + 1] \in Nat
      BY <3>1, LenProperties, ElementOfSeq
    <3>3. PICK waited \in {0, LLM_TIMEOUT_S} :
              IF calls.made < Len(RETRY_DELAYS)
              THEN /\ calls' = [made |-> calls.made + 1,
                                spent |-> calls.spent + waited + RETRY_DELAYS[calls.made + 1]]
                   /\ UNCHANGED <<pc, reply, events>>
              ELSE /\ calls' = [made |-> calls.made + 1, spent |-> calls.spent + waited]
                   /\ Unavailable
      BY <1>21, Zenon DEF CallFailsRetryably
    <3>4. waited \in Nat
      BY <3>1
    <3>5. CASE calls.made < Len(RETRY_DELAYS)
      <4> DEFINE pause == RETRY_DELAYS[calls.made + 1]
      <4>1. calls' = [made |-> calls.made + 1, spent |-> calls.spent + waited + pause]
        BY <3>3, <3>5
      <4>2. pause \in Nat
        BY <3>2, <3>5
      <4> HIDE DEF pause
      <4>3. calls.made + 1 \in Nat /\ calls.spent + waited + pause \in Nat
        BY <3>1, <3>4, <4>2
      <4> QED
        BY <4>1, <4>3
    <3>6. CASE ~(calls.made < Len(RETRY_DELAYS))
      BY <3>1, <3>3, <3>4, <3>6
    <3> QED
      BY <3>5, <3>6
  <2> QED
    BY <1>3, <1>7, <1>21, <2>1 DEF CallFailsRetryably
<1>22. CASE CallFails
  <2>1. calls' \in Calls
    BY <1>3, <1>22 DEF CallFails
  <2> QED
    BY <1>3, <1>7, <1>22, <2>1 DEF CallFails
<1>23. CASE Check
  <2>1. raw' \in Raws /\ titles' \subseteq Nat
    BY <1>3, <1>23 DEF Check, ValidCites, Raws
  <2>2. cfg.model \in Models \cup {EnvModel, NoModel}
    BY <1>3 DEF Configs
  <2> QED
    BY <1>3, <1>6, <1>23, <2>1, <2>2 DEF Check
<1>24. CASE CheckFailsOpen
  <2>1. raw' \in Raws
    BY <1>3, <1>24 DEF CheckFailsOpen, ValidCites, Raws
  <2>2. cfg.model \in Models \cup {EnvModel, NoModel}
    BY <1>3 DEF Configs
  <2> QED
    BY <1>3, <1>5, <1>6, <1>24, <2>1, <2>2 DEF CheckFailsOpen
<1>25. CASE ChangeModel
  BY <1>3, <1>5, <1>25 DEF ChangeModel
<1>26. CASE AddSource
  BY <1>3, <1>26, Settings DEF AddSource
<1>27. CASE CacheTitles
  <2>1. NoList \subseteq Nat
    BY Shapes DEF NoList
  <2> QED
    BY <1>3, <1>27, <2>1 DEF CacheTitles
<1> QED
  BY <1>8, <1>9, <1>10, <1>11, <1>12, <1>13, <1>14, <1>15, <1>16, <1>17, <1>18, <1>19, <1>20,
     <1>21, <1>22, <1>23, <1>24, <1>25, <1>26, <1>27
     DEF SearchNext, Request, Meanwhile, Branches, Ranks, Answers

-----------------------------------------------------------------------------
(* How a request ends. *)

LEMMA Written ==
    /\ <<"trace">> \o <<"citations", "answer", "done">> = <<"trace", "citations", "answer", "done">>
    /\ Append(<<"trace">>, "error") = <<"trace", "error">>
<1> DEFINE x == <<"trace">>
           y == <<"citations", "answer", "done">>
           z == <<"trace", "citations", "answer", "done">>
<1>1. x \in Seq(EventNames) /\ y \in Seq(EventNames) /\ z \in Seq(EventNames)
  BY DEF EventNames
<1>2. Len(x) = 1 /\ Len(y) = 3 /\ Len(z) = 4
  OBVIOUS
<1>3. x \o y = z
  <2> HIDE DEF x, y, z
  <2>1. /\ x \o y \in Seq(EventNames) /\ Len(x \o y) = 4
        /\ \A i \in 1 .. 4 : (x \o y)[i] = IF i <= 1 THEN x[i] ELSE y[i - 1]
    <3>1. /\ x \o y \in Seq(EventNames) /\ Len(x \o y) = Len(x) + Len(y)
          /\ \A i \in 1 .. Len(x) + Len(y) :
                 (x \o y)[i] = IF i <= Len(x) THEN x[i] ELSE y[i - Len(x)]
      BY <1>1, ConcatProperties
    <3>2. Len(x) + Len(y) = 4
      BY <1>2
    <3> QED
      BY <1>2, <3>1, <3>2
  <2>2. (x \o y)[1] = x[1] /\ (x \o y)[2] = y[1] /\ (x \o y)[3] = y[2] /\ (x \o y)[4] = y[3]
    BY <2>1
  <2>3. z[1] = x[1] /\ z[2] = y[1] /\ z[3] = y[2] /\ z[4] = y[3]
    BY DEF x, y, z
  <2>4. \A i \in 1 .. 4 : (x \o y)[i] = z[i]
    <3>1. \A i \in 1 .. 4 : i = 1 \/ i = 2 \/ i = 3 \/ i = 4
      OBVIOUS
    <3> QED
      BY <2>2, <2>3, <3>1
  <2> QED
    BY <1>1, <1>2, <2>1, <2>4, SeqEqual
<1> DEFINE v == <<"trace", "error">>
<1>4. Append(x, "error") = v
  <2>1. v \in Seq(EventNames) /\ "error" \in EventNames /\ Len(v) = 2 /\ v[1] = x[1] /\ v[2] = "error"
    BY DEF EventNames
  <2> HIDE DEF x, v
  <2>2. /\ Append(x, "error") \in Seq(EventNames) /\ Len(Append(x, "error")) = Len(x) + 1
        /\ \A i \in 1 .. Len(x) : Append(x, "error")[i] = x[i]
        /\ Append(x, "error")[Len(x) + 1] = "error"
    BY <1>1, <2>1, AppendProperties
  <2>3. \A i \in 1 .. 2 : i = 1 \/ i = 2
    OBVIOUS
  <2>4. Append(x, "error")[1] = v[1] /\ Append(x, "error")[2] = v[2] /\ Len(Append(x, "error")) = 2
    BY <1>2, <2>1, <2>2
  <2>5. \A i \in 1 .. 2 : Append(x, "error")[i] = v[i]
    BY <2>3, <2>4
  <2> QED
    BY <2>1, <2>2, <2>4, <2>5, SeqEqual
<1> QED
  BY <1>3, <1>4

LEMMA Served ==
    ASSUME SearchInv, ~Ended, pc # "ask", NEW text, NEW by, Answered(text, by), kind' = kind, text # "none"
    PROVE  ReplyInv'
<1>1. kind = "stream" => events = <<"trace">>
  BY DEF SearchInv, ReplyInv, Ended
<1>2. kind = "stream" => events' = <<"trace", "citations", "answer", "done">>
  BY <1>1, Written DEF Answered
<1> QED
  BY <1>2 DEF Answered, ReplyInv, Ended

LEMMA Failed ==
    ASSUME SearchInv, ~Ended, pc # "ask", Raise \/ Unavailable, kind' = kind
    PROVE  ReplyInv'
<1>1. /\ kind = "stream" => events = <<"trace">>
      /\ reply.text = "none" /\ kind \in {"post", "stream"}
      /\ reply \in [code: {"none", "200", "500", "502"}, by: Models \cup {EnvModel, NoModel},
                    text: {"none", "abstained", "closest", "answer", "withheld"}]
  BY DEF SearchInv, SearchTypeOK, ReplyInv, Ended
<1>2. pc' = "failed" /\ kind = "stream" => events' = <<"trace", "error">>
  BY <1>1, Written DEF Raise, Unavailable
<1>3. pc' = "failed" /\ reply'.text = "none" /\ reply'.code # "none"
  BY <1>1 DEF Raise, Unavailable
<1> QED
  BY <1>2, <1>3 DEF ReplyInv, Ended

LEMMA ReplyKept ==
    ASSUME SearchInv, SearchNext
    PROVE  ReplyInv'
<1>1. ReplyInv /\ pc \in {"ask", "enhance", "branches", "graph", "rerank", "cite", "gate", "resolve",
                          "call", "check", "done", "failed"}
  BY DEF SearchInv, SearchTypeOK
<1>2. CASE Ask
  BY <1>1, <1>2 DEF Ask, ReplyInv, Ended
<1>3. CASE /\ pc \notin {"ask", "done", "failed"} /\ pc' \notin {"ask", "done", "failed"}
           /\ UNCHANGED <<kind, reply, events>>
  BY <1>1, <1>3 DEF ReplyInv, Ended
<1>4. CASE JoinRaises \/ CiteRaises \/ ResolveRaises
  <2>1. pc # "ask" /\ ~Ended /\ Raise /\ kind' = kind
    BY <1>4 DEF JoinRaises, CiteRaises, ResolveRaises, Ended
  <2> QED
    BY <2>1, Failed
<1>5. CASE CallFailsRetryably \/ CallFails
  <2>1. pc = "call" /\ (Unavailable \/ (pc' = pc /\ UNCHANGED <<reply, events>>)) /\ kind' = kind
    BY <1>5 DEF CallFailsRetryably, CallFails
  <2>2. pc # "ask" /\ ~Ended
    BY <2>1 DEF Ended
  <2>3. CASE Unavailable
    BY <2>1, <2>2, <2>3, Failed
  <2>4. CASE pc' = pc /\ UNCHANGED <<reply, events>>
    BY <1>3, <2>1, <2>4
  <2> QED
    BY <2>1, <2>3, <2>4
<1>6. CASE Abstain \/ Resolve \/ Check \/ CheckFailsOpen
  <2>1. pc \in {"gate", "resolve", "check"} /\ kind' = kind
    BY <1>6 DEF Abstain, Resolve, Check, CheckFailsOpen
  <2>2. pc # "ask" /\ ~Ended
    BY <2>1 DEF Ended
  <2>3. \/ \E text \in {"abstained", "closest", "answer", "withheld"}, by \in {NoModel, cfg.model} :
               Answered(text, by)
        \/ pc' = "call" /\ UNCHANGED <<reply, events>>
    BY <1>6 DEF Abstain, Resolve, Check, CheckFailsOpen
  <2>4. CASE pc' = "call" /\ UNCHANGED <<reply, events>>
    BY <1>3, <2>1, <2>4
  <2>5. CASE \E text \in {"abstained", "closest", "answer", "withheld"}, by \in {NoModel, cfg.model} :
               Answered(text, by)
    <3>1. PICK text \in {"abstained", "closest", "answer", "withheld"}, by \in {NoModel, cfg.model} :
               Answered(text, by)
      BY <2>5
    <3>2. text # "none"
      OBVIOUS
    <3> QED
      BY <2>1, <2>2, <3>1, <3>2, Served
  <2> QED
    BY <2>3, <2>4, <2>5
<1>7. CASE Enhance \/ SearchVisual \/ SearchGate \/ SearchText \/ BranchRaises \/ FuseBranches
  BY <1>3, <1>7 DEF Enhance, SearchVisual, SearchGate, SearchText, BranchRaises, FuseBranches
<1>8. CASE Boost \/ RerankWindows \/ Cite \/ PassGate \/ CallAnswers
  BY <1>3, <1>8 DEF Boost, RerankWindows, Cite, PassGate, CallAnswers
<1>9. CASE ChangeModel \/ AddSource \/ CacheTitles
  BY <1>3, <1>9 DEF ChangeModel, AddSource, CacheTitles, Later
<1> QED
  BY <1>2, <1>4, <1>5, <1>6, <1>7, <1>8, <1>9
     DEF SearchNext, Request, Meanwhile, Branches, Ranks, Answers

-----------------------------------------------------------------------------
(* The branches. *)

LEMMA NextAnswer ==
    ASSUME NEW qs \in QueryLists, NEW n \in Nat, n < Len(qs)
    PROVE  VisualLists[qs[n + 1]] \cup TextLists[qs[n + 1]] \subseteq Seq(Hits)
<1>1. /\ Len(qs) \in {1, 2} /\ DOMAIN qs = 1 .. Len(qs)
      /\ \A i \in 1 .. Len(qs) : qs[i] \in Queries
  BY QueriesFit
<1>2. n + 1 \in 1 .. Len(qs)
  <2> DEFINE k == Len(qs)
  <2>1. k \in {1, 2} /\ n < k
    BY <1>1
  <2> HIDE DEF k
  <2>2. n + 1 \in 1 .. k
    BY <2>1
  <2> QED
    BY <2>2 DEF k
<1>3. qs[n + 1] \in Queries
  BY <1>1, <1>2
<1> QED
  BY <1>3, QdrantAnswers

LEMMA BranchKept ==
    ASSUME SearchInv, SearchNext
    PROVE  BranchInv'
<1>1. BranchInv /\ SearchTypeOK
  BY DEF SearchInv
<1>2. \A qs \in QueryLists : Len(qs) \in Nat /\ 0 < Len(qs)
  BY DEF QueryLists
<1>3. \A qs \in QueryLists : \A answers : BranchLists(<<>>, qs, answers)
  BY <1>2, NoLists
<1>4. Len(<<>>) = 0
  BY EmptySeq
<1>5. queries \in QueryLists /\ vis \in Branch /\ txt \in Branch
  BY <1>1 DEF SearchTypeOK
<1>6. CASE Ask
  BY <1>1, <1>6 DEF Ask, BranchInv
<1>7. CASE Enhance
  <2>1. queries' \in QueryLists
    BY <1>7 DEF Enhance, QueryLists
  <2>2. vis.pc = "idle" /\ vis.lists = <<>> /\ txt.pc = "idle" /\ txt.lists = <<>> /\ flags.enhance
    BY <1>1, <1>7 DEF Enhance, BranchInv
  <2>3. /\ BranchLists(<<>>, queries', VisualLists) /\ BranchLists(<<>>, queries', TextLists)
        /\ 0 < Len(queries')
    BY <1>2, <1>3, <2>1
  <2>4. pc' = "branches" /\ vis' = vis /\ txt' = txt /\ flags' = flags
    BY <1>7 DEF Enhance
  <2> QED
    BY <1>4, <2>2, <2>3, <2>4 DEF BranchInv
<1>8. CASE SearchVisual
  <2> DEFINE n == Len(vis.lists) + 1
  <2>1. PICK hits \in VisualLists[queries[n]] :
            vis' = IF n < Len(queries) THEN [vis EXCEPT !.lists = Append(vis.lists, hits)]
                   ELSE [pc |-> "done", lists |-> Append(vis.lists, hits),
                         best |-> TopScore(MergeHits(Append(vis.lists, hits)))]
    BY <1>8 DEF SearchVisual
  <2>2. /\ vis.pc = "idle" /\ pc = "branches" /\ Len(vis.lists) < Len(queries)
        /\ BranchLists(vis.lists, queries, VisualLists)
        /\ UNCHANGED <<flags, pc, queries, txt>>
    BY <1>1, <1>8 DEF SearchVisual, BranchInv
  <2>3. Len(queries) \in Nat /\ Len(vis.lists) \in Nat /\ vis.lists \in Seq(Seq(Hits))
    BY <1>2, <1>5, LenProperties DEF Branch
  <2>4. hits \in Seq(Hits)
    BY <1>5, <2>1, <2>2, <2>3, NextAnswer
  <2> DEFINE lists == Append(vis.lists, hits)
  <2>5. BranchLists(lists, queries, VisualLists)
    BY <2>1, <2>2, <2>3, <2>4, OneMoreList
  <2>6. Len(lists) = n
    BY <2>3, <2>4, AppendProperties
  <2> HIDE DEF lists, n
  <2>7. vis'.lists = lists /\ (vis'.pc = "idle" => n < Len(queries))
    BY <1>5, <2>1 DEF Branch, lists
  <2> QED
    BY <1>1, <2>2, <2>5, <2>6, <2>7 DEF BranchInv
<1>9. CASE SearchGate
  <2>1. /\ vis' = vis /\ txt'.lists = txt.lists /\ txt'.pc \in {"search", "done"}
        /\ txt.pc = "idle" /\ pc = "branches" /\ UNCHANGED <<flags, pc, queries>>
    BY <1>5, <1>9 DEF SearchGate, Branch
  <2>2. txt.lists = <<>> /\ 0 < Len(queries)
    BY <1>1, <1>2, <1>5, <2>1 DEF BranchInv
  <2> QED
    BY <1>1, <1>4, <2>1, <2>2 DEF BranchInv
<1>10. CASE SearchText
  <2> DEFINE n == Len(txt.lists) + 1
  <2>1. PICK hits \in TextLists[queries[n]] :
            txt' = [txt EXCEPT !.lists = Append(txt.lists, hits),
                               !.pc = IF n < Len(queries) THEN "search" ELSE "done"]
    BY <1>10 DEF SearchText
  <2>2. /\ txt.pc = "search" /\ pc = "branches" /\ Len(txt.lists) < Len(queries)
        /\ BranchLists(txt.lists, queries, TextLists)
        /\ UNCHANGED <<flags, pc, queries, vis>>
    BY <1>1, <1>10 DEF SearchText, BranchInv
  <2>3. Len(queries) \in Nat /\ Len(txt.lists) \in Nat /\ txt.lists \in Seq(Seq(Hits))
    BY <1>2, <1>5, LenProperties DEF Branch
  <2>4. hits \in Seq(Hits)
    BY <1>5, <2>1, <2>2, <2>3, NextAnswer
  <2> DEFINE lists == Append(txt.lists, hits)
  <2>5. BranchLists(lists, queries, TextLists)
    BY <2>1, <2>2, <2>3, <2>4, OneMoreList
  <2>6. Len(lists) = n
    BY <2>3, <2>4, AppendProperties
  <2> HIDE DEF lists, n
  <2>7. txt'.lists = lists /\ txt'.pc \in {"search", "done"} /\ (txt'.pc = "search" => n < Len(queries))
    BY <1>5, <2>1 DEF Branch, lists
  <2> QED
    BY <1>1, <2>2, <2>5, <2>6, <2>7 DEF BranchInv
<1>11. CASE BranchRaises
  <2>1. /\ pc = "branches" /\ UNCHANGED <<flags, pc, queries>>
        /\ vis'.lists = vis.lists /\ txt'.lists = txt.lists
    BY <1>5, <1>11 DEF BranchRaises, Branch
  <2>2. vis'.pc = vis.pc \/ vis'.pc = "raised"
    BY <1>5, <1>11 DEF BranchRaises, Branch
  <2>3. txt'.pc = txt.pc \/ txt'.pc = "raised"
    BY <1>5, <1>11 DEF BranchRaises, Branch
  <2> QED
    BY <1>1, <2>1, <2>2, <2>3 DEF BranchInv
<1>12. CASE Cite
  <2>1. /\ vis'.lists = <<>> /\ txt'.lists = <<>> /\ vis'.pc = vis.pc /\ txt'.pc = txt.pc
        /\ pc' = "gate" /\ UNCHANGED <<flags, queries>>
    BY <1>5, <1>12 DEF Cite, Branch
  <2>2. BranchLists(<<>>, queries, VisualLists) /\ BranchLists(<<>>, queries, TextLists) /\ 0 < Len(queries)
    BY <1>2, <1>3, <1>5
  <2> QED
    BY <1>1, <1>4, <2>1, <2>2 DEF BranchInv
<1>13. CASE UNCHANGED <<flags, queries, vis, txt>> /\ pc' \notin {"ask", "enhance"}
  BY <1>1, <1>13 DEF BranchInv
<1>14. CASE JoinRaises \/ FuseBranches \/ Boost \/ RerankWindows \/ CiteRaises
  BY <1>13, <1>14 DEF JoinRaises, FuseBranches, Boost, RerankWindows, CiteRaises, Raise
<1>15. CASE Abstain \/ PassGate \/ Resolve \/ ResolveRaises \/ CallAnswers
  BY <1>13, <1>15 DEF Abstain, PassGate, Resolve, ResolveRaises, CallAnswers, Answered, Raise
<1>16. CASE CallFailsRetryably \/ CallFails \/ Check \/ CheckFailsOpen
  BY <1>13, <1>16 DEF CallFailsRetryably, CallFails, Check, CheckFailsOpen, Answered, Unavailable
<1>17. CASE ChangeModel \/ AddSource \/ CacheTitles
  BY <1>13, <1>17 DEF ChangeModel, AddSource, CacheTitles, Later
<1> QED
  BY <1>6, <1>7, <1>8, <1>9, <1>10, <1>11, <1>12, <1>14, <1>15, <1>16, <1>17
     DEF SearchNext, Request, Meanwhile, Branches, Ranks, Answers

-----------------------------------------------------------------------------
(* The scores and the gate. *)

(* Unenhanced, the branch asks the question alone and keeps its best hit.    *)
LEMMA AskedAlone ==
    ASSUME SearchInv, SearchVisual, ~flags.enhance
    PROVE  vis'.pc = "done" => asked' = vis'.best
<1>1. /\ queries = <<"original">> /\ vis.pc = "idle" /\ Len(vis.lists) < Len(queries)
      /\ vis.lists \in Seq(Seq(Hits)) /\ queries \in QueryLists /\ vis \in Branch
  BY DEF SearchInv, BranchInv, SearchTypeOK, Branch, SearchVisual
<1>2. Len(queries) = 1 /\ queries[1] = "original"
  BY <1>1
<1>3. vis.lists = <<>> /\ Len(vis.lists) = 0
  BY <1>1, <1>2, LenProperties, EmptySeq
<1>4. PICK hits \in VisualLists[queries[0 + 1]] :
          /\ vis' = IF 0 + 1 < Len(queries) THEN [vis EXCEPT !.lists = Append(<<>>, hits)]
                    ELSE [pc |-> "done", lists |-> Append(<<>>, hits),
                          best |-> TopScore(MergeHits(Append(<<>>, hits)))]
          /\ asked' = IF queries[0 + 1] = "original" THEN TopScore(hits) ELSE asked
  BY <1>3 DEF SearchVisual
<1>5. hits \in VisualLists["original"] /\ hits \in Seq(Hits) /\ Descending(hits)
  BY <1>2, <1>4, QdrantAnswers DEF Queries
<1>6. vis'.best = TopScore(MergeHits(Append(<<>>, hits))) /\ asked' = TopScore(hits)
  BY <1>2, <1>4
<1>7. Append(<<>>, hits) = <<hits>>
  OBVIOUS
<1> QED
  BY <1>5, <1>6, <1>7, TopOfOneList

LEMMA ScoreKept ==
    ASSUME SearchInv, SearchNext
    PROVE  ScoreInv'
<1>1. ScoreInv
  BY DEF SearchInv
<1>2. CASE SearchVisual
  <2>1. pc' = "branches" /\ flags' = flags
    BY <1>2 DEF SearchVisual
  <2>2. ~flags.enhance => (vis'.pc = "done" => asked' = vis'.best)
    BY <1>2, AskedAlone
  <2> QED
    BY <2>1, <2>2 DEF ScoreInv
<1>3. CASE Ask \/ Enhance
  BY <1>1, <1>3 DEF Ask, Enhance, ScoreInv
<1>4. CASE SearchGate \/ SearchText
  BY <1>1, <1>4 DEF SearchGate, SearchText, ScoreInv
<1>5. CASE BranchRaises
  <2>1. vis \in Branch
    BY DEF SearchInv, SearchTypeOK
  <2>2. vis' = vis \/ vis'.pc = "raised"
    BY <1>5, <2>1 DEF BranchRaises, Branch
  <2>3. pc' = "branches" /\ UNCHANGED <<flags, asked>>
    BY <1>5 DEF BranchRaises
  <2> QED
    BY <1>1, <2>2, <2>3 DEF ScoreInv
<1>6. CASE FuseBranches
  BY <1>1, <1>6 DEF FuseBranches, ScoreInv
<1>7. CASE Cite
  <2>1. vis \in Branch
    BY DEF SearchInv, SearchTypeOK
  <2>2. vis'.pc = vis.pc /\ vis'.best = vis.best /\ pc = "cite" /\ UNCHANGED <<flags, asked>>
    BY <1>7, <2>1 DEF Cite, Branch
  <2> QED
    BY <1>1, <2>2 DEF ScoreInv
<1>8. CASE JoinRaises \/ CiteRaises \/ ResolveRaises
  BY <1>1, <1>8 DEF JoinRaises, CiteRaises, ResolveRaises, Raise, ScoreInv
<1>9. CASE Boost \/ RerankWindows \/ Abstain \/ PassGate \/ Resolve
  BY <1>1, <1>9 DEF Boost, RerankWindows, Abstain, PassGate, Resolve, Answered, ScoreInv
<1>10. CASE CallAnswers \/ CallFailsRetryably \/ CallFails \/ Check \/ CheckFailsOpen
  BY <1>1, <1>10 DEF CallAnswers, CallFailsRetryably, CallFails, Check, CheckFailsOpen,
                     Answered, Unavailable, ScoreInv
<1>11. CASE ChangeModel \/ AddSource \/ CacheTitles
  BY <1>1, <1>11 DEF ChangeModel, AddSource, CacheTitles, Later, ScoreInv
<1> QED
  BY <1>2, <1>3, <1>4, <1>5, <1>6, <1>7, <1>8, <1>9, <1>10, <1>11
     DEF SearchNext, Request, Meanwhile, Branches, Ranks, Answers

(* The gate reads the windows and the scores of the branches alone. *)
LEMMA GateFrozen ==
    ASSUME UNCHANGED <<windows, vis, txt>>
    PROVE  GatePasses' = GatePasses
BY DEF GatePasses, Confident

LEMMA GateKept ==
    ASSUME SearchInv, SearchNext
    PROVE  GateInv'
<1>1. GateInv /\ ScoreInv /\ ReplyInv
  BY DEF SearchInv
<1>2. CASE /\ pc \notin {"resolve", "call", "check", "done", "failed"}
           /\ pc' \notin {"resolve", "call", "check"}
           /\ calls' = calls /\ reply'.text # "answer"
  BY <1>1, <1>2 DEF GateInv
<1>3. CASE Ask \/ Enhance \/ SearchVisual \/ SearchGate \/ SearchText \/ BranchRaises \/ FuseBranches
  <2>1. reply.text # "answer" /\ reply' = reply
    BY <1>1, <1>3 DEF Ask, Enhance, SearchVisual, SearchGate, SearchText, BranchRaises, FuseBranches,
                      ReplyInv, Ended
  <2> QED
    BY <1>2, <1>3, <2>1 DEF Ask, Enhance, SearchVisual, SearchGate, SearchText, BranchRaises, FuseBranches
<1>4. CASE Boost \/ RerankWindows \/ Cite
  <2>1. reply.text # "answer" /\ reply' = reply
    BY <1>1, <1>4 DEF Boost, RerankWindows, Cite, ReplyInv, Ended
  <2> QED
    BY <1>2, <1>4, <2>1 DEF Boost, RerankWindows, Cite
<1>5. CASE JoinRaises \/ CiteRaises
  <2>1. reply'.text # "answer"
    <3>1. SearchTypeOK
      BY DEF SearchInv
    <3>2. reply.text = "none" /\ reply'.text = reply.text
      BY <1>1, <1>5, <3>1 DEF JoinRaises, CiteRaises, Raise, ReplyInv, Ended, SearchTypeOK
    <3> QED
      BY <3>2
  <2> QED
    BY <1>2, <1>5, <2>1 DEF JoinRaises, CiteRaises, Raise
<1>6. CASE Abstain
  BY <1>2, <1>6 DEF Abstain, Answered
<1>7. CASE PassGate
  <2>1. GatePasses /\ GatePasses' = GatePasses
    BY <1>7, GateFrozen DEF PassGate
  <2>2. pc = "gate" /\ reply.text = "none" /\ reply' = reply /\ calls' = calls
    BY <1>1, <1>7 DEF PassGate, ReplyInv, Ended
  <2>3. ~(calls.made > 0)
    BY <1>1, <2>2 DEF GateInv
  <2> QED
    BY <2>1, <2>2, <2>3 DEF GateInv
<1>8. CASE Resolve \/ ResolveRaises \/ CallAnswers \/ CallFailsRetryably \/ CallFails \/ Check \/ CheckFailsOpen
  <2>1. pc \in {"resolve", "call", "check"} /\ UNCHANGED <<windows, vis, txt>>
    BY <1>8 DEF Resolve, ResolveRaises, CallAnswers, CallFailsRetryably, CallFails, Check, CheckFailsOpen
  <2>2. GatePasses' /\ vis'.pc = "done"
    BY <1>1, <2>1, GateFrozen DEF GateInv, ScoreInv
  <2>3. calls'.made > 0 => pc' \in {"call", "check", "done", "failed"}
    <3>1. CASE pc = "resolve"
      <4>1. calls' = calls
        BY <1>8, <3>1 DEF Resolve, ResolveRaises, CallAnswers, CallFailsRetryably, CallFails, Check,
                          CheckFailsOpen
      <4> QED
        BY <1>1, <3>1, <4>1 DEF GateInv
    <3>2. CASE pc # "resolve"
      BY <1>8, <2>1, <3>2 DEF Resolve, ResolveRaises, CallAnswers, CallFailsRetryably, CallFails, Check,
                              CheckFailsOpen, Answered, Unavailable
    <3> QED
      BY <3>1, <3>2
  <2> QED
    BY <2>2, <2>3 DEF GateInv
<1>9. CASE ChangeModel \/ AddSource \/ CacheTitles
  <2>1. UNCHANGED <<pc, calls, reply, windows, vis, txt>>
    BY <1>9 DEF ChangeModel, AddSource, CacheTitles
  <2>2. GatePasses' = GatePasses
    BY <2>1, GateFrozen
  <2> QED
    BY <1>1, <2>1, <2>2 DEF GateInv
<1> QED
  BY <1>3, <1>4, <1>5, <1>6, <1>7, <1>8, <1>9
     DEF SearchNext, Request, Meanwhile, Branches, Ranks, Answers

-----------------------------------------------------------------------------
(* The titles. *)

(* A fault spends one of those that remain. *)
LEMMA FaultSpent ==
    ASSUME SearchInv, SpendOne("fault")
    PROVE  spare'.fault < MaxFaults
<1>1. spare["fault"] > 0 /\ spare' = [spare EXCEPT !["fault"] = spare["fault"] - 1]
  BY DEF SpendOne
<1>2. spare \in [settings: Nat, fault: Nat] /\ spare.fault <= MaxFaults /\ MaxFaults \in Nat
  BY Settings DEF SearchInv, SearchTypeOK, TitlesInv
<1>3. spare["fault"] = spare.fault /\ spare.fault \in Nat
  BY <1>2
<1>4. spare'.fault = spare.fault - 1
  BY <1>1, <1>2, <1>3
<1> QED
  BY <1>2, <1>3, <1>4

(* The first list and the budget, which any step keeps. *)
LEMMA ListsKept ==
    ASSUME SearchInv, SearchNext
    PROVE  /\ Known \subseteq sources' /\ sources' \subseteq Known \cup NewSources
           /\ titles' = NoList \/ Known \subseteq titles'
           /\ spare'.fault <= MaxFaults
<1>1. TitlesInv /\ spare \in [settings: Nat, fault: Nat] /\ MaxFaults \in Nat
  BY Settings DEF SearchInv, SearchTypeOK
<1>2. /\ Known \subseteq sources /\ sources \subseteq Known \cup NewSources
      /\ titles = NoList \/ Known \subseteq titles
      /\ spare.fault <= MaxFaults /\ spare.fault \in Nat
  BY <1>1 DEF TitlesInv
<1>3. SpendOne("fault") => spare'.fault <= MaxFaults
  <2> SUFFICES ASSUME SpendOne("fault") PROVE spare'.fault <= MaxFaults
    OBVIOUS
  <2>1. spare["fault"] > 0 /\ spare' = [spare EXCEPT !["fault"] = spare["fault"] - 1]
    BY DEF SpendOne
  <2>2. spare["fault"] = spare.fault
    BY <1>1
  <2>3. spare'.fault = spare.fault - 1
    BY <1>1, <2>1, <2>2
  <2> QED
    BY <1>1, <1>2, <2>3
<1>4. SpendOne("settings") => spare'.fault <= MaxFaults
  <2> SUFFICES ASSUME SpendOne("settings") PROVE spare'.fault <= MaxFaults
    OBVIOUS
  <2>1. spare' = [spare EXCEPT !["settings"] = spare["settings"] - 1]
    BY DEF SpendOne
  <2>2. spare'.fault = spare.fault
    BY <1>1, <2>1
  <2> QED
    BY <1>2, <2>2
<1>5. CASE UNCHANGED <<sources, titles>> /\ (UNCHANGED spare \/ SpendOne("fault") \/ SpendOne("settings"))
  BY <1>2, <1>3, <1>4, <1>5
<1>6. CASE Check
  BY <1>2, <1>6 DEF Check
<1>7. CASE AddSource
  BY <1>2, <1>7 DEF AddSource
<1>8. CASE CacheTitles
  BY <1>2, <1>8 DEF CacheTitles
<1>9. CASE Ask \/ Enhance \/ SearchVisual \/ SearchGate \/ SearchText \/ JoinRaises \/ FuseBranches
  BY <1>5, <1>9 DEF Ask, Enhance, SearchVisual, SearchGate, SearchText, JoinRaises, FuseBranches
<1>10. CASE Boost \/ RerankWindows \/ Cite \/ Abstain \/ PassGate \/ Resolve
  BY <1>5, <1>10 DEF Boost, RerankWindows, Cite, Abstain, PassGate, Resolve
<1>11. CASE CallAnswers \/ CallFailsRetryably \/ CallFails
  BY <1>5, <1>11 DEF CallAnswers, CallFailsRetryably, CallFails
<1>12. CASE BranchRaises \/ CiteRaises \/ ResolveRaises \/ CheckFailsOpen \/ ChangeModel
  BY <1>5, <1>12 DEF BranchRaises, CiteRaises, ResolveRaises, CheckFailsOpen, ChangeModel
<1> QED
  BY <1>6, <1>7, <1>8, <1>9, <1>10, <1>11, <1>12
     DEF SearchNext, Request, Meanwhile, Branches, Ranks, Answers

(* What a served answer cites and names. *)
LEMMA CitesKept ==
    ASSUME SearchInv, SearchNext, reply'.text = "answer"
    PROVE  /\ raw'.cites \subseteq DOMAIN windows'
           /\ raw'.names \cap (Known \ CitedSources') = {} \/ spare'.fault < MaxFaults
<1>1. TitlesInv /\ ReplyInv /\ SearchTypeOK
  BY DEF SearchInv
<1>2. DOMAIN windows = 1 .. Len(windows) /\ raw \in [cites: SUBSET Nat, names: SUBSET Nat]
  BY <1>1, LenProperties DEF SearchTypeOK
<1>3. CASE Check
  <2>1. /\ raw' = [raw EXCEPT !.cites = ValidCites(raw.cites)] /\ windows' = windows
        /\ ~Misattributed(titles')
        /\ titles' = IF titles = NoList THEN sources ELSE titles
    BY <1>3 DEF Check, Answered
  <2>2. raw'.cites = ValidCites(raw.cites) /\ raw'.names = raw.names
    BY <1>2, <2>1
  <2>3. raw'.cites \subseteq DOMAIN windows'
    BY <1>2, <2>1, <2>2 DEF ValidCites
  <2>4. Known \subseteq titles'
    BY <1>1, <2>1 DEF TitlesInv
  <2>5. CitedSources' = CitedSources
    BY <2>1 DEF CitedSources
  <2>6. raw.names \cap (titles' \ CitedSources) = {}
    BY <2>1 DEF Misattributed
  <2> QED
    BY <2>2, <2>3, <2>4, <2>5, <2>6
<1>4. CASE CheckFailsOpen
  <2>1. raw' = [raw EXCEPT !.cites = ValidCites(raw.cites)] /\ windows' = windows
    BY <1>4 DEF CheckFailsOpen
  <2>2. raw'.cites = ValidCites(raw.cites)
    BY <1>2, <2>1
  <2>3. raw'.cites \subseteq DOMAIN windows'
    BY <1>2, <2>1, <2>2 DEF ValidCites
  <2>4. spare'.fault < MaxFaults
    BY <1>4, FaultSpent DEF CheckFailsOpen
  <2> QED
    BY <2>3, <2>4
<1>5. ASSUME pc \notin {"done", "failed"}, reply' = reply \/ Raise \/ Unavailable \/ Answered("abstained", NoModel)
                                           \/ Answered("closest", NoModel)
      PROVE  FALSE
  <2>1. reply.text = "none"
    BY <1>1, <1>5 DEF ReplyInv, Ended
  <2>2. reply'.text \in {reply.text, "abstained", "closest"}
    BY <1>1, <1>5 DEF Raise, Unavailable, Answered, SearchTypeOK
  <2> QED
    BY <2>1, <2>2
<1>6. CASE Ask \/ Enhance \/ SearchVisual \/ SearchGate \/ SearchText \/ BranchRaises \/ JoinRaises
           \/ FuseBranches
  BY <1>5, <1>6 DEF Ask, Enhance, SearchVisual, SearchGate, SearchText, BranchRaises, JoinRaises,
                    FuseBranches
<1>7. CASE Boost \/ RerankWindows \/ Cite \/ CiteRaises \/ Abstain \/ PassGate
  BY <1>5, <1>7 DEF Boost, RerankWindows, Cite, CiteRaises, Abstain, PassGate
<1>8. CASE Resolve \/ ResolveRaises \/ CallAnswers \/ CallFailsRetryably \/ CallFails
  BY <1>5, <1>8 DEF Resolve, ResolveRaises, CallAnswers, CallFailsRetryably, CallFails
<1>9. CASE ChangeModel \/ AddSource \/ CacheTitles
  BY <1>5, <1>9 DEF ChangeModel, AddSource, CacheTitles, Later
<1> QED
  BY <1>3, <1>4, <1>6, <1>7, <1>8, <1>9
     DEF SearchNext, Request, Meanwhile, Branches, Ranks, Answers

(* By agreement first, until the boost. *)
LEMMA OrderKept ==
    ASSUME SearchInv, SearchNext, pc' = "graph", MaxRanked <= 2 * RRF_K
    PROVE  Agreed(windows')
<1>1. FuseBranches
  BY DEF SearchNext, Request, Meanwhile, Branches, Ranks, Answers, Ask, Enhance, SearchVisual,
         SearchGate, SearchText, BranchRaises, JoinRaises, Boost, RerankWindows, Cite, CiteRaises,
         Abstain, PassGate, Resolve, ResolveRaises, CallAnswers, CallFailsRetryably, CallFails,
         Check, CheckFailsOpen, ChangeModel, AddSource, CacheTitles, Raise, Unavailable, Answered, Later
<1>2. BranchHits(MergeHits(vis.lists), Frames)
  BY VisualFits DEF SearchInv, SearchTypeOK, BranchInv
<1>3. BranchHits(MergeHits(txt.lists), Points \ Frames)
  BY TextFits DEF SearchInv, SearchTypeOK, BranchInv
<1> QED
  BY <1>1, <1>2, <1>3, FuseFits DEF FuseBranches

LEMMA StepHolds == SearchInv /\ [SearchNext]_searchVars => SearchInv'
<1>1. ASSUME SearchInv, SearchNext PROVE SearchInv'
  <2>1. SearchTypeOK' /\ ReplyInv' /\ BranchInv' /\ ScoreInv' /\ GateInv'
    BY <1>1, TypesKept, ReplyKept, BranchKept, ScoreKept, GateKept
  <2>2. TitlesInv'
    BY <1>1, ListsKept, CitesKept DEF TitlesInv, Known
  <2>3. WindowsInv'
    BY <1>1, WindowsKept, OrderKept DEF WindowsInv
  <2> QED
    BY <2>1, <2>2, <2>3 DEF SearchInv
<1>2. ASSUME SearchInv, UNCHANGED searchVars PROVE SearchInv'
  <2>1. /\ SearchTypeOK' = SearchTypeOK /\ ReplyInv' = ReplyInv /\ BranchInv' = BranchInv
        /\ ScoreInv' = ScoreInv /\ GateInv' = GateInv
    BY <1>2 DEF searchVars, SearchTypeOK, ReplyInv, BranchInv, ScoreInv, GateInv, Ended, GatePasses, Confident
  <2>2. TitlesInv' = TitlesInv /\ WindowsInv' = WindowsInv
    BY <1>2 DEF searchVars, TitlesInv, WindowsInv, CitedSources, Known
  <2> QED
    BY <1>2, <2>1, <2>2 DEF SearchInv
<1> QED
  BY <1>1, <1>2

LEMMA Invariant == SearchSpec => []SearchInv
<1> QED
  BY InitHolds, StepHolds, PTL DEF SearchSpec

-----------------------------------------------------------------------------
(* What holds of every question.                                           *)

(* Every variable of a question stays in its range, the windows among them:  *)
(* what fusing, boosting, reranking and cutting return are windows again.    *)
THEOREM SearchTypesCorrect == SearchSpec => []SearchTypeOK
<1>1. SearchInv => SearchTypeOK
  BY DEF SearchInv
<1> QED
  BY <1>1, Invariant, PTL

(* However a request of _ask_impl or of the stream ends, the client is told: *)
(* a status, and for a stream its closing events.                            *)
THEOREM StreamsEnd == SearchSpec => []StreamEnds
<1>1. SearchInv => StreamEnds
  BY DEF SearchInv, ReplyInv, StreamEnds
<1> QED
  BY <1>1, Invariant, PTL

(* A frame and the words _fuse puts into one window are of one video, within *)
(* FUSION_WINDOW_S of each other, after any boost, rerank and cut.           *)
THEOREM MomentsAreTight == SearchSpec => []MomentTight
<1>1. SearchInv => MomentTight
  <2> SUFFICES ASSUME SearchInv, NEW i \in DOMAIN windows, Agreeing(windows[i])
               PROVE  /\ Video[windows[i].frame] = Video[windows[i].text]
                      /\ Apart(Second[windows[i].frame], Second[windows[i].text]) <= FUSION_WINDOW_S
    BY DEF MomentTight
  <2>1. windows \in Seq(CloseWindows)
    BY DEF SearchInv, WindowsInv
  <2>2. Close(windows[i])
    <3>1. windows[i] \in CloseWindows
      BY <2>1, LenProperties, ElementOfSeq
    <3> QED
      BY <3>1 DEF CloseWindows
  <2> QED
    BY <2>2 DEF Close
<1> QED
  BY <1>1, Invariant, PTL

(* Two signals on one instant outrank any single one where _fuse leaves      *)
(* them, as long as a branch ranks at most 2 * RRF_K hits: a later hit of    *)
(* both would weigh too little.                                              *)
THEOREM AgreementComesFirst == MaxRanked <= 2 * RRF_K => (SearchSpec => []AgreementFirst)
<1> SUFFICES ASSUME MaxRanked <= 2 * RRF_K PROVE SearchSpec => []AgreementFirst
  OBVIOUS
<1>1. SearchInv => AgreementFirst
  <2> SUFFICES ASSUME SearchInv, pc = "graph" PROVE \A i, j \in DOMAIN windows :
                   i < j /\ Agreeing(windows[j]) => Agreeing(windows[i])
    BY DEF AgreementFirst
  <2>1. windows \in Seq(CloseWindows) /\ Agreed(windows)
    BY DEF SearchInv, WindowsInv
  <2>2. DOMAIN windows = 1 .. Len(windows)
    BY <2>1, LenProperties
  <2> QED
    BY <2>1, <2>2 DEF Agreed
<1> QED
  BY <1>1, Invariant, PTL

LEMMA PairListed ==
    ASSUME NEW S, NEW s \in [1 .. 2 -> S]
    PROVE  s \in Seq(S) /\ Len(s) = 2
<1> DEFINE n == 2
<1>1. n \in Nat /\ s \in [1 .. n -> S]
  OBVIOUS
<1> HIDE DEF n
<1>2. s \in Seq(S) /\ Len(s) = n
  BY <1>1
<1> QED
  BY <1>2 DEF n

(* _merge_hits: two runs that found the same points rank them the same.      *)
THEOREM BranchesRunAlike == SearchSpec => []RunsAgree
<1>1. ASSUME NEW lists \in Seq(Seq(Hits)), Len(lists) = 2
      PROVE  MergeHits(lists) = MergeHits(Reverse(lists))
  <2> DEFINE back == Reverse(lists)
  <2>1. lists[1] \in Seq(Hits) /\ lists[2] \in Seq(Hits) /\ DOMAIN lists = 1 .. 2
    BY <1>1, LenProperties, ElementOfSeq
  <2>2. back = [i \in 1 .. 2 |-> lists[(2 - i) + 1]]
    BY <1>1 DEF Reverse
  <2>3. back \in Seq(Seq(Hits)) /\ Len(back) = 2 /\ back[1] = lists[2] /\ back[2] = lists[1]
    <3>1. back \in [1 .. 2 -> Seq(Hits)]
      <4>1. \A i \in 1 .. 2 : lists[(2 - i) + 1] \in Seq(Hits)
        BY <2>1
      <4> QED
        BY <2>2, <4>1
    <3>2. back[1] = lists[2] /\ back[2] = lists[1]
      BY <2>2
    <3> HIDE DEF back
    <3>3. back \in Seq(Seq(Hits)) /\ Len(back) = 2
      BY <3>1, PairListed
    <3> QED
      BY <3>2, <3>3
  <2> HIDE DEF back
  <2>4. HitsOf(back) = HitsOf(lists)
    <3>1. \A h : h \in HitsOf(back) <=> h \in HitsOf(lists)
      <4>1. \A l \in 1 .. 2 : l = 1 \/ l = 2
        OBVIOUS
      <4> QED
        BY <1>1, <2>3, <4>1 DEF HitsOf
    <3> QED
      BY <3>1
  <2>5. RanksAll(MergeHits(lists), HitsOf(lists))
    BY MergedHits
  <2>6. RanksAll(MergeHits(back), HitsOf(lists))
    BY <2>3, <2>4, MergedHits
  <2> QED
    BY <2>5, <2>6, SameRanking DEF back
<1>2. SearchInv => RunsAgree
  <2> SUFFICES ASSUME SearchInv, NEW b \in {vis, txt}, Len(b.lists) = 2
               PROVE  MergeHits(b.lists) = MergeHits(Reverse(b.lists))
    BY DEF RunsAgree
  <2>1. b.lists \in Seq(Seq(Hits))
    BY DEF SearchInv, SearchTypeOK, Branch
  <2> QED
    BY <1>1, <2>1
<1> QED
  BY <1>2, Invariant, PTL

(* The model is called, and its answer served, only with evidence that       *)
(* cleared a threshold; unenhanced, with the question's own score.           *)
THEOREM GroundedAnswers == SearchSpec => []GroundedOrSilent
<1>1. SearchInv => GroundedOrSilent
  BY DEF SearchInv, GateInv, ScoreInv, GatePasses, GroundedOrSilent
<1> QED
  BY <1>1, Invariant, PTL

(* A served answer cites what was served with it, and names no source the    *)
(* tenant had before and this question did not retrieve, unless the list of  *)
(* titles could not be read.                                                 *)
THEOREM AnswersAttributed == SearchSpec => []AnswerAttributed
<1>1. SearchInv => AnswerAttributed
  <2> SUFFICES ASSUME SearchInv, reply.text = "answer"
               PROVE  /\ raw.cites \subseteq DOMAIN windows
                      /\ (raw.names \cap sources) \ CitedSources \subseteq NewSources \/ spare.fault < MaxFaults
    BY DEF AnswerAttributed
  <2>1. /\ raw.cites \subseteq DOMAIN windows
        /\ raw.names \cap (Known \ CitedSources) = {} \/ spare.fault < MaxFaults
        /\ sources \subseteq Known \cup NewSources
    BY DEF SearchInv, TitlesInv
  <2> QED
    BY <2>1
<1> QED
  BY <1>1, Invariant, PTL

(* boost_windows and rerank neither drop nor add a window, and rerank moves  *)
(* none the cross-encoder could not read.                                    *)
THEOREM OnlyReordered == SearchSpec => ReorderOnly
<1>1. SearchInv /\ [SearchNext]_searchVars => [Reorders]_searchVars
  <2> SUFFICES ASSUME SearchInv, SearchNext, pc \in {"graph", "rerank"}, pc' # "failed"
               PROVE  /\ Len(windows') = Len(windows) /\ Evidence(windows') = Evidence(windows)
                      /\ pc = "rerank" => \A i \in DOMAIN windows :
                                              Readable(windows[i]) \/ windows'[i] = windows[i]
    BY DEF Reorders
  <2>1. windows \in Seq(CloseWindows)
    BY DEF SearchInv, WindowsInv
  <2>2. DOMAIN windows = 1 .. Len(windows)
    BY <2>1, LenProperties
  <2>3. Boost \/ RerankWindows
    BY DEF SearchNext, Request, Meanwhile, Branches, Ranks, Answers, Ask, Enhance, SearchVisual,
           SearchGate, SearchText, BranchRaises, JoinRaises, FuseBranches, Cite, CiteRaises, Abstain,
           PassGate, Resolve, ResolveRaises, CallAnswers, CallFailsRetryably, CallFails, Check,
           CheckFailsOpen, ChangeModel, AddSource, CacheTitles, Later
  <2>4. CASE UNCHANGED windows
    BY <2>4
  <2>5. CASE Boost /\ windows' # windows
    <3>1. pc = "graph" /\ \E matched : windows' = BoostWindows(windows, matched)
      BY <2>5 DEF Boost
    <3>2. SameEvidence(windows', windows)
      BY <2>1, <3>1, BoostFits
    <3> QED
      BY <3>1, <3>2 DEF SameEvidence
  <2>6. CASE RerankWindows /\ windows' # windows
    <3>1. PICK ce \in CrossScores : windows' = Rerank(windows, ce)
      BY <2>6 DEF RerankWindows
    <3>2. ce \in [Points -> Int]
      BY Settings
    <3>3. /\ SameEvidence(windows', windows)
          /\ \A i \in 1 .. Len(windows) : Readable(windows[i]) \/ windows'[i] = windows[i]
      BY <2>1, <3>1, <3>2, RerankFits
    <3> QED
      BY <2>2, <3>3 DEF SameEvidence
  <2> QED
    BY <2>3, <2>4, <2>5, <2>6
<1> QED
  BY <1>1, Invariant, PTL DEF SearchSpec, ReorderOnly

(* _citation_windows cites a window without words only when none has them,   *)
(* and keeps the order of the ranking.                                       *)
THEOREM WordsServedFirst == SearchSpec => WordsFirst
<1>1. SearchInv /\ [SearchNext]_searchVars => [SlicesWords]_searchVars
  <2> SUFFICES ASSUME SearchInv, SearchNext, pc = "cite", pc' = "gate"
               PROVE  /\ (\E i \in DOMAIN windows : HasText(windows[i]))
                             => \A i \in DOMAIN windows' : HasText(windows'[i])
                      /\ \A i, j \in DOMAIN windows' :
                             i < j => \E m, n \in DOMAIN windows :
                                          m < n /\ windows[m] = windows'[i] /\ windows[n] = windows'[j]
    BY DEF SlicesWords
  <2>1. windows \in Seq(CloseWindows) /\ TOP_K \in Nat
    BY Settings DEF SearchInv, WindowsInv
  <2>2. Cite
    BY DEF SearchNext, Request, Meanwhile, Branches, Ranks, Answers, Ask, Enhance, SearchVisual,
           SearchGate, SearchText, BranchRaises, JoinRaises, FuseBranches, Boost, RerankWindows,
           CiteRaises, Abstain, PassGate, Resolve, ResolveRaises, CallAnswers, CallFailsRetryably,
           CallFails, Check, CheckFailsOpen, ChangeModel, AddSource, CacheTitles, Later, Raise
  <2>3. windows' \in Seq(CloseWindows) /\ CutFrom(windows', windows)
    BY <2>1, <2>2, CiteFits DEF Cite
  <2>4. DOMAIN windows = 1 .. Len(windows) /\ DOMAIN windows' = 1 .. Len(windows')
    BY <2>1, <2>3, LenProperties
  <2> DEFINE r == windows'
             cut == CutFrom(r, windows)
  <2>5. cut
    BY <2>3
  <2>6. DOMAIN r = 1 .. Len(r)
    BY <2>4
  <2> HIDE DEF r, cut
  <2>7. (\E i \in DOMAIN windows : HasText(windows[i])) => \A i \in DOMAIN r : HasText(r[i])
    BY <2>4, <2>5, <2>6 DEF CutFrom, cut
  <2>8. \A i, j \in DOMAIN r :
            i < j => \E m, n \in DOMAIN windows : m < n /\ windows[m] = r[i] /\ windows[n] = r[j]
    <3> SUFFICES ASSUME NEW i \in DOMAIN r, NEW j \in DOMAIN r, i < j
                 PROVE  \E m, n \in DOMAIN windows : m < n /\ windows[m] = r[i] /\ windows[n] = r[j]
      OBVIOUS
    <3>1. i \in 1 .. Len(r) /\ j \in 1 .. Len(r)
      BY <2>6
    <3>2. PICK m \in 1 .. Len(windows), n \in 1 .. Len(windows) :
              m < n /\ windows[m] = r[i] /\ windows[n] = r[j]
      BY <2>5, <3>1 DEF CutFrom, cut
    <3>3. m \in DOMAIN windows /\ n \in DOMAIN windows
      BY <2>4
    <3> QED
      BY <3>2, <3>3
  <2> QED
    BY <2>7, <2>8 DEF r
<1> QED
  BY <1>1, Invariant, PTL DEF SearchSpec, WordsFirst

=============================================================================
