------------------------------ MODULE Ranking ------------------------------
(***************************************************************************)
(* The pure part of retrieval: how the hits of the two Qdrant branches      *)
(* become the ordered windows an answer may cite (rag/search.py, graph.py,  *)
(* rag/rerank.py).  Points, sources and scores are numbers, ordered as the  *)
(* code's string keys are; a score 1/(RRF_K + rank) is kept exact by        *)
(* counting in units of 1/Scale.                                           *)
(***************************************************************************)
EXTENDS Integers, Sequences, FiniteSets, SequencesExt, PyLists

CONSTANTS
    Points,          \* Qdrant points, numbered in the order of str(_hit_key)
    Video,           \* [Points -> video], NoVideo for a paper or deck chunk
    Source,          \* [Points -> source]: the video or the document
    Second,          \* [Points -> Nat]: t_start, or ms / 1000
    Frames,          \* points of the visual collection; the others carry a text
    Blank,           \* chunks embedded with an empty text: a slide nobody captioned
    NoVideo,         \* 0: str(None) sorts before every video id
    NoPoint,
    RRF_K, FUSION_WINDOW_S,
    MAX_BOOST,       \* graph.MAX_BOOST, in units of 1/Scale
    Scale,
    MaxRanked        \* bound: hits a branch ranks

ASSUME Shapes ==
    /\ Points \subseteq Nat \ {NoPoint} /\ NoPoint \in Nat /\ NoVideo \in Nat /\ IsFiniteSet(Points)
    /\ Frames \subseteq Points /\ Blank \subseteq Points \ Frames
    /\ Second \in [Points -> Nat] /\ Video \in [Points -> Nat] /\ Source \in [Points -> Nat]
    /\ \A p \in Frames : Video[p] # NoVideo
    /\ \A p \in Points : Video[p] # NoVideo => Source[p] = Video[p]

(* Every 1/(RRF_K + rank), and three halves of a sum of two, is a whole number of units. *)
ASSUME Exact ==
    /\ {RRF_K, FUSION_WINDOW_S, MAX_BOOST, Scale, MaxRanked} \subseteq Nat /\ RRF_K > 0 /\ Scale > 0
    /\ \A rank \in 0 .. MaxRanked - 1 : Scale % (2 * (RRF_K + rank)) = 0

Hits == [pt: Points, score: Nat]

-----------------------------------------------------------------------------
(* Mutant: equal scores stay in the order they arrived. *)
BetterHit_ArrivalOrder(a, b) == a.score > b.score

BetterHit(a, b) == a.score > b.score \/ (a.score = b.score /\ a.pt < b.pt)

(* A point is kept where it was first met, at its best score. *)
Offer(best, h) ==
    IF \E i \in DOMAIN best : best[i].pt = h.pt
    THEN [i \in DOMAIN best |-> IF best[i].pt = h.pt /\ h.score > best[i].score THEN h ELSE best[i]]
    ELSE Append(best, h)

(* search._merge_hits: each point once, best first. *)
MergeHits(lists) == Sorted(FoldLeft(Offer, <<>>, FlattenSeq(lists)), BetterHit)

-----------------------------------------------------------------------------
(* search._fuse. *)

Rrf(rank) == Scale \div (RRF_K + rank)

(* ranked(): the branch is one list, and the position in it is all that counts. *)
Ranked(pts) == [i \in DOMAIN pts |-> [pt |-> pts[i], rrf |-> Rrf(i - 1)]]

(* Mutant: every hit fills the frame slot. *)
Window_AllFrames(h) ==
    [video |-> Video[h.pt], t |-> IF Video[h.pt] = NoVideo THEN 0 ELSE Second[h.pt],
     frame |-> h.pt, text |-> NoPoint, rrf |-> h.rrf, boosted |-> FALSE]

Window(h) ==
    [video |-> Video[h.pt], t |-> IF Video[h.pt] = NoVideo THEN 0 ELSE Second[h.pt],
     frame |-> IF h.pt \in Frames THEN h.pt ELSE NoPoint,
     text  |-> IF h.pt \in Frames THEN NoPoint ELSE h.pt,
     rrf   |-> h.rrf, boosted |-> FALSE]

HasFrame(w) == w.frame # NoPoint
HasText(w)  == w.text # NoPoint

Apart(a, b) == IF a < b THEN b - a ELSE a - b

Covers(w, h) == w.video = Video[h.pt] /\ Apart(w.t, Second[h.pt]) <= FUSION_WINDOW_S

(* Mutant: every hit of a window adds to its score, a burst of frames included. *)
Absorb_Sums(w, h) ==
    IF h.pt \in Frames
    THEN [w EXCEPT !.frame = IF HasFrame(w) THEN @ ELSE h.pt, !.rrf = @ + h.rrf]
    ELSE [w EXCEPT !.text = IF HasText(w) THEN @ ELSE h.pt, !.rrf = @ + h.rrf]

(* Mutant: the window keeps the last hit of each modality, and the best score. *)
Absorb_Last(w, h) ==
    IF h.pt \in Frames
    THEN [w EXCEPT !.frame = h.pt, !.rrf = IF HasFrame(w) THEN @ ELSE @ + h.rrf]
    ELSE [w EXCEPT !.text = h.pt, !.rrf = IF HasText(w) THEN @ ELSE @ + h.rrf]

(* A window keeps the first, so the best, hit of each modality. *)
Absorb(w, h) ==
    IF h.pt \in Frames
    THEN IF HasFrame(w) THEN w ELSE [w EXCEPT !.frame = h.pt, !.rrf = @ + h.rrf]
    ELSE IF HasText(w)  THEN w ELSE [w EXCEPT !.text = h.pt, !.rrf = @ + h.rrf]

(* The hit joins the first window that covers it, or opens one. *)
Join(windows, h) ==
    LET near == {i \in DOMAIN windows : Covers(windows[i], h)}
        first == CHOOSE i \in near : \A j \in near : i <= j
    IN  IF near = {} THEN Append(windows, Window(h))
        ELSE [windows EXCEPT ![first] = Absorb(@, h)]

Agreeing(w) == HasFrame(w) /\ HasText(w)

(* CROSS_MODAL_BOOST = 1.5. *)
CrossModal(w) == IF Agreeing(w) THEN [w EXCEPT !.rrf = (3 * @) \div 2] ELSE w

Earlier(a, b) == a.video < b.video \/ (a.video = b.video /\ a.t < b.t)

BetterWindow(a, b) == a.rrf > b.rrf \/ (a.rrf = b.rrf /\ Earlier(a, b))

PointsOf(hits) == [i \in DOMAIN hits |-> hits[i].pt]

OfVideo(p) == Video[p] # NoVideo
OfPaper(p) == Video[p] = NoVideo

Higher(a, b) == a.rrf > b.rrf

(* What is seen and what is said, each by its rank in its own branch. *)
Moments(vhits, thits) ==
    Sorted(Ranked(PointsOf(vhits)) \o Ranked(Filtered(PointsOf(thits), OfVideo)), Higher)

Fuse(vhits, thits) ==
    LET timed  == FoldLeft(Join, <<>>, Moments(vhits, thits))
        chunks == Ranked(Filtered(PointsOf(thits), OfPaper))
    IN  Sorted([i \in DOMAIN timed |-> CrossModal(timed[i])]
               \o [i \in DOMAIN chunks |-> Window(chunks[i])], BetterWindow)

-----------------------------------------------------------------------------
(* graph.boost_windows: raise the windows of the matched sources, sort again. *)

WindowSource(w) == IF HasText(w) THEN Source[w.text] ELSE w.video

Boosted(w, matched) ==
    IF WindowSource(w) \in matched THEN [w EXCEPT !.rrf = @ + MAX_BOOST, !.boosted = TRUE] ELSE w

BoostWindows(windows, matched) ==
    IF matched = {} THEN windows
    ELSE Sorted([i \in DOMAIN windows |-> Boosted(windows[i], matched)], BetterWindow)

(* rerank.rerank: ce[p] is the cross-encoder's score of the chunk p.  The   *)
(* windows with a text trade places among themselves; the others stay.      *)
Readable(w) == HasText(w) /\ w.text \notin Blank

BestRead(windows, ce) ==
    LET Better(a, b) == ce[a.text] > ce[b.text]
    IN  Sorted(Filtered(windows, Readable), Better)

(* Mutant: the windows the cross-encoder could not read go last. *)
Rerank_Demotes(windows, ce) ==
    LET Unreadable(w) == ~Readable(w)
    IN  BestRead(windows, ce) \o Filtered(windows, Unreadable)

Rerank(windows, ce) ==
    LET best   == BestRead(windows, ce)
        Nth(i) == Cardinality({j \in 1 .. i : Readable(windows[j])})
    IN  [i \in DOMAIN windows |-> IF Readable(windows[i]) THEN best[Nth(i)] ELSE windows[i]]

(* Mutant: frame-only windows are served in their rank, with or without others. *)
CitationWindows_Plain(windows, k) ==
    SubSeq(windows, 1, IF k < Len(windows) THEN k ELSE Len(windows))

(* search._citation_windows: it asks for a text hit, not for a text in it. *)
CitationWindows(windows, k) ==
    LET texty  == Filtered(windows, HasText)
        served == IF texty # <<>> THEN texty ELSE windows
    IN  SubSeq(served, 1, IF k < Len(served) THEN k ELSE Len(served))

=============================================================================
