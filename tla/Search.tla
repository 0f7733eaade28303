------------------------------- MODULE Search -------------------------------
(***************************************************************************)
(* One question from the request to its last byte: the two Qdrant branches  *)
(* searched by two threads, fusion and ranking (module Ranking), the        *)
(* confidence gate, the model call with its retries, and the two checks on  *)
(* what the model wrote, while the tenant changes its model settings and    *)
(* registers sources.  /api/ask and /ask_stream share every step but the    *)
(* first and the last.                                                      *)
(*                                                                         *)
(* Left out: spans and metrics, the wording of answers and prompts, titles, *)
(* links and thumbnails of a citation; frames sent to the model.            *)
(***************************************************************************)
EXTENDS Ranking

CONSTANTS
    Deployments,     \* records of the flags below: the deployments explored
    VisualLists,     \* [Queries -> sets of hit lists Qdrant may answer, best first]
    TextLists,
    GateScores,      \* what the dense top-1 search may score, 0 when it finds nothing
    CrossScores,     \* cross-encoder scorings of the chunks
    MatchedSets,     \* what graph.matched_sources may return; {} when it fails
    CONFIDENCE_THRESHOLD, TEXT_CONFIDENCE_THRESHOLD,
    TOP_K,
    Models, NoModel, \* a tenant's own models; "none"
    EnvModel,        \* the server's LLM_* model
    RawAnswers,      \* [cites: numbers in brackets, names: sources it names]
    LLM_TIMEOUT_S,   \* in tenths of a second, like the next one
    RETRY_DELAYS,    \* _RETRY_DELAYS_S, without the jitter that lengthens it
    NewSources,      \* sources that may be registered meanwhile
    MaxSettings,     \* bound: PUT and DELETE /api/llm requests
    MaxFaults        \* bound: Qdrant or Postgres calls that raise

VARIABLES
    flags,    \* this deployment
    kind,     \* "post" or "stream"
    pc,       \* where the request is
    queries,  \* what the branches search for
    vis, txt, \* per branch: where its thread is, its lists, its best score
    windows,  \* fused, boosted, reranked; cut to what is cited
    cfg,      \* the model resolved for this request and where it comes from
    calls,    \* provider calls made, and the time they took
    raw,      \* what the model wrote
    reply,    \* what the client has of the answer
    events,   \* server-sent events written
    own,      \* ms_user_llms: the tenant's own model
    sources,  \* sources the tenant has, with a title
    titles,   \* source_titles:<user> in Redis: the list as it was read
    asked,    \* history: what the original question alone scored in the visual branch
    spare     \* what remains of each bound

searchVars == <<flags, kind, pc, queries, vis, txt, windows, cfg, calls, raw, reply, events,
                own, sources, titles, asked, spare>>

Queries == {"original", "other"}
QueryLists == {<<"original">>, <<"other">>, <<"original", "other">>, <<"other", "original">>}
Flags == [enhance: BOOLEAN, transcript: BOOLEAN, graph: BOOLEAN, rerank: BOOLEAN, llm: BOOLEAN]

Descending(hits) == \A i, j \in DOMAIN hits : i < j => hits[i].score >= hits[j].score

(* A hit is of the collection that was searched, Qdrant answers best first,  *)
(* and the sub-queries of a branch bring no more hits than it ranks.         *)
ASSUME QdrantAnswers ==
    /\ \A q \in Queries : \A hits \in VisualLists[q] \cup TextLists[q] :
           hits \in Seq(Hits) /\ Descending(hits) /\ Len(hits) <= MaxRanked
    /\ \A q \in Queries : \A hits \in VisualLists[q] : \A i \in DOMAIN hits : hits[i].pt \in Frames
    /\ \A q \in Queries : \A hits \in TextLists[q] : \A i \in DOMAIN hits : hits[i].pt \notin Frames
    /\ \A a \in VisualLists["original"], b \in VisualLists["other"] : Len(a) + Len(b) <= MaxRanked
    /\ \A a \in TextLists["original"], b \in TextLists["other"] : Len(a) + Len(b) <= MaxRanked

ASSUME Settings ==
    /\ Deployments \subseteq Flags /\ GateScores \cup NewSources \subseteq Nat
    /\ CrossScores \subseteq [Points -> Int]
    /\ RawAnswers \subseteq [cites: SUBSET Nat, names: SUBSET Nat]
    /\ {TOP_K, LLM_TIMEOUT_S, MaxSettings, MaxFaults} \subseteq Nat /\ RETRY_DELAYS \in Seq(Nat)

NoList   == {NoVideo}       \* titles: nothing cached
NoAnswer == [cites |-> {}, names |-> {}]
Unsearched == 0

SpendOne(b) == spare[b] > 0 /\ spare' = [spare EXCEPT ![b] = @ - 1]

CitedSources == {WindowSource(windows[i]) : i \in DOMAIN windows}

SearchInit ==
    /\ flags \in Deployments
    /\ kind \in {"post", "stream"}
    /\ pc = "ask"
    /\ queries = <<"original">>
    /\ vis = [pc |-> "idle", lists |-> <<>>, best |-> 0]
    /\ txt = [pc |-> "idle", lists |-> <<>>, best |-> 0]
    /\ windows = <<>>
    /\ cfg = [model |-> NoModel, source |-> "none"]
    /\ calls = [made |-> 0, spent |-> 0]
    /\ raw = NoAnswer
    /\ reply = [code |-> "none", text |-> "none", by |-> NoModel]
    /\ events = <<>>
    /\ own = NoModel
    /\ sources = {Source[p] : p \in Points}
    /\ titles = NoList
    /\ asked = Unsearched
    /\ spare = [settings |-> MaxSettings, fault |-> MaxFaults]

-----------------------------------------------------------------------------
(* The request is accepted; a stream says so before anything can fail.      *)
Ask ==
    /\ pc = "ask"
    /\ events' = IF kind = "stream" THEN <<"trace">> ELSE <<>>
    /\ pc' = IF flags.enhance THEN "enhance" ELSE "branches"
    /\ UNCHANGED <<flags, kind, queries, vis, txt, windows, cfg, calls, raw, reply,
                   own, sources, titles, asked, spare>>

(* query_enhance.enhance_query: the model's list replaces the question; any *)
(* failure, or no server model, leaves the question alone.                  *)
Enhance ==
    /\ pc = "enhance"
    /\ queries' \in IF flags.llm THEN QueryLists ELSE {<<"original">>}
    /\ pc' = "branches"
    /\ UNCHANGED <<flags, kind, vis, txt, windows, cfg, calls, raw, reply, events,
                   own, sources, titles, asked, spare>>

(* Mutant: the stream's generator lets the exception out. *)
Raise_Truncates ==
    /\ pc' = "failed"
    /\ reply' = [reply EXCEPT !.code = IF kind = "stream" THEN "200" ELSE "500"]
    /\ UNCHANGED events

(* The exception reaches the request: 500, or the stream's error event.     *)
Raise ==
    /\ pc' = "failed"
    /\ reply' = [reply EXCEPT !.code = IF kind = "stream" THEN "200" ELSE "500"]
    /\ events' = IF kind = "stream" THEN Append(events, "error") ELSE events

TopScore(hits) == IF hits = <<>> THEN 0 ELSE hits[1].score

(* One Qdrant call of the visual branch; after the last, _merge_hits. *)
SearchVisual ==
    /\ pc = "branches" /\ vis.pc = "idle"
    /\ LET n == Len(vis.lists) + 1 IN
       \E hits \in VisualLists[queries[n]] :
          LET lists == Append(vis.lists, hits) IN
          /\ vis' = IF n < Len(queries) THEN [vis EXCEPT !.lists = lists]
                    ELSE [pc |-> "done", lists |-> lists, best |-> TopScore(MergeHits(lists))]
          /\ asked' = IF queries[n] = "original" THEN TopScore(hits) ELSE asked
    /\ UNCHANGED <<flags, kind, pc, queries, txt, windows, cfg, calls, raw, reply, events,
                   own, sources, titles, spare>>

(* The text branch scores the original question alone first, then searches. *)
SearchGate ==
    /\ pc = "branches" /\ txt.pc = "idle"
    /\ IF flags.transcript
       THEN \E s \in GateScores : txt' = [txt EXCEPT !.pc = "search", !.best = s]
       ELSE txt' = [txt EXCEPT !.pc = "done"]
    /\ UNCHANGED <<flags, kind, pc, queries, vis, windows, cfg, calls, raw, reply, events,
                   own, sources, titles, asked, spare>>

SearchText ==
    /\ pc = "branches" /\ txt.pc = "search"
    /\ LET n == Len(txt.lists) + 1 IN
       \E hits \in TextLists[queries[n]] :
          txt' = [txt EXCEPT !.lists = Append(@, hits),
                             !.pc = IF n < Len(queries) THEN "search" ELSE "done"]
    /\ UNCHANGED <<flags, kind, pc, queries, vis, windows, cfg, calls, raw, reply, events,
                   own, sources, titles, asked, spare>>

BranchRaises ==
    /\ pc = "branches"
    /\ \/ vis.pc = "idle" /\ vis' = [vis EXCEPT !.pc = "raised"] /\ UNCHANGED txt
       \/ txt.pc # "done" /\ txt' = [txt EXCEPT !.pc = "raised"] /\ UNCHANGED vis
    /\ SpendOne("fault")
    /\ UNCHANGED <<flags, kind, pc, queries, windows, cfg, calls, raw, reply, events,
                   own, sources, titles, asked>>

BothReturned == vis.pc \in {"done", "raised"} /\ txt.pc \in {"done", "raised"}

(* The pool waits for both threads before either exception goes on.         *)
JoinRaises ==
    /\ pc = "branches" /\ BothReturned /\ "raised" \in {vis.pc, txt.pc}
    /\ Raise
    /\ UNCHANGED <<flags, kind, queries, vis, txt, windows, cfg, calls, raw,
                   own, sources, titles, asked, spare>>

FuseBranches ==
    /\ pc = "branches" /\ vis.pc = "done" /\ txt.pc = "done"
    /\ windows' = Fuse(MergeHits(vis.lists), MergeHits(txt.lists))
    /\ pc' = "graph"
    /\ UNCHANGED <<flags, kind, queries, vis, txt, cfg, calls, raw, reply, events,
                   own, sources, titles, asked, spare>>

Boost ==
    /\ pc = "graph"
    /\ IF flags.graph /\ windows # <<>>
       THEN \E matched \in MatchedSets : windows' = BoostWindows(windows, matched)
       ELSE UNCHANGED windows
    /\ pc' = "rerank"
    /\ UNCHANGED <<flags, kind, queries, vis, txt, cfg, calls, raw, reply, events,
                   own, sources, titles, asked, spare>>

RerankWindows ==
    /\ pc = "rerank"
    /\ IF flags.rerank THEN \E ce \in CrossScores : windows' = Rerank(windows, ce)
       ELSE UNCHANGED windows
    /\ pc' = "cite"
    /\ UNCHANGED <<flags, kind, queries, vis, txt, cfg, calls, raw, reply, events,
                   own, sources, titles, asked, spare>>

(* The branches' lists are not read again. *)
Cite ==
    /\ pc = "cite"
    /\ windows' = CitationWindows(windows, TOP_K)
    /\ vis' = [vis EXCEPT !.lists = <<>>] /\ txt' = [txt EXCEPT !.lists = <<>>]
    /\ pc' = "gate"
    /\ UNCHANGED <<flags, kind, queries, cfg, calls, raw, reply, events,
                   own, sources, titles, asked, spare>>

CiteRaises ==
    /\ pc = "cite"
    /\ SpendOne("fault")
    /\ Raise
    /\ UNCHANGED <<flags, kind, queries, vis, txt, windows, cfg, calls, raw,
                   own, sources, titles, asked>>

-----------------------------------------------------------------------------
(* _ask_impl: the gate, the model, the checks.                              *)

(* The stream writes the citations before the answer. *)
Answered(text, by) ==
    /\ pc' = "done"
    /\ reply' = [code |-> "200", text |-> text, by |-> by]
    /\ events' = IF kind = "stream" THEN events \o <<"citations", "answer", "done">> ELSE events

Confident(v, t) ==
    \/ CONFIDENCE_THRESHOLD = 0
    \/ v >= CONFIDENCE_THRESHOLD
    \/ t >= TEXT_CONFIDENCE_THRESHOLD

(* Mutant: any evidence at all is enough. *)
GatePasses_Ignored == windows # <<>>

GatePasses == windows # <<>> /\ Confident(vis.best, txt.best)

Abstain ==
    /\ pc = "gate" /\ ~GatePasses
    /\ Answered("abstained", NoModel)
    /\ UNCHANGED <<flags, kind, queries, vis, txt, windows, cfg, calls, raw,
                   own, sources, titles, asked, spare>>

PassGate ==
    /\ pc = "gate" /\ GatePasses
    /\ pc' = "resolve"
    /\ UNCHANGED <<flags, kind, queries, vis, txt, windows, cfg, calls, raw, reply, events,
                   own, sources, titles, asked, spare>>

(* resolve_llm: the tenant's row first, else the server's model. *)
Resolve ==
    /\ pc = "resolve"
    /\ cfg' = IF own # NoModel THEN [model |-> own, source |-> "user"]
              ELSE IF flags.llm THEN [model |-> EnvModel, source |-> "server"]
              ELSE [model |-> NoModel, source |-> "none"]
    /\ IF cfg'.model = NoModel THEN Answered("closest", NoModel)
       ELSE pc' = "call" /\ UNCHANGED <<reply, events>>
    /\ UNCHANGED <<flags, kind, queries, vis, txt, windows, calls, raw,
                   own, sources, titles, asked, spare>>

ResolveRaises ==
    /\ pc = "resolve"
    /\ SpendOne("fault")
    /\ Raise
    /\ UNCHANGED <<flags, kind, queries, vis, txt, windows, cfg, calls, raw,
                   own, sources, titles, asked>>

(* llm._call_with_retries: one provider call, its moments built by the frame cache. *)
CallAnswers ==
    /\ pc = "call"
    /\ raw' \in RawAnswers
    /\ calls' = [calls EXCEPT !.made = @ + 1]
    /\ pc' = "check"
    /\ UNCHANGED <<flags, kind, queries, vis, txt, windows, cfg, reply, events,
                   own, sources, titles, asked, spare>>

Unavailable ==
    /\ pc' = "failed"
    /\ reply' = [reply EXCEPT !.code = IF kind = "stream" THEN "200" ELSE "502"]
    /\ events' = IF kind = "stream" THEN Append(events, "error") ELSE events

(* A refused connection or a 429 fails at once, a hung call after its timeout. *)
CallFailsRetryably ==
    /\ pc = "call"
    /\ \E waited \in {0, LLM_TIMEOUT_S} :
       IF calls.made < Len(RETRY_DELAYS)
       THEN /\ calls' = [made |-> calls.made + 1,
                         spent |-> calls.spent + waited + RETRY_DELAYS[calls.made + 1]]
            /\ UNCHANGED <<pc, reply, events>>
       ELSE /\ calls' = [made |-> calls.made + 1, spent |-> calls.spent + waited]
            /\ Unavailable
    /\ UNCHANGED <<flags, kind, queries, vis, txt, windows, cfg, raw,
                   own, sources, titles, asked, spare>>

(* A bad key will not get better: _ask_impl turns it into the same error. *)
CallFails ==
    /\ pc = "call"
    /\ calls' = [calls EXCEPT !.made = @ + 1]
    /\ Unavailable
    /\ UNCHANGED <<flags, kind, queries, vis, txt, windows, cfg, raw,
                   own, sources, titles, asked, spare>>

ValidCites(cites) == cites \cap 1 .. Len(windows)

(* Mutant: only a source that was cited counts as misattributed. *)
Misattributed_Cited(known) == raw.names \cap (known \cap CitedSources) # {}

(* The answer names a source the tenant has and this question did not retrieve. *)
Misattributed(known) == raw.names \cap (known \ CitedSources) # {}

(* _validate_citations, then _check_named_source_attribution on the cached list of titles. *)
Check ==
    /\ pc = "check"
    /\ titles' = IF titles = NoList THEN sources ELSE titles
    /\ raw' = [raw EXCEPT !.cites = ValidCites(@)]
    /\ Answered(IF Misattributed(titles') THEN "withheld" ELSE "answer", cfg.model)
    /\ UNCHANGED <<flags, kind, queries, vis, txt, windows, cfg, calls,
                   own, sources, asked, spare>>

(* The list cannot be read: the answer is served unchecked. *)
CheckFailsOpen ==
    /\ pc = "check" /\ titles = NoList
    /\ SpendOne("fault")
    /\ raw' = [raw EXCEPT !.cites = ValidCites(@)]
    /\ Answered("answer", cfg.model)
    /\ UNCHANGED <<flags, kind, queries, vis, txt, windows, cfg, calls,
                   own, sources, titles, asked>>

-----------------------------------------------------------------------------
(* Meanwhile.  Only Resolve reads the settings and only Check the sources   *)
(* and their cached titles, so they move from Resolve on.                   *)

Later == pc \in {"resolve", "call", "check"}

(* PUT and DELETE /api/llm. *)
ChangeModel ==
    /\ pc = "resolve"
    /\ SpendOne("settings")
    /\ own' \in (Models \cup {NoModel}) \ {own}
    /\ UNCHANGED <<flags, kind, pc, queries, vis, txt, windows, cfg, calls, raw, reply, events,
                   sources, titles, asked>>

AddSource ==
    /\ Later
    /\ \E s \in NewSources \ sources : sources' = sources \cup {s}
    /\ UNCHANGED <<flags, kind, pc, queries, vis, txt, windows, cfg, calls, raw, reply, events,
                   own, titles, asked, spare>>

(* Another question of this tenant caches its list; POLL_CACHE_TTL_S drops it. *)
CacheTitles ==
    /\ Later
    /\ titles' \in {sources, NoList} \ {titles}
    /\ UNCHANGED <<flags, kind, pc, queries, vis, txt, windows, cfg, calls, raw, reply, events,
                   own, sources, asked, spare>>

-----------------------------------------------------------------------------
Branches == SearchVisual \/ SearchGate \/ SearchText \/ BranchRaises \/ JoinRaises \/ FuseBranches

Ranks == Boost \/ RerankWindows \/ Cite \/ CiteRaises

Answers ==
    \/ Abstain \/ PassGate
    \/ Resolve \/ ResolveRaises
    \/ CallAnswers \/ CallFailsRetryably \/ CallFails
    \/ Check \/ CheckFailsOpen

Request == Ask \/ Enhance \/ Branches \/ Ranks \/ Answers

Meanwhile == ChangeModel \/ AddSource \/ CacheTitles

SearchNext == Request \/ Meanwhile

SearchSpec == SearchInit /\ [][SearchNext]_searchVars

-----------------------------------------------------------------------------
(* Properties.                                                             *)

Windows == [video: Nat, t: Nat, frame: Frames \cup {NoPoint},
            text: (Points \ Frames) \cup {NoPoint}, rrf: Nat, boosted: BOOLEAN]

Branch == [pc: {"idle", "search", "done", "raised"}, lists: Seq(Seq(Hits)), best: Nat]

(* Every variable stays in its range. *)
SearchTypeOK ==
    /\ flags \in Flags /\ kind \in {"post", "stream"}
    /\ pc \in {"ask", "enhance", "branches", "graph", "rerank", "cite", "gate", "resolve",
               "call", "check", "done", "failed"}
    /\ queries \in QueryLists /\ vis \in Branch /\ txt \in Branch
    /\ windows \in Seq(Windows)
    /\ cfg \in [model: Models \cup {EnvModel, NoModel}, source: {"user", "server", "none"}]
    /\ calls \in [made: Nat, spent: Nat]
    /\ raw \in [cites: SUBSET Nat, names: SUBSET Nat]
    /\ reply \in [code: {"none", "200", "500", "502"}, by: Models \cup {EnvModel, NoModel},
                  text: {"none", "abstained", "closest", "answer", "withheld"}]
    /\ events \in Seq({"trace", "citations", "answer", "done", "error"})
    /\ own \in Models \cup {NoModel} /\ sources \subseteq Nat /\ titles \subseteq Nat
    /\ asked \in Nat /\ spare \in [settings: Nat, fault: Nat]

(* Two signals pointing at the same instant outrank any single one, however *)
(* high that one ranked in its branch and however many frames it had        *)
(* (_fuse's docstring: "the strongest evidence").                           *)
AgreementFirst ==
    pc = "graph" => \A i, j \in DOMAIN windows :
        i < j /\ Agreeing(windows[j]) => Agreeing(windows[i])

(* The frame and the words cited as one moment really are one moment: they   *)
(* come from the same video within FUSION_WINDOW_S of each other, not merely *)
(* of a common neighbour.                                                    *)
MomentTight ==
    \A i \in DOMAIN windows : LET w == windows[i] IN
        Agreeing(w) => /\ Video[w.frame] = Video[w.text]
                       /\ Apart(Second[w.frame], Second[w.text]) <= FUSION_WINDOW_S

(* What a branch found does not depend on the order of its sub-queries: runs *)
(* that found the same points rank them the same (_merge_hits).              *)
RunsAgree ==
    \A b \in {vis, txt} : Len(b.lists) = 2 => MergeHits(b.lists) = MergeHits(Reverse(b.lists))

(* Boost and rerank reorder and never drop or add a window, and rerank moves *)
(* no window it could not read (rerank.py:19, graph.py's "boost, never       *)
(* filter").                                                                *)
Evidence(ws) == {<<ws[i].frame, ws[i].text>> : i \in DOMAIN ws}

Reorders ==
    pc \in {"graph", "rerank"} /\ pc' # "failed" =>
        /\ Len(windows') = Len(windows) /\ Evidence(windows') = Evidence(windows)
        /\ pc = "rerank" => \A i \in DOMAIN windows : Readable(windows[i]) \/ windows'[i] = windows[i]

ReorderOnly == [][Reorders]_searchVars

(* A frame without words is cited only when nothing retrieved has words, and *)
(* the slice keeps the rank order (_citation_windows).                       *)
SlicesWords ==
    pc = "cite" /\ pc' = "gate" =>
        /\ (\E i \in DOMAIN windows : HasText(windows[i]))
               => \A i \in DOMAIN windows' : HasText(windows'[i])
        /\ \A i, j \in DOMAIN windows' :
               i < j => \E m, n \in DOMAIN windows :
                            m < n /\ windows[m] = windows'[i] /\ windows[n] = windows'[j]

WordsFirst == [][SlicesWords]_searchVars

(* Grounded or silent: the model is called, and its answer served, only with *)
(* evidence that cleared a threshold; without query enhancement that is the  *)
(* evidence of the question itself.                                          *)
GroundedOrSilent ==
    calls.made > 0 \/ reply.text = "answer" =>
        /\ windows # <<>>
        /\ Confident(IF flags.enhance THEN vis.best ELSE asked, txt.best)

(* An answer that reaches the client cites only evidence served with it, and *)
(* names a source it did not retrieve only if that source is newer than the  *)
(* cached list of titles, or the list could not be read                      *)
(* (_check_named_source_attribution).                                        *)
AnswerAttributed ==
    reply.text = "answer" =>
        /\ raw.cites \subseteq DOMAIN windows
        /\ (raw.names \cap sources) \ CitedSources \subseteq NewSources \/ spare.fault < MaxFaults

(* Whatever raised, a stream that ended said so: citations, answer and done,  *)
(* or an error as its last event; and no request is left without a status.    *)
StreamEnds ==
    /\ pc = "done"   => reply.code = "200" /\ reply.text # "none"
    /\ pc = "failed" => reply.code # "none" /\ reply.text = "none"
    /\ pc = "done" /\ kind = "stream" => events = <<"trace", "citations", "answer", "done">>
    /\ pc = "failed" /\ kind = "stream" => events = <<"trace", "error">>

-----------------------------------------------------------------------------
(* Claims of the repository that its code does not keep.                   *)

(* The claim of search.py:212: "The confidence gate below always scores the  *)
(* ORIGINAL question only (never a sub-query)", so enhancement never changes *)
(* the abstain decision.                                                     *)
GateOnQuestion ==
    pc \in {"resolve", "call", "check", "done"} /\ windows # <<>> /\ "original" \in Range(queries) =>
        (GatePasses <=> Confident(asked, txt.best))

(* The claim of config.py:429: "a hung generation must fail before" the 30 s *)
(* a client waits.                                                           *)
AnswerInTime == calls.spent <= 300

(* The claim of search.py:50: every citation carries non-empty text, unless  *)
(* no text-bearing window exists.                                            *)
CitesReadable ==
    pc = "cite" /\ pc' = "gate" /\ (\E i \in DOMAIN windows : Readable(windows[i]))
        => \A i \in DOMAIN windows' : Readable(windows'[i])

CitationsReadable == [][CitesReadable]_searchVars

(* The claim of graph.py:43: the boost reorders near-ties and never promotes *)
(* an unrelated chunk over a strong match, one both branches agree on.       *)
KeepsAgreement ==
    pc = "graph" /\ pc' = "rerank" /\ windows # <<>> /\ Agreeing(windows[1])
        => Agreeing(windows'[1])

BoostIsAHint == [][KeepsAgreement]_searchVars

=============================================================================
