----------------------------- MODULE MCService -----------------------------
(***************************************************************************)
(* The parts of the service beside ingestion, checked in one run.  They     *)
(* share no variable, so what holds of each alone holds of any interleaving *)
(* of them: a behaviour is one of "focus", and the others stay where they    *)
(* begin.                                                                   *)
(*                                                                         *)
(* The corpus of Search: a video with frames at 12, 24 and 0 s (idx 10, 11   *)
(* and 9, in the order of their keys) and speech at 8 s; another video with  *)
(* a frame and speech; a deck with two slides, the second without a text.    *)
(***************************************************************************)
EXTENDS Search, Seeding, SigningKeys, Guard, PollCache, Media, Provision, EmbedCache

VARIABLE focus

MCPoints  == 1 .. 8
MCFrames  == {1, 2, 3, 4}
MCVideo   == <<2, 2, 2, 3, 2, 3, 0, 0>>
MCSource  == <<2, 2, 2, 3, 2, 3, 5, 5>>
MCSecond  == <<12, 24, 0, 5, 8, 6, 0, 0>>
MCBlank   == {8}

(* Best first, and never a point twice. *)
Listed(pts, scores, n) ==
    {l \in UNION {[1 .. m -> [pt: pts, score: scores]] : m \in 0 .. n} :
        \A i, j \in DOMAIN l : i < j => l[i].pt # l[j].pt /\ l[i].score >= l[j].score}

MCVisualLists ==
    [original |-> Listed({2, 3}, {2}, 2) \cup Listed({1, 2, 3}, {2}, 3) \cup Listed({1, 4}, {1, 2}, 2),
     other    |-> Listed({3, 4}, {1, 2}, 1)]
MCTextLists ==
    [original |-> Listed({5, 6}, {1}, 2) \cup Listed({8}, {1}, 1),
     other    |-> Listed({6, 7}, {1}, 1)]

MCCrossScores == {[p \in MCPoints |-> p], [p \in MCPoints |-> 9 - p]}
MCMatchedSets == {{}, {3}, {5}}
MCRetryDelays == <<5, 15>>
MCRawAnswers  == {[cites |-> {1}, names |-> {}], [cites |-> {2, 3}, names |-> {2}],
                  [cites |-> {1}, names |-> {9}]}

Plain    == [enhance |-> FALSE, transcript |-> TRUE, graph |-> FALSE, rerank |-> TRUE, llm |-> TRUE]
MCDeployments == {Plain,
                  [Plain EXCEPT !.enhance = TRUE, !.rerank = FALSE],
                  [Plain EXCEPT !.graph = TRUE, !.llm = FALSE],
                  [Plain EXCEPT !.transcript = FALSE, !.rerank = FALSE]}

MCRole        == [a1 |-> "api", f1 |-> "flow"]
MCProvBudget  == [fault |-> 1, kill |-> 1, drop |-> 1]
MCEmbedBudget == [deploy |-> 2, restart |-> 1, redis |-> 1, expire |-> 1]
MCSeedBudget == [fault |-> 2, kill |-> 1, wipe |-> 1]

MCTranscripts ==
    LET Starts(n) == {s \in [1 .. n -> 0 .. 3] : \A i \in 1 .. n - 1 : s[i] <= s[i + 1]} IN
    UNION {{[i \in 1 .. n |-> [start |-> s[i], end |-> s[i] + d[i]]] :
                s \in Starts(n), d \in [1 .. n -> {1, 2}]} : n \in 1 .. 4}

MCReels == UNION {[1 .. n -> [gradient: 0 .. 2, luma: 0 .. 1]] : n \in 1 .. 4}

(* A short and a long sentence, a line in large type, one that is too long   *)
(* for a heading, and a line of a table.                                     *)
MCLines == {[size |-> 10, len |-> 1, table |-> FALSE], [size |-> 10, len |-> 3, table |-> FALSE],
            [size |-> 12, len |-> 1, table |-> FALSE], [size |-> 12, len |-> 7, table |-> FALSE],
            [size |-> 10, len |-> 1, table |-> TRUE]}
MCPage(no, kinds) == [no |-> no, tables |-> IF \E i \in DOMAIN kinds : kinds[i].table THEN 1 ELSE 0, figures |-> no % 2,
                      lines |-> [i \in DOMAIN kinds |-> kinds[i] @@ [text |-> 10 * no + i]]]
MCPapers == {<<MCPage(1, p), MCPage(2, q)>> : p \in UNION {[1 .. n -> MCLines] : n \in 0 .. 3},
                                              q \in [1 .. 1 -> MCLines]}

-----------------------------------------------------------------------------
serviceVars == <<focus, searchVars, seedVars, keyVars, guardVars, pollVars, mediaVars, provVars, embedVars>>

ServiceInit ==
    /\ focus \in {"search", "seeding", "keys", "guard", "polls", "media", "provision", "embeddings"}
    /\ SearchInit /\ (focus # "search" => flags = Plain /\ kind = "post")
    /\ SeedInit   /\ (focus # "seeding" => seedVecs = {} /\ copied = {})
    /\ KeysInit   /\ (focus # "keys" => published = {CHOOSE k \in Kids : TRUE})
    /\ GuardInit /\ PollInit
    /\ MediaInit  /\ (focus # "media" => task = "thin" /\ given = 1)
    /\ ProvInit
    /\ EmbedInit  /\ (focus # "embeddings" => service = CHOOSE m \in EmbedModels : TRUE)

ServiceNext ==
    /\ UNCHANGED focus
    /\ \/ focus = "search" /\ SearchNext
          /\ UNCHANGED <<seedVars, keyVars, guardVars, pollVars, mediaVars, provVars, embedVars>>
       \/ focus = "seeding" /\ SeedNext
          /\ UNCHANGED <<searchVars, keyVars, guardVars, pollVars, mediaVars, provVars, embedVars>>
       \/ focus = "keys" /\ KeysNext
          /\ UNCHANGED <<searchVars, seedVars, guardVars, pollVars, mediaVars, provVars, embedVars>>
       \/ focus = "guard" /\ GuardNext
          /\ UNCHANGED <<searchVars, seedVars, keyVars, pollVars, mediaVars, provVars, embedVars>>
       \/ focus = "polls" /\ PollNext
          /\ UNCHANGED <<searchVars, seedVars, keyVars, guardVars, mediaVars, provVars, embedVars>>
       \/ focus = "media" /\ MediaNext
          /\ UNCHANGED <<searchVars, seedVars, keyVars, guardVars, pollVars, provVars, embedVars>>
       \/ focus = "provision" /\ ProvNext
          /\ UNCHANGED <<searchVars, seedVars, keyVars, guardVars, pollVars, mediaVars, embedVars>>
       \/ focus = "embeddings" /\ EmbedNext
          /\ UNCHANGED <<searchVars, seedVars, keyVars, guardVars, pollVars, mediaVars, provVars>>

ServiceSpec == ServiceInit /\ [][ServiceNext]_serviceVars

=============================================================================
