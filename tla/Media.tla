------------------------------- MODULE Media -------------------------------
(***************************************************************************)
(* What a source is cut into before it is embedded: the passages of a       *)
(* transcript (ingest/transcript.chunk_cues), the frames of a video         *)
(* (frames._sample_scene, dedup.dedup) and the passages of a paper          *)
(* (paper.parse_pdf, _split_within_page).  A text is its length.            *)
(***************************************************************************)
EXTENDS Integers, Sequences, FiniteSets, SequencesExt, PyLists

CONSTANTS
    TRANSCRIPT_CHUNK_SECONDS, DEDUP_MAX_DISTANCE, LUMA_DELTA, MAX_FRAMES, CHUNK_MAX_CHARS,
    HEADING_MAX_CHARS,
    Transcripts,   \* sequences of cues, [start, end]
    Reels,         \* sequences of frames: [gradient, luma]
    FrameCounts,
    Papers         \* sequences of pages: [no, lines, tables, figures], a line [text, size, len, table]

Lines == [text: Int, size: Nat, len: Nat \ {0}, table: BOOLEAN]
Pages == [no: Nat, lines: Seq(Lines), tables: Nat, figures: Nat]

ASSUME MediaShapes ==
    /\ {TRANSCRIPT_CHUNK_SECONDS, MAX_FRAMES, CHUNK_MAX_CHARS} \subseteq Nat \ {0}
    /\ {DEDUP_MAX_DISTANCE, LUMA_DELTA, HEADING_MAX_CHARS} \subseteq Nat
    /\ Transcripts \subseteq Seq([start: Nat, end: Nat])
    /\ Reels \subseteq Seq([gradient: Nat, luma: Nat])
    /\ FrameCounts \subseteq Nat
    /\ \A paper \in Papers : paper \in Seq(Pages) /\ \A p \in DOMAIN paper : paper[p].no = p

VARIABLES task, given, cut
mediaVars == <<task, given, cut>>

NotCut == <<>>

MediaInit ==
    /\ \/ task = "cues"  /\ given \in Transcripts
       \/ task = "dedup" /\ given \in Reels
       \/ task = "thin"  /\ given \in FrameCounts
       \/ task = "paper" /\ given \in Papers
    /\ cut = NotCut

-----------------------------------------------------------------------------
(* transcript.chunk_cues: a passage ends with the cue that makes it long     *)
(* enough, and the cues left over are one more.                              *)
Passed(s, cue) ==
    LET buf == Append(s.buf, cue) IN
    IF cue.end - buf[1].start >= TRANSCRIPT_CHUNK_SECONDS
    THEN [done |-> Append(s.done, buf), buf |-> <<>>]
    ELSE [s EXCEPT !.buf = buf]

(* Mutant: the cues left over are forgotten. *)
ChunkCues_Drops(cues) == FoldLeft(Passed, [done |-> <<>>, buf |-> <<>>], cues).done

ChunkCues(cues) ==
    LET s == FoldLeft(Passed, [done |-> <<>>, buf |-> <<>>], cues)
    IN  IF s.buf = <<>> THEN s.done ELSE Append(s.done, s.buf)

CutTranscript == task = "cues" /\ cut' = ChunkCues(given)

-----------------------------------------------------------------------------
(* dedup._same; the gradients stand for hashes at their Hamming distance.    *)
Distance(x, y) == IF x > y THEN x - y ELSE y - x

Same(a, b) ==
    /\ Distance(a.gradient, b.gradient) <= DEDUP_MAX_DISTANCE
    /\ Distance(a.luma, b.luma) <= LUMA_DELTA

(* Mutant: each frame is compared with the one before it. *)
Dedup_Previous(frames) ==
    SelectSeq([i \in DOMAIN frames |-> i], LAMBDA i : i = 1 \/ ~Same(frames[i], frames[i - 1]))

(* dedup.dedup: the frames that are kept, by their place. *)
Dedup(frames) ==
    FoldLeft(LAMBDA kept, i : IF kept # <<>> /\ Same(frames[i], frames[Last(kept)]) THEN kept ELSE Append(kept, i),
             <<>>, [i \in DOMAIN frames |-> i])

DropRepeats == task = "dedup" /\ cut' = Dedup(given)

-----------------------------------------------------------------------------
(* frames._sample_scene takes frame int(i * step) of n; step is rounded, so   *)
(* a product that should be whole may come out just below.                    *)
Below(i, n) == i > 0 /\ n % MAX_FRAMES # 0 /\ (i * n) % MAX_FRAMES = 0

(* Mutant: the step is a whole number. *)
Pick_WholeStep(i, n, rounded) == i * (n \div MAX_FRAMES)

Pick(i, n, rounded) == ((i * n) \div MAX_FRAMES) - (IF rounded THEN 1 ELSE 0)

ThinFrames ==
    /\ task = "thin"
    /\ IF given <= MAX_FRAMES THEN cut' = [i \in 1 .. given |-> i - 1]
       ELSE \E low \in SUBSET {i \in 1 .. MAX_FRAMES - 1 : Below(i, given)} :
               cut' = [i \in 1 .. MAX_FRAMES |-> Pick(i - 1, given, (i - 1) \in low)]

-----------------------------------------------------------------------------
(* paper._median, twice; a line much larger than its page's is a heading. *)
TwiceMedian(sizes) ==
    LET s == SortSeq(sizes, <)
        n == Len(s)
    IN  IF n % 2 = 1 THEN 2 * s[n \div 2 + 1] ELSE s[n \div 2] + s[n \div 2 + 1]

(* Outside the tables of the page: paper._line_in_table. *)
Prose(page) == Filtered(page.lines, LAMBDA l : ~l.table)

IsHeading(page, line) ==
    LET body == TwiceMedian([i \in DOMAIN Prose(page) |-> Prose(page)[i].size]) IN
    body # 0 /\ 200 * line.size >= 115 * body /\ line.len <= HEADING_MAX_CHARS

Headings(page) == Filtered(Prose(page), LAMBDA l : IsHeading(page, l))
Body(page)     == Filtered(Prose(page), LAMBDA l : ~IsHeading(page, l))

(* The length of sentences that are joined by a space. *)
Longer(n, line) == n + 1 + line.len
Joined(piece)   == FoldLeft(Longer, -1, piece)

(* paper._split_within_page; a line is a sentence. *)
AddLine(pieces, line) ==
    IF pieces # <<>> /\ Longer(Joined(Last(pieces)), line) <= CHUNK_MAX_CHARS
    THEN [pieces EXCEPT ![Len(pieces)] = Append(@, line)]
    ELSE Append(pieces, <<line>>)

SplitWithinPage(lines) == FoldLeft(AddLine, <<>>, lines)

\* Texts are numbers.
NoSection    == 0
TableSection == -1

PageChunks(page, section) ==
    LET Chunk(label, n) == [i \in 1 .. n |-> [page |-> page.no, section |-> label, lines |-> <<>>]]
        pieces == SplitWithinPage(Body(page))
    IN  [i \in DOMAIN pieces |-> [page |-> page.no, section |-> section, lines |-> pieces[i]]]
        \o Chunk(TableSection, page.tables) \o Chunk(NoSection, page.figures)

(* The heading a page ends under: the last it has, or the one before it. *)
SectionAfter(page, before) == IF Headings(page) = <<>> THEN before ELSE Last(Headings(page)).text

(* Mutant: a page without a heading is under none. *)
ParsePage_Resets(s, page) ==
    LET section == SectionAfter(page, NoSection) IN
    [section |-> section, chunks |-> s.chunks \o PageChunks(page, section)]

(* paper.parse_pdf: all that a page says is labelled with the heading it ends under. *)
ParsePage(s, page) ==
    LET section == SectionAfter(page, s.section) IN
    [section |-> section, chunks |-> s.chunks \o PageChunks(page, section)]

ParsePaper ==
    /\ task = "paper"
    /\ cut' = FoldLeft(ParsePage, [section |-> NoSection, chunks |-> <<>>], given).chunks

-----------------------------------------------------------------------------
MediaNext ==
    /\ cut = NotCut
    /\ UNCHANGED <<task, given>>
    /\ CutTranscript \/ DropRepeats \/ ThinFrames \/ ParsePaper

MediaSpec == MediaInit /\ [][MediaNext]_mediaVars

-----------------------------------------------------------------------------
(* Properties, of what was cut.                                            *)
IsCut(t) == task = t /\ cut # NotCut

(* No cue is lost, doubled or moved, and a passage is exactly as long as it    *)
(* must be: it reaches the length, the last one apart, and would not without  *)
(* its last cue (transcript.chunk_cues).                                      *)
CuesWhole ==
    LET spans(p, n) == p[n].end - p[1].start >= TRANSCRIPT_CHUNK_SECONDS IN
    IsCut("cues") =>
        /\ FlattenSeq(cut) = given
        /\ \A c \in DOMAIN cut :
              /\ \A n \in 1 .. Len(cut[c]) - 1 : ~spans(cut[c], n)
              /\ c < Len(cut) => spans(cut[c], Len(cut[c]))

(* A frame that is dropped looks like one that is kept, however slowly the     *)
(* picture drifts, and a frame that is kept differs from the one kept before  *)
(* it (dedup.dedup).                                                          *)
DedupFaithful ==
    IsCut("dedup") =>
        /\ cut[1] = 1
        /\ \A i \in DOMAIN cut :
              LET next == IF i = Len(cut) THEN Len(given) + 1 ELSE cut[i + 1] IN
              /\ \A j \in cut[i] .. next - 1 : Same(given[j], given[cut[i]])
              /\ next <= Len(given) => ~Same(given[next], given[cut[i]])

(* A reel that is cut down to MAX_FRAMES keeps that many different frames, in  *)
(* order, from its beginning to its end: nowhere is more of it skipped than   *)
(* elsewhere, whatever the rounding (frames._sample_scene).                   *)
ThinSpread ==
    LET most == given \div MAX_FRAMES + 2 IN
    IsCut("thin") =>
        /\ cut[1] = 0 /\ cut[Len(cut)] < given
        /\ Len(cut) = IF given < MAX_FRAMES THEN given ELSE MAX_FRAMES
        /\ \A i \in 1 .. Len(cut) - 1 : cut[i] < cut[i + 1] /\ cut[i + 1] - cut[i] <= most
        /\ given - cut[Len(cut)] <= most

(* Every line of prose is in one piece of its page and in its place, a piece   *)
(* is within CHUNK_MAX_CHARS unless it is one sentence, no two neighbours     *)
(* would fit together, and a piece is under a heading of its page or the one  *)
(* in force when the page began, "carried forward until the next heading",    *)
(* a table as such (paper.parse_pdf).                                         *)
PaperWhole ==
    LET prose(p)  == Filtered(cut, LAMBDA c : c.page = p /\ c.lines # <<>>)
        headed(p) == {q \in 1 .. p : Headings(given[q]) # <<>>}
        label(p)  == IF headed(p) = {} THEN NoSection
                     ELSE Last(Headings(given[CHOOSE q \in headed(p) : \A o \in headed(p) : o <= q])).text
    IN
    IsCut("paper") =>
        \A p \in DOMAIN given :
            /\ FlattenSeq([i \in DOMAIN prose(p) |-> prose(p)[i].lines]) = Body(given[p])
            /\ \A i \in DOMAIN prose(p) :
                  /\ prose(p)[i].section \in {label(p - 1)} \cup {h.text : h \in Range(Headings(given[p]))}
                  /\ Joined(prose(p)[i].lines) > CHUNK_MAX_CHARS => Len(prose(p)[i].lines) = 1
                  /\ i < Len(prose(p)) =>
                        Joined(prose(p)[i].lines) + 1 + prose(p)[i + 1].lines[1].len > CHUNK_MAX_CHARS
            /\ Cardinality({i \in DOMAIN cut : cut[i].page = p /\ cut[i].lines = <<>>
                                               /\ cut[i].section = TableSection}) = given[p].tables

=============================================================================
