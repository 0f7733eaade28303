------------------------------ MODULE Seeding ------------------------------
(***************************************************************************)
(* The startup gate (seeding.py, seed.py): a one-shot program that indexes  *)
(* the sample corpus for the default tenant and must exit 0 before the API  *)
(* and the workers start.  It trusts a row only when Qdrant confirms its    *)
(* vectors, tries three times, and may be killed and started again.         *)
(*                                                                         *)
(* SEED_SAMPLE_VIDEOS and SEED_CORPUS are on, their defaults.  An ingest is *)
(* reduced to what a later look can tell: the row's status and the vectors, *)
(* the tasks' own retries included (modules VideoIngest and DocIngest).     *)
(***************************************************************************)
EXTENDS Naturals, FiniteSetsExt

CONSTANTS
    SeedSources,  \* the corpus, numbered in seeding order: the videos come first
    SeedVideos,
    Copies,       \* documents whose content the tenant may have already under another id
    MAX_PASSES,
    SeedBudget    \* bounds: remote calls that fail, kills of the container, wipes from outside

ASSUME SeedShapes ==
    /\ SeedSources \subseteq Nat /\ IsFiniteSet(SeedSources)
    /\ SeedVideos \subseteq SeedSources /\ Copies \subseteq SeedSources \ SeedVideos
    /\ \A v \in SeedVideos : \A d \in SeedSources \ SeedVideos : v < d
    /\ MAX_PASSES \in Nat \ {0} /\ SeedBudget \in [{"fault", "kill", "wipe"} -> Nat]

VARIABLES
    seedRow,   \* status of each source's row; "busy" stands for every stage in between
    seedVecs,  \* sources with vectors in Qdrant: frames of a video, chunks of a document
    seed,      \* the program: where it is, what it has still to look at, what it found missing
    exitCode,  \* "none" while it runs
    seedLeft,  \* what remains of each bound
    mishaps,   \* history of this start: 1 for an ingest that failed, 2 for anything worse
    copied,    \* the documents whose content it has
    wiped      \* history: vectors went away from outside since the last look began

seedVars == <<seedRow, seedVecs, seed, exitCode, seedLeft, mishaps, copied, wiped>>

SeedDocuments == SeedSources \ SeedVideos

Off == [pc |-> "off", look |-> {}, missing |-> {}, pass |-> 0, todo |-> {}]

Looking(pc, pass) == [pc |-> pc, look |-> SeedSources, missing |-> {}, pass |-> pass, todo |-> {}]

SpendSeed(b) == seedLeft[b] > 0 /\ seedLeft' = [seedLeft EXCEPT ![b] = @ - 1]

(* Earlier deployments indexed some of the corpus. *)
SeedInit ==
    /\ \E known \in SUBSET (SeedSources \ Copies) :
          /\ seedRow = [s \in SeedSources |-> IF s \in known THEN "indexed" ELSE "absent"]
          /\ seedVecs = known
    /\ copied \in {{}, Copies}
    /\ seed = Off
    /\ exitCode = "none"
    /\ seedLeft = SeedBudget
    /\ mishaps = 0
    /\ wiped = FALSE

SeedStart ==
    /\ seed.pc = "off" /\ exitCode = "none"
    /\ seed' = Looking("first", 0)
    /\ mishaps' = 0 /\ wiped' = FALSE
    /\ UNCHANGED <<seedRow, seedVecs, exitCode, seedLeft>>

-----------------------------------------------------------------------------
(* _not_indexed_videos and _not_indexed_documents.                         *)

(* The first look stops after the videos when one of them is missing. *)
Unseen == IF seed.pc = "first" /\ seed.missing \cap SeedVideos # {}
          THEN seed.look \cap SeedVideos ELSE seed.look

(* Mutant: 'indexed' is believed without asking Qdrant. *)
RowHasVectors_Trusting(s) == TRUE

RowHasVectors(s) == s \in seedVecs

(* One source: its row, then its vectors; a count that fails confirms nothing. *)
SeedLook ==
    /\ seed.pc \in {"first", "pass", "last"} /\ Unseen # {}
    /\ LET s == Min(Unseen)
           found(missing) == seed' = [seed EXCEPT !.look = @ \ {s}, !.missing = @ \cup missing] IN
       \/ /\ found(IF seedRow[s] = "indexed" /\ RowHasVectors(s) THEN {} ELSE {s})
          /\ UNCHANGED <<seedLeft, mishaps>>
       \/ /\ seedRow[s] = "indexed" /\ found({s})
          /\ SpendSeed("fault") /\ mishaps' = mishaps + 2
    /\ UNCHANGED <<seedRow, seedVecs, exitCode, wiped>>

Exit(code) == exitCode' = code /\ seed' = Off

SeedDecide ==
    /\ seed.pc \in {"first", "pass", "last"} /\ Unseen = {}
    /\ CASE seed.pc = "first" /\ seed.missing = {} -> Exit("0") /\ UNCHANGED wiped
         [] seed.pc = "first" /\ seed.missing # {} ->
                seed' = Looking("pass", 1) /\ UNCHANGED <<exitCode, wiped>>
         [] seed.pc = "pass"  /\ seed.missing = {} ->
                seed' = Looking("last", seed.pass) /\ wiped' = FALSE /\ UNCHANGED exitCode
         [] seed.pc = "pass"  /\ seed.missing # {} ->
                /\ seed' = [seed EXCEPT !.pc = "reset", !.todo = seed.missing]
                /\ UNCHANGED <<exitCode, wiped>>
         [] OTHER -> Exit(IF seed.missing = {} THEN "0" ELSE "1") /\ UNCHANGED wiped
    /\ UNCHANGED <<seedRow, seedVecs, seedLeft, mishaps>>

(* Reading or resetting a row is not guarded: an exception ends the program. *)
SeedRaises ==
    /\ seed.pc \in {"first", "pass", "last", "reset"}
    /\ SpendSeed("fault") /\ mishaps' = mishaps + 2
    /\ Exit("1")
    /\ UNCHANGED <<seedRow, seedVecs, wiped>>

-----------------------------------------------------------------------------
(* A pass: upsert_pending and the ingest, source by source.                *)

Current == Min(seed.todo)

(* Mutant: range(1, _MAX_PASSES) makes one pass less. *)
AfterCurrent_OffByOne ==
    IF seed.todo # {Current}           THEN [seed EXCEPT !.pc = "reset", !.todo = @ \ {Current}]
    ELSE IF seed.pass + 1 < MAX_PASSES THEN Looking("pass", seed.pass + 1)
    ELSE Looking("last", seed.pass)

(* What comes after the current source. *)
AfterCurrent ==
    IF seed.todo # {Current}       THEN [seed EXCEPT !.pc = "reset", !.todo = @ \ {Current}]
    ELSE IF seed.pass < MAX_PASSES THEN Looking("pass", seed.pass + 1)
    ELSE Looking("last", seed.pass)

Done == seed' = AfterCurrent /\ wiped' = IF AfterCurrent.pc = "last" THEN FALSE ELSE wiped

SeedReset ==
    /\ seed.pc = "reset"
    /\ seedRow' = [seedRow EXCEPT ![Current] = "pending"]
    /\ seed' = [seed EXCEPT !.pc = "ingest"]
    /\ UNCHANGED <<seedVecs, exitCode, seedLeft, mishaps, wiped>>

(* Fetching; content the tenant already has under another id ends the ingest. *)
SeedFetch ==
    /\ seed.pc = "ingest"
    /\ IF Current \in copied
       THEN seedRow' = [seedRow EXCEPT ![Current] = "skipped"] /\ Done
       ELSE /\ seedRow' = [seedRow EXCEPT ![Current] = "busy"]
            /\ seed' = [seed EXCEPT !.pc = "purge"] /\ UNCHANGED wiped
    /\ UNCHANGED <<seedVecs, exitCode, seedLeft, mishaps>>

(* vector_store.delete_video also takes the tenant's documents with it. *)
Purged == IF Current \in SeedVideos THEN {Current} \cup SeedDocuments ELSE {Current}

(* The purge swallows its errors. *)
SeedPurge ==
    /\ seed.pc = "purge"
    /\ \/ seedVecs' = seedVecs \ Purged /\ UNCHANGED seedLeft
       \/ UNCHANGED seedVecs /\ SpendSeed("fault")
    /\ seed' = [seed EXCEPT !.pc = "fill"]
    /\ UNCHANGED <<seedRow, exitCode, mishaps, wiped>>

SeedFill ==
    /\ seed.pc = "fill"
    /\ seedVecs' = seedVecs \cup {Current}
    /\ seed' = [seed EXCEPT !.pc = "flip"]
    /\ UNCHANGED <<seedRow, exitCode, seedLeft, mishaps, wiped>>

SeedFlip ==
    /\ seed.pc = "flip"
    /\ seedRow' = [seedRow EXCEPT ![Current] = "indexed"]
    /\ Done
    /\ UNCHANGED <<seedVecs, exitCode, seedLeft, mishaps>>

(* The flow raises, its retries spent; the loop prints and goes on. *)
SeedIngestFails ==
    /\ seed.pc \in {"ingest", "purge", "fill", "flip"}
    /\ SpendSeed("fault") /\ mishaps' = mishaps + 1
    /\ \/ seedRow' = [seedRow EXCEPT ![Current] = "failed"]
       \/ UNCHANGED seedRow
    /\ Done
    /\ UNCHANGED <<seedVecs, exitCode>>

-----------------------------------------------------------------------------
(* The container is killed and started again; what is stored stays. *)
SeedKilled ==
    /\ seed.pc # "off"
    /\ SpendSeed("kill")
    /\ seed' = Off
    /\ UNCHANGED <<seedRow, seedVecs, exitCode, mishaps, wiped>>

(* The text collection is recreated, or the deployment still serving ingests *)
(* or deletes another video of the tenant.                                   *)
VectorsWiped ==
    /\ exitCode = "none"
    /\ SpendSeed("wipe")
    /\ seedVecs' = seedVecs \ SeedDocuments
    /\ wiped' = TRUE
    /\ mishaps' = mishaps + 2
    /\ UNCHANGED <<seedRow, seed, exitCode>>

SeedNext ==
    /\ \/ SeedStart \/ SeedLook \/ SeedDecide \/ SeedRaises
       \/ SeedReset \/ SeedFetch \/ SeedPurge \/ SeedFill \/ SeedFlip \/ SeedIngestFails
       \/ SeedKilled \/ VectorsWiped
    /\ UNCHANGED copied

SeedSpec == SeedInit /\ [][SeedNext]_seedVars

-----------------------------------------------------------------------------
(* Properties.                                                             *)

(* The gate opens only on a corpus that answers: exit 0 means every source   *)
(* is indexed and has its vectors, although ingesting one source can take    *)
(* the vectors of others and earlier starts died half way, unless something  *)
(* outside took vectors during the last look (seeding.py:52, component 51).  *)
SeedGateSound ==
    exitCode = "0" /\ ~wiped => \A s \in SeedSources : seedRow[s] = "indexed" /\ s \in seedVecs

(* The passes are enough: whatever state earlier starts left, and with one   *)
(* ingest failing for good, the corpus is complete after three of them.      *)
SeedHeals == exitCode = "1" => mishaps >= 2 \/ copied # {}

=============================================================================
