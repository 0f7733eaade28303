---------------------------- MODULE VideoSafety ----------------------------
(***************************************************************************)
(* VideoIngest hands a video out once, serves what it calls indexed and    *)
(* leaves nothing of what was deleted, for any number of videos, tenants,  *)
(* workers and runs.  What is said of one video is an invariant of its own *)
(* (Well), for every video that is not disturbed: a step has to be looked  *)
(* at only for the video it works on.  The dispatchers stay within their   *)
(* capacity, and the tenants take turns in a round.                        *)
(***************************************************************************)
EXTENDS VideoTypes

LivePc == {"queued"} \cup Positions
Live(r, v) == run[r].vid = v /\ run[r].pc \in LivePc
Claimed(w, v) == \E c \in disp[w].claims : c.vid = v

(* The statuses the row of a run at p can have. *)
StatusAt(p) ==
    CASE p \in {"queued", "launch"} -> {"queued"}
      [] p = "fetch" -> {"queued", "fetching"}
      [] p \in {"load", "hash", "check", "skip", "sample"} -> {"fetching"}
      [] p \in {"clear", "put"} -> {"sampling"}
      [] p = "embed" -> {"sampling", "embedding"}
      [] p \in {"purge", "purgetext", "upsert", "flip"} -> {"embedding"}
      [] p \in {"captions", "transcript"} -> {"indexed"}

Sampled == EmbedSteps \cup {"captions", "transcript"}
Upserted == {"flip", "captions", "transcript"}

(* Whoever handles v works for its owner, on a row whose status says so, and *)
(* no DELETE of v is under way.                                              *)
Handed(v) ==
    /\ \A w \in Workers : \A c \in disp[w].claims : c.vid = v =>
         row[v].st = "queued" /\ c.user = row[v].owner /\ del[v].pc \in Quiet
    /\ \A r \in Runs : Live(r, v) =>
         row[v].st \in StatusAt(run[r].pc) /\ run[r].user = row[v].owner /\ del[v].pc \in Quiet

(* Nobody else handles it. *)
Sole(v) ==
    /\ \A w, x \in Workers : Claimed(w, v) /\ Claimed(x, v) => w = x
    /\ \A r, s \in Runs : Live(r, v) /\ Live(s, v) => r = s
    /\ \A w \in Workers, r \in Runs : ~(Claimed(w, v) /\ Live(r, v))

HasThumbs(v) == <<row[v].owner, v>> \in thumbs
HasFrames(v) == frames[v] = row[v].owner

(* A run past a task finds what the task stored, and so does a search. *)
Served(v) ==
    /\ \A r \in Runs : Live(r, v) => /\ run[r].pc \in Sampled => HasThumbs(v)
                                     /\ run[r].pc \in Upserted => HasFrames(v)
    /\ row[v].st = "indexed" /\ v \notin taken => HasFrames(v) /\ HasThumbs(v)

(* All that is stored of v is its owner's, and a DELETE empties store after      *)
(* store, but for the points whose purge was swallowed.                         *)
FramesMissed(v) == <<"frames", frames[v], v>> \in missed
TextMissed(v)   == <<"text", captions[v], v>> \in missed

Clean(v) ==
    /\ frames[v] \in {NoUser, row[v].owner} \/ FramesMissed(v)
    /\ captions[v] \in {NoUser, row[v].owner} \/ TextMissed(v)
    /\ \A u \in Users : <<u, v>> \in thumbs => u = row[v].owner
    /\ del[v].pc \in {"text", "thumbs", "file", "row"} => frames[v] = NoUser \/ FramesMissed(v)
    /\ del[v].pc \in {"thumbs", "file", "row"} => captions[v] = NoUser \/ TextMissed(v)
    /\ del[v].pc \in {"file", "row"} => \A u \in Users : <<u, v>> \notin thumbs

Well(v) == Handed(v) /\ Sole(v) /\ Served(v) /\ Clean(v)

AllWell == \A v \in Videos \ disturbed : Well(v)

-----------------------------------------------------------------------------
(* Steps that do not touch a video, and what handling it means.            *)

(* What is stored of v, what a DELETE took or missed of it, and its row, stay *)
(* as they are.                                                               *)
SameStores(v) == /\ frames'[v] = frames[v] /\ captions'[v] = captions[v]
                 /\ \A u \in Users : (<<u, v>> \in thumbs') <=> (<<u, v>> \in thumbs)
                 /\ (v \in taken') <=> (v \in taken)
                 /\ \A c, u : (<<c, u, v>> \in missed') <=> (<<c, u, v>> \in missed)
SameRow(v) == row'[v].st = row[v].st /\ row'[v].owner = row[v].owner

(* Nobody new handles v, and who still does is where it was. *)
FewerHandlers(v) ==
    /\ \A w \in Workers : \A c \in disp'[w].claims : c.vid = v => c \in disp[w].claims
    /\ \A r \in Runs : run'[r].vid = v /\ run'[r].pc \in LivePc => run'[r] = run[r]

LEMMA OwnersKnown == ASSUME TypeInv, NEW v \in Videos
                     PROVE  /\ row[v].owner \in Users \cup {NoUser}
                            /\ Exists(v) => row[v].owner \in Users
                            /\ ~Exists(v) => row[v].owner = NoUser
BY DEF TypeInv, ProgramInv, RowType, Rows, Exists

LEMMA StoresTyped == ASSUME TypeInv
                     PROVE  /\ thumbs \subseteq Users \X Videos
                            /\ frames \in [Videos -> Users \cup {NoUser}]
                            /\ captions \in [Videos -> Users \cup {NoUser}]
BY DEF TypeInv, ProgramInv, StoreType

LEMMA FewerKept ==
    ASSUME NEW v \in Videos, FewerHandlers(v)
    PROVE  /\ \A w \in Workers : Claimed(w, v)' => Claimed(w, v)
           /\ \A r \in Runs : Live(r, v)' => Live(r, v) /\ run'[r] = run[r]
BY DEF FewerHandlers, Claimed, Live

LEMMA Untouched ==
    ASSUME TypeInv, NEW v \in Videos, Well(v),
           FewerHandlers(v), SameRow(v), SameStores(v), UNCHANGED <<del[v]>>
    PROVE  Well(v)'
<1>0. /\ \A w \in Workers : Claimed(w, v)' => Claimed(w, v)
      /\ \A r \in Runs : Live(r, v)' => Live(r, v) /\ run'[r] = run[r]
  BY FewerKept
<1>1. Handed(v)'
  BY <1>0 DEF Well, Handed, FewerHandlers, SameRow
<1>2. Sole(v)'
  BY <1>0 DEF Well, Sole
<1>3. Exists(v) => row[v].owner \in Users
  BY OwnersKnown
<1>4. Served(v)'
  <2>1. \A r \in Runs : Live(r, v) => Exists(v)
    <3> TAKE r \in Runs
    <3> HAVE Live(r, v)
    <3>1. row[v].st \in StatusAt(run[r].pc) /\ run[r].pc \in LivePc
      BY DEF Well, Handed, Live
    <3> QED
      BY <3>1 DEF StatusAt, Exists, LivePc, Positions, TaskSteps, FetchSteps, SampleSteps, EmbedSteps
  <2>2. row[v].st = "indexed" => Exists(v)
    BY DEF Exists
  <2>3. \A r \in Runs : Live(r, v)' => /\ run'[r].pc \in Sampled => HasThumbs(v)'
                                       /\ run'[r].pc \in Upserted => HasFrames(v)'
    BY <1>0, <1>3, <2>1 DEF Well, Served, HasThumbs, HasFrames, SameRow, SameStores
  <2>4. (row[v].st = "indexed" /\ v \notin taken)' => HasFrames(v)' /\ HasThumbs(v)'
    BY <1>3, <2>2 DEF Well, Served, HasThumbs, HasFrames, SameRow, SameStores
  <2> QED
    BY <2>3, <2>4 DEF Served
<1>5. Clean(v)'
  BY DEF Well, Clean, FramesMissed, TextMissed, SameRow, SameStores
<1> QED
  BY <1>1, <1>2, <1>4, <1>5 DEF Well

(* A run that is live on an undisturbed video. *)
LEMMA OwnRun ==
    ASSUME TypeInv, NEW v \in Videos, Well(v), NEW r \in Runs, Live(r, v)
    PROVE  /\ row[v].st \in StatusAt(run[r].pc) /\ Exists(v)
           /\ run[r].user = row[v].owner /\ row[v].owner \in Users /\ del[v].pc \in Quiet
           /\ \A w \in Workers : ~Claimed(w, v)
           /\ \A s \in Runs \ {r} : ~Live(s, v)
<1>1. /\ row[v].st \in StatusAt(run[r].pc) /\ run[r].user = row[v].owner /\ del[v].pc \in Quiet
      /\ run[r].pc \in LivePc
  BY DEF Well, Handed, Live
<1>2. Exists(v)
  BY <1>1 DEF StatusAt, Exists, LivePc, Positions, TaskSteps, FetchSteps, SampleSteps, EmbedSteps
<1> QED
  BY <1>1, <1>2, OwnersKnown DEF Well, Sole

(* A video whose row is not being handled is handled by nobody. *)
LEMMA Unhandled ==
    ASSUME TypeInv, NEW v \in Videos
    PROVE  ~Handled(v) <=> /\ \A w \in Workers : ~Claimed(w, v)
                           /\ \A r \in Runs : ~Live(r, v)
<1>1. \A r \in Runs : Live(r, v) <=> r \in LiveRuns(v)
  <2>1. \A r \in Runs : Executing(r) <=> run[r].pc \in Positions
    BY DEF TypeInv, ProgramInv, RunsOK, RunShape, Executing
  <2> QED
    BY <2>1 DEF LiveRuns, Live, LivePc
<1>2. \A w \in Workers : Claimed(w, v) <=> w \in Holders(v)
  BY DEF Holders, Claimed
<1> QED
  BY <1>1, <1>2 DEF Handled, LiveRuns, Holders

-----------------------------------------------------------------------------
(* Requests.                                                               *)

LEMMA StartWell == Init => AllWell
<1> SUFFICES ASSUME Init, NEW v \in Videos PROVE Well(v)
  BY DEF AllWell
<1>1. \A r \in Runs : ~Live(r, v)
  <2>1. \A r \in Runs : run[r].pc = "none"
    BY DEF Init
  <2>2. "none" \notin LivePc
    BY DEF LivePc, Positions, TaskSteps, FetchSteps, SampleSteps, EmbedSteps
  <2> QED
    BY <2>1, <2>2 DEF Live
<1>2. \A w \in Workers : disp[w].claims = {}
  BY DEF Init, Idle
<1>3. row[v].st = "absent" /\ del[v].pc = "idle"
  BY DEF Init, NoRow
<1>4. Handed(v) /\ Sole(v) /\ Served(v)
  BY <1>1, <1>2, <1>3 DEF Handed, Sole, Served, Claimed
<1>5. Clean(v)
  BY <1>3 DEF Init, Clean
<1> QED
  BY <1>4, <1>5 DEF Well

(* What a request does to the videos it is not about. *)
Elsewhere(v) ==
    /\ UNCHANGED <<disp, run>>
    /\ \A y \in Videos \ {v} : SameRow(y) /\ SameStores(y) /\ UNCHANGED <<del[y]>>
    /\ \A y \in Videos \ {v} : y \notin disturbed' => y \notin disturbed

LEMMA RequestElsewhere ==
    ASSUME TypeInv, AllWell, NEW v \in Videos, Elsewhere(v), v \notin disturbed' => Well(v)'
    PROVE  AllWell'
<1> SUFFICES ASSUME NEW y \in Videos, y \notin disturbed' PROVE Well(y)'
  BY DEF AllWell
<1>1. CASE y = v
  BY <1>1
<1>2. CASE y # v
  <2>1. Well(y)
    BY <1>2 DEF AllWell, Elsewhere
  <2>2. FewerHandlers(y)
    BY DEF Elsewhere, FewerHandlers
  <2> QED
    BY <1>2, <2>1, <2>2, Untouched DEF Elsewhere
<1> QED
  BY <1>1, <1>2

(* A request that resets or removes a video nobody handles. *)
LEMMA NobodyHandles ==
    ASSUME TypeInv, NEW v \in Videos, Disturb(v), v \notin disturbed'
    PROVE  /\ v \notin disturbed
           /\ \A w \in Workers : ~Claimed(w, v)
           /\ \A r \in Runs : ~Live(r, v)
BY Unhandled DEF Disturb

LEMMA DisturbElsewhere ==
    ASSUME NEW v \in Videos, Disturb(v)
    PROVE  \A y : y \notin disturbed' => y \notin disturbed
BY DEF Disturb

(* Without a handler only what is stored of the video matters. *)
LEMMA IdleWell ==
    ASSUME NEW v \in Videos, \A w \in Workers : ~Claimed(w, v), \A r \in Runs : ~Live(r, v),
           UNCHANGED <<disp, run>>, Clean(v)',
           row'[v].st = "indexed" /\ v \notin taken' => HasFrames(v)' /\ HasThumbs(v)'
    PROVE  Well(v)'
<1>1. (\A w \in Workers : ~Claimed(w, v)') /\ (\A r \in Runs : ~Live(r, v)')
  BY DEF Claimed, Live
<1>2. Handed(v)' /\ Sole(v)' /\ Served(v)'
  BY <1>1 DEF Handed, Sole, Served, Claimed
<1> QED
  BY <1>2 DEF Well

LEMMA RequestWell ==
    ASSUME TypeInv, TypeInv', AllWell, NEW v \in Videos,
           (\E u \in Users : Register(v, u)) \/ Retry(v) \/ DeleteBegin(v)
    PROVE  AllWell'
<1>0. RowType /\ LeftType /\ Counted
  BY DEF TypeInv, ProgramInv, OtherType, LeftType
<1>1. ASSUME NEW u \in Users, Register(v, u) PROVE AllWell'
  <2>1. /\ \A y \in Videos \ {v} : row'[y] = row[y]
        /\ row'[v].st = "pending" /\ row'[v].owner = (IF Exists(v) THEN row[v].owner ELSE u)
    BY <1>0, <1>1, RowRegistered
  <2>2. UNCHANGED <<stores, history, run, disp, del>> /\ Disturb(v)
    BY <1>1 DEF Register
  <2>3. UNCHANGED <<thumbs, frames, captions, taken, missed>>
    BY <2>2 DEF stores, history
  <2>4. Elsewhere(v)
    BY <2>1, <2>2, <2>3, DisturbElsewhere DEF Elsewhere, SameRow, SameStores
  <2>5. ASSUME v \notin disturbed' PROVE Well(v)'
    <3>1. Well(v) /\ (\A w \in Workers : ~Claimed(w, v)) /\ (\A r \in Runs : ~Live(r, v))
      BY <2>2, <2>5, NobodyHandles DEF AllWell
    <3>2. Clean(v)'
      <4>1. Clean(v)
        BY <3>1 DEF Well
      <4>2. CASE Exists(v)
        BY <2>1, <2>2, <2>3, <4>1, <4>2 DEF Clean, FramesMissed, TextMissed
      <4>3. CASE ~Exists(v)
        <5>1. row[v].owner = NoUser /\ del[v].pc \in Quiet
          BY <4>3, OwnersKnown DEF TypeInv, ProgramInv, DeletesOK
        <5>2. /\ frames[v] = NoUser \/ FramesMissed(v)
              /\ captions[v] = NoUser \/ TextMissed(v)
              /\ \A x \in Users : <<x, v>> \notin thumbs
          BY <4>1, <5>1, NoValues DEF Clean
        <5> QED
          BY <2>2, <2>3, <5>1, <5>2 DEF Clean, FramesMissed, TextMissed, Quiet
      <4> QED
        BY <4>2, <4>3
    <3> QED
      BY <2>1, <2>2, <3>1, <3>2, IdleWell
  <2> QED
    BY <2>4, <2>5, RequestElsewhere
<1>2. CASE Retry(v)
  <2>1. \A y \in Videos : /\ row'[y].owner = row[y].owner
                          /\ row'[y].st = IF y = v THEN "pending" ELSE row[y].st
    BY <1>0, <1>2, StatusSet DEF Retry, Statuses
  <2>2. UNCHANGED <<stores, history, run, disp, del>> /\ Disturb(v)
    BY <1>2 DEF Retry
  <2>3. UNCHANGED <<thumbs, frames, captions, taken, missed>>
    BY <2>2 DEF stores, history
  <2>5. Elsewhere(v)
    BY <2>1, <2>2, <2>3, DisturbElsewhere DEF Elsewhere, SameRow, SameStores
  <2>6. ASSUME v \notin disturbed' PROVE Well(v)'
    <3>1. Well(v) /\ (\A w \in Workers : ~Claimed(w, v)) /\ (\A r \in Runs : ~Live(r, v))
      BY <2>2, <2>6, NobodyHandles DEF AllWell
    <3>2. Clean(v)'
      BY <2>1, <2>2, <2>3, <3>1 DEF Well, Clean, FramesMissed, TextMissed
    <3> QED
      BY <2>1, <2>2, <3>1, <3>2, IdleWell
  <2> QED
    BY <2>5, <2>6, RequestElsewhere
<1>3. CASE DeleteBegin(v)
  <2>1. UNCHANGED <<row, stores, history, run, disp>> /\ Disturb(v)
        /\ del' = [del EXCEPT ![v] = [pc |-> "frames", user |-> row[v].owner]]
    BY <1>3 DEF DeleteBegin
  <2>2. UNCHANGED <<thumbs, frames, captions, taken, missed>>
    BY <2>1 DEF stores, history
  <2>4. del'[v].pc = "frames" /\ \A y \in Videos \ {v} : del'[y] = del[y]
    BY <2>1 DEF TypeInv, ProgramInv, DeleteType
  <2>5. Elsewhere(v)
    BY <2>1, <2>2, <2>4, DisturbElsewhere DEF Elsewhere, SameRow, SameStores
  <2>6. ASSUME v \notin disturbed' PROVE Well(v)'
    <3>1. Well(v) /\ (\A w \in Workers : ~Claimed(w, v)) /\ (\A r \in Runs : ~Live(r, v))
      BY <2>1, <2>6, NobodyHandles DEF AllWell
    <3>2. Clean(v)'
      BY <2>1, <2>2, <2>4, <3>1 DEF Well, Clean, FramesMissed, TextMissed
    <3>3. row'[v].st = "indexed" /\ v \notin taken' => HasFrames(v)' /\ HasThumbs(v)'
      BY <2>1, <2>2, <3>1 DEF Well, Served, HasFrames, HasThumbs
    <3> QED
      BY <2>1, <3>1, <3>2, <3>3, IdleWell
  <2> QED
    BY <2>5, <2>6, RequestElsewhere
<1> QED
  BY <1>1, <1>2, <1>3

(* The steps of a DELETE under way. *)
LEMMA DeleteWell ==
    ASSUME TypeInv, TypeInv', AllWell, NEW v \in Videos, Delete(v) \/ DeleteRaises(v)
    PROVE  AllWell'
<1>0. /\ RowType /\ DeleteType /\ thumbs \subseteq Users \X Videos /\ docs \subseteq Users
      /\ frames \in [Videos -> Users \cup {NoUser}] /\ captions \in [Videos -> Users \cup {NoUser}]
  BY DEF TypeInv, ProgramInv, StoreType
<1>d. del[v].pc \notin Quiet => Exists(v) /\ del[v].user = row[v].owner
  BY DEF TypeInv, ProgramInv, DeletesOK
(* Nobody handles a video while it is deleted. *)
<1>a. ASSUME del[v].pc \notin Quiet, v \notin disturbed
      PROVE  Well(v) /\ (\A w \in Workers : ~Claimed(w, v)) /\ (\A r \in Runs : ~Live(r, v))
  BY <1>a DEF AllWell, Well, Handed, Claimed
<1>1. ASSUME UNCHANGED <<row, run, disp, disturbed>>, del[v].pc \notin Quiet,
             \A y \in Videos \ {v} : del'[y] = del[y] /\ SameStores(y),
             v \in taken' \/ (UNCHANGED <<frames, thumbs>> /\ v \notin taken),
             Clean(v) => Clean(v)'
      PROVE  AllWell'
  <2>1. Elsewhere(v)
    BY <1>1 DEF Elsewhere, SameRow
  <2>2. ASSUME v \notin disturbed' PROVE Well(v)'
    <3>1. Well(v) /\ (\A w \in Workers : ~Claimed(w, v)) /\ (\A r \in Runs : ~Live(r, v))
      BY <1>1, <1>a, <2>2
    <3>2. Clean(v)'
      BY <1>1, <3>1 DEF Well
    <3>3. row'[v].st = "indexed" /\ v \notin taken' => HasFrames(v)' /\ HasThumbs(v)'
      BY <1>1, <3>1 DEF Well, Served, HasFrames, HasThumbs
    <3> QED
      BY <1>1, <3>1, <3>2, <3>3, IdleWell
  <2> QED
    BY <2>1, <2>2, RequestElsewhere
<1>2. CASE DeleteFrames(v)
  <2> DEFINE u == del[v].user
  <2>1. /\ del[v].pc = "frames" /\ del'[v].pc = "text" /\ \A y \in Videos \ {v} : del'[y] = del[y]
    BY <1>0, <1>2, DeleteMoved DEF DeleteFrames
  <2>2. UNCHANGED <<row, run, disp, disturbed, thumbs, captions>> /\ u = row[v].owner
    BY <1>2, <1>d, <2>1 DEF DeleteFrames, Quiet
  <2>3. CASE PurgeFrames(u, v) /\ taken' = taken \cup {v} /\ missed' = missed \ {<<"frames", u, v>>}
    <3>1. /\ \A y \in Videos \ {v} : frames'[y] = frames[y]
          /\ frames'[v] = IF frames[v] = u THEN NoUser ELSE frames[v]
      BY <1>0, <2>3, FramesPurged
    <3>2. Clean(v) => Clean(v)'
      BY <2>1, <2>2, <2>3, <3>1 DEF Clean, FramesMissed, TextMissed
    <3>3. \A y \in Videos \ {v} : SameStores(y)
      BY <2>2, <2>3, <3>1 DEF SameStores
    <3> QED
      BY <1>1, <2>1, <2>2, <2>3, <3>2, <3>3 DEF Quiet
  <2>4. CASE FramesSwallowed /\ UNCHANGED taken /\ missed' = missed \cup {<<"frames", u, v>>}
    <3>1. UNCHANGED frames
      BY <2>4 DEF FramesSwallowed
    <3>2. Clean(v) => Clean(v)'
      BY <2>1, <2>2, <2>4, <3>1 DEF Clean, FramesMissed, TextMissed
    <3>3. \A y \in Videos \ {v} : SameStores(y)
      BY <2>2, <2>4, <3>1 DEF SameStores
    <3> QED
      BY <1>1, <2>1, <2>2, <2>4, <3>1, <3>2, <3>3 DEF Quiet
  <2> QED
    BY <1>2, <2>3, <2>4 DEF DeleteFrames
<1>3. CASE DeleteText(v)
  <2> DEFINE u == del[v].user
  <2>1. /\ del[v].pc = "text" /\ del'[v].pc = "thumbs" /\ \A y \in Videos \ {v} : del'[y] = del[y]
    BY <1>0, <1>3, DeleteMoved DEF DeleteText
  <2>2. UNCHANGED <<row, run, disp, disturbed, thumbs, frames, taken>> /\ u = row[v].owner
    BY <1>3, <1>d, <2>1 DEF DeleteText, Quiet
  <2>3. CASE PurgeText(u, v) /\ missed' = missed \ {<<"text", u, v>>}
    <3>1. /\ \A y \in Videos \ {v} : captions'[y] = captions[y]
          /\ captions'[v] = IF captions[v] = u THEN NoUser ELSE captions[v]
      BY <1>0, <2>3, TextPurged
    <3>2. Clean(v) => Clean(v)'
      BY <2>1, <2>2, <2>3, <3>1 DEF Clean, FramesMissed, TextMissed
    <3>3. \A y \in Videos \ {v} : SameStores(y)
      BY <2>2, <2>3, <3>1 DEF SameStores
    <3> QED
      BY <1>1, <2>1, <2>2, <3>2, <3>3 DEF Quiet
  <2>4. CASE TextSwallowed /\ missed' = missed \cup {<<"text", u, v>>}
    <3>1. UNCHANGED captions
      BY <2>4 DEF TextSwallowed
    <3>2. Clean(v) => Clean(v)'
      BY <2>1, <2>2, <2>4, <3>1 DEF Clean, FramesMissed, TextMissed
    <3>3. \A y \in Videos \ {v} : SameStores(y)
      BY <2>2, <2>4, <3>1 DEF SameStores
    <3> QED
      BY <1>1, <2>1, <2>2, <3>2, <3>3 DEF Quiet
  <2> QED
    BY <1>3, <2>3, <2>4 DEF DeleteText
<1>4. CASE DeleteThumbs(v)
  <2>1. /\ del[v].pc = "thumbs" /\ del'[v].pc \in {"file", "row"} /\ \A y \in Videos \ {v} : del'[y] = del[y]
    BY <1>0, <1>4, DeleteMoved DEF DeleteThumbs
  <2>2. /\ UNCHANGED <<row, run, disp, disturbed, frames, captions, missed>>
        /\ thumbs' = thumbs \ {<<del[v].user, v>>} /\ taken' = taken \cup {v}
    BY <1>4 DEF DeleteThumbs
  <2>3. Clean(v) => Clean(v)'
    BY <1>d, <2>1, <2>2 DEF Clean, FramesMissed, TextMissed, Quiet
  <2>4. \A y \in Videos \ {v} : SameStores(y)
    BY <2>2 DEF SameStores
  <2> QED
    BY <1>1, <2>1, <2>2, <2>3, <2>4 DEF Quiet
<1>5. CASE DeleteFile(v) \/ DeleteRaises(v)
  <2>1. /\ del[v].pc \notin Quiet /\ \A y \in Videos \ {v} : del'[y] = del[y]
        /\ (del[v].pc = "file" /\ del'[v].pc = "row") \/ del'[v].pc = "idle"
    <3>1. CASE DeleteFile(v)
      BY <1>0, <3>1, DeleteMoved DEF DeleteFile, Quiet
    <3>2. CASE DeleteRaises(v)
      BY <1>0, <3>2, DeleteMoved DEF DeleteRaises, Quiet
    <3> QED
      BY <1>5, <3>1, <3>2
  <2>2. UNCHANGED <<row, run, disp, disturbed, thumbs, frames, captions, taken, missed>>
    BY <1>5 DEF DeleteFile, DeleteRaises, stores, history
  <2>3. Clean(v) => Clean(v)'
    BY <2>1, <2>2 DEF Clean, FramesMissed, TextMissed
  <2> QED
    BY <1>1, <2>1, <2>2, <2>3 DEF SameStores
<1>6. CASE DeleteRow(v)
  <2>1. /\ del[v].pc = "row" /\ del'[v].pc = "idle" /\ \A y \in Videos \ {v} : del'[y] = del[y]
    BY <1>0, <1>6, DeleteMoved DEF DeleteRow
  <2>2. /\ UNCHANGED <<stores, history, run, disp>> /\ Disturb(v)
        /\ row' = [row EXCEPT ![v] = NoRow]
    BY <1>6 DEF DeleteRow
  <2>3. UNCHANGED <<thumbs, frames, captions, taken, missed>>
    BY <2>2 DEF stores, history
  <2>4. row'[v].st = "absent" /\ row'[v].owner = NoUser /\ \A y \in Videos \ {v} : row'[y] = row[y]
    BY <1>0, <2>2 DEF RowType, NoRow
  <2>5. Elsewhere(v)
    BY <2>1, <2>2, <2>3, <2>4, DisturbElsewhere DEF Elsewhere, SameRow, SameStores
  <2>6. ASSUME v \notin disturbed' PROVE Well(v)'
    <3>1. Well(v) /\ (\A w \in Workers : ~Claimed(w, v)) /\ (\A r \in Runs : ~Live(r, v))
      BY <1>a, <2>1, <2>2, <2>6, DisturbElsewhere DEF Quiet
    <3>2. Clean(v)'
      BY <2>1, <2>2, <2>3, <2>4, <3>1 DEF Clean, Well, FramesMissed, TextMissed
    <3> QED
      BY <2>2, <2>4, <3>1, <3>2, IdleWell
  <2> QED
    BY <2>5, <2>6, RequestElsewhere
<1> QED
  BY <1>2, <1>3, <1>4, <1>5, <1>6 DEF Delete

-----------------------------------------------------------------------------
(* Dispatchers.                                                            *)

(* A step that only ends runs or drops claims. *)
LEMMA AllUntouched ==
    ASSUME TypeInv, AllWell, UNCHANGED <<row, thumbs, frames, captions, taken, missed, del, disturbed>>,
           \A v \in Videos : FewerHandlers(v)
    PROVE  AllWell'
<1> SUFFICES ASSUME NEW v \in Videos, v \notin disturbed' PROVE Well(v)'
  BY DEF AllWell
<1>1. Well(v)
  BY DEF AllWell
<1>2. SameRow(v) /\ SameStores(v)
  BY DEF SameRow, SameStores
<1> QED
  BY <1>1, <1>2, Untouched

(* A video nobody handles any more, and that is not indexed. *)
LEMMA LeftAlone ==
    ASSUME NEW v \in Videos, \A w \in Workers : ~Claimed(w, v)', \A r \in Runs : ~Live(r, v)',
           row'[v].st # "indexed", Clean(v)'
    PROVE  Well(v)'
<1>1. Handed(v)' /\ Sole(v)' /\ Served(v)'
  BY DEF Handed, Sole, Served, Claimed
<1> QED
  BY <1>1 DEF Well

LEMMA CountSelectWell ==
    ASSUME TypeInv, AllWell, NEW w \in Workers, DispatchCount(w) \/ DispatchSelect(w)
    PROVE  AllWell'
<1>1. UNCHANGED <<row, stores, history, run, del, disturbed>>
  BY DEF DispatchCount, DispatchSelect
<1>2. UNCHANGED <<thumbs, frames, captions, taken, missed>>
  BY <1>1 DEF stores, history
<1>3. disp[w] \in DispatchRecords /\ disp \in [Workers -> DispatchRecords] /\ disp[w].claims = {}
  BY DEF TypeInv, ProgramInv, DispatchType, DispatchRecords, DispatchOK, DispatchShape,
         DispatchCount, DispatchSelect
<1>4. \A x \in Workers : disp'[x].claims \subseteq disp[x].claims
  <2>1. CASE DispatchCount(w)
    <3> DEFINE n == MaxInflight - Cardinality(InFlight)
               e == [disp[w] EXCEPT !.pc = "select", !.slots = n]
    <3>1. disp' = [disp EXCEPT ![w] = e]
      BY <1>3, <2>1 DEF DispatchCount
    <3>2. e.claims = {}
      BY <1>3 DEF DispatchRecords
    <3> HIDE DEF e
    <3> QED
      BY <1>3, <3>1, <3>2
  <2>2. CASE DispatchSelect(w)
    BY <1>3, <2>2 DEF DispatchSelect, Idle
  <2> QED
    BY <2>1, <2>2
<1>5. \A v \in Videos : FewerHandlers(v)
  BY <1>1, <1>4 DEF FewerHandlers
<1> QED
  BY <1>1, <1>2, <1>5, AllUntouched

LEMMA ClaimWell ==
    ASSUME TypeInv, AllWell, NEW w \in Workers, DispatchClaim(w)
    PROVE  AllWell'
<1> DEFINE won == disp[w].ids \cap Pending
           e == [pc |-> "enqueue", slots |-> 0, ids |-> {}, claims |-> ClaimsOf(won)]
<1>0. /\ RowType /\ disp \in [Workers -> DispatchRecords]
  BY DEF TypeInv, ProgramInv, DispatchType, DispatchRecords
<1>1. /\ row' = [v \in Videos |-> IF v \in won THEN [row[v] EXCEPT !.st = "queued"] ELSE row[v]]
      /\ disp' = [disp EXCEPT ![w] = IF won = {} THEN Idle ELSE e]
      /\ disturbed' = disturbed \cup {v \in won : del[v].pc # "idle"}
      /\ UNCHANGED <<stores, history, run, del>>
  BY DEF DispatchClaim, Claim, ClaimsOf
<1>2. won \in SUBSET Pending
  OBVIOUS
<1>3. /\ ClaimsOf(won) \subseteq Claims
      /\ \A c \in ClaimsOf(won) : c.vid \in won /\ c.user = row[c.vid].owner
      /\ \A c, d \in ClaimsOf(won) : c.vid = d.vid => c = d
  BY <1>0, <1>2, ClaimedShape
<1>4. \A v \in Videos : /\ row'[v].owner = row[v].owner
                        /\ row'[v].st = IF v \in won THEN "queued" ELSE row[v].st
  <2> HIDE DEF won
  <2> QED
    BY <1>0, <1>1, <1>2, RowsClaimed
<1>5. \A v \in won : row[v].st = "pending" /\ v \in Videos
  BY DEF Pending
<1>6. disp'[w].claims \subseteq ClaimsOf(won) /\ \A x \in Workers \ {w} : disp'[x] = disp[x]
  BY <1>0, <1>1 DEF Idle
<1>7. UNCHANGED <<thumbs, frames, captions, taken, missed>>
  BY <1>1 DEF stores, history
<1> HIDE DEF won, e
<1> SUFFICES ASSUME NEW v \in Videos, v \notin disturbed' PROVE Well(v)'
  BY DEF AllWell
<1>8. Well(v)
  BY <1>1 DEF AllWell
<1>9. CASE v \notin won
  <2>1. FewerHandlers(v)
    BY <1>1, <1>3, <1>6, <1>9 DEF FewerHandlers
  <2>2. SameRow(v) /\ SameStores(v)
    BY <1>4, <1>7, <1>9 DEF SameRow, SameStores
  <2> QED
    BY <1>1, <1>7, <1>8, <2>1, <2>2, Untouched
<1>10. CASE v \in won
  <2>1. del[v].pc \in Quiet
    BY <1>1, <1>10 DEF Quiet
  <2>2. (\A x \in Workers : ~Claimed(x, v)) /\ (\A r \in Runs : ~Live(r, v))
    <3>1. row[v].st = "pending"
      BY <1>5, <1>10
    <3>2. \A x \in Workers : ~Claimed(x, v)
      BY <1>8, <3>1 DEF Well, Handed, Claimed
    <3>3. \A r \in Runs : ~Live(r, v)
      <4> SUFFICES ASSUME NEW r \in Runs, Live(r, v) PROVE FALSE
        OBVIOUS
      <4>1. row[v].st \in StatusAt(run[r].pc) /\ run[r].pc \in LivePc
        BY <1>8 DEF Well, Handed, Live
      <4> QED
        BY <3>1, <4>1 DEF StatusAt, LivePc, Positions, TaskSteps, FetchSteps, SampleSteps, EmbedSteps
    <3> QED
      BY <3>2, <3>3
  <2>3. (\A r \in Runs : ~Live(r, v)') /\ (\A x \in Workers \ {w} : ~Claimed(x, v)')
    BY <1>1, <1>6, <2>2 DEF Live, Claimed
  <2>4. Handed(v)'
    <3>1. \A x \in Workers : \A c \in disp'[x].claims : c.vid = v => x = w
      BY <2>3 DEF Claimed
    <3>2. \A c \in disp'[w].claims : c.vid = v => c.user = row[v].owner
      BY <1>3, <1>6
    <3> QED
      BY <1>1, <1>4, <1>10, <2>1, <2>3, <3>1, <3>2 DEF Handed
  <2>5. Sole(v)' /\ Served(v)'
    BY <1>4, <1>10, <2>3 DEF Sole, Served
  <2>6. Clean(v)'
    BY <1>1, <1>4, <1>7, <1>8 DEF Well, Clean, FramesMissed, TextMissed
  <2> QED
    BY <2>4, <2>5, <2>6 DEF Well
<1> QED
  BY <1>9, <1>10

(* A dispatcher that gave up or handed over a claim no longer holds its video. *)
LEMMA Released ==
    ASSUME TypeInv, NEW w \in Workers, NEW c \in disp[w].claims, NEW v \in Videos, Sole(v),
           disp' = [disp EXCEPT ![w] = Rest(w, c)] \/ disp' = [disp EXCEPT ![w] = Idle]
    PROVE  /\ \A x \in Workers : disp'[x].claims \subseteq disp[x].claims
           /\ v = c.vid => /\ \A x \in Workers : ~Claimed(x, v)'
                           /\ \A r \in Runs : ~Live(r, v)
<1>1. DispatchType /\ DispatchOK
  BY DEF TypeInv, ProgramInv
<1>2. Rest(w, c).claims = disp[w].claims \ {c} /\ Idle.claims = {}
  BY <1>1, RestShape, IdleShape
<1>3. /\ disp'[w].claims \subseteq disp[w].claims \ {c}
      /\ \A x \in Workers \ {w} : disp'[x] = disp[x]
  BY <1>1, <1>2 DEF DispatchType
<1>4. ASSUME v = c.vid PROVE (\A x \in Workers : ~Claimed(x, v)') /\ (\A r \in Runs : ~Live(r, v))
  <2>1. Claimed(w, v)
    BY <1>4 DEF Claimed
  <2>2. \A r \in Runs : ~Live(r, v)
    BY <2>1 DEF Sole
  <2>3. \A d \in disp[w].claims \ {c} : d.vid # v
    BY <1>1, <1>4 DEF DispatchOK, DispatchShape
  <2>4. \A x \in Workers \ {w} : ~Claimed(x, v)
    BY <2>1 DEF Sole
  <2>5. \A x \in Workers : ~Claimed(x, v)'
    BY <1>3, <2>3, <2>4 DEF Claimed
  <2> QED
    BY <2>2, <2>5
<1> QED
  BY <1>3, <1>4

LEMMA EnqueueWell ==
    ASSUME TypeInv, AllWell, NEW w \in Workers, DispatchEnqueue(w)
    PROVE  AllWell'
<1>1. PICK c \in disp[w].claims :
        /\ disp' = [disp EXCEPT ![w] = Rest(w, c)]
        /\ \/ /\ \E r \in Runs : Unused(r) /\ run' = [run EXCEPT ![r] = NewRun(c)]
              /\ UNCHANGED disturbed
           \/ /\ \E r \in Runs : /\ Unused(r) /\ r + 1 \in Runs
                                 /\ run' = [run EXCEPT ![r] = NewRun(c), ![r + 1] = NewRun(c)]
              /\ Spend("fault")
              /\ disturbed' = disturbed \cup {c.vid}
  BY DEF DispatchEnqueue
<1>2. UNCHANGED <<row, stores, history, del>>
  BY DEF DispatchEnqueue
<1>3. UNCHANGED <<thumbs, frames, captions, taken, missed>>
  BY <1>1, <1>2 DEF stores, history
<1>4. RunType /\ RunsOK /\ DispatchType /\ DispatchOK
  BY DEF TypeInv, ProgramInv
<1>5. c \in Claims
  BY <1>4, RestShape
<1>6. \A q \in Runs : run'[q] = run[q] \/ run'[q] = NewRun(c)
  BY <1>1, <1>4, <1>5, RunsCreated
<1>7. NewRun(c).vid = c.vid /\ NewRun(c).user = c.user /\ NewRun(c).pc = "queued"
  BY <1>5, NewRunShape
<1> SUFFICES ASSUME NEW v \in Videos, v \notin disturbed' PROVE Well(v)'
  BY DEF AllWell
<1>8. Well(v)
  BY <1>1 DEF AllWell
<1>9. /\ \A x \in Workers : disp'[x].claims \subseteq disp[x].claims
      /\ v = c.vid => (\A x \in Workers : ~Claimed(x, v)') /\ (\A r \in Runs : ~Live(r, v))
  BY <1>1, <1>8, Released DEF Well
<1>10. CASE v # c.vid
  <2>1. FewerHandlers(v)
    BY <1>6, <1>7, <1>9, <1>10 DEF FewerHandlers
  <2>2. SameRow(v) /\ SameStores(v)
    BY <1>2, <1>3 DEF SameRow, SameStores
  <2> QED
    BY <1>2, <1>3, <1>8, <2>1, <2>2, Untouched
<1>11. CASE v = c.vid
  <2>1. PICK r \in Runs : run' = [run EXCEPT ![r] = NewRun(c)]
    BY <1>1, <1>11
  <2>2. run'[r] = NewRun(c) /\ \A q \in Runs \ {r} : run'[q] = run[q]
    BY <1>4, <2>1 DEF RunType
  <2>3. \A q \in Runs : Live(q, v)' => q = r /\ run'[q].pc = "queued" /\ run'[q].user = c.user
    BY <1>7, <1>9, <1>11, <2>2 DEF Live
  <2>4. row[v].st = "queued" /\ c.user = row[v].owner /\ del[v].pc \in Quiet
    BY <1>8, <1>11 DEF Well, Handed
  <2>5. Handed(v)'
    <3>1. row[v].st \in StatusAt("queued")
      BY <2>4 DEF StatusAt
    <3> QED
      BY <1>2, <1>9, <1>11, <2>3, <2>4, <3>1 DEF Handed, Claimed
  <2>6. Sole(v)'
    BY <1>9, <1>11, <2>3 DEF Sole
  <2>7. Served(v)'
    BY <1>2, <2>3, <2>4 DEF Served, Sampled, Upserted, EmbedSteps
  <2>8. Clean(v)'
    BY <1>2, <1>3, <1>8, <2>1 DEF Well, Clean, FramesMissed, TextMissed
  <2> QED
    BY <2>5, <2>6, <2>7, <2>8 DEF Well
<1> QED
  BY <1>10, <1>11

LEMMA DispatchRaisesWell ==
    ASSUME TypeInv, AllWell, NEW w \in Workers, DispatchRaises(w)
    PROVE  AllWell'
<1>1. PICK c \in disp[w].claims :
        /\ \/ UNCHANGED <<run, disturbed>>
           \/ /\ \E r \in Runs : Unused(r) /\ run' = [run EXCEPT ![r] = NewRun(c)]
              /\ disturbed' = disturbed \cup {c.vid}
        /\ SetStatus(c.vid, "pending") \/ UNCHANGED row
        /\ disp' = [disp EXCEPT ![w] = Rest(w, c)] \/ disp' = [disp EXCEPT ![w] = Idle]
  BY DEF DispatchRaises
<1>2. UNCHANGED <<stores, history, del>>
  BY DEF DispatchRaises
<1>3. UNCHANGED <<thumbs, frames, captions, taken, missed>>
  BY <1>2 DEF stores, history
<1>4. RowType /\ RunType /\ RunsOK /\ DispatchType /\ DispatchOK
  BY DEF TypeInv, ProgramInv
<1>5. c \in Claims /\ c.vid \in Videos
  BY <1>4, RestShape DEF Claims
<1>6. \A q \in Runs : run'[q] = run[q] \/ run'[q] = NewRun(c)
  BY <1>1, <1>4, <1>5, RunsCreated
<1>7. NewRun(c).vid = c.vid
  BY <1>5, NewRunShape
<1>8. \A y \in Videos : /\ row'[y].owner = row[y].owner
                        /\ row'[y].st = row[y].st \/ (y = c.vid /\ row'[y].st = "pending")
  <2>1. CASE SetStatus(c.vid, "pending")
    BY <1>4, <1>5, <2>1, StatusSet DEF Statuses
  <2>2. CASE UNCHANGED row
    BY <2>2
  <2> QED
    BY <1>1, <2>1, <2>2
<1> SUFFICES ASSUME NEW v \in Videos, v \notin disturbed' PROVE Well(v)'
  BY DEF AllWell
<1>9. Well(v)
  BY <1>1 DEF AllWell
<1>10. /\ \A x \in Workers : disp'[x].claims \subseteq disp[x].claims
       /\ v = c.vid => (\A x \in Workers : ~Claimed(x, v)') /\ (\A r \in Runs : ~Live(r, v))
  BY <1>1, <1>9, Released DEF Well
<1>11. CASE v # c.vid
  <2>1. FewerHandlers(v)
    BY <1>6, <1>7, <1>10, <1>11 DEF FewerHandlers
  <2>2. SameRow(v) /\ SameStores(v)
    BY <1>3, <1>8, <1>11 DEF SameRow, SameStores
  <2> QED
    BY <1>2, <1>3, <1>9, <2>1, <2>2, Untouched
<1>12. CASE v = c.vid
  <2>1. \A r \in Runs : ~Live(r, v)'
    BY <1>1, <1>10, <1>12 DEF Live
  <2>2. row'[v].st # "indexed"
    BY <1>8, <1>9, <1>12 DEF Well, Handed
  <2>3. Clean(v)'
    BY <1>2, <1>3, <1>8, <1>9 DEF Well, Clean, FramesMissed, TextMissed
  <2> QED
    BY <1>10, <1>12, <2>1, <2>2, <2>3, LeftAlone
<1> QED
  BY <1>11, <1>12

-----------------------------------------------------------------------------
(* Runs.                                                                   *)

(* Run r goes from where it is to p and works on nothing but its own video. *)
FlowFrame(r, p) ==
    /\ Moved(r, p) /\ UNCHANGED <<disp, del, disturbed, missed>>
    /\ \A y \in Videos : row'[y].owner = row[y].owner
    /\ \A y \in Videos : y # run[r].vid => row'[y].st = row[y].st /\ SameStores(y)

(* What has to be shown of that video v, once r is at p. *)
OwnAfter(v, p) ==
    /\ p \in LivePc => row'[v].st \in StatusAt(p)
    /\ p \in Sampled => HasThumbs(v)'
    /\ p \in Upserted => HasFrames(v)'
    /\ row'[v].st = "indexed" => HasFrames(v)' /\ HasThumbs(v)'
    /\ Clean(v) => Clean(v)'

(* What is known of it while r is where it is. *)
OwnBefore(v, r) ==
    /\ row[v].st \in StatusAt(run[r].pc) /\ Exists(v) /\ del[v].pc \in Quiet
    /\ run[r].user = row[v].owner /\ row[v].owner \in Users
    /\ run[r].pc \in Sampled => HasThumbs(v)
    /\ run[r].pc \in Upserted => HasFrames(v)

LEMMA FlowStep ==
    ASSUME TypeInv, AllWell, NEW r \in Runs, NEW p, run[r].pc \in LivePc, FlowFrame(r, p),
           \A v \in Videos : v = run[r].vid /\ OwnBefore(v, r) => OwnAfter(v, p)
    PROVE  AllWell'
<1> SUFFICES ASSUME NEW v \in Videos, v \notin disturbed' PROVE Well(v)'
  BY DEF AllWell
<1>1. Well(v)
  BY DEF AllWell, FlowFrame
<1>2. CASE v # run[r].vid
  <2>1. FewerHandlers(v)
    BY <1>2 DEF FewerHandlers, FlowFrame, Moved
  <2>2. SameRow(v) /\ SameStores(v)
    BY <1>2 DEF FlowFrame, SameRow
  <2> QED
    BY <1>1, <2>1, <2>2, Untouched DEF FlowFrame
<1>3. CASE v = run[r].vid
  <2>1. Live(r, v)
    BY <1>3 DEF Live
  <2>2. /\ row[v].st \in StatusAt(run[r].pc) /\ Exists(v) /\ del[v].pc \in Quiet
        /\ run[r].user = row[v].owner /\ row[v].owner \in Users
        /\ \A w \in Workers : ~Claimed(w, v)
        /\ \A s \in Runs \ {r} : ~Live(s, v)
    BY <1>1, <2>1, OwnRun
  <2>3. OwnAfter(v, p)
    <3>1. /\ run[r].pc \in Sampled => HasThumbs(v)
          /\ run[r].pc \in Upserted => HasFrames(v)
      BY <1>1, <2>1 DEF Well, Served
    <3> QED
      BY <1>3, <2>2, <3>1 DEF OwnBefore
  <2>4. /\ \A s \in Runs : Live(s, v)' => s = r /\ run'[s].pc = p /\ run'[s].user = row[v].owner
        /\ \A w \in Workers : ~Claimed(w, v)'
    BY <2>2 DEF FlowFrame, Moved, Live, Claimed
  <2>5. Handed(v)'
    <3>1. \A w \in Workers : \A c \in disp'[w].claims : c.vid # v
      BY <2>4 DEF Claimed
    <3>2. \A s \in Runs : Live(s, v)' => row'[v].st \in StatusAt(p) /\ run'[s].user = row'[v].owner
      BY <2>3, <2>4 DEF OwnAfter, FlowFrame, Live
    <3> QED
      BY <2>2, <2>4, <3>1, <3>2 DEF Handed, FlowFrame
  <2>6. Sole(v)'
    BY <2>4 DEF Sole
  <2>7. Served(v)'
    BY <2>3, <2>4 DEF Served, OwnAfter
  <2>8. Clean(v)'
    BY <1>1, <2>3 DEF Well, OwnAfter
  <2> QED
    BY <2>5, <2>6, <2>7, <2>8 DEF Well
<1> QED
  BY <1>2, <1>3

(* Steps that leave the stores alone and write a status, or none. *)
LEMMA PlainFrame ==
    ASSUME TypeInv, NEW r \in Runs, NEW p, Moved(r, p),
           UNCHANGED <<thumbs, frames, captions, taken, missed, disp, del, disturbed>>,
           \A y \in Videos : /\ row'[y].owner = row[y].owner
                             /\ y # run[r].vid => row'[y].st = row[y].st
    PROVE  FlowFrame(r, p)
BY DEF FlowFrame, SameStores

LEMMA PlainOwn ==
    ASSUME NEW v \in Videos, NEW r \in Runs, NEW p, OwnBefore(v, r),
           UNCHANGED <<thumbs, frames, captions, missed, del>>, row'[v].owner = row[v].owner,
           p \in LivePc => row'[v].st \in StatusAt(p),
           p \in Sampled => run[r].pc \in Sampled,
           p \in Upserted \/ row'[v].st = "indexed" => run[r].pc \in Upserted
    PROVE  OwnAfter(v, p)
<1>1. Upserted \subseteq Sampled
  BY DEF Upserted, Sampled, EmbedSteps
<1>2. HasThumbs(v)' = HasThumbs(v) /\ HasFrames(v)' = HasFrames(v)
  BY DEF HasThumbs, HasFrames
<1>3. Clean(v) => Clean(v)'
  BY DEF Clean, FramesMissed, TextMissed
<1> QED
  BY <1>1, <1>2, <1>3 DEF OwnAfter, OwnBefore

(* Neither a status nor a store is written. *)
LEMMA QuietFlow ==
    ASSUME TypeInv, AllWell, NEW r \in Runs, NEW p, run[r].pc \in LivePc, Moved(r, p),
           UNCHANGED <<row, thumbs, frames, captions, taken, missed, disp, del, disturbed>>,
           p \in LivePc => StatusAt(run[r].pc) \subseteq StatusAt(p),
           p \in Sampled => run[r].pc \in Sampled, p \in Upserted => run[r].pc \in Upserted
    PROVE  AllWell'
<1>1. FlowFrame(r, p)
  BY PlainFrame
<1>2. ASSUME NEW v \in Videos, OwnBefore(v, r) PROVE OwnAfter(v, p)
  <2>1. row[v].st = "indexed" => run[r].pc \in Upserted
    BY <1>2 DEF OwnBefore, StatusAt, Upserted, LivePc, Positions, TaskSteps, FetchSteps, SampleSteps, EmbedSteps
  <2>2. p \in LivePc => row[v].st \in StatusAt(p)
    BY <1>2 DEF OwnBefore
  <2> QED
    BY <1>2, <2>1, <2>2, PlainOwn
<1> QED
  BY <1>1, <1>2, FlowStep

(* A status is written, and no store. *)
LEMMA StatusFlow ==
    ASSUME TypeInv, AllWell, NEW r \in Runs, NEW p, run[r].pc \in LivePc, Moved(r, p),
           run[r].vid \in Videos, NEW s \in Statuses, SetStatus(run[r].vid, s),
           UNCHANGED <<thumbs, frames, captions, taken, missed, disp, del, disturbed>>,
           p \in LivePc => s \in StatusAt(p),
           p \in Sampled => run[r].pc \in Sampled,
           p \in Upserted \/ s = "indexed" => run[r].pc \in Upserted
    PROVE  AllWell'
<1>0. RowType
  BY DEF TypeInv, ProgramInv
<1>1. \A y \in Videos : /\ row'[y].owner = row[y].owner
                        /\ row'[y].st = IF y = run[r].vid /\ Exists(y) THEN s ELSE row[y].st
  <2> DEFINE v == run[r].vid
  <2>1. v \in Videos /\ SetStatus(v, s)
    OBVIOUS
  <2> HIDE DEF v
  <2>2. \A y \in Videos : /\ row'[y].owner = row[y].owner
                          /\ row'[y].st = IF y = v /\ Exists(v) THEN s ELSE row[y].st
    BY <1>0, <2>1, StatusSet
  <2> QED
    BY <2>2 DEF v
<1>2. FlowFrame(r, p)
  BY <1>1, PlainFrame
<1>3. ASSUME NEW v \in Videos, v = run[r].vid, OwnBefore(v, r) PROVE OwnAfter(v, p)
  <2>1. row'[v].st = s /\ row'[v].owner = row[v].owner
    BY <1>1, <1>3 DEF OwnBefore
  <2> QED
    BY <1>3, <2>1, PlainOwn
<1> QED
  BY <1>2, <1>3, FlowStep

(* Storing thumbnails or frames of a run's own video for its tenant. *)
LEMMA StoredThumbs ==
    ASSUME NEW v \in Videos, NEW r \in Runs, OwnBefore(v, r), UNCHANGED <<frames, captions, missed, del>>,
           row'[v].owner = row[v].owner, v = run[r].vid,
           thumbs' = thumbs \cup {<<run[r].user, run[r].vid>>}
    PROVE  HasThumbs(v)' /\ (Clean(v) => Clean(v)') /\ (HasFrames(v) => HasFrames(v)')
<1>1. HasThumbs(v)' /\ (HasFrames(v) => HasFrames(v)')
  BY DEF OwnBefore, HasThumbs, HasFrames
<1>2. ASSUME Clean(v) PROVE Clean(v)'
  <2>1. \A u \in Users : <<u, v>> \in thumbs' => u = row'[v].owner
    BY <1>2 DEF Clean, FramesMissed, TextMissed, OwnBefore
  <2> QED
    BY <1>2, <2>1 DEF Clean, FramesMissed, TextMissed, OwnBefore, Quiet
<1> QED
  BY <1>1, <1>2

LEMMA StoredFrames ==
    ASSUME TypeInv, NEW v \in Videos, NEW r \in Runs, OwnBefore(v, r), UNCHANGED <<thumbs, captions, missed, del>>,
           row'[v].owner = row[v].owner, v = run[r].vid,
           frames' = [frames EXCEPT ![run[r].vid] = run[r].user]
    PROVE  HasFrames(v)' /\ (Clean(v) => Clean(v)') /\ (HasThumbs(v) => HasThumbs(v)')
<1>1. frames'[v] = row[v].owner
  BY StoresTyped DEF OwnBefore
<1> QED
  BY <1>1 DEF OwnBefore, HasThumbs, HasFrames, Clean, FramesMissed, TextMissed, Quiet

LEMMA FlowWell ==
    ASSUME TypeInv, TypeInv', AllWell, NEW r \in Runs, Flow(r)
    PROVE  AllWell'
<1> DEFINE v == run[r].vid
           pc == run[r].pc
           Steps == Positions \cup LivePc
<1>0. RowType /\ RunType /\ RunsOK /\ frames \in [Videos -> Users \cup {NoUser}]
      /\ captions \in [Videos -> Users \cup {NoUser}] /\ thumbs \subseteq Users \X Videos /\ docs \subseteq Users
  BY DEF TypeInv, ProgramInv, StoreType
<1>e. Executing(r) => v \in Videos /\ run[r].user \in Users /\ pc \in Positions /\ pc \in LivePc
  BY <1>0, ExecutingRun DEF LivePc
<1>s. UNCHANGED <<stores, history>> => UNCHANGED <<thumbs, frames, captions, taken, missed>>
  BY DEF stores, history
<1>p. {"launch", "fetch", "load", "hash", "check", "skip", "sample", "clear", "put", "embed", "purge",
       "purgetext", "upsert", "flip", "captions", "transcript"} = Positions
      /\ "done" \notin LivePc /\ Statuses = {"pending", "queued", "fetching", "sampling", "embedding", "indexed",
                                             "skipped", "failed"}
  BY DEF LivePc, Positions, TaskSteps, FetchSteps, SampleSteps, EmbedSteps, Statuses, Inflight, Settled
<1>a. ASSUME NEW p \in Positions, Executing(r), Advance(r, p) \/ NextTask(r, p) PROVE Moved(r, p)
  BY <1>0, <1>a, RunMoved
<1>b. ASSUME Executing(r), Ended(r) PROVE Moved(r, "done")
  BY <1>0, <1>b, RunEnded
<1>q. "done" \notin LivePc \cup Sampled \cup Upserted
  BY <1>p DEF Sampled, Upserted, EmbedSteps
<1>1. ASSUME NEW w \in Workers, PickUp(r, w) PROVE AllWell'
  <2>1. Moved(r, "launch") /\ pc = "queued" /\ UNCHANGED <<row, stores, history, disp, del, disturbed>>
    BY <1>0, <1>1, RunPicked DEF PickUp
  <2>2. pc \in LivePc /\ StatusAt(pc) \subseteq StatusAt("launch") /\ "launch" \notin Sampled \cup Upserted
    BY <2>1 DEF LivePc, StatusAt, Sampled, Upserted, EmbedSteps
  <2> QED
    BY <1>s, <2>1, <2>2, QuietFlow
<1>2. CASE Launch(r)
  <2>1. Moved(r, "fetch") /\ pc = "launch" /\ UNCHANGED <<row, stores, history, disp, del, disturbed>> /\ pc \in LivePc
    BY <1>2, <1>a, <1>e, <1>p DEF Launch, At
  <2>2. StatusAt(pc) \subseteq StatusAt("fetch") /\ "fetch" \notin Sampled \cup Upserted
    BY <2>1 DEF StatusAt, Sampled, Upserted, EmbedSteps
  <2> QED
    BY <1>s, <2>1, <2>2, QuietFlow
<1>3. CASE LaunchFails(r)
  <2>1. Moved(r, "done") /\ UNCHANGED <<row, stores, history, disp, del, disturbed>> /\ pc \in LivePc
    BY <1>3, <1>b, <1>e DEF LaunchFails, At
  <2> QED
    BY <1>s, <1>q, <2>1, QuietFlow
<1>4. ASSUME NEW at, NEW s \in Statuses, NEW to \in Positions, Report(r, at, s, to),
             s \in StatusAt(to), s # "indexed",
             to \in Sampled => at \in Sampled, to \in Upserted => at \in Upserted
      PROVE  AllWell'
  <2>1. /\ Moved(r, to) /\ pc = at /\ SetStatus(v, s) /\ v \in Videos /\ pc \in LivePc
        /\ UNCHANGED <<stores, history, disp, del, disturbed>>
    BY <1>4, <1>a, <1>e DEF Report, At
  <2> QED
    BY <1>4, <1>s, <2>1, StatusFlow
<1>5. CASE FetchBegin(r)
  BY <1>4, <1>5, <1>p DEF FetchBegin, StatusAt, Sampled, Upserted, EmbedSteps
<1>6. CASE FetchLoad(r)
  <2>1. Moved(r, "hash") /\ pc = "load" /\ UNCHANGED <<row, stores, history, disp, del, disturbed>> /\ pc \in LivePc
    BY <1>6, <1>a, <1>e, <1>p DEF FetchLoad, At
  <2>2. StatusAt(pc) \subseteq StatusAt("hash") /\ "hash" \notin Sampled \cup Upserted
    BY <2>1 DEF StatusAt, Sampled, Upserted, EmbedSteps
  <2> QED
    BY <1>s, <2>1, <2>2, QuietFlow
<1>7. CASE FetchHash(r)
  <2>1. /\ Moved(r, "check") /\ pc = "hash" /\ UNCHANGED <<stores, history, disp, del, disturbed>>
        /\ pc \in LivePc /\ v \in Videos
    BY <1>7, <1>a, <1>e, <1>p DEF FetchHash, At
  <2>2. \A y \in Videos : /\ row'[y].owner = row[y].owner
                          /\ row'[y].st = IF y = run[r].vid /\ Exists(y) THEN "fetching" ELSE row[y].st
    BY <1>0, <1>7, <2>1, RowHashed
  <2>3. FlowFrame(r, "check")
    BY <1>s, <2>1, <2>2, PlainFrame
  <2>4. ASSUME NEW y \in Videos, y = run[r].vid, OwnBefore(y, r) PROVE OwnAfter(y, "check")
    <3>1. row'[y].st = "fetching" /\ row'[y].owner = row[y].owner
      BY <2>2, <2>4 DEF OwnBefore
    <3>2. "fetching" \in StatusAt("check") /\ "check" \notin Sampled \cup Upserted
      BY DEF StatusAt, Sampled, Upserted, EmbedSteps
    <3> QED
      BY <1>s, <2>1, <2>4, <3>1, <3>2, PlainOwn
  <2> QED
    BY <2>1, <2>3, <2>4, FlowStep
<1>8. CASE FetchCheck(r)
  <2>1. PICK p \in {"skip", "sample"} : Moved(r, p)
    BY <1>8, <1>a, <1>p DEF FetchCheck, At
  <2>2. pc = "check" /\ UNCHANGED <<row, stores, history, disp, del, disturbed>> /\ pc \in LivePc
    BY <1>8, <1>e DEF FetchCheck, At
  <2>3. StatusAt(pc) \subseteq StatusAt(p) /\ p \notin Sampled \cup Upserted
    BY <2>1, <2>2 DEF StatusAt, Sampled, Upserted, EmbedSteps
  <2> QED
    BY <1>s, <2>1, <2>2, <2>3, QuietFlow
<1>9. CASE FetchSkip(r)
  <2>1. /\ Moved(r, "done") /\ SetStatus(v, "skipped") /\ v \in Videos /\ pc \in LivePc
        /\ UNCHANGED <<stores, history, disp, del, disturbed>>
    BY <1>9, <1>b, <1>e DEF FetchSkip, At
  <2> QED
    BY <1>s, <1>p, <1>q, <2>1, StatusFlow
<1>10. CASE SampleBegin(r)
  BY <1>4, <1>10, <1>p DEF SampleBegin, StatusAt, Sampled, Upserted, EmbedSteps
<1>11. CASE SampleClear(r)
  <2>1. /\ Moved(r, "put") /\ pc = "clear" /\ UNCHANGED <<row, frames, captions, taken, missed, disp, del, disturbed>>
        /\ pc \in LivePc /\ v \in Videos /\ thumbs' = thumbs \ {<<run[r].user, run[r].vid>>}
    BY <1>11, <1>a, <1>e, <1>p DEF SampleClear, At, history
  <2>2. FlowFrame(r, "put")
    BY <2>1 DEF FlowFrame, SameStores
  <2>3. ASSUME NEW y \in Videos, y = run[r].vid, OwnBefore(y, r) PROVE OwnAfter(y, "put")
    <3>1. row[y].st = "sampling"
      BY <2>1, <2>3 DEF OwnBefore, StatusAt
    <3>2. "sampling" \in StatusAt("put") /\ "put" \notin Sampled \cup Upserted
      BY DEF StatusAt, Sampled, Upserted, EmbedSteps
    <3>3. Clean(y) => Clean(y)'
      BY <2>1 DEF Clean, FramesMissed, TextMissed
    <3> QED
      BY <2>1, <3>1, <3>2, <3>3 DEF OwnAfter
  <2> QED
    BY <2>1, <2>2, <2>3, FlowStep
<1>12. CASE SamplePut(r)
  <2>1. /\ Moved(r, "embed") /\ pc = "put" /\ UNCHANGED <<row, frames, captions, taken, missed, disp, del, disturbed>>
        /\ pc \in LivePc /\ v \in Videos /\ thumbs' = thumbs \cup {<<run[r].user, run[r].vid>>}
    BY <1>12, <1>a, <1>e, <1>p DEF SamplePut, At, history
  <2>2. FlowFrame(r, "embed")
    BY <2>1 DEF FlowFrame, SameStores
  <2>3. ASSUME NEW y \in Videos, y = run[r].vid, OwnBefore(y, r) PROVE OwnAfter(y, "embed")
    <3>1. row[y].st = "sampling"
      BY <2>1, <2>3 DEF OwnBefore, StatusAt
    <3>2. "sampling" \in StatusAt("embed") /\ "embed" \notin Upserted
      BY DEF StatusAt, Upserted
    <3>3. HasThumbs(y)' /\ (Clean(y) => Clean(y)')
      BY <2>1, <2>3, StoredThumbs
    <3> QED
      BY <2>1, <3>1, <3>2, <3>3 DEF OwnAfter
  <2> QED
    BY <2>1, <2>2, <2>3, FlowStep
<1>13. CASE EmbedBegin(r)
  BY <1>4, <1>13, <1>p DEF EmbedBegin, StatusAt, Sampled, Upserted, EmbedSteps
<1>14. CASE EmbedPurge(r)
  <2>1. /\ Moved(r, "purgetext") /\ pc = "purge" /\ UNCHANGED <<row, thumbs, captions, taken, missed, disp, del, disturbed>>
        /\ pc \in LivePc /\ v \in Videos
    BY <1>14, <1>a, <1>e, <1>p DEF EmbedPurge, At, history
  <2>2. /\ \A y \in Videos \ {v} : frames'[y] = frames[y]
        /\ frames'[v] \in {NoUser, frames[v]}
    BY <1>0, <1>14, <2>1, FramesPurged DEF EmbedPurge, FramesSwallowed
  <2>3. FlowFrame(r, "purgetext")
    BY <2>1, <2>2 DEF FlowFrame, SameStores
  <2>4. ASSUME NEW y \in Videos, y = run[r].vid, OwnBefore(y, r) PROVE OwnAfter(y, "purgetext")
    <3>1. row[y].st = "embedding" /\ HasThumbs(y)
      BY <2>1, <2>4 DEF OwnBefore, StatusAt, Sampled, EmbedSteps
    <3>2. "embedding" \in StatusAt("purgetext") /\ "purgetext" \notin Upserted
      BY DEF StatusAt, Upserted
    <3>3. Clean(y) => Clean(y)'
      BY <2>1, <2>2, <2>4 DEF Clean, FramesMissed, TextMissed
    <3>4. HasThumbs(y)'
      BY <2>1, <3>1 DEF HasThumbs
    <3> QED
      BY <2>1, <3>1, <3>2, <3>3, <3>4 DEF OwnAfter
  <2> QED
    BY <2>1, <2>3, <2>4, FlowStep
<1>15. CASE EmbedPurgeText(r)
  <2>1. /\ Moved(r, "upsert") /\ pc = "purgetext" /\ UNCHANGED <<row, thumbs, frames, taken, missed, disp, del, disturbed>>
        /\ pc \in LivePc /\ v \in Videos
    BY <1>15, <1>a, <1>e, <1>p DEF EmbedPurgeText, At, history
  <2>2. /\ \A y \in Videos \ {v} : captions'[y] = captions[y]
        /\ captions'[v] \in {NoUser, captions[v]}
    BY <1>0, <1>15, <2>1, TextPurged DEF EmbedPurgeText, TextSwallowed
  <2>3. FlowFrame(r, "upsert")
    BY <2>1, <2>2 DEF FlowFrame, SameStores
  <2>4. ASSUME NEW y \in Videos, y = run[r].vid, OwnBefore(y, r) PROVE OwnAfter(y, "upsert")
    <3>1. row[y].st = "embedding" /\ HasThumbs(y)
      BY <2>1, <2>4 DEF OwnBefore, StatusAt, Sampled, EmbedSteps
    <3>2. "embedding" \in StatusAt("upsert") /\ "upsert" \notin Upserted
      BY DEF StatusAt, Upserted
    <3>3. Clean(y) => Clean(y)'
      BY <2>1, <2>2, <2>4 DEF Clean, FramesMissed, TextMissed
    <3>4. HasThumbs(y)'
      BY <2>1, <3>1 DEF HasThumbs
    <3> QED
      BY <2>1, <3>1, <3>2, <3>3, <3>4 DEF OwnAfter
  <2> QED
    BY <2>1, <2>3, <2>4, FlowStep
<1>16. CASE EmbedUpsert(r)
  <2>1. /\ Moved(r, "flip") /\ pc = "upsert" /\ UNCHANGED <<row, thumbs, captions, missed, disp, del, disturbed>>
        /\ taken' = taken \ {v}
        /\ pc \in LivePc /\ v \in Videos /\ frames' = [frames EXCEPT ![run[r].vid] = run[r].user]
    BY <1>16, <1>a, <1>e, <1>p DEF EmbedUpsert, At
  <2>2. FlowFrame(r, "flip")
    BY <1>0, <2>1 DEF FlowFrame, SameStores
  <2>3. ASSUME NEW y \in Videos, y = run[r].vid, OwnBefore(y, r) PROVE OwnAfter(y, "flip")
    <3>1. row[y].st = "embedding" /\ HasThumbs(y)
      BY <2>1, <2>3 DEF OwnBefore, StatusAt, Sampled, EmbedSteps
    <3>2. "embedding" \in StatusAt("flip")
      BY DEF StatusAt
    <3>3. HasFrames(y)' /\ (Clean(y) => Clean(y)') /\ HasThumbs(y)'
      BY <2>1, <2>3, <3>1, StoredFrames
    <3> QED
      BY <2>1, <3>1, <3>2, <3>3 DEF OwnAfter
  <2> QED
    BY <2>1, <2>2, <2>3, FlowStep
<1>17. CASE EmbedFlip(r)
  <2>1. /\ Moved(r, "captions") /\ pc = "flip" /\ SetStatus(v, "indexed") /\ v \in Videos /\ pc \in LivePc
        /\ UNCHANGED <<stores, history, disp, del, disturbed>>
    BY <1>17, <1>a, <1>e, <1>p DEF EmbedFlip, At
  <2>2. "indexed" \in StatusAt("captions") /\ "flip" \in Sampled /\ "flip" \in Upserted
    BY DEF StatusAt, Sampled, Upserted, EmbedSteps
  <2> QED
    BY <1>s, <1>p, <2>1, <2>2, StatusFlow
<1>18. CASE Captions(r)
  <2>1. PICK p \in {"transcript", "done"} : Moved(r, p)
    BY <1>18, <1>a, <1>b, <1>p DEF Captions, At
  <2>2. pc = "captions" /\ UNCHANGED <<row, stores, history, disp, del, disturbed>> /\ pc \in LivePc
    BY <1>18, <1>e DEF Captions, At
  <2>3. /\ p \in LivePc => StatusAt(pc) \subseteq StatusAt(p)
        /\ pc \in Sampled /\ pc \in Upserted
    BY <1>q, <2>1, <2>2 DEF StatusAt, Sampled, Upserted
  <2> QED
    BY <1>s, <2>1, <2>2, <2>3, QuietFlow
<1>19. CASE Transcript(r)
  <2>1. /\ Moved(r, "done") /\ pc = "transcript" /\ UNCHANGED <<row, thumbs, frames, taken, missed, disp, del, disturbed>>
        /\ pc \in LivePc /\ v \in Videos
        /\ captions' = [captions EXCEPT ![run[r].vid] = run[r].user] \/ UNCHANGED captions
    BY <1>19, <1>b, <1>e DEF Transcript, At, history
  <2>2. FlowFrame(r, "done")
    BY <1>0, <2>1 DEF FlowFrame, SameStores
  <2>3. ASSUME NEW y \in Videos, y = run[r].vid, OwnBefore(y, r) PROVE OwnAfter(y, "done")
    <3>1. HasThumbs(y) /\ HasFrames(y)
      BY <2>1, <2>3 DEF OwnBefore, Sampled, Upserted
    <3>2. captions'[y] \in {captions[y], row[y].owner}
      BY <1>0, <2>1, <2>3 DEF OwnBefore
    <3>3. Clean(y) => Clean(y)'
      BY <2>1, <2>3, <3>2 DEF Clean, FramesMissed, TextMissed, OwnBefore, Quiet
    <3> QED
      BY <1>q, <2>1, <3>1, <3>3 DEF OwnAfter, HasThumbs, HasFrames
  <2> QED
    BY <2>1, <2>2, <2>3, FlowStep
(* An exception, whatever of the call was applied. *)
<1>r. ASSUME Raises(r), NEW p \in {"fetch", "embed", "captions", "done"}, Moved(r, p),
             \A y \in Videos : /\ row'[y].owner = row[y].owner
                               /\ y # run[r].vid => row'[y].st = row[y].st
                               /\ row'[y].st \in {row[y].st, "failed"},
             p # "done" => UNCHANGED row /\ p = TaskStart(pc) /\ pc # "put"
      PROVE  AllWell'
  <2>1. /\ Executing(r) /\ pc \in TaskSteps \ {"transcript"} /\ UNCHANGED <<captions, missed, disp, del, disturbed>>
        /\ taken' \in {taken, taken \ {v}}
        /\ \/ UNCHANGED <<thumbs, frames>>
           \/ /\ pc = "put" /\ thumbs' = thumbs \cup {<<run[r].user, run[r].vid>>} /\ UNCHANGED frames
           \/ /\ pc = "upsert" /\ frames' = [frames EXCEPT ![run[r].vid] = run[r].user] /\ UNCHANGED thumbs
    BY <1>r DEF Raises
  <2>2. v \in Videos /\ pc \in LivePc
    BY <1>e, <2>1
  <2>3. FlowFrame(r, p)
    BY <1>0, <1>r, <2>1 DEF FlowFrame, SameStores
  <2>4. ASSUME NEW y \in Videos, y = run[r].vid, OwnBefore(y, r) PROVE OwnAfter(y, p)
    <3>1. (HasThumbs(y) => HasThumbs(y)') /\ (HasFrames(y) => HasFrames(y)') /\ (Clean(y) => Clean(y)')
      <4>1. row'[y].owner = row[y].owner
        BY <1>r
      <4>2. CASE UNCHANGED <<thumbs, frames>>
        BY <2>1, <4>1, <4>2 DEF HasThumbs, HasFrames, Clean, FramesMissed, TextMissed
      <4>3. CASE thumbs' = thumbs \cup {<<run[r].user, run[r].vid>>} /\ UNCHANGED frames
        BY <2>1, <2>4, <4>1, <4>3, StoredThumbs
      <4>4. CASE frames' = [frames EXCEPT ![run[r].vid] = run[r].user] /\ UNCHANGED thumbs
        BY <2>1, <2>4, <4>1, <4>4, StoredFrames
      <4> QED
        BY <2>1, <4>2, <4>3, <4>4
    <3>2. row[y].st = "indexed" => pc = "captions"
      BY <2>1, <2>4 DEF OwnBefore, StatusAt, TaskSteps, FetchSteps, SampleSteps, EmbedSteps
    <3>3. p \in LivePc => row'[y].st \in StatusAt(p)
      <4> HAVE p \in LivePc
      <4>1. row'[y].st = row[y].st /\ p = TaskStart(pc) /\ pc \in {"fetch", "load", "hash", "check", "skip"}
                                                                  \cup EmbedSteps \cup {"captions"}
        BY <1>q, <1>r, <2>1 DEF TaskStart, TaskSteps, FetchSteps, SampleSteps
      <4> QED
        BY <2>4, <4>1 DEF OwnBefore, StatusAt, TaskStart, FetchSteps, EmbedSteps
    <3>4. p \in Sampled => pc \in Sampled
      BY <1>q, <1>r, <2>1 DEF TaskStart, Sampled, TaskSteps, FetchSteps, SampleSteps, EmbedSteps
    <3>5. p \in Upserted => pc \in Upserted
      BY <1>q, <1>r, <2>1 DEF TaskStart, Upserted, TaskSteps, FetchSteps, SampleSteps, EmbedSteps
    <3>6. row'[y].st = "indexed" => HasThumbs(y) /\ HasFrames(y)
      BY <1>r, <2>4, <3>2 DEF OwnBefore, Sampled, Upserted
    <3> QED
      BY <2>4, <3>1, <3>3, <3>4, <3>5, <3>6 DEF OwnAfter, OwnBefore
  <2> QED
    BY <2>2, <2>3, <2>4, FlowStep
<1>20. CASE TaskRetry(r)
  <2>1. Raises(r) /\ Moved(r, TaskStart(pc)) /\ UNCHANGED row /\ pc \in TaskSteps \ {"transcript"}
    BY <1>0, <1>20, RunRetried DEF TaskRetry, Raises
  <2>2. pc \notin SampleSteps
    <3>1. run[r].try \in Nat /\ run[r].try < Retries(pc)
      BY <1>0, <1>20 DEF TaskRetry, RunType, RunRecords
    <3> QED
      BY <3>1 DEF Retries
  <2>3. TaskStart(pc) \in {"fetch", "embed", "captions"} /\ pc # "put"
    BY <2>1, <2>2 DEF TaskStart, TaskSteps, FetchSteps, SampleSteps, EmbedSteps
  <2> QED
    BY <1>r, <2>1, <2>3
<1>21. CASE FlowFails(r)
  <2>1. Raises(r) /\ Executing(r) /\ Ended(r) /\ (SetStatus(v, "failed") \/ UNCHANGED row)
    BY <1>21 DEF FlowFails, Raises
  <2>2. Moved(r, "done") /\ v \in Videos
    BY <1>b, <1>e, <2>1
  <2>3. \A y \in Videos : /\ row'[y].owner = row[y].owner
                          /\ y # v => row'[y].st = row[y].st
                          /\ row'[y].st \in {row[y].st, "failed"}
    <3>1. CASE SetStatus(v, "failed")
      <4> HIDE DEF v
      <4> QED
        BY <1>0, <1>p, <2>2, <3>1, StatusSet
    <3>2. CASE UNCHANGED row
      BY <3>2
    <3> QED
      BY <2>1, <3>1, <3>2
  <2> QED
    BY <1>r, <2>1, <2>2, <2>3
<1> QED
  BY <1>1, <1>2, <1>3, <1>5, <1>6, <1>7, <1>8, <1>9, <1>10, <1>11, <1>12, <1>13, <1>14, <1>15,
     <1>16, <1>17, <1>18, <1>19, <1>20, <1>21 DEF Flow

-----------------------------------------------------------------------------
(* The theorems.                                                           *)

VideoInv == TypeInv /\ AllWell

LEMMA NextWell == VideoInv /\ [Next]_vars => AllWell'
<1> SUFFICES ASSUME TypeInv, AllWell, [Next]_vars PROVE AllWell'
  BY DEF VideoInv
<1>0. TypeInv'
  BY NextTypes
<1>1. ASSUME NEW u \in Users, IndexDocument(u) PROVE AllWell'
  <2>1. UNCHANGED <<row, run, disp, thumbs, frames, captions, taken, missed, del, disturbed>>
    BY <1>1 DEF IndexDocument, history
  <2> QED
    BY <2>1, AllUntouched DEF FewerHandlers
<1>2. ASSUME NEW w \in Workers, WorkerCrash(w) PROVE AllWell'
  <2>1. UNCHANGED <<row, stores, history, del, disturbed>> /\ disp' = [disp EXCEPT ![w] = Idle]
    BY <1>2 DEF WorkerCrash
  <2>2. UNCHANGED <<thumbs, frames, captions, taken, missed>>
    BY <2>1 DEF stores, history
  <2>3. \A q \in Runs : run'[q] = run[q] \/ run'[q].pc = "done"
    BY <1>2, RunsKilled DEF TypeInv, ProgramInv
  <2>4. \A x \in Workers : disp'[x].claims \subseteq disp[x].claims
    BY <2>1, IdleShape DEF TypeInv, ProgramInv, DispatchType
  <2>5. "done" \notin LivePc
    BY DEF LivePc, Positions, TaskSteps, FetchSteps, SampleSteps, EmbedSteps
  <2>6. \A v \in Videos : FewerHandlers(v)
    BY <2>3, <2>4, <2>5 DEF FewerHandlers
  <2> QED
    BY <2>1, <2>2, <2>6, AllUntouched
<1>3. ASSUME NEW w \in Workers, WorkerRestart(w) PROVE AllWell'
  <2>1. UNCHANGED <<row, stores, history, run, disp, del, disturbed>>
    BY <1>3 DEF WorkerRestart
  <2> QED
    BY <2>1, AllUntouched DEF FewerHandlers, stores, history
<1>4. CASE UNCHANGED vars
  <2>1. UNCHANGED <<row, stores, history, run, disp, del, disturbed>>
    BY <1>4 DEF vars
  <2> QED
    BY <2>1, AllUntouched DEF FewerHandlers, stores, history
<1>5. ASSUME NEW w \in Workers, Dispatch(w) PROVE AllWell'
  BY <1>5, CountSelectWell, ClaimWell, EnqueueWell, DispatchRaisesWell DEF Dispatch
<1>6. CASE Next
  <2>1. CASE \E v \in Videos : (\E u \in Users : Register(v, u)) \/ Retry(v) \/ DeleteBegin(v)
                               \/ Delete(v) \/ DeleteRaises(v)
    BY <1>0, <2>1, RequestWell, DeleteWell
  <2>2. CASE \E r \in Runs : Flow(r)
    BY <1>0, <2>2, FlowWell
  <2> QED
    BY <1>1, <1>2, <1>3, <1>5, <1>6, <2>1, <2>2 DEF Next
<1> QED
  BY <1>4, <1>6

LEMMA VideoInvariance == Spec => []VideoInv
<1>1. Init => VideoInv
  BY StartTypes, StartWell DEF VideoInv
<1>2. VideoInv /\ [Next]_vars => VideoInv'
  BY NextTypes, NextWell DEF VideoInv
<1> QED
  BY <1>1, <1>2, PTL DEF Spec

LEMMA AtMostOne == ASSUME NEW S, \A x, y \in S : x = y
                   PROVE  Cardinality(S) \in {0, 1} /\ (S # {} => Cardinality(S) = 1) /\ (S = {} => Cardinality(S) = 0)
<1>1. CASE S = {}
  BY <1>1, FS_EmptySet
<1>2. CASE S # {}
  <2>1. PICK x \in S : TRUE
    BY <1>2
  <2>2. S = {x}
    BY <2>1
  <2> QED
    BY <1>2, <2>2, FS_Singleton
<1> QED
  BY <1>1, <1>2

(* However many dispatchers tick at once, and through crashes and Prefect    *)
(* outages, an undisturbed video is held by one dispatcher or one run at a   *)
(* time (dispatcher.py: the atomic claim).                                   *)
THEOREM VideosHandedOutOnce == Spec => []HandedOutOnce
<1>1. VideoInv => HandedOutOnce
  <2> SUFFICES ASSUME VideoInv, NEW v \in Videos \ disturbed
               PROVE  Cardinality(Holders(v)) + Cardinality(LiveRuns(v)) <= 1
    BY DEF HandedOutOnce
  <2>1. Sole(v) /\ TypeInv
    BY DEF VideoInv, AllWell, Well
  <2>2. \A w \in Workers : w \in Holders(v) <=> Claimed(w, v)
    BY DEF Holders, Claimed
  <2>3. \A r \in Runs : r \in LiveRuns(v) => Live(r, v)
    BY <2>1 DEF TypeInv, ProgramInv, RunsOK, RunShape, Executing, LiveRuns, Live, LivePc
  <2>4. Holders(v) \subseteq Workers /\ LiveRuns(v) \subseteq Runs
    BY DEF Holders, LiveRuns
  <2>5. /\ \A w, x \in Holders(v) : w = x
        /\ \A r, s \in LiveRuns(v) : r = s
        /\ Holders(v) = {} \/ LiveRuns(v) = {}
    BY <2>1, <2>2, <2>3, <2>4 DEF Sole
  <2>6. Cardinality(Holders(v)) \in {0, 1} /\ (Holders(v) = {} => Cardinality(Holders(v)) = 0)
    BY <2>5, AtMostOne
  <2>7. Cardinality(LiveRuns(v)) \in {0, 1} /\ (LiveRuns(v) = {} => Cardinality(LiveRuns(v)) = 0)
    BY <2>5, AtMostOne
  <2> QED
    BY <2>5, <2>6, <2>7
<1> QED
  BY <1>1, VideoInvariance, PTL

(* An indexed video has its owner's frames in Qdrant and thumbnails in the *)
(* bucket, whatever crashed, raised, was retried or registered again        *)
(* before, unless it was disturbed or a DELETE took some of them since the  *)
(* last upsert (pipeline.py: t_embed_index flips the status after it).      *)
THEOREM IndexedVideosServable == Spec => []IndexedServable
<1>1. VideoInv => IndexedServable
  BY DEF VideoInv, AllWell, Well, Served, HasFrames, HasThumbs, IndexedServable
<1> QED
  BY <1>1, VideoInvariance, PTL

(* A video that was deleted has left no frames, captions or thumbnails, but *)
(* for points whose purge the last DELETE for that tenant swallowed, and    *)
(* unless it was disturbed (delete_video_route).                            *)
THEOREM DeletedVideosGone == Spec => []DeletedGone
<1>1. VideoInv => DeletedGone
  <2> SUFFICES ASSUME VideoInv, NEW v \in Videos \ disturbed, row[v].st = "absent"
               PROVE  /\ frames[v] = NoUser \/ <<"frames", frames[v], v>> \in missed
                      /\ captions[v] = NoUser \/ <<"text", captions[v], v>> \in missed
                      /\ \A u \in Users : <<u, v>> \notin thumbs
    BY DEF DeletedGone
  <2>1. Clean(v) /\ row[v].owner = NoUser
    BY OwnersKnown DEF VideoInv, AllWell, Well, Exists
  <2> QED
    BY <2>1, NoValues DEF Clean, FramesMissed, TextMissed
<1> QED
  BY <1>1, VideoInvariance, PTL

-----------------------------------------------------------------------------
(* Capacity: the slots a dispatcher counted are taken until it has claimed *)
(* its round, so rows in flight and slots counted never exceed one         *)
(* DISPATCH_MAX_INFLIGHT per worker.                                       *)

Counting(w) == disp[w].pc \in {"select", "update"}
SlotsOf(w)  == {w} \X (1 .. disp[w].slots)
Slots == {t \in Workers \X (1 .. MaxInflight) : Counting(t[1]) /\ t[2] <= disp[t[1]].slots}

(* A round is never larger than what was counted for it. *)
IdsFit == \A w \in Workers : disp[w].pc = "update" => Cardinality(disp[w].ids) <= disp[w].slots

Roomy == disturbed = {} => Cardinality(InFlight) + Cardinality(Slots) <= MaxInflight * Cardinality(Workers)

LEMMA SlotsFinite ==
    /\ \A S \in SUBSET Slots : IsFiniteSet(S) /\ Cardinality(S) \in Nat
    /\ IsFiniteSet(Slots) /\ IsFiniteSet(Slots') /\ Cardinality(Slots') \in Nat
<1>1. IsFiniteSet(1 .. MaxInflight)
  BY Bounds, FS_Interval
<1>2. IsFiniteSet(Workers \X (1 .. MaxInflight))
  BY <1>1, Finite, FS_Product
<1>3. Slots \subseteq Workers \X (1 .. MaxInflight) /\ Slots' \subseteq Workers \X (1 .. MaxInflight)
  BY DEF Slots
<1>4. \A S \in SUBSET (Workers \X (1 .. MaxInflight)) : IsFiniteSet(S) /\ Cardinality(S) \in Nat
  BY <1>2, FS_Subset, FS_CardinalityType
<1> QED
  BY <1>3, <1>4

LEMMA IntervalSize == \A n \in Nat : IsFiniteSet(1 .. n) /\ Cardinality(1 .. n) = n
BY FS_Interval

LEMMA ProductSize ==
    ASSUME NEW S, IsFiniteSet(S), NEW n \in Nat
    PROVE  IsFiniteSet(S \X (1 .. n)) /\ Cardinality(S \X (1 .. n)) = Cardinality(S) * n
<1>1. IsFiniteSet(1 .. n) /\ Cardinality(1 .. n) = n
  BY IntervalSize
<1> QED
  BY <1>1, FS_Product

LEMMA SlotsOfSize ==
    ASSUME NEW w \in Workers, NEW n \in Nat
    PROVE  IsFiniteSet({w} \X (1 .. n)) /\ Cardinality({w} \X (1 .. n)) = n
<1>1. IsFiniteSet({w}) /\ Cardinality({w}) = 1
  BY FS_Singleton
<1> QED
  BY <1>1, ProductSize

(* Before orders the pending videos. *)
LEMMA BeforeOrders ==
    ASSUME TypeInv
    PROVE  \A x, y, z \in Pending :
             /\ ~Before(x, x)
             /\ x # y => Before(x, y) \/ Before(y, x)
             /\ Before(x, y) /\ Before(y, z) => Before(x, z)
<1>1. \A x \in Pending : Rank(x) \in Nat /\ x \in Nat
  <2> TAKE x \in Pending
  <2> DEFINE S == {y \in Pending : row[y].owner = row[x].owner /\ Older(y, x)}
  <2>1. S \in SUBSET Videos /\ x \in Videos
    BY DEF Pending
  <2>2. Cardinality(S) \in Nat
    BY <2>1, VideoSets
  <2> QED
    BY <2>1, <2>2, VideoIds DEF Rank
<1> HIDE DEF Pending
<1> QED
  BY <1>1 DEF Before

(* The round of a tick holds at most as many videos as it has slots. *)
LEMMA PickedFits ==
    ASSUME TypeInv, NEW n \in Nat
    PROVE  Cardinality(Picked(n)) <= n
<1> DEFINE Ahead(v) == {x \in Pending : Before(x, v)}
           Counts == {Cardinality(Ahead(v)) : v \in Picked(n)}
<1>1. Pending \subseteq Videos /\ Picked(n) \subseteq Pending
  BY DEF Pending, Picked
<1>2. \A v : Ahead(v) \in SUBSET Videos /\ IsFiniteSet(Ahead(v)) /\ Cardinality(Ahead(v)) \in Nat
  <2> TAKE v
  <2>1. Ahead(v) \in SUBSET Videos
    BY <1>1
  <2> QED
    BY <2>1, VideoSets
<1>3. \A v \in Picked(n) : Cardinality(Ahead(v)) < n
  BY DEF Picked
<1> HIDE DEF Ahead
<1>4. CASE Picked(n) = {}
  BY <1>4, FS_EmptySet
<1>5. CASE Picked(n) # {}
  <2>1. Counts \subseteq 0 .. n /\ Counts # {}
    BY <1>2, <1>3, <1>5
  <2>2. Max(Counts) \in Counts /\ \A y \in Counts : y <= Max(Counts)
    BY <2>1, HasMax
  <2>3. PICK m \in Picked(n) : Cardinality(Ahead(m)) = Max(Counts)
    BY <2>2
  <2>4. \A x \in Picked(n) : Cardinality(Ahead(x)) <= Cardinality(Ahead(m))
    BY <2>2, <2>3
  <2>5. ASSUME NEW x \in Picked(n), Before(m, x) PROVE FALSE
    <3>1. Ahead(m) \cup {m} \subseteq Ahead(x)
      BY <1>1, <2>5, BeforeOrders DEF Ahead
    <3>2. m \notin Ahead(m)
      BY <1>1, BeforeOrders DEF Ahead
    <3>3. Cardinality(Ahead(m) \cup {m}) = Cardinality(Ahead(m)) + 1
      BY <1>2, <3>2, FS_AddElement
    <3>4. Cardinality(Ahead(m) \cup {m}) <= Cardinality(Ahead(x))
      BY <1>2, <3>1, FS_Subset
    <3> QED
      BY <1>2, <2>4, <3>3, <3>4
  <2>6. Picked(n) \subseteq Ahead(m) \cup {m}
    BY <1>1, <2>5, BeforeOrders DEF Ahead
  <2>7. IsFiniteSet(Ahead(m) \cup {m}) /\ Cardinality(Ahead(m) \cup {m}) <= Cardinality(Ahead(m)) + 1
        /\ Cardinality(Ahead(m) \cup {m}) \in Nat
    <3>1. Cardinality(Ahead(m) \cup {m}) \in {Cardinality(Ahead(m)), Cardinality(Ahead(m)) + 1}
          /\ IsFiniteSet(Ahead(m) \cup {m})
      BY <1>2, FS_AddElement
    <3> QED
      BY <1>2, <3>1
  <2>8. Cardinality(Picked(n)) <= Cardinality(Ahead(m) \cup {m}) /\ Cardinality(Picked(n)) \in Nat
    BY <1>1, <2>6, <2>7, FS_Subset, VideoSets
  <2> QED
    BY <1>2, <1>3, <2>7, <2>8
<1> QED
  BY <1>4, <1>5

Spacious == IdsFit /\ Roomy

(* Steps that put nothing new in flight and count no slots. *)
LEMMA NoMoreInFlight ==
    ASSUME TypeInv, Spacious, disturbed \subseteq disturbed', InFlight' \subseteq InFlight,
           \A w \in Workers : disp'[w] = disp[w] \/ disp'[w].pc \notin {"select", "update"}
    PROVE  Spacious'
<1>1. IdsFit'
  BY DEF Spacious, IdsFit
<1>2. Roomy'
  <2> SUFFICES ASSUME disturbed' = {}
               PROVE  Cardinality(InFlight') + Cardinality(Slots') <= MaxInflight * Cardinality(Workers)
    BY DEF Roomy
  <2>1. Cardinality(InFlight) + Cardinality(Slots) <= MaxInflight * Cardinality(Workers)
    BY DEF Spacious, Roomy
  <2>2. Slots' \in SUBSET Slots
    BY DEF Slots, Counting
  <2>3. Cardinality(Slots') <= Cardinality(Slots) /\ Cardinality(Slots') \in Nat /\ Cardinality(Slots) \in Nat
    BY <2>2, SlotsFinite, FS_Subset
  <2>4. Cardinality(InFlight') <= Cardinality(InFlight) /\ Cardinality(InFlight') \in Nat
        /\ Cardinality(InFlight) \in Nat
    <3>1. InFlight \in SUBSET Videos /\ InFlight' \in SUBSET InFlight
      BY DEF InFlight
    <3> QED
      BY <3>1, VideoSets, FS_Subset
  <2>5. MaxInflight * Cardinality(Workers) \in Nat
    BY Bounds, Finite, FS_CardinalityType
  <2> HIDE DEF Slots, InFlight
  <2> QED
    BY <2>1, <2>3, <2>4, <2>5
<1> QED
  BY <1>1, <1>2 DEF Spacious

(* Counting takes no more than what one worker may add. *)
LEMMA CountSpacious ==
    ASSUME TypeInv, Spacious, NEW w \in Workers, DispatchCount(w)
    PROVE  Spacious'
<1> DEFINE n == MaxInflight - Cardinality(InFlight)
           e == [disp[w] EXCEPT !.pc = "select", !.slots = n]
<1>1. /\ disp \in [Workers -> DispatchRecords] /\ disp' = [disp EXCEPT ![w] = e]
      /\ UNCHANGED <<row, disturbed>> /\ Cardinality(InFlight) < MaxInflight
  BY DEF TypeInv, ProgramInv, DispatchType, DispatchRecords, DispatchCount
<1>2. n \in 1 .. MaxInflight /\ n + Cardinality(InFlight) = MaxInflight /\ Cardinality(InFlight) \in Nat
  BY <1>1, InFlightSize, Bounds
<1>3. InFlight' = InFlight
  BY <1>1 DEF InFlight
<1>4. e.pc = "select" /\ e.slots = n
  BY <1>1 DEF DispatchRecords
<1> HIDE DEF n, e
<1>5. disp'[w].pc = "select" /\ disp'[w].slots = n /\ \A x \in Workers \ {w} : disp'[x] = disp[x]
  BY <1>1, <1>4
<1>6. IdsFit'
  BY <1>5 DEF Spacious, IdsFit
<1>7. Cardinality(InFlight') + Cardinality(Slots') <= MaxInflight * Cardinality(Workers)
  <2> DEFINE Others == (Workers \ {w}) \X (1 .. MaxInflight)
             Own == {w} \X (1 .. n)
             k == Cardinality(Workers)
  <2>1. Slots' \subseteq Others \cup Own
    BY <1>2, <1>5 DEF Slots
  <2>2. IsFiniteSet(Workers \ {w}) /\ Cardinality(Workers \ {w}) = k - 1 /\ k \in Nat /\ k - 1 \in Nat
    <3>1. IsFiniteSet(Workers) /\ k \in Nat
      BY Finite, FS_CardinalityType
    <3>2. IsFiniteSet(Workers \ {w}) /\ Cardinality(Workers \ {w}) = k - 1
      BY <3>1, FS_RemoveElement
    <3>3. Cardinality(Workers \ {w}) \in Nat
      BY <3>2, FS_CardinalityType
    <3> QED
      BY <3>1, <3>2, <3>3
  <2>3. MaxInflight \in Nat
    BY Bounds
  <2>4. IsFiniteSet(Others) /\ Cardinality(Others) = (k - 1) * MaxInflight
    BY <2>2, <2>3, ProductSize
  <2>5. IsFiniteSet(Own) /\ Cardinality(Own) = n
    BY <1>2, SlotsOfSize
  <2> HIDE DEF Others, Own, k
  <2>6. Others \cap Own = {}
    BY DEF Others, Own
  <2>7. IsFiniteSet(Others \cup Own) /\ Cardinality(Others \cup Own) = (k - 1) * MaxInflight + n
    <3>1. IsFiniteSet(Others \cup Own)
          /\ Cardinality(Others \cup Own) = Cardinality(Others) + Cardinality(Own) - Cardinality(Others \cap Own)
      BY <2>4, <2>5, FS_Union
    <3>2. Cardinality(Others \cap Own) = 0
      BY <2>6, FS_EmptySet
    <3>3. (k - 1) * MaxInflight \in Nat
      BY <2>2, <2>3
    <3> QED
      BY <1>2, <2>4, <2>5, <3>1, <3>2, <3>3
  <2>8. Cardinality(Slots') <= (k - 1) * MaxInflight + n /\ Cardinality(Slots') \in Nat
    BY <2>1, <2>7, FS_Subset, SlotsFinite
  <2>9. (k - 1) * MaxInflight + MaxInflight = MaxInflight * k
    BY <2>2, <2>3
  <2>10. (k - 1) * MaxInflight \in Nat /\ MaxInflight * k \in Nat
    BY <2>2, <2>3
  <2> QED
    BY <1>2, <1>3, <2>8, <2>9, <2>10 DEF k
<1> QED
  BY <1>6, <1>7 DEF Spacious, Roomy

(* The round fits the slots, and is taken once it is made. *)
LEMMA SelectSpacious ==
    ASSUME TypeInv, Spacious, NEW w \in Workers, DispatchSelect(w)
    PROVE  Spacious'
<1> DEFINE n == disp[w].slots
           e == [pc |-> "update", slots |-> n, ids |-> Picked(n), claims |-> {}]
<1>1. /\ disp \in [Workers -> DispatchRecords] /\ disp[w].pc = "select"
      /\ disp' = [disp EXCEPT ![w] = Idle] \/ disp' = [disp EXCEPT ![w] = e]
      /\ UNCHANGED <<row, disturbed>>
  BY DEF TypeInv, ProgramInv, DispatchType, DispatchRecords, DispatchSelect
<1>2. InFlight' = InFlight
  BY <1>1 DEF InFlight
<1>3. CASE disp' = [disp EXCEPT ![w] = Idle]
  BY <1>1, <1>2, <1>3, NoMoreInFlight DEF Idle
<1>4. CASE disp' = [disp EXCEPT ![w] = e]
  <2>1. n \in Nat /\ Cardinality(Picked(n)) <= n
    BY <1>1, Bounds, PickedFits DEF DispatchRecords
  <2>2. /\ disp'[w].pc = "update" /\ disp'[w].slots = n /\ disp'[w].ids = Picked(n)
        /\ \A x \in Workers \ {w} : disp'[x] = disp[x]
    BY <1>1, <1>4
  <2> HIDE DEF e, n
  <2>3. IdsFit'
    BY <2>1, <2>2 DEF Spacious, IdsFit
  <2>4. Slots' = Slots
    BY <1>1, <2>2 DEF Slots, Counting, n
  <2> QED
    BY <1>1, <1>2, <2>3, <2>4 DEF Spacious, Roomy
<1> QED
  BY <1>1, <1>3, <1>4

(* What is claimed fits the slots that were counted for it. *)
LEMMA ClaimSpacious ==
    ASSUME TypeInv, Spacious, NEW w \in Workers, DispatchClaim(w)
    PROVE  Spacious'
<1> DEFINE won == disp[w].ids \cap Pending
           n == disp[w].slots
           Own == {w} \X (1 .. n)
           e == [pc |-> "enqueue", slots |-> 0, ids |-> {}, claims |-> ClaimsOf(won)]
<1>0. RowType /\ disp \in [Workers -> DispatchRecords]
  BY DEF TypeInv, ProgramInv, DispatchType, DispatchRecords
<1>1. /\ row' = [v \in Videos |-> IF v \in won THEN [row[v] EXCEPT !.st = "queued"] ELSE row[v]]
      /\ disp' = [disp EXCEPT ![w] = IF won = {} THEN Idle ELSE e]
      /\ disturbed \subseteq disturbed'
      /\ disp[w].pc = "update"
  BY DEF DispatchClaim, Claim, ClaimsOf
<1>2. won \in SUBSET Pending /\ won \in SUBSET disp[w].ids
  OBVIOUS
<1>3. disp[w].ids \in SUBSET Videos /\ n \in 0 .. MaxInflight /\ n \in Nat /\ MaxInflight \in Nat
  BY <1>0, Bounds DEF DispatchRecords
<1>4. /\ disp'[w].pc \notin {"select", "update"}
      /\ \A x \in Workers \ {w} : disp'[x] = disp[x]
  BY <1>0, <1>1 DEF Idle
<1>5. Cardinality(won) <= n /\ Cardinality(won) \in Nat /\ IsFiniteSet(won)
  <2>1. Cardinality(disp[w].ids) <= n
    BY <1>1 DEF Spacious, IdsFit
  <2>2. IsFiniteSet(disp[w].ids) /\ Cardinality(disp[w].ids) \in Nat
    BY <1>3, VideoSets
  <2>3. Cardinality(won) <= Cardinality(disp[w].ids) /\ Cardinality(won) \in Nat /\ IsFiniteSet(won)
    BY <1>2, <1>3, <2>2, FS_Subset, VideoSets
  <2> QED
    BY <1>3, <2>1, <2>2, <2>3
<1>6. \A v \in Videos : row'[v].st = IF v \in won THEN "queued" ELSE row[v].st
  <2> HIDE DEF won
  <2> QED
    BY <1>0, <1>1, <1>2, RowsClaimed
<1> HIDE DEF won, e
<1>7. InFlight' \subseteq InFlight \cup won
  BY <1>6 DEF InFlight
<1>8. Cardinality(InFlight') <= Cardinality(InFlight) + n /\ Cardinality(InFlight') \in Nat
      /\ Cardinality(InFlight) \in Nat
  <2>1. InFlight \in SUBSET Videos /\ InFlight' \in SUBSET Videos
    BY DEF InFlight
  <2>2. Cardinality(InFlight') \in Nat /\ IsFiniteSet(InFlight) /\ Cardinality(InFlight) \in Nat
    BY <2>1, VideoSets
  <2>3. /\ IsFiniteSet(InFlight \cup won)
        /\ Cardinality(InFlight \cup won) = Cardinality(InFlight) + Cardinality(won) - Cardinality(InFlight \cap won)
    BY <1>5, <2>2, FS_Union
  <2>4. Cardinality(InFlight \cap won) \in Nat
    BY <2>1, VideoSets
  <2>5. Cardinality(InFlight') <= Cardinality(InFlight \cup won)
    BY <1>7, <2>3, FS_Subset
  <2> QED
    BY <1>3, <1>5, <2>2, <2>3, <2>4, <2>5
<1>9. Cardinality(Slots') + n <= Cardinality(Slots) /\ Cardinality(Slots') \in Nat /\ Cardinality(Slots) \in Nat
  <2>1. Slots' \cap Own = {} /\ Slots' \cup Own \subseteq Slots
    BY <1>0, <1>1, <1>3, <1>4 DEF Slots, Counting
  <2>2. IsFiniteSet(Own) /\ Cardinality(Own) = n
    BY <1>3, SlotsOfSize
  <2> HIDE DEF Own
  <2>3. IsFiniteSet(Slots') /\ IsFiniteSet(Slots) /\ Cardinality(Slots') \in Nat /\ Cardinality(Slots) \in Nat
    BY SlotsFinite
  <2>4. Cardinality(Slots' \cup Own) = Cardinality(Slots') + Cardinality(Own) - Cardinality(Slots' \cap Own)
    BY <2>2, <2>3, FS_Union
  <2>5. Cardinality(Slots' \cap Own) = 0
    BY <2>1, FS_EmptySet
  <2>6. Cardinality(Slots' \cup Own) <= Cardinality(Slots)
    BY <2>1, <2>3, FS_Subset
  <2> QED
    BY <1>3, <2>2, <2>3, <2>4, <2>5, <2>6
<1>10. IdsFit'
  BY <1>4 DEF Spacious, IdsFit
<1>11. Roomy'
  <2> SUFFICES ASSUME disturbed' = {}
               PROVE  Cardinality(InFlight') + Cardinality(Slots') <= MaxInflight * Cardinality(Workers)
    BY DEF Roomy
  <2>1. Cardinality(InFlight) + Cardinality(Slots) <= MaxInflight * Cardinality(Workers)
    BY <1>1 DEF Spacious, Roomy
  <2>2. MaxInflight * Cardinality(Workers) \in Nat
    BY Bounds, Finite, FS_CardinalityType
  <2> QED
    BY <1>3, <1>8, <1>9, <2>1, <2>2
<1> QED
  BY <1>10, <1>11 DEF Spacious

(* Handing claims over, or giving them back. *)
LEMMA ScheduleSpacious ==
    ASSUME TypeInv, Spacious, NEW w \in Workers, DispatchEnqueue(w) \/ DispatchRaises(w)
    PROVE  Spacious'
<1>0. RowType /\ DispatchType
  BY DEF TypeInv, ProgramInv
<1>1. PICK c \in disp[w].claims :
        /\ disp' = [disp EXCEPT ![w] = Rest(w, c)] \/ disp' = [disp EXCEPT ![w] = Idle]
        /\ UNCHANGED row \/ SetStatus(c.vid, "pending")
        /\ disturbed \subseteq disturbed'
  BY DEF DispatchEnqueue, DispatchRaises
<1>2. disp[w].pc = "enqueue"
  BY DEF DispatchEnqueue, DispatchRaises
<1>3. Rest(w, c).pc \notin {"select", "update"}
  <2> DEFINE e == [disp[w] EXCEPT !.claims = disp[w].claims \ {c}]
  <2>1. Rest(w, c) = Idle \/ Rest(w, c) = e
    BY DEF Rest
  <2>2. disp[w] \in DispatchRecords
    BY <1>0 DEF DispatchType, DispatchRecords
  <2>3. e.pc = disp[w].pc
    BY <2>2 DEF DispatchRecords
  <2> HIDE DEF e
  <2> QED
    BY <1>2, <2>1, <2>3 DEF Idle
<1>4. \A x \in Workers : disp'[x] = disp[x] \/ disp'[x].pc \notin {"select", "update"}
  <2>1. disp'[w] = Rest(w, c) \/ disp'[w] = Idle
    BY <1>0, <1>1 DEF DispatchType
  <2>2. \A x \in Workers \ {w} : disp'[x] = disp[x]
    BY <1>0, <1>1 DEF DispatchType
  <2> QED
    BY <1>3, <2>1, <2>2 DEF Idle
<1>5. InFlight' \subseteq InFlight
  <2>1. c.vid \in Videos
    BY <1>0 DEF DispatchType, Claims
  <2>2. CASE UNCHANGED row
    BY <2>2 DEF InFlight
  <2>3. CASE SetStatus(c.vid, "pending")
    <3> DEFINE v == c.vid
    <3>1. v \in Videos /\ SetStatus(v, "pending") /\ "pending" \in Statuses
      BY <2>1, <2>3 DEF Statuses
    <3> HIDE DEF v
    <3>2. \A y \in Videos : row'[y].st = IF y = v /\ Exists(v) THEN "pending" ELSE row[y].st
      BY <1>0, <3>1, StatusSet
    <3> QED
      BY <3>2 DEF InFlight, Inflight
  <2> QED
    BY <1>1, <2>2, <2>3
<1> QED
  BY <1>1, <1>4, <1>5, NoMoreInFlight

(* A run writes a status in flight only over another one. *)
LEMMA FlowSpacious ==
    ASSUME TypeInv, AllWell, Spacious, NEW r \in Runs, Flow(r)
    PROVE  Spacious'
<1> DEFINE v == run[r].vid
<1>0. RowType /\ RunType /\ RunsOK
  BY DEF TypeInv, ProgramInv
<1>1. UNCHANGED <<disp, disturbed>>
  BY DEF Flow, PickUp, Launch, LaunchFails, Report, FetchBegin, FetchLoad, FetchHash, FetchCheck, FetchSkip,
         SampleBegin, SampleClear, SamplePut, EmbedBegin, EmbedPurge, EmbedPurgeText, EmbedUpsert, EmbedFlip,
         Captions, Transcript, Raises, TaskRetry, FlowFails
<1>2. CASE UNCHANGED row
  BY <1>1, <1>2, NoMoreInFlight DEF InFlight
<1>3. CASE row' # row
  <2>1. /\ Executing(r)
        /\ \/ \E s \in {"skipped", "indexed", "failed"} : SetStatus(v, s)
           \/ /\ run[r].pc \in {"fetch", "sample", "embed", "hash"}
              /\ (\E s \in Inflight : SetStatus(v, s)) \/ FetchHash(r)
    BY <1>3 DEF Flow, At, PickUp, Launch, LaunchFails, Report, FetchBegin, FetchLoad, FetchHash, FetchCheck, FetchSkip,
         SampleBegin, SampleClear, SamplePut, EmbedBegin, EmbedPurge, EmbedPurgeText, EmbedUpsert, EmbedFlip,
         Captions, Transcript, Raises, TaskRetry, FlowFails, Inflight
  <2>2. v \in Videos /\ run[r].pc \in Positions
    BY <1>0, <2>1 DEF RunsOK, RunShape, Executing, Positions, TaskSteps, FetchSteps, SampleSteps, EmbedSteps
  <2>h. FetchHash(r) => \A y \in Videos : row'[y].st = IF y = v /\ Exists(y) THEN "fetching" ELSE row[y].st
    BY <1>0, <2>2, RowHashed
  <2> HIDE DEF v
  <2>3. \A s \in Statuses : SetStatus(v, s) =>
          \A y \in Videos : row'[y].st = IF y = v /\ Exists(v) THEN s ELSE row[y].st
    BY <1>0, <2>2, StatusSet
  <2>4. CASE \E s \in {"skipped", "indexed", "failed"} : SetStatus(v, s)
    <3>1. InFlight' \subseteq InFlight
      BY <2>3, <2>4 DEF InFlight, Inflight, Statuses, Settled
    <3> QED
      BY <1>1, <3>1, NoMoreInFlight
  <2>5. CASE /\ run[r].pc \in {"fetch", "sample", "embed", "hash"}
             /\ (\E s \in Inflight : SetStatus(v, s)) \/ FetchHash(r)
    <3>1. \A y \in Videos \ {v} : row'[y].st = row[y].st
      <4>1. \A s \in Inflight : SetStatus(v, s) => \A y \in Videos \ {v} : row'[y].st = row[y].st
        BY <2>3 DEF Statuses
      <4>2. FetchHash(r) => \A y \in Videos \ {v} : row'[y].st = row[y].st
        BY <2>h
      <4> QED
        BY <2>5, <4>1, <4>2
    <3>2. disturbed = {} => v \in InFlight
      <4> HAVE disturbed = {}
      <4>1. Well(v) /\ Live(r, v)
        BY <2>2 DEF AllWell, Live, LivePc, v
      <4>2. row[v].st \in StatusAt(run[r].pc)
        BY <4>1 DEF Well, Handed
      <4> QED
        BY <2>2, <2>5, <4>2 DEF StatusAt, InFlight, Inflight
    <3>3. IdsFit' /\ Slots' = Slots
      BY <1>1 DEF Spacious, IdsFit, Slots, Counting
    <3>4. CASE disturbed # {}
      BY <1>1, <3>3, <3>4 DEF Spacious, Roomy
    <3>5. CASE disturbed = {}
      <4>1. InFlight' \subseteq InFlight
        BY <3>1, <3>2, <3>5 DEF InFlight
      <4> QED
        BY <1>1, <4>1, NoMoreInFlight
    <3> QED
      BY <3>4, <3>5
  <2> QED
    BY <2>1, <2>4, <2>5
<1> QED
  BY <1>2, <1>3

(* A request takes a row out of flight, or leaves it as it is. *)
LEMMA RequestSpacious ==
    ASSUME TypeInv, Spacious, NEW v \in Videos,
           (\E u \in Users : Register(v, u)) \/ Retry(v) \/ DeleteBegin(v) \/ Delete(v) \/ DeleteRaises(v)
    PROVE  Spacious'
<1>0. RowType /\ LeftType /\ Counted
  BY DEF TypeInv, ProgramInv, OtherType, LeftType
<1>1. UNCHANGED disp /\ disturbed \subseteq disturbed'
  BY DEF Register, Retry, DeleteBegin, Delete, DeleteFrames, DeleteText, DeleteThumbs, DeleteFile, DeleteRow,
         DeleteRaises, Disturb
<1>2. InFlight' \subseteq InFlight
  <2>1. CASE \E u \in Users : Register(v, u)
    <3>1. \A y \in Videos \ {v} : row'[y] = row[y]
      BY <1>0, <2>1 DEF Register, RowType
    <3>2. row'[v].st = "pending"
      BY <1>0, <2>1, RowRegistered
    <3> QED
      BY <3>1, <3>2 DEF InFlight, Inflight
  <2>2. CASE Retry(v)
    <3>1. SetStatus(v, "pending") /\ "pending" \in Statuses
      BY <2>2 DEF Retry, Statuses
    <3>2. \A y \in Videos : row'[y].st = IF y = v /\ Exists(v) THEN "pending" ELSE row[y].st
      BY <1>0, <3>1, StatusSet
    <3> QED
      BY <3>2 DEF InFlight, Inflight
  <2>3. CASE DeleteRow(v)
    <3>1. row' = [row EXCEPT ![v] = NoRow]
      BY <2>3 DEF DeleteRow
    <3>2. \A y \in Videos : row'[y] = IF y = v THEN NoRow ELSE row[y]
      BY <1>0, <3>1 DEF RowType
    <3> QED
      BY <3>2 DEF InFlight, Inflight, NoRow
  <2>4. CASE UNCHANGED row
    BY <2>4 DEF InFlight
  <2>5. UNCHANGED row \/ (\E u \in Users : Register(v, u)) \/ Retry(v) \/ DeleteRow(v)
    BY DEF DeleteBegin, Delete, DeleteFrames, DeleteText, DeleteThumbs, DeleteFile, DeleteRaises
  <2> QED
    BY <2>1, <2>2, <2>3, <2>4, <2>5
<1> QED
  BY <1>1, <1>2, NoMoreInFlight

LEMMA NextSpacious == VideoInv /\ Spacious /\ [Next]_vars => Spacious'
<1> SUFFICES ASSUME TypeInv, AllWell, Spacious, [Next]_vars PROVE Spacious'
  BY DEF VideoInv
<1>1. ASSUME UNCHANGED <<row, disp, disturbed>> PROVE Spacious'
  BY <1>1, NoMoreInFlight DEF InFlight
<1>2. CASE UNCHANGED vars
  BY <1>1, <1>2 DEF vars
<1>3. ASSUME NEW u \in Users, IndexDocument(u) PROVE Spacious'
  BY <1>1, <1>3 DEF IndexDocument
<1>4. ASSUME NEW w \in Workers, WorkerRestart(w) PROVE Spacious'
  BY <1>1, <1>4 DEF WorkerRestart
<1>5. ASSUME NEW w \in Workers, WorkerCrash(w) PROVE Spacious'
  <2>1. UNCHANGED <<row, disturbed>> /\ disp' = [disp EXCEPT ![w] = Idle]
    BY <1>5 DEF WorkerCrash
  <2>2. \A x \in Workers : disp'[x] = disp[x] \/ disp'[x].pc \notin {"select", "update"}
    BY <2>1 DEF TypeInv, ProgramInv, DispatchType, Idle
  <2>3. InFlight' = InFlight
    BY <2>1 DEF InFlight
  <2> QED
    BY <2>1, <2>2, <2>3, NoMoreInFlight
<1>6. ASSUME NEW w \in Workers, Dispatch(w) PROVE Spacious'
  BY <1>6, CountSpacious, SelectSpacious, ClaimSpacious, ScheduleSpacious DEF Dispatch
<1>7. CASE Next
  <2>1. CASE \E v \in Videos : (\E u \in Users : Register(v, u)) \/ Retry(v) \/ DeleteBegin(v)
                               \/ Delete(v) \/ DeleteRaises(v)
    BY <2>1, RequestSpacious
  <2>2. CASE \E r \in Runs : Flow(r)
    BY <2>2, FlowSpacious
  <2> QED
    BY <1>3, <1>4, <1>5, <1>6, <1>7, <2>1, <2>2 DEF Next
<1> QED
  BY <1>2, <1>7

(* While nobody resets a video that is being handled, the dispatchers of all  *)
(* workers together admit at most one DISPATCH_MAX_INFLIGHT per worker         *)
(* (dispatcher.py: "at worst mildly over-admitting").                          *)
THEOREM CapacityRespected == Spec => []CapacityKept
<1>1. Init => Spacious
  <2> SUFFICES ASSUME Init PROVE Spacious
    OBVIOUS
  <2>1. InFlight = {} /\ Slots = {}
    BY DEF Init, InFlight, Inflight, NoRow, Slots, Counting, Idle
  <2>2. Cardinality(InFlight) = 0 /\ Cardinality(Slots) = 0
    BY <2>1, FS_EmptySet
  <2>3. MaxInflight * Cardinality(Workers) \in Nat
    BY Bounds, Finite, FS_CardinalityType
  <2>4. IdsFit
    BY DEF Init, IdsFit, Idle
  <2> QED
    BY <2>2, <2>3, <2>4 DEF Spacious, Roomy
<1>2. VideoInv /\ Spacious => CapacityKept
  <2> SUFFICES ASSUME VideoInv, Spacious, disturbed = {}
               PROVE  Cardinality(InFlight) <= MaxInflight * Cardinality(Workers)
    BY DEF CapacityKept
  <2>1. Cardinality(InFlight) \in Nat /\ Cardinality(Slots) \in Nat
        /\ MaxInflight * Cardinality(Workers) \in Nat
    BY SlotsFinite, InFlightSize, Bounds, Finite, FS_CardinalityType DEF VideoInv
  <2> QED
    BY <2>1 DEF Spacious, Roomy
<1> QED
  BY <1>1, <1>2, NextSpacious, VideoInvariance, PTL DEF Spec

-----------------------------------------------------------------------------
(* The round of one tick.  A tenant's videos are ranked by age, so what is      *)
(* picked of them is what has the lowest ranks; and whatever has a lower rank   *)
(* than a video that was picked is picked too.                                  *)

LEMMA LeastOf ==
    ASSUME NEW S \in SUBSET Videos, S # {}, NEW f \in [Videos -> Nat]
    PROVE  \E m \in S : \A y \in S : f[m] <= f[y]
<1> DEFINE R == {ss \in Nat \X Nat : ss[1] < ss[2]}
           T == {f[x] : x \in S}
<1>1. IsWellFoundedOn(R, Nat)
  BY NatLessThanWellFounded DEF OpToRel
<1>2. \A x, y \in Nat : y < x => <<y, x>> \in R
  OBVIOUS
<1> HIDE DEF R
<1>3. T \subseteq Nat /\ T # {}
  OBVIOUS
<1>4. PICK t \in T : \A y \in T : <<y, t>> \notin R
  BY <1>1, <1>3, WFMin
<1>5. \A y \in T : t <= y
  <2> TAKE y \in T
  <2>1. t \in Nat /\ y \in Nat /\ ~(y < t)
    BY <1>2, <1>3, <1>4
  <2> QED
    BY <2>1
<1> QED
  BY <1>5

LEMMA MostOf ==
    ASSUME NEW S \in SUBSET Videos, S # {}, NEW n \in Nat, NEW f \in [Videos -> 0 .. n]
    PROVE  \E m \in S : \A y \in S : f[y] <= f[m]
<1> DEFINE T == {f[x] : x \in S}
<1>1. T \subseteq 0 .. n /\ T # {}
  OBVIOUS
<1>2. Max(T) \in T /\ \A y \in T : y <= Max(T)
  BY <1>1, HasMax
<1> HIDE DEF T
<1>3. PICK m \in S : f[m] = Max(T)
  BY <1>2 DEF T
<1>4. \A y \in S : f[y] \in T
  BY DEF T
<1> QED
  BY <1>2, <1>3, <1>4

(* Ages order the videos of a tenant, and ranks count them. *)
SeniorsOf(v) == {x \in Pending : row[x].owner = row[v].owner /\ Older(x, v)}

LEMMA AgesKnown == ASSUME TypeInv, NEW x \in Pending PROVE x \in Nat /\ row[x].born \in Nat
<1>1. x \in Videos /\ row[x] \in Rows
  BY DEF Pending, TypeInv, ProgramInv, RowType
<1>2. row[x].born \in 0 .. MaxRegisters
  BY <1>1 DEF Rows
<1> QED
  BY <1>1, <1>2, VideoIds, Bounds

LEMMA Ranked ==
    ASSUME TypeInv
    PROVE  /\ \A x \in Pending : ~Older(x, x)
           /\ \A x, y \in Pending : x # y => Older(x, y) \/ Older(y, x)
           /\ \A x, y, z \in Pending : Older(x, y) /\ Older(y, z) => Older(x, z)
           /\ \A v \in Videos : /\ SeniorsOf(v) \in SUBSET Videos /\ Rank(v) = Cardinality(SeniorsOf(v))
                                /\ Rank(v) \in 0 .. Cardinality(Videos)
           /\ Cardinality(Videos) \in Nat
<1>1. \A x \in Pending : x \in Nat /\ row[x].born \in Nat
  BY AgesKnown
<1>2. /\ \A x \in Pending : ~Older(x, x)
      /\ \A x, y \in Pending : x # y => Older(x, y) \/ Older(y, x)
      /\ \A x, y, z \in Pending : Older(x, y) /\ Older(y, z) => Older(x, z)
  <2> HIDE DEF Pending
  <2> QED
    BY <1>1 DEF Older
<1>3. ASSUME NEW v \in Videos
      PROVE  SeniorsOf(v) \in SUBSET Videos /\ Rank(v) = Cardinality(SeniorsOf(v))
             /\ Rank(v) \in 0 .. Cardinality(Videos)
  <2>1. SeniorsOf(v) \in SUBSET Videos /\ Rank(v) = Cardinality(SeniorsOf(v))
    BY DEF SeniorsOf, Rank, Pending
  <2>2. Cardinality(SeniorsOf(v)) <= Cardinality(Videos) /\ Cardinality(SeniorsOf(v)) \in Nat
        /\ Cardinality(Videos) \in Nat
    BY <2>1, Finite, FS_Subset, VideoSets
  <2> QED
    BY <2>1, <2>2
<1> QED
  BY <1>2, <1>3, Finite, FS_CardinalityType

LEMMA SeniorsRankLower ==
    ASSUME TypeInv, NEW x \in Pending, NEW y \in Pending, row[x].owner = row[y].owner, Older(x, y)
    PROVE  Rank(x) < Rank(y)
<1>0. x \in Videos /\ y \in Videos
  BY DEF Pending
<1>1. SeniorsOf(x) \cup {x} \subseteq SeniorsOf(y) /\ x \notin SeniorsOf(x)
  BY Ranked DEF SeniorsOf
<1>2. IsFiniteSet(SeniorsOf(x)) /\ IsFiniteSet(SeniorsOf(y))
  BY <1>0, Ranked, VideoSets
<1>3. Cardinality(SeniorsOf(x) \cup {x}) = Cardinality(SeniorsOf(x)) + 1
  BY <1>1, <1>2, FS_AddElement
<1>4. Cardinality(SeniorsOf(x) \cup {x}) <= Cardinality(SeniorsOf(y))
  BY <1>1, <1>2, FS_Subset
<1>5. Rank(x) = Cardinality(SeniorsOf(x)) /\ Rank(y) = Cardinality(SeniorsOf(y)) /\ Rank(x) \in Nat /\ Rank(y) \in Nat
  BY <1>0, Ranked
<1> QED
  BY <1>3, <1>4, <1>5

AheadOf(v) == {x \in Pending : Before(x, v)}

LEMMA AheadCounts ==
    ASSUME TypeInv
    PROVE  /\ \A v : AheadOf(v) \in SUBSET Videos /\ IsFiniteSet(AheadOf(v))
                     /\ Cardinality(AheadOf(v)) \in 0 .. Cardinality(Videos)
           /\ \A x, y \in Pending : Before(x, y) => Cardinality(AheadOf(x)) < Cardinality(AheadOf(y))
<1>1. ASSUME NEW v
      PROVE  AheadOf(v) \in SUBSET Videos /\ IsFiniteSet(AheadOf(v))
             /\ Cardinality(AheadOf(v)) \in 0 .. Cardinality(Videos) /\ Cardinality(AheadOf(v)) \in Nat
  <2>1. AheadOf(v) \in SUBSET Videos
    BY DEF AheadOf, Pending
  <2>2. Cardinality(AheadOf(v)) <= Cardinality(Videos) /\ Cardinality(AheadOf(v)) \in Nat
        /\ Cardinality(Videos) \in Nat
    BY <2>1, Finite, FS_Subset, VideoSets
  <2> QED
    BY <2>1, <2>2, VideoSets
<1>2. ASSUME NEW x \in Pending, NEW y \in Pending, Before(x, y)
      PROVE  Cardinality(AheadOf(x)) < Cardinality(AheadOf(y))
  <2>1. AheadOf(x) \cup {x} \subseteq AheadOf(y) /\ x \notin AheadOf(x)
    BY <1>2, BeforeOrders DEF AheadOf
  <2>2. Cardinality(AheadOf(x) \cup {x}) = Cardinality(AheadOf(x)) + 1
    BY <1>1, <2>1, FS_AddElement
  <2>3. Cardinality(AheadOf(x) \cup {x}) <= Cardinality(AheadOf(y))
    BY <1>1, <2>1, FS_Subset
  <2> QED
    BY <1>1, <2>2, <2>3
<1> QED
  BY <1>1, <1>2

(* What goes before a video that is picked is picked. *)
LEMMA PickedFromTheFront ==
    ASSUME TypeInv, NEW n \in Nat, NEW v \in Picked(n), NEW x \in Pending, Before(x, v)
    PROVE  x \in Picked(n)
<1>1. v \in Pending /\ Cardinality(AheadOf(v)) < n
  BY DEF Picked, AheadOf
<1>2. Cardinality(AheadOf(x)) < Cardinality(AheadOf(v))
  BY <1>1, AheadCounts
<1>3. Cardinality(AheadOf(x)) \in Nat /\ Cardinality(AheadOf(v)) \in Nat
  BY AheadCounts, Ranked
<1> QED
  BY <1>1, <1>2, <1>3 DEF Picked, AheadOf

(* While a video waits, every slot is taken. *)
LEMMA SlotsTaken ==
    ASSUME TypeInv, NEW n \in Nat, Cardinality(Picked(n)) < n
    PROVE  Pending \subseteq Picked(n)
<1> DEFINE Kept == Pending \ Picked(n)
           size == [v \in Videos |-> Cardinality(AheadOf(v))]
<1>1. SUFFICES ASSUME Kept # {} PROVE FALSE
  OBVIOUS
<1>2. Kept \in SUBSET Videos /\ Picked(n) \in SUBSET Videos /\ Kept \in SUBSET Pending
  BY DEF Pending, Picked
<1>3. size \in [Videos -> Nat]
  BY AheadCounts, Ranked
<1>4. PICK y \in Kept : \A z \in Kept : size[y] <= size[z]
  <2> HIDE DEF Kept, size
  <2> QED
    BY <1>1, <1>2, <1>3, LeastOf
<1>5. AheadOf(y) \subseteq Picked(n)
  <2> SUFFICES ASSUME NEW z \in AheadOf(y), z \notin Picked(n) PROVE FALSE
    OBVIOUS
  <2>1. z \in Kept /\ Before(z, y)
    BY DEF AheadOf
  <2>2. size[z] < size[y] /\ size[z] \in Nat /\ size[y] \in Nat
    BY <1>2, <2>1, AheadCounts, Ranked
  <2> QED
    BY <1>4, <2>1, <2>2
<1>6. Cardinality(AheadOf(y)) <= Cardinality(Picked(n)) /\ Cardinality(Picked(n)) \in Nat
      /\ Cardinality(AheadOf(y)) \in Nat
  BY <1>2, <1>5, AheadCounts, FS_Subset, VideoSets
<1>7. y \in Pending /\ y \notin Picked(n)
  OBVIOUS
<1>8. ~(Cardinality(AheadOf(y)) < n)
  BY <1>7 DEF Picked, AheadOf
<1> QED
  BY <1>6, <1>8

(* Of one tenant the older videos are picked. *)
LEMMA OldestPicked ==
    ASSUME TypeInv, NEW n \in Nat, NEW x \in Picked(n), NEW v \in Pending \ Picked(n),
           row[x].owner = row[v].owner
    PROVE  Older(x, v)
<1>1. x \in Pending /\ v \in Pending /\ x # v
  BY DEF Picked
<1>2. SUFFICES ASSUME Older(v, x) PROVE FALSE
  BY <1>1, Ranked
<1>3. Before(v, x)
  BY <1>1, <1>2, SeniorsRankLower DEF Before
<1> QED
  BY <1>1, <1>3, PickedFromTheFront

WonBy(n, u) == {x \in Picked(n) : row[x].owner = u}

(* A tenant kept waiting has won as many as the rank of its next video, and    *)
(* nobody has won one of a higher rank.                                         *)
LEMMA TurnsTaken ==
    ASSUME TypeInv, NEW n \in Nat, NEW v \in Pending \ Picked(n), NEW u
    PROVE  Cardinality(WonBy(n, u)) <= Cardinality(WonBy(n, row[v].owner)) + 1
<1> DEFINE o == row[v].owner
           Kept == {x \in Pending \ Picked(n) : row[x].owner = o}
           rank == [x \in Videos |-> Rank(x)]
           most == Cardinality(Videos)
<1>1. /\ Pending \in SUBSET Videos /\ Picked(n) \in SUBSET Pending
      /\ Kept \in SUBSET Videos /\ Kept # {} /\ Kept \in SUBSET Pending
      /\ \A y : WonBy(n, y) \in SUBSET Videos /\ WonBy(n, y) \in SUBSET Pending
  BY DEF Pending, Picked, WonBy
<1>2. rank \in [Videos -> 0 .. most] /\ rank \in [Videos -> Nat] /\ most \in Nat
  BY Ranked
<1>3. PICK k \in Kept : \A y \in Kept : rank[k] <= rank[y]
  <2> HIDE DEF Kept, rank
  <2> QED
    BY <1>1, <1>2, LeastOf
<1>4. k \in Pending /\ k \notin Picked(n) /\ row[k].owner = o /\ k \in Videos /\ Rank(k) \in Nat
  BY <1>1, <1>2
<1>5. \A y \in Kept : Rank(k) <= Rank(y)
  BY <1>1, <1>3
<1> HIDE DEF rank
<1>6. Rank(k) <= Cardinality(WonBy(n, o)) /\ Cardinality(WonBy(n, o)) \in Nat
  <2>1. SeniorsOf(k) \subseteq WonBy(n, o)
    <3> SUFFICES ASSUME NEW y \in SeniorsOf(k), y \notin Picked(n) PROVE FALSE
      BY <1>4 DEF SeniorsOf, WonBy
    <3>1. y \in Pending /\ row[y].owner = o /\ Older(y, k)
      BY <1>4 DEF SeniorsOf
    <3>2. Rank(y) < Rank(k) /\ y \in Kept
      BY <1>4, <3>1, SeniorsRankLower
    <3>3. Rank(y) \in Nat
      BY <1>1, <3>1, Ranked
    <3> QED
      BY <1>4, <1>5, <3>2, <3>3
  <2>2. IsFiniteSet(WonBy(n, o)) /\ Cardinality(WonBy(n, o)) \in Nat
    BY <1>1, VideoSets
  <2>3. Cardinality(SeniorsOf(k)) <= Cardinality(WonBy(n, o))
    BY <2>1, <2>2, FS_Subset
  <2> QED
    BY <1>4, <2>2, <2>3, Ranked
<1>7. CASE WonBy(n, u) = {}
  BY <1>6, <1>7, FS_EmptySet
<1>8. CASE WonBy(n, u) # {}
  <2>1. PICK m \in WonBy(n, u) : \A y \in WonBy(n, u) : rank[y] <= rank[m]
    BY <1>1, <1>2, <1>8, MostOf
  <2>2. m \in Picked(n) /\ m \in Pending /\ m \in Videos /\ row[m].owner = u /\ Rank(m) \in Nat
    BY <1>1, <1>2 DEF WonBy, rank
  <2>3. Rank(m) <= Rank(k)
    <3>1. ~Before(k, m)
      BY <1>4, <2>2, PickedFromTheFront
    <3> QED
      BY <1>4, <2>2, <3>1 DEF Before
  <2>4. WonBy(n, u) \subseteq SeniorsOf(m) \cup {m}
    <3> SUFFICES ASSUME NEW y \in WonBy(n, u), y # m PROVE y \in SeniorsOf(m)
      OBVIOUS
    <3>1. y \in Pending /\ y \in Videos /\ row[y].owner = u
      BY <1>1 DEF WonBy
    <3>2. Rank(y) <= Rank(m) /\ Rank(y) \in Nat
      BY <1>2, <2>1, <2>2, <3>1 DEF rank
    <3>3. ~Older(m, y)
      <4> SUFFICES ASSUME Older(m, y) PROVE FALSE
        OBVIOUS
      <4>1. Rank(m) < Rank(y)
        BY <2>2, <3>1, SeniorsRankLower
      <4> QED
        BY <2>2, <3>2, <4>1
    <3> QED
      BY <2>2, <3>1, <3>3, Ranked DEF SeniorsOf
  <2>5. /\ IsFiniteSet(SeniorsOf(m)) /\ Cardinality(SeniorsOf(m)) = Rank(m)
        /\ m \notin SeniorsOf(m)
    BY <2>2, Ranked, VideoSets DEF SeniorsOf
  <2>6. IsFiniteSet(SeniorsOf(m) \cup {m}) /\ Cardinality(SeniorsOf(m) \cup {m}) = Rank(m) + 1
    BY <2>5, FS_AddElement
  <2>7. Cardinality(WonBy(n, u)) <= Rank(m) + 1 /\ Cardinality(WonBy(n, u)) \in Nat
    BY <1>1, <2>4, <2>6, FS_Subset, VideoSets
  <2> QED
    BY <1>4, <1>6, <2>2, <2>3, <2>7
<1> QED
  BY <1>7, <1>8

(* Only a select makes a round. *)
LEMMA RoundsSelected ==
    ASSUME TypeInv, [Next]_vars, NEW w \in Workers, disp[w].pc = "select", disp'[w].pc = "update"
    PROVE  /\ disp'[w].ids = Picked(disp[w].slots) /\ disp[w].slots \in Nat
<1>0. disp \in [Workers -> DispatchRecords]
  BY DEF TypeInv, ProgramInv, DispatchType, DispatchRecords
<1>1. disp'[w] # disp[w]
  OBVIOUS
<1>2. CASE UNCHANGED disp
  BY <1>1, <1>2
<1>3. ASSUME NEW x \in Workers, WorkerCrash(x) PROVE FALSE
  <2>1. disp' = [disp EXCEPT ![x] = Idle]
    BY Zenon, <1>3 DEF WorkerCrash
  <2>2. disp'[w] = disp[w] \/ disp'[w] = Idle
    BY <1>0, <2>1
  <2> QED
    BY <1>1, <2>2 DEF Idle
<1>4. ASSUME NEW x \in Workers, Dispatch(x) PROVE x = w /\ DispatchSelect(w)
  <2>1. x = w
    BY <1>0, <1>1, <1>4 DEF Dispatch, DispatchCount, DispatchSelect, DispatchClaim, Claim, DispatchEnqueue, DispatchRaises
  <2> QED
    BY <1>4, <2>1 DEF Dispatch, DispatchCount, DispatchClaim, Claim, DispatchEnqueue, DispatchRaises
<1>5. ASSUME DispatchSelect(w) PROVE disp'[w].ids = Picked(disp[w].slots)
  <2>1. disp'[w] = IF Pending = {} THEN Idle
                   ELSE [pc |-> "update", slots |-> disp[w].slots, ids |-> Picked(disp[w].slots), claims |-> {}]
    BY <1>0, <1>5 DEF DispatchSelect
  <2>2. Pending # {}
    BY <2>1 DEF Idle
  <2> QED
    BY <2>1, <2>2
<1>6. ASSUME NEW v \in Videos, (\E u \in Users : Register(v, u)) \/ Retry(v) \/ DeleteBegin(v) \/ Delete(v) \/ DeleteRaises(v)
      PROVE  UNCHANGED disp
  BY <1>6 DEF Register, Retry, DeleteBegin, Delete, DeleteFrames, DeleteText, DeleteThumbs, DeleteFile, DeleteRow,
         DeleteRaises
<1>7. ASSUME NEW r \in Runs, Flow(r) PROVE UNCHANGED disp
  BY <1>7 DEF Flow, PickUp, Launch, LaunchFails, Report, FetchBegin, FetchLoad, FetchHash, FetchCheck, FetchSkip,
         SampleBegin, SampleClear, SamplePut, EmbedBegin, EmbedPurge, EmbedPurgeText, EmbedUpsert, EmbedFlip,
         Captions, Transcript, Raises, TaskRetry, FlowFails
<1>8. ASSUME NEW u \in Users, IndexDocument(u) PROVE UNCHANGED disp
  BY <1>8 DEF IndexDocument
<1>9. ASSUME NEW x \in Workers, WorkerRestart(x) PROVE UNCHANGED disp
  BY <1>9 DEF WorkerRestart
<1>10. UNCHANGED vars => UNCHANGED disp
  BY DEF vars
<1>11. disp[w].slots \in Nat
  <2>1. disp[w].slots \in 0 .. MaxInflight
    BY <1>0 DEF DispatchRecords
  <2> QED
    BY <2>1, Bounds
<1> QED
  BY <1>2, <1>3, <1>4, <1>5, <1>6, <1>7, <1>8, <1>9, <1>10, <1>11 DEF Next

(* Within a round nobody who waits is two videos behind another tenant,       *)
(* everybody's oldest go first and every slot is used (db.wfq_claim).  From   *)
(* round to round it does not hold: see NoMonopoly.                           *)
THEOREM RoundsTakeTurns == Spec => TakesTurns
<1>1. ASSUME TypeInv, [Next]_vars, NEW w \in Workers, disp[w].pc = "select", disp'[w].pc = "update"
      PROVE  LET won(u) == {v \in disp'[w].ids : row[v].owner = u} IN
             /\ \A v \in Pending \ disp'[w].ids :
                   /\ \A u \in Users : Cardinality(won(u)) <= Cardinality(won(row[v].owner)) + 1
                   /\ \A x \in won(row[v].owner) : row[x].born <= row[v].born
             /\ Cardinality(disp'[w].ids) < disp[w].slots => Pending \subseteq disp'[w].ids
  <2> DEFINE n == disp[w].slots
             won(u) == {v \in disp'[w].ids : row[v].owner = u}
  <2>1. n \in Nat /\ disp'[w].ids = Picked(n)
    BY <1>1, RoundsSelected
  <2>2. \A u : won(u) = WonBy(n, u)
    BY <2>1 DEF WonBy
  <2> HIDE DEF n
  <2>3. ASSUME NEW v \in Pending \ Picked(n)
        PROVE  /\ \A u \in Users : Cardinality(won(u)) <= Cardinality(won(row[v].owner)) + 1
               /\ \A x \in won(row[v].owner) : row[x].born <= row[v].born
    <3>1. \A u \in Users : Cardinality(won(u)) <= Cardinality(won(row[v].owner)) + 1
      <4> HIDE DEF won
      <4> QED
        BY <1>1, <2>1, <2>2, TurnsTaken
    <3>2. ASSUME NEW x \in won(row[v].owner) PROVE row[x].born <= row[v].born
      <4>1. x \in Pending /\ v \in Pending /\ Older(x, v)
        BY <1>1, <2>1, OldestPicked DEF Picked
      <4>2. row[x].born \in Nat /\ row[v].born \in Nat
        BY <1>1, <4>1, AgesKnown
      <4> QED
        BY <4>1, <4>2 DEF Older
    <3> QED
      BY <3>1, <3>2
  <2>4. Cardinality(Picked(n)) < n => Pending \subseteq Picked(n)
    BY <1>1, <2>1, SlotsTaken
  <2> HIDE DEF won
  <2> QED
    BY <2>1, <2>3, <2>4 DEF won, n
<1>2. VideoInv /\ [Next]_vars =>
        [\A w \in Workers :
           disp[w].pc = "select" /\ disp'[w].pc = "update" =>
              LET won(u) == {v \in disp'[w].ids : row[v].owner = u} IN
              /\ \A v \in Pending \ disp'[w].ids :
                    /\ \A u \in Users : Cardinality(won(u)) <= Cardinality(won(row[v].owner)) + 1
                    /\ \A x \in won(row[v].owner) : row[x].born <= row[v].born
              /\ Cardinality(disp'[w].ids) < disp[w].slots => Pending \subseteq disp'[w].ids]_vars
  BY <1>1 DEF VideoInv
<1> QED
  BY <1>2, VideoInvariance, PTL DEF Spec, TakesTurns

-----------------------------------------------------------------------------
(* The stages of a video: a run nobody disturbed stands where its row says     *)
(* (Handed), so each task finds the status its predecessor left.               *)

Moves(v) == \/ row'[v].st \in NextStage(row[v].st)
            \/ row'[v].st = "pending" /\ Asked
            \/ row'[v].st = "absent" /\ del[v].pc = "row"

LEMMA StayedPut == ASSUME NEW v, row'[v].st = row[v].st PROVE Moves(v)
BY DEF Moves, NextStage

LEMMA RequestStages ==
    ASSUME TypeInv, NEW x \in Videos, NEW v \in Videos,
           (\E u \in Users : Register(x, u)) \/ Retry(x) \/ DeleteBegin(x) \/ Delete(x) \/ DeleteRaises(x)
    PROVE  Moves(v)
<1>0. RowType /\ LeftType /\ Counted
  BY DEF TypeInv, ProgramInv, OtherType, LeftType
<1>1. ASSUME NEW b \in {"register", "retry"}, Spend(b) PROVE Asked
  <2>1. left'[b] = left[b] - 1 /\ left[b] \in Nat
    BY <1>0, <1>1 DEF Spend, LeftType
  <2> QED
    BY <2>1 DEF Asked
<1>2. CASE \E u \in Users : Register(x, u)
  <2>1. Asked
    BY <1>1, <1>2 DEF Register
  <2>2. row'[x].st = "pending" /\ \A y \in Videos \ {x} : row'[y] = row[y]
    BY <1>0, <1>2, RowRegistered
  <2> QED
    BY <2>1, <2>2, StayedPut DEF Moves
<1>3. CASE Retry(x)
  <2>1. Asked /\ SetStatus(x, "pending") /\ "pending" \in Statuses
    BY <1>1, <1>3 DEF Retry, Statuses
  <2>2. \A y \in Videos : row'[y].st = IF y = x /\ Exists(x) THEN "pending" ELSE row[y].st
    BY <1>0, <2>1, StatusSet
  <2> QED
    BY <2>1, <2>2, StayedPut DEF Moves
<1>4. CASE DeleteRow(x)
  <2>1. row' = [row EXCEPT ![x] = NoRow] /\ del[x].pc = "row"
    BY <1>4 DEF DeleteRow, DeleteStep
  <2>2. \A y \in Videos : row'[y] = IF y = x THEN NoRow ELSE row[y]
    BY <1>0, <2>1 DEF RowType
  <2> QED
    BY <2>1, <2>2, StayedPut DEF Moves, NoRow
<1>5. CASE UNCHANGED row
  BY <1>5, StayedPut
<1>6. UNCHANGED row \/ (\E u \in Users : Register(x, u)) \/ Retry(x) \/ DeleteRow(x)
  BY DEF DeleteBegin, Delete, DeleteFrames, DeleteText, DeleteThumbs, DeleteFile, DeleteRaises
<1> QED
  BY <1>2, <1>3, <1>4, <1>5, <1>6

LEMMA DispatchStages ==
    ASSUME TypeInv, AllWell, NEW w \in Workers, Dispatch(w), NEW v \in Videos \ disturbed
    PROVE  Moves(v)
<1>0. RowType /\ DispatchType
  BY DEF TypeInv, ProgramInv
<1>1. CASE UNCHANGED row
  BY <1>1, StayedPut
<1>2. CASE DispatchClaim(w)
  <2> DEFINE won == disp[w].ids \cap Pending
  <2>1. /\ row' = [y \in Videos |-> IF y \in won THEN [row[y] EXCEPT !.st = "queued"] ELSE row[y]]
        /\ won \in SUBSET Pending
    BY <1>2 DEF DispatchClaim, Claim
  <2>2. v \in won => row[v].st = "pending"
    BY DEF Pending
  <2> HIDE DEF won
  <2>3. row'[v].st = IF v \in won THEN "queued" ELSE row[v].st
    BY <1>0, <2>1, RowsClaimed
  <2> QED
    BY <2>2, <2>3, StayedPut DEF Moves, NextStage
<1>3. CASE DispatchRaises(w)
  <2>1. PICK c \in disp[w].claims : SetStatus(c.vid, "pending") \/ UNCHANGED row
    BY <1>3 DEF DispatchRaises
  <2> DEFINE x == c.vid
  <2>2. x \in Videos /\ "pending" \in Statuses
    BY <1>0 DEF DispatchType, Claims, Statuses
  <2>3. v = x => row[v].st = "queued"
    BY DEF AllWell, Well, Handed
  <2>4. CASE SetStatus(x, "pending")
    <3> HIDE DEF x
    <3>1. \A y \in Videos : row'[y].st = IF y = x /\ Exists(x) THEN "pending" ELSE row[y].st
      BY <1>0, <2>2, <2>4, StatusSet
    <3> QED
      BY <2>3, <3>1, StayedPut DEF Moves, NextStage
  <2> QED
    BY <1>1, <2>1, <2>4
<1>4. UNCHANGED row \/ DispatchClaim(w) \/ DispatchRaises(w)
  BY DEF Dispatch, DispatchCount, DispatchSelect, DispatchEnqueue
<1> QED
  BY <1>1, <1>2, <1>3, <1>4

LEMMA FlowStages ==
    ASSUME TypeInv, AllWell, NEW r \in Runs, Flow(r), NEW v \in Videos \ disturbed
    PROVE  Moves(v)
<1> DEFINE x == run[r].vid
           p == run[r].pc
<1>0. RowType /\ RunType /\ RunsOK
  BY DEF TypeInv, ProgramInv
<1>1. CASE UNCHANGED row
  BY <1>1, StayedPut
<1>2. CASE row' # row
  <2>1. /\ Executing(r)
        /\ \/ p = "fetch" /\ SetStatus(x, "fetching")
           \/ p = "hash" /\ FetchHash(r)
           \/ p = "skip" /\ SetStatus(x, "skipped")
           \/ p = "sample" /\ SetStatus(x, "sampling")
           \/ p = "embed" /\ SetStatus(x, "embedding")
           \/ p = "flip" /\ SetStatus(x, "indexed")
           \/ p \in TaskSteps \ {"transcript"} /\ SetStatus(x, "failed")
    BY <1>2 DEF Flow, At, PickUp, Launch, LaunchFails, Report, FetchBegin, FetchLoad, FetchHash, FetchCheck, FetchSkip,
         SampleBegin, SampleClear, SamplePut, EmbedBegin, EmbedPurge, EmbedPurgeText, EmbedUpsert, EmbedFlip,
         Captions, Transcript, Raises, TaskRetry, FlowFails
  <2>2. x \in Videos /\ p \in Positions
    BY <1>0, <2>1 DEF RunsOK, RunShape, Executing, Positions, TaskSteps, FetchSteps, SampleSteps, EmbedSteps
  <2>3. v = x => row[v].st \in StatusAt(p)
    BY <2>2 DEF AllWell, Well, Handed, Live, LivePc
  <2>4. FetchHash(r) => \A y \in Videos : row'[y].st = IF y = x /\ Exists(y) THEN "fetching" ELSE row[y].st
    BY <1>0, <2>2, RowHashed
  <2> HIDE DEF x, p
  <2>5. \A s \in Statuses : SetStatus(x, s) =>
          \A y \in Videos : row'[y].st = IF y = x /\ Exists(x) THEN s ELSE row[y].st
    BY <1>0, <2>2, StatusSet
  <2>6. PICK s \in Statuses :
          /\ \A y \in Videos : row'[y].st = IF y = x /\ Exists(y) THEN s ELSE row[y].st
          /\ \/ p = "fetch" /\ s = "fetching"
             \/ p = "hash" /\ s = "fetching"
             \/ p = "skip" /\ s = "skipped"
             \/ p = "sample" /\ s = "sampling"
             \/ p = "embed" /\ s = "embedding"
             \/ p = "flip" /\ s = "indexed"
             \/ p \in TaskSteps \ {"transcript"} /\ s = "failed"
    BY <2>1, <2>4, <2>5 DEF Statuses, Inflight, Settled
  <2>7. CASE v # x
    BY <2>6, <2>7, StayedPut
  <2>8. CASE v = x
    <3>1. row[v].st \in StatusAt(p)
      BY <2>3, <2>8
    <3>2. s \in NextStage(row[v].st)
      BY <2>6, <3>1 DEF StatusAt, NextStage, TaskSteps, FetchSteps, SampleSteps, EmbedSteps
    <3> QED
      BY <2>6, <2>8, <3>2, StayedPut DEF Moves
  <2> QED
    BY <2>7, <2>8
<1> QED
  BY <1>1, <1>2

(* A video nobody disturbed goes through its stages in order, whatever crashes *)
(* or raises; what else moves it is a request (db.set_status, pipeline.py).     *)
THEOREM VideoStages == Spec => StageOrder
<1>1. VideoInv /\ [Next]_vars => \A v \in Videos \ disturbed : Moves(v)
  <2> SUFFICES ASSUME TypeInv, AllWell, [Next]_vars, NEW v \in Videos \ disturbed PROVE Moves(v)
    BY DEF VideoInv
  <2>1. CASE UNCHANGED row
    BY <2>1, StayedPut
  <2>2. UNCHANGED vars => UNCHANGED row
    BY DEF vars
  <2>3. ASSUME NEW u \in Users, IndexDocument(u) PROVE UNCHANGED row
    BY <2>3 DEF IndexDocument
  <2>4. ASSUME NEW w \in Workers, WorkerCrash(w) \/ WorkerRestart(w) PROVE UNCHANGED row
    BY Zenon, <2>4 DEF WorkerCrash, WorkerRestart
  <2>5. ASSUME NEW w \in Workers, Dispatch(w) PROVE Moves(v)
    BY <2>5, DispatchStages
  <2>6. ASSUME NEW r \in Runs, Flow(r) PROVE Moves(v)
    BY <2>6, FlowStages
  <2>7. CASE \E x \in Videos : (\E u \in Users : Register(x, u)) \/ Retry(x) \/ DeleteBegin(x)
                               \/ Delete(x) \/ DeleteRaises(x)
    BY <2>7, RequestStages
  <2> QED
    BY <2>1, <2>2, <2>3, <2>4, <2>5, <2>6, <2>7 DEF Next
<1>2. VideoInv /\ [Next]_vars =>
        [\A v \in Videos \ disturbed :
           \/ row'[v].st \in NextStage(row[v].st)
           \/ row'[v].st = "pending" /\ Asked
           \/ row'[v].st = "absent" /\ del[v].pc = "row"]_vars
  BY <1>1 DEF Moves
<1> QED
  BY <1>2, VideoInvariance, PTL DEF Spec, StageOrder

=============================================================================
