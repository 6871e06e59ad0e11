------------------------------- MODULE Playback -------------------------------
(***************************************************************************)
(* The texts of an answer as the page plays them: each text has a renderer   *)
(* that reveals it a few characters at a time on a timer, later texts wait   *)
(* for earlier ones, and the suggestions wait for all.  The store changes a  *)
(* message at once; the page sees it in a flush, and whether to animate is   *)
(* taken back in the tick after.                                            *)
(*                                                                         *)
(* A text is [version, size]: one that is no longer form of what is shown    *)
(* has another version.  Renderers are keyed by how many texts come before   *)
(* theirs, so that they are created, and removed, at the end of the list.    *)
(* Definitions marked "Faulty" are plausible bugs in the definition after    *)
(* them and not part of the specification.                                  *)
(***************************************************************************)
EXTENDS Naturals, Sequences, SequencesExt

CONSTANTS
  MaxTexts, MaxSize, Versions,
  Smooth, MaxStep    \* how fast a text is revealed: 80 and 6 characters

VARIABLES
  texts,       \* the texts of the message in the store
  streaming,   \* whether an answer is being generated: isLoading
  animate,     \* animateText of the message
  untick,      \* the tick that takes animate back was asked for
  rendered,    \* the texts that the page has, and whether it was told to animate
  animated,
  shown,       \* displayedContent of each renderer
  timers,      \* renderers with a timer
  playing      \* playingRenderers of the message

store == <<texts, streaming, animate, untick>>

page == <<rendered, animated, shown, timers, playing>>

vars == <<store, page>>

Texts == [version : Versions, size : 1 .. MaxSize]

Lists == UNION {[1 .. n -> Texts] : n \in 0 .. MaxTexts}

Nothing(text) == [text EXCEPT !.size = 0]

(* startsWith *)
Begins(text, part) == part.size = 0 \/ (part.version = text.version /\ part.size <= text.size)

Init ==
  /\ texts = <<>> /\ streaming = TRUE /\ animate = FALSE /\ untick = FALSE
  /\ rendered = <<>> /\ animated = TRUE
  /\ shown = <<>> /\ timers = {} /\ playing = {}

-----------------------------------------------------------------------------
(* The store *)

Receive ==
  /\ animate' = TRUE /\ untick' = TRUE
  /\ UNCHANGED <<streaming, page>>

Chunk ==
  /\ streaming /\ texts # <<>> /\ Last(texts).size < MaxSize
  /\ texts' = [texts EXCEPT ![Len(texts)].size = @ + 1]
  /\ Receive

NewText ==
  /\ streaming /\ Len(texts) < MaxTexts
  /\ texts' = Append(texts, [version |-> CHOOSE v \in Versions : TRUE, size |-> 1])
  /\ Receive

(* The answer is settled, perhaps in the read that brought its last text. *)
Done ==
  /\ streaming /\ streaming' = FALSE
  /\ UNCHANGED <<texts, animate, untick, page>>

(* A snapshot of the server replaces the blocks. *)
Snapshot(list) ==
  /\ list # texts /\ texts' = list
  /\ UNCHANGED <<streaming, animate, untick, page>>

(* nextTick: after the flush that shows the text *)
Untick ==
  /\ untick /\ rendered = texts /\ animated = (streaming \/ animate)
  /\ untick' = FALSE /\ animate' = FALSE
  /\ UNCHANGED <<texts, streaming, page>>

-----------------------------------------------------------------------------
(* The page *)

(* What the watch of a renderer does with a text that is new to it. *)
Before(i) == IF i \in DOMAIN shown THEN shown[i] ELSE Nothing(texts[i])

Plays(i) == (streaming \/ animate) \/ i \in playing

Watched(i) ==
  IF i \in DOMAIN rendered /\ rendered[i] = texts[i] THEN shown[i]
  ELSE IF ~Plays(i) THEN texts[i]
  ELSE IF Begins(texts[i], Before(i)) THEN [texts[i] EXCEPT !.size = Before(i).size]
  ELSE Nothing(texts[i])

Changed == {i \in DOMAIN texts : i \notin DOMAIN rendered \/ rendered[i] # texts[i]}

(* Faulty: a renderer that goes away stays among those that play. *)
UnmountedSilently == {}

(* Renderers whose text is gone no longer play. *)
Unmounted == DOMAIN rendered \ DOMAIN texts

Flush ==
  /\ rendered # texts \/ animated # (streaming \/ animate)
  /\ rendered' = texts /\ animated' = (streaming \/ animate)
  /\ shown' = [i \in DOMAIN texts |-> Watched(i)]
  /\ LET starts == {i \in Changed : Plays(i) /\ Watched(i) # texts[i]}
         quiet  == {i \in Changed : ~Plays(i)}
         ends   == {i \in Changed : Plays(i) /\ Watched(i) = texts[i]}
     IN /\ playing' = (playing \cup starts) \ (ends \cup Unmounted)
        /\ timers' = (timers \cup starts) \ (quiet \cup (DOMAIN rendered \ DOMAIN texts))
  /\ UNCHANGED store

(* canAdvance *)
CanAdvance(i) == \A j \in playing : j >= i

Step(left) ==
  LET smooth == (left + Smooth - 1) \div Smooth
      step   == IF smooth > 1 THEN smooth ELSE 1
  IN IF step > MaxStep THEN MaxStep ELSE step

(* Faulty: the timer ends and the message is not told. *)
EndsSilently(i) == timers' = timers \ {i} /\ UNCHANGED playing

(* The text is shown in full: setPlaying(false), and no timer is set again. *)
Ends(i) == timers' = timers \ {i} /\ playing' = playing \ {i}

(* advance; until an earlier text is shown, the timer is only set again. *)
Advance(i) ==
  /\ i \in timers /\ CanAdvance(i)
  /\ LET left == rendered[i].size - shown[i].size
         now  == shown[i].size + (IF Step(left) < left THEN Step(left) ELSE left)
     IN /\ shown' = [shown EXCEPT ![i] = [rendered[i] EXCEPT !.size = now]]
        /\ IF now = rendered[i].size
             THEN Ends(i)
             ELSE UNCHANGED <<timers, playing>>
  /\ UNCHANGED <<store, rendered, animated>>

Next ==
  \/ Chunk \/ NewText \/ Done \/ Untick \/ Flush
  \/ \E list \in Lists : Snapshot(list)
  \/ \E i \in timers : Advance(i)

(* A flush and a tick are microtasks, and the timers of a mounted renderer   *)
(* fire; what the server sends is up to the server.                         *)
Fairness ==
  /\ WF_vars(Flush) /\ WF_vars(Untick)
  /\ \A i \in 1 .. MaxTexts : WF_vars(i \in timers /\ Advance(i))

Spec == Init /\ [][Next]_vars

FairSpec == Spec /\ Fairness

-----------------------------------------------------------------------------
(* Properties *)

(* visibleBlocks: of a completed answer that is the latest *)
Suggests == ~animated /\ ~animate /\ playing = {}

(* Whatever chunks, snapshots and the end of the answer arrive in one flush, *)
(* the message counts as playing exactly the texts that are not shown in     *)
(* full, each of them has a timer to go on with, and no suggestion comes     *)
(* before the texts are there.                                              *)
PlaysOut ==
  /\ playing = {i \in DOMAIN rendered : shown[i] # rendered[i]}
  /\ playing \subseteq timers
  /\ Suggests => shown = rendered

(* Playing ends: once the answer is settled and its texts stay as they are,  *)
(* each is shown in full, nothing plays any more and the suggestions come,   *)
(* however many texts wait for each other.                                  *)
TextsEnd ==
  <>[]~streaming /\ <>[][texts' = texts]_vars => <>[](Suggests /\ shown = texts)
=============================================================================
