-------------------------------- MODULE MCTab -------------------------------
(***************************************************************************)
(* What must happen in the end in a tab that watches, in one run: its event *)
(* loop comes past every frame, and its page plays the texts of an answer   *)
(* to the end.  The page waits for nothing of the loop but what it is given, *)
(* so a behaviour is one of the loop or one of the page; the part that does *)
(* not run stays as it begins, where none of its fair actions is enabled.   *)
(***************************************************************************)
EXTENDS ChatClient

CONSTANT g1

CONSTANTS Paragraphs, Sizes, Versions, Smooth, MaxStep

VARIABLES
  part,
  texts, streaming, animate, untick, rendered, animated, displayed, timers, playing

playback == <<texts, streaming, animate, untick, rendered, animated, displayed, timers, playing>>

Y == INSTANCE Playback WITH MaxTexts <- Paragraphs, MaxSize <- Sizes, shown <- displayed

-----------------------------------------------------------------------------
TabInit == part \in {"loop", "page"} /\ Init /\ Y!Init

TabNext ==
  /\ UNCHANGED part
  /\ \/ part = "loop" /\ Next /\ UNCHANGED playback
     \/ part = "page" /\ Y!Next /\ UNCHANGED vars

tab == <<part, vars, playback>>

TabSpec == TabInit /\ [][TabNext]_tab /\ Fairness /\ Y!Fairness

-----------------------------------------------------------------------------
(* Playing ends, and the suggestions come. *)
TextsEnd == part = "page" => Y!TextsEnd
=============================================================================
