------------------------------ MODULE Following ------------------------------
(***************************************************************************)
(* The list of messages follows the answer while it grows, unless the        *)
(* reader has scrolled up to read.  Wheel, keys, touch and pressing the       *)
(* scroll bar tell that the reader means to scroll.  The listeners are        *)
(* passive: the browser moves the list when it likes, and the scroll event,  *)
(* the next animation frame and the tick after a resize come before or after *)
(* that, in any order.                                                      *)
(*                                                                         *)
(* Heights count in units of a few pixels.  Definitions marked "Faulty" are  *)
(* plausible bugs in the definition after them and not part of the           *)
(* specification.                                                           *)
(***************************************************************************)
EXTENDS Integers

CONSTANTS
  Heights,    \* of the content
  Views,      \* heights of the list
  Slack       \* how far from the end still counts as the bottom

VARIABLES
  height, view, top,     \* scrollHeight, clientHeight, scrollTop
  following, intent,
  last,                  \* what the list looked like at the last scroll
  panel,                 \* the scrollTop to go back to while a result is enlarged, or -1
  scrolled,              \* a scroll event is under way
  frame, tick,           \* the animation frame and the tick that were asked for
  announced,             \* the reader means to scroll, and nothing has taken it back since
  reading                \* the reader has scrolled up, and the list should know

list == <<height, view, top>>

asked == <<scrolled, frame, tick>>

reader == <<announced, reading>>

vars == <<list, following, intent, last, panel, asked, reader>>

MostTop(h, v) == IF h > v THEN h - v ELSE 0

Clamped(t, h, v) == IF t > MostTop(h, v) THEN MostTop(h, v) ELSE t

(* isAtBottom *)
IsAtBottom(t) == height - t - view <= Slack

Looks(t) == [top |-> t, height |-> height, view |-> view]

Init ==
  /\ height \in Heights /\ view \in Views /\ top = 0
  /\ following = TRUE /\ intent = FALSE
  /\ last = [top |-> 0, height |-> 0, view |-> 0]
  /\ panel = -1
  /\ scrolled = FALSE /\ frame = FALSE /\ tick = TRUE
  /\ announced = FALSE /\ reading = FALSE

-----------------------------------------------------------------------------
(* The content or the list changes its size: the browser keeps the position *)
(* where it can, and the ResizeObserver asks for scrollToBottom.            *)

Resize(h, v) ==
  /\ <<h, v>> # <<height, view>>
  /\ height' = h /\ view' = v /\ top' = Clamped(top, h, v)
  /\ scrolled' = (scrolled \/ top' # top)
  /\ tick' = TRUE
  /\ reading' = (reading /\ h - top' - v > Slack)
  /\ UNCHANGED <<following, intent, last, panel, frame, announced>>

(* A wheel, touch or key event, or the scroll bar is pressed. *)

(* Faulty: following stops when the scroll event is handled, not before. *)
HandleIntentLater ==
  /\ intent' = TRUE /\ frame' = TRUE
  /\ UNCHANGED following

HandleIntent ==
  /\ intent' = TRUE /\ following' = FALSE /\ frame' = TRUE

Intend ==
  /\ panel = -1
  /\ HandleIntent
  /\ announced' = TRUE
  /\ UNCHANGED <<list, last, panel, scrolled, tick, reading>>

(* The browser moves the list: for such an event, in one or more steps, for  *)
(* a drag of the scroll bar that goes on, or for a search in the page.      *)
Move(t) ==
  /\ panel = -1 /\ t \in 0 .. MostTop(height, view) /\ t # top
  /\ top' = t /\ scrolled' = TRUE
  /\ reading' = (~IsAtBottom(t) /\ (announced \/ ~following))
  /\ UNCHANGED <<height, view, following, intent, last, panel, frame, tick, announced>>

(* The animation frame after the last intent *)
Frame ==
  /\ frame /\ frame' = FALSE
  /\ IF intent /\ IsAtBottom(top)
       THEN following' = TRUE /\ intent' = FALSE /\ announced' = FALSE
       ELSE UNCHANGED <<following, intent, announced>>
  /\ UNCHANGED <<list, last, panel, scrolled, tick, reading>>

(* shouldPauseFollowing *)
ShouldPause ==
  \/ intent
  \/ /\ height = last.height /\ view = last.view
     /\ top < last.top

(* It came up, and nothing but that has changed since the last scroll. *)
CameUp == ~IsAtBottom(top) /\ last = [Looks(top) EXCEPT !.top = last.top] /\ top < last.top

HandleScroll ==
  /\ scrolled /\ scrolled' = FALSE
  /\ IF panel # -1 THEN UNCHANGED <<following, intent, last, reader>>
     ELSE /\ following' = IF intent \/ ShouldPause \/ ~following THEN IsAtBottom(top) ELSE TRUE
          /\ intent' = FALSE
          /\ last' = Looks(top)
          /\ announced' = FALSE
          /\ reading' = (reading \/ CameUp)
  /\ UNCHANGED <<list, panel, frame, tick>>

(* scrollToBottom, in the tick after it was asked for *)
ScrollToBottom ==
  /\ tick /\ tick' = FALSE
  /\ IF panel = -1 /\ following
       THEN /\ top' = MostTop(height, view)
            /\ last' = Looks(top')
            /\ scrolled' = (scrolled \/ top' # top)
       ELSE UNCHANGED <<top, last, scrolled>>
  /\ UNCHANGED <<height, view, following, intent, panel, frame, reader>>

(* The button that returns to the latest, a question sent, another          *)
(* conversation opened: following again.                                    *)
ReturnToLatest ==
  /\ panel = -1
  /\ following' = TRUE /\ intent' \in {intent, FALSE} /\ tick' = TRUE
  /\ announced' = FALSE /\ reading' = FALSE
  /\ UNCHANGED <<list, last, panel, scrolled, frame>>

(* A result is enlarged, or its evidence shown, and closed again. *)
OpenPanel ==
  /\ panel = -1
  /\ panel' = top /\ following' = FALSE
  /\ UNCHANGED <<list, intent, last, asked, reader>>

ClosePanel ==
  /\ panel # -1 /\ panel' = -1
  /\ top' = Clamped(panel, height, view)
  /\ scrolled' = (scrolled \/ top' # top)
  /\ following' = IsAtBottom(top')
  /\ announced' = (announced /\ ~following')
  /\ reading' = (reading /\ ~IsAtBottom(top'))
  /\ UNCHANGED <<height, view, intent, last, frame, tick>>

Next ==
  \/ \E h \in Heights, v \in Views : Resize(h, v)
  \/ \E t \in Heights \cup {0} : Move(t)
  \/ Intend \/ Frame \/ HandleScroll \/ ScrollToBottom
  \/ ReturnToLatest \/ OpenPanel \/ ClosePanel

Spec == Init /\ [][Next]_vars

-----------------------------------------------------------------------------
(* Properties *)

(* Whoever scrolled up to read keeps his place: however the answer grows,   *)
(* and whichever of the scroll event, the frame and the tick comes first,   *)
(* the list does not follow again before he is at the bottom or asks for    *)
(* the latest.  That is for moves the list hears of: it moves while          *)
(* following has stopped, for the event that announced the move or earlier; *)
(* or the scroll event finds it further up and the sizes as they were.  It   *)
(* does not where the frame, or the event of an earlier scroll, still finds *)
(* the list at the bottom and takes the announcement back, and the content  *)
(* grows before the scroll event of the move.                               *)
KeepsPlace == reading => ~following
=============================================================================
