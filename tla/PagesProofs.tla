------------------------------ MODULE PagesProofs ---------------------------
(***************************************************************************)
(* Safety of the pages, for every value of their constants.  What an answer *)
(* shows is in BlocksProofs.                                               *)
(***************************************************************************)
EXTENDS MCPages, SequenceTheorems, FiniteSetTheorems, WellFoundedInduction, TLAPS

(* A step is one of the part that runs. *)
LEMMA PartStep ==
  ASSUME [AllNext]_all
  PROVE  /\ UNCHANGED part
         /\ part = "paging" => P!Next \/ UNCHANGED paging
         /\ part = "editor" => M!Next \/ UNCHANGED editor
         /\ part = "memories" => L!Next \/ UNCHANGED memories
         /\ part = "following" => F!Next \/ UNCHANGED scrolling
         /\ part = "playback" => Y!Next \/ UNCHANGED playback
         /\ part = "comments" => C!Next \/ UNCHANGED comments
         /\ part = "suggestions" => G!Next \/ UNCHANGED suggestions
         /\ part = "uploading" => U!Next \/ UNCHANGED uploading
BY DEF AllNext, Only, all

-----------------------------------------------------------------------------
(* Following *)

(* Whoever reads is away from the bottom, so that no handler takes what it   *)
(* finds for a return to the bottom.                                        *)
ReaderKept ==
  /\ height \in Nat /\ window \in Nat /\ top \in Nat /\ panel \in Nat \cup {-1}
  /\ announced => ~following
  /\ reading => ~following /\ ~F!IsAtBottom(top)

LEMMA ReaderInit ==
  ASSUME F!Init
  PROVE  ReaderKept
BY PagesAssumption DEF F!Init, ReaderKept

LEMMA Clamps ==
  ASSUME NEW t \in Nat, NEW h \in Nat, NEW v \in Nat
  PROVE  F!Clamped(t, h, v) \in Nat /\ F!MostTop(h, v) \in Nat
BY DEF F!Clamped, F!MostTop

LEMMA ReaderStep ==
  ASSUME ReaderKept, F!Next
  PROVE  ReaderKept'
<1> USE DEF ReaderKept
<1>0. Slack \in Nat /\ Heights \subseteq Nat /\ Views \subseteq Nat
  BY PagesAssumption
<1>1. ASSUME NEW h \in Heights, NEW v \in Views, F!Resize(h, v) PROVE ReaderKept'
  <2>1. h \in Nat /\ v \in Nat
    BY <1>0
  <2>2. PICK t \in Nat : top' = t
    BY <1>1, <2>1, Clamps DEF F!Resize
  <2>3. /\ reading' => reading /\ h - t - v > Slack
        /\ height' = h /\ window' = v /\ UNCHANGED <<following, announced, panel>>
    BY <1>1, <2>2 DEF F!Resize
  <2> QED BY <1>0, <2>1, <2>2, <2>3 DEF F!IsAtBottom
<1>2. ASSUME NEW t \in Heights \cup {0}, F!Move(t) PROVE ReaderKept'
  <2>1. t \in Nat
    BY <1>0
  <2> QED BY <1>0, <1>2, <2>1 DEF F!Move, F!IsAtBottom
<1>3. CASE F!Intend
  BY <1>3 DEF F!Intend, F!HandleIntent, F!IsAtBottom, F!list
<1>4. CASE F!Frame
  BY <1>4 DEF F!Frame, F!IsAtBottom, F!list
<1>5. CASE F!HandleScroll
  <2>1. /\ UNCHANGED <<height, window, top, panel>>
        /\ ~following /\ ~F!IsAtBottom(top) => ~following'
        /\ panel # -1 => UNCHANGED <<following, announced, reading>>
        /\ panel = -1 => announced' = FALSE
    BY <1>5 DEF F!HandleScroll, F!list, F!reader
  <2>2. reading' => reading \/ F!CameUp
    BY <1>5 DEF F!HandleScroll, F!reader
  <2>3. F!CameUp => ~F!IsAtBottom(top) /\ F!ShouldPause
    BY DEF F!CameUp, F!ShouldPause, F!Looks
  <2>4. panel = -1 /\ F!ShouldPause => following' = F!IsAtBottom(top)
    BY <1>5 DEF F!HandleScroll
  <2>5. reading' => ~F!IsAtBottom(top) /\ ~following'
    BY <2>1, <2>2, <2>3, <2>4
  <2>6. announced' => ~following'
    BY <2>1
  <2> QED BY <2>1, <2>5, <2>6 DEF F!IsAtBottom
<1>6. CASE F!ScrollToBottom
  <2>1. F!MostTop(height, window) \in Nat
    BY Clamps
  <2> QED BY <1>6, <2>1 DEF F!ScrollToBottom, F!IsAtBottom, F!reader
<1>7. CASE F!ReturnToLatest
  BY <1>7 DEF F!ReturnToLatest, F!list
<1>8. CASE F!OpenPanel
  BY <1>8 DEF F!OpenPanel, F!list, F!reader, F!IsAtBottom
<1>9. CASE F!ClosePanel
  <2>1. panel \in Nat
    BY <1>9 DEF F!ClosePanel
  <2>2. F!Clamped(panel, height, window) \in Nat
    BY <2>1, Clamps
  <2> QED BY <1>9, <2>2 DEF F!ClosePanel, F!IsAtBottom
<1> QED BY <1>1, <1>2, <1>3, <1>4, <1>5, <1>6, <1>7, <1>8, <1>9 DEF F!Next

(* A reader who scrolled up in ChatDetail keeps the place, for any heights  *)
(* and whatever counts as the bottom: from when the list is found above the *)
(* bottom with following stopped, or by a scroll event that shows it came   *)
(* up, no scroll event, frame or tick makes it follow the answer again.      *)
THEOREM PlaceKept == AllSpec => []KeepsPlace
<1>1. AllInit => (part = "following" => ReaderKept)
  BY ReaderInit DEF AllInit
<1>2. (part = "following" => ReaderKept) /\ [AllNext]_all => (part = "following" => ReaderKept)'
  <2>1. ReaderKept /\ UNCHANGED scrolling => ReaderKept'
    BY DEF ReaderKept, scrolling, F!IsAtBottom
  <2> QED BY <2>1, PartStep, ReaderStep
<1>3. (part = "following" => ReaderKept) => KeepsPlace
  BY DEF ReaderKept, KeepsPlace, F!KeepsPlace
<1> QED BY <1>1, <1>2, <1>3, PTL DEF AllSpec
-----------------------------------------------------------------------------
(* Suggestions *)

CallRecords ==
  [by : {"service", "tab"}, revision : Nat, at : {"sent", "keyed", "generating", "answered"}, items : Nat]

(* A call of the tab that has not been overtaken by a save has read, or got  *)
(* from a row under the key of what it had read, a schema that is not older  *)
(* than the last save; and a save under way leaves a newer one behind.       *)
SchemasKept ==
  /\ schema \in Nat /\ revision \in Nat /\ floor \in Nat /\ floor <= schema
  /\ saving.at = "committed" => saving.left \in Nat /\ floor <= saving.left /\ saving.left <= schema
  /\ stored # None => stored.key = stored.items
  /\ call \in [Calls -> {None} \cup CallRecords]
  /\ \A q \in Calls : call[q] # None =>
       /\ call[q].items <= schema
       /\ call[q].revision <= revision
       /\ call[q].by = "tab" /\ call[q].revision = revision /\ call[q].at # "sent" => call[q].items >= floor
  /\ shown # None => shown \in Nat /\ shown >= floor

LEMMA SchemasInit ==
  ASSUME G!Init
  PROVE  SchemasKept
BY DEF G!Init, SchemasKept

LEMMA SchemasStep ==
  ASSUME SchemasKept, G!Next
  PROVE  SchemasKept'
<1> USE DEF SchemasKept, G!tab
<1>1. CASE G!SchemaChange
  BY <1>1 DEF G!SchemaChange, CallRecords
<1>2. CASE G!Forget
  BY <1>2 DEF G!Forget
<1>3. CASE G!Save
  BY <1>3 DEF G!Save, CallRecords
<1>4. CASE G!Saved
  BY <1>4 DEF G!Saved, CallRecords
<1>5. CASE G!Clear
  BY <1>5 DEF G!Clear
<1>6. ASSUME NEW q \in Calls, G!Trigger(q) PROVE SchemasKept'
  BY <1>6 DEF G!Trigger, CallRecords
<1>7. ASSUME NEW q \in Calls, G!ReadSchema(q) PROVE SchemasKept'
  <2> DEFINE c == [call[q] EXCEPT !.at = "keyed", !.items = schema]
  <2>1. /\ call[q] \in CallRecords /\ call' = [call EXCEPT ![q] = c]
        /\ UNCHANGED <<schema, stored, shown, saving, revision, floor>>
    BY <1>7 DEF G!ReadSchema
  <2>2. c \in CallRecords /\ c.items = schema /\ c.revision = call[q].revision
    BY <2>1 DEF CallRecords
  <2> HIDE DEF c
  <2> QED BY <1>7, <2>1, <2>2 DEF G!ReadSchema
<1>8. ASSUME NEW q \in Calls, G!Hit(q) PROVE SchemasKept'
  BY <1>8 DEF G!Hit, G!SameKey, CallRecords
<1>9. ASSUME NEW q \in Calls, G!Miss(q) PROVE SchemasKept'
  BY <1>9 DEF G!Miss, CallRecords
<1>10. ASSUME NEW q \in Calls, G!Store(q) PROVE SchemasKept'
  BY <1>10 DEF G!Store, CallRecords
<1>11. ASSUME NEW q \in Calls, G!Over(q) PROVE SchemasKept'
  BY <1>11 DEF G!Over
<1>12. ASSUME NEW q \in Calls, G!Fetch(q) PROVE SchemasKept'
  BY <1>12 DEF G!Fetch, G!Sent, CallRecords
<1>13. ASSUME NEW q \in Calls, G!Reply(q) PROVE SchemasKept'
  BY <1>13 DEF G!Reply, G!SameRevision, G!After, G!Sent, CallRecords
<1>14. ASSUME NEW q \in Calls, G!ReplyLost(q) PROVE SchemasKept'
  BY <1>14 DEF G!ReplyLost, G!After, G!Sent, CallRecords
<1> QED BY <1>1, <1>2, <1>3, <1>4, <1>5, <1>6, <1>7, <1>8, <1>9, <1>10, <1>11, <1>12, <1>13, <1>14 DEF G!Next

(* After a save of comments the tab shows only questions of the schema with *)
(* them, or of a later one, for any number of calls under way and any       *)
(* changes of the schema: no late reply and no cached row brings older ones. *)
THEOREM CurrentShown == AllSpec => []ShownAreCurrent
<1>1. AllInit => (part = "suggestions" => SchemasKept)
  BY SchemasInit DEF AllInit
<1>2. (part = "suggestions" => SchemasKept) /\ [AllNext]_all => (part = "suggestions" => SchemasKept)'
  <2>1. SchemasKept /\ UNCHANGED suggestions => SchemasKept'
    BY DEF SchemasKept, suggestions
  <2> QED BY <2>1, PartStep, SchemasStep
<1>3. (part = "suggestions" => SchemasKept) => ShownAreCurrent
  BY DEF SchemasKept, ShownAreCurrent, G!ShownAreCurrent
<1> QED BY <1>1, <1>2, <1>3, PTL DEF AllSpec
-----------------------------------------------------------------------------
(* Comments *)

Copies == [Columns -> C!Comment]

Asks ==
  [what : {"inspect", "generate", "refresh", "save"}, about : SUBSET Columns,
   texts : {<<>>} \cup UNION {[S -> Wordings] : S \in SUBSET Columns},
   shown : {<<>>} \cup Copies, seen : Copies, at : {"sent", "answered"}, reply : {<<>>} \cup Copies]

(* An editor shows beside a ticked column what it showed when it was ticked,  *)
(* and a save under way carries both; nothing stays ticked that a reply might *)
(* change under the eyes of the user.                                        *)
EditorKept(e) ==
  /\ \A c \in ticked[e] : seen[e][c] = columns[e][c]
  /\ suggested[e] # {} => columns[e] \in Copies
  /\ request[e] # None =>
       /\ request[e].what = "inspect" => ticked[e] = {} /\ suggested[e] = {}
       /\ request[e].what = "generate" => columns[e] \in Copies
       /\ request[e].what = "save" => /\ ticked[e] \subseteq request[e].about
                                      /\ \A c \in request[e].about : request[e].seen[c] = request[e].shown[c]
                                      /\ request[e].texts \in [request[e].about -> Wordings]
       /\ request[e].at = "answered" => request[e].reply \in Copies

CommentTypes ==
  /\ official \in Copies
  /\ columns \in [Editors -> {<<>>} \cup Copies]
  /\ suggested \in [Editors -> SUBSET Columns] /\ ticked \in [Editors -> SUBSET Columns]
  /\ seen \in [Editors -> Copies]
  /\ request \in [Editors -> {None} \cup Asks]

CommentsKept ==
  /\ CommentTypes
  /\ \A e \in Editors : EditorKept(e)
  /\ C!CommentsReviewed

LEMMA CommentsInit ==
  ASSUME C!Init
  PROVE  CommentsKept
BY DEF C!Init, CommentsKept, CommentTypes, EditorKept, C!CommentsReviewed, Copies, C!Nothing, C!Comment

LEMMA Sending ==
  ASSUME CommentsKept, NEW e \in Editors, NEW what \in {"inspect", "generate", "refresh", "save"},
         NEW about \in SUBSET Columns, NEW new \in {<<>>} \cup UNION {[S -> Wordings] : S \in SUBSET Columns},
         C!Sends(e, what, about, new)
  PROVE  /\ request' \in [Editors -> {None} \cup Asks]
         /\ request'[e].what = what /\ request'[e].about = about /\ request'[e].at = "sent"
         /\ request'[e].texts = new /\ request'[e].shown = columns[e] /\ request'[e].seen = seen[e]
         /\ \A d \in Editors : d # e => request'[d] = request[d]
<1> DEFINE r == [what |-> what, about |-> about, texts |-> new, shown |-> columns[e], seen |-> seen[e],
                 at |-> "sent", reply |-> C!Nothing]
<1>1. request' = [request EXCEPT ![e] = r]
  BY DEF C!Sends
<1>2. /\ r \in Asks
      /\ r.what = what /\ r.about = about /\ r.at = "sent" /\ r.texts = new /\ r.shown = columns[e] /\ r.seen = seen[e]
  BY DEF Asks, CommentsKept, CommentTypes, C!Nothing
<1> HIDE DEF r
<1> QED BY <1>1, <1>2 DEF CommentsKept, CommentTypes

(* The service answers what it was asked. *)
Answering(e, text) ==
  /\ request[e] # None
  /\ request' = [request EXCEPT ![e] = [request[e] EXCEPT !.at = "answered", !.reply = text]]

LEMMA Replying ==
  ASSUME CommentsKept, NEW e \in Editors, NEW text \in Copies, Answering(e, text)
  PROVE  /\ request' \in [Editors -> {None} \cup Asks]
         /\ request'[e].what = request[e].what /\ request'[e].about = request[e].about
         /\ request'[e].texts = request[e].texts
         /\ request'[e].shown = request[e].shown /\ request'[e].seen = request[e].seen
         /\ request'[e].at = "answered" /\ request'[e].reply = text
         /\ \A d \in Editors : d # e => request'[d] = request[d]
<1> DEFINE r == [request[e] EXCEPT !.at = "answered", !.reply = text]
<1>1. request[e] \in Asks /\ request' = [request EXCEPT ![e] = r]
  BY DEF Answering, CommentsKept, CommentTypes
<1>2. /\ r \in Asks /\ r.what = request[e].what /\ r.about = request[e].about
      /\ r.texts = request[e].texts /\ r.shown = request[e].shown /\ r.seen = request[e].seen /\ r.at = "answered" /\ r.reply = text
  BY <1>1 DEF Asks
<1> HIDE DEF r
<1> QED BY <1>1, <1>2 DEF CommentsKept, CommentTypes

(* The others see nothing of what an editor does. *)
LEMMA OneEditor ==
  ASSUME CommentsKept, NEW e \in Editors, CommentTypes', EditorKept(e)', C!CommentsReviewed',
         \A d \in Editors : d # e =>
           /\ columns'[d] = columns[d] /\ suggested'[d] = suggested[d] /\ ticked'[d] = ticked[d]
           /\ seen'[d] = seen[d] /\ request'[d] = request[d]
  PROVE  CommentsKept'
<1>1. ASSUME NEW d \in Editors, d # e PROVE EditorKept(d)'
  BY <1>1 DEF CommentsKept, EditorKept
<1> QED BY <1>1 DEF CommentsKept

LEMMA Answered ==
  ASSUME CommentsKept, NEW e \in Editors, NEW reply \in Copies, Answering(e, reply),
         official' \in Copies, C!CommentsReviewed', UNCHANGED <<columns, suggested, ticked, seen>>
  PROVE  CommentsKept'
<1>1. /\ request' \in [Editors -> {None} \cup Asks]
      /\ request'[e].what = request[e].what /\ request'[e].about = request[e].about
      /\ request'[e].texts = request[e].texts
      /\ request'[e].shown = request[e].shown /\ request'[e].seen = request[e].seen
      /\ request'[e].at = "answered" /\ request'[e].reply = reply
      /\ \A d \in Editors : d # e => request'[d] = request[d]
  BY Replying
<1>2. EditorKept(e) /\ request[e] # None
  BY DEF CommentsKept, Answering
<1>3. EditorKept(e)'
  BY <1>1, <1>2 DEF EditorKept
<1>4. CommentTypes'
  BY <1>1 DEF CommentsKept, CommentTypes
<1> QED BY <1>1, <1>3, <1>4, OneEditor

LEMMA CommentsStep ==
  ASSUME CommentsKept, C!Next
  PROVE  CommentsKept'
<1> USE DEF CommentTypes, C!CommentsReviewed
<1>0. CommentTypes /\ C!CommentsReviewed /\ \A e \in Editors : EditorKept(e)
  BY DEF CommentsKept
<1>1. ASSUME NEW e \in Editors, C!Open(e) PROVE CommentsKept'
  <2>1. /\ request' \in [Editors -> {None} \cup Asks]
        /\ request'[e].what = "inspect" /\ request'[e].at = "sent"
        /\ \A d \in Editors : d # e => request'[d] = request[d]
    BY <1>1, Sending DEF C!Open, C!Nothing
  <2>2. EditorKept(e)'
    BY <1>0, <1>1, <2>1 DEF C!Open, EditorKept
  <2> QED BY <1>0, <1>1, <2>1, <2>2, OneEditor DEF C!Open, C!Nothing
<1>2. ASSUME NEW e \in Editors, C!Generate(e) PROVE CommentsKept'
  <2>1. /\ request' \in [Editors -> {None} \cup Asks]
        /\ request'[e].what = "generate" /\ request'[e].at = "sent"
        /\ \A d \in Editors : d # e => request'[d] = request[d]
    BY <1>2, Sending DEF C!Generate, C!Nothing
  <2>2. EditorKept(e)'
    BY <1>0, <1>2, <2>1 DEF C!Generate, C!Nothing, EditorKept
  <2> QED BY <1>0, <1>2, <2>1, <2>2, OneEditor DEF C!Generate
<1>3. ASSUME NEW e \in Editors, C!RefreshOriginals(e) PROVE CommentsKept'
  <2>1. /\ request' \in [Editors -> {None} \cup Asks]
        /\ request'[e].what = "refresh" /\ request'[e].at = "sent"
        /\ \A d \in Editors : d # e => request'[d] = request[d]
    BY <1>3, Sending DEF C!RefreshOriginals, C!Nothing
  <2>2. EditorKept(e)'
    BY <1>0, <1>3, <2>1 DEF C!RefreshOriginals, EditorKept
  <2> QED BY <1>0, <1>3, <2>1, <2>2, OneEditor DEF C!RefreshOriginals
<1>4. ASSUME NEW e \in Editors, C!Save(e) PROVE CommentsKept'
  <2>1. PICK new \in [ticked[e] -> Wordings] : C!Sends(e, "save", ticked[e], new)
    BY <1>4 DEF C!Save
  <2>2. ticked[e] \in SUBSET Columns
    BY <1>0
  <2>3. new \in {<<>>} \cup UNION {[S -> Wordings] : S \in SUBSET Columns}
    BY <2>2
  <2>4. /\ request' \in [Editors -> {None} \cup Asks]
        /\ request'[e].texts = new /\ request'[e].what = "save" /\ request'[e].about = ticked[e]
        /\ request'[e].at = "sent" /\ request'[e].shown = columns[e] /\ request'[e].seen = seen[e]
        /\ \A d \in Editors : d # e => request'[d] = request[d]
    <3> HIDE DEF CommentTypes, C!CommentsReviewed
    <3> DEFINE about == ticked[e]
    <3>1. about \in SUBSET Columns /\ C!Sends(e, "save", about, new)
      BY <2>1, <2>2
    <3> HIDE DEF about
    <3>2. "save" \in {"inspect", "generate", "refresh", "save"}
      OBVIOUS
    <3>3. /\ request' \in [Editors -> {None} \cup Asks]
          /\ request'[e].what = "save" /\ request'[e].about = about /\ request'[e].at = "sent"
          /\ request'[e].texts = new /\ request'[e].shown = columns[e] /\ request'[e].seen = seen[e]
          /\ \A d \in Editors : d # e => request'[d] = request[d]
      BY <2>3, <3>1, <3>2, Sending
    <3> QED BY <3>3 DEF about
  <2>5. EditorKept(e)'
    <3>1. new \in [request'[e].about -> Wordings] /\ new = request'[e].texts
      BY <2>1, <2>4
    <3>2. UNCHANGED <<columns, suggested, ticked, seen>> /\ EditorKept(e)
      BY <1>0, <1>4 DEF C!Save, EditorKept
    <3> QED BY <2>4, <3>1, <3>2 DEF EditorKept
  <2> QED BY <1>0, <1>4, <2>4, <2>5, OneEditor DEF C!Save
<1>5. ASSUME NEW e \in Editors, NEW c \in Columns, C!Tick(e, c) PROVE CommentsKept'
  <2>1. columns[e] \in Copies /\ request[e] = None
    BY <1>0, <1>5 DEF C!Tick, C!Idle, EditorKept
  <2>2. CommentTypes'
    BY <1>0, <1>5, <2>1 DEF C!Tick, Copies
  <2>3. EditorKept(e)'
    BY <1>0, <1>5, <2>1 DEF C!Tick, EditorKept, Copies
  <2> QED BY <1>0, <1>5, <2>2, <2>3, OneEditor DEF C!Tick
<1>6. ASSUME NEW e \in Editors, NEW c \in Columns, C!Untick(e, c) PROVE CommentsKept'
  <2>1. EditorKept(e)'
    BY <1>0, <1>6 DEF C!Untick, C!Idle, EditorKept
  <2> QED BY <1>0, <1>6, <2>1, OneEditor DEF C!Untick
<1>7. ASSUME NEW e \in Editors, C!Inspect(e) PROVE CommentsKept'
  <2>1. /\ official \in Copies /\ Answering(e, official) /\ request[e].what # "save"
        /\ UNCHANGED <<official, columns, suggested, ticked, wrote, seen>>
    BY <1>0, <1>7 DEF C!Inspect, C!Asks, C!Replies, Answering
  <2> QED BY <1>0, <2>1, Answered
<1>8. ASSUME NEW e \in Editors, C!ServeSave(e) PROVE CommentsKept'
  <2>1. /\ request[e] # None /\ request[e].what = "save" /\ request[e].about \subseteq Columns
        /\ request[e].texts \in [request[e].about -> Wordings] /\ C!OriginalsMatch(e)
    BY <1>0, <1>8 DEF C!ServeSave, C!Asks, EditorKept, Asks
  <2>2. PICK after \in Copies : official' = after
    BY <1>0, <1>8, <2>1 DEF C!ServeSave, Copies, C!Comment
  <2>3. Answering(e, after) /\ UNCHANGED <<columns, suggested, ticked, seen>>
    BY <1>8, <2>1, <2>2 DEF C!ServeSave, C!Replies, Answering
  <2>4. \A c \in request[e].about : request[e].seen[c] = official[c]
    BY <1>0, <2>1 DEF C!OriginalsMatch, EditorKept
  <2>5. C!CommentsReviewed'
    BY <1>8, <2>4 DEF C!ServeSave
  <2> QED BY <1>0, <2>2, <2>3, <2>5, Answered
<1>9. ASSUME NEW e \in Editors, C!Fails(e) PROVE CommentsKept'
  <2>1. EditorKept(e)'
    BY <1>0, <1>9 DEF C!Fails, EditorKept
  <2> QED BY <1>0, <1>9, <2>1, OneEditor DEF C!Fails
<1>10. ASSUME NEW e \in Editors, C!Opened(e) PROVE CommentsKept'
  <2>1. request[e].reply \in Copies /\ request' = [request EXCEPT ![e] = None]
    BY <1>0, <1>10 DEF C!Opened, C!Arrives, EditorKept
  <2>2. EditorKept(e)'
    BY <1>0, <1>10, <2>1 DEF C!Opened, C!Arrives, EditorKept
  <2> QED BY <1>0, <1>10, <2>1, <2>2, OneEditor DEF C!Opened
<1>11. ASSUME NEW e \in Editors, C!Generated(e) PROVE CommentsKept'
  <2>1. /\ request[e].reply \in Copies /\ columns[e] \in Copies /\ request[e].about \in SUBSET Columns
        /\ request' = [request EXCEPT ![e] = None]
    BY <1>0, <1>11 DEF C!Generated, C!Arrives, EditorKept, Asks
  <2> DEFINE mixed == [c \in Columns |-> IF c \in request[e].about THEN request[e].reply[c] ELSE columns[e][c]]
  <2>2. mixed \in Copies /\ columns' = [columns EXCEPT ![e] = mixed]
    BY <1>11, <2>1 DEF C!Generated, Copies
  <2> HIDE DEF mixed
  <2>3. PICK cs \in SUBSET request[e].about : suggested' = [suggested EXCEPT ![e] = cs]
    BY <1>11 DEF C!Generated
  <2>4. ticked' = [ticked EXCEPT ![e] = {}] /\ UNCHANGED <<official, wrote, seen>>
    BY <1>11 DEF C!Generated
  <2>5. EditorKept(e)'
    BY <1>0, <2>1, <2>2, <2>4 DEF EditorKept
  <2> QED BY <1>0, <2>1, <2>2, <2>3, <2>4, <2>5, OneEditor
<1>12. ASSUME NEW e \in Editors, C!Refreshed(e) PROVE CommentsKept'
  <2>1. request[e].reply \in Copies /\ request' = [request EXCEPT ![e] = None]
    BY <1>0, <1>12 DEF C!Refreshed, C!Arrives, EditorKept
  <2>2. EditorKept(e)'
    BY <1>0, <1>12, <2>1 DEF C!Refreshed, C!StillTicked, EditorKept
  <2> QED BY <1>0, <1>12, <2>1, <2>2, OneEditor DEF C!Refreshed, C!StillTicked
<1>13. ASSUME NEW e \in Editors, C!Saved(e) PROVE CommentsKept'
  <2>1. /\ request[e].reply \in Copies /\ request' = [request EXCEPT ![e] = None]
        /\ ticked[e] \subseteq request[e].about
    BY <1>0, <1>13 DEF C!Saved, C!Arrives, EditorKept
  <2>2. EditorKept(e)'
    BY <1>0, <1>13, <2>1 DEF C!Saved, EditorKept
  <2> QED BY <1>0, <1>13, <2>1, <2>2, OneEditor DEF C!Saved
<1> QED BY <1>1, <1>2, <1>3, <1>4, <1>5, <1>6, <1>7, <1>8, <1>9, <1>10, <1>11, <1>12, <1>13 DEF C!Next

(* What the service overwrites when an editor of SchemaEnrichmentModal saves *)
(* is what that editor saw when the column was ticked, for any editors and  *)
(* columns, whatever the others save and whatever replies are lost.         *)
THEOREM NoCommentUnseen == AllSpec => []CommentsReviewed
<1>1. AllInit => (part = "comments" => CommentsKept)
  BY CommentsInit DEF AllInit
<1>2. (part = "comments" => CommentsKept) /\ [AllNext]_all => (part = "comments" => CommentsKept)'
  <2>1. CommentsKept /\ UNCHANGED comments => CommentsKept'
    BY DEF CommentsKept, CommentTypes, EditorKept, comments, C!CommentsReviewed
  <2> QED BY <2>1, PartStep, CommentsStep
<1>3. (part = "comments" => CommentsKept) => CommentsReviewed
  BY DEF CommentsKept, CommentsReviewed
<1> QED BY <1>1, <1>2, <1>3, PTL DEF AllSpec
-----------------------------------------------------------------------------
(* Playback *)

SomeText == [version : Versions, size : Nat]

(* Those renderers play whose text is not shown in full, and their timers run. *)
PlayKept ==
  /\ texts \in Seq(SomeText) /\ rendered \in Seq(SomeText)
  /\ displayed = [i \in DOMAIN rendered |-> displayed[i]]
  /\ playing \subseteq timers /\ timers \subseteq DOMAIN rendered
  /\ \A i \in DOMAIN rendered : i \in playing <=> displayed[i] # rendered[i]

LEMMA PlayInit ==
  ASSUME Y!Init
  PROVE  PlayKept
BY DEF Y!Init, PlayKept

LEMMA StepIsSize ==
  Y!Step(0) \in Nat
<1>1. PICK s \in Nat \ {0} : s = Smooth
  BY PagesAssumption
<1>2. (0 + s - 1) \div s = 0
  BY <1>1
<1> QED BY <1>1, <1>2, PagesAssumption DEF Y!Step

LEMMA PlayStep ==
  ASSUME PlayKept, Y!Next
  PROVE  PlayKept'
<1> USE DEF PlayKept
<1>1. ASSUME UNCHANGED <<rendered, displayed, playing, timers>>, texts' \in Seq(SomeText) PROVE PlayKept'
  BY <1>1
<1>2. CASE Y!Chunk
  <2>1. texts # <<>> /\ texts' = [texts EXCEPT ![Len(texts)].size = @ + 1]
    BY <1>2 DEF Y!Chunk
  <2>2. Len(texts) \in DOMAIN texts
    BY <2>1
  <2>3. PICK t \in SomeText : t = texts[Len(texts)]
    BY <2>2
  <2> DEFINE text == [t EXCEPT !.size = t.size + 1]
  <2>4. text \in SomeText
    BY DEF SomeText
  <2>5. texts' = [texts EXCEPT ![Len(texts)] = text]
    BY <2>1, <2>3
  <2> HIDE DEF text
  <2>6. texts' \in Seq(SomeText)
    BY <2>2, <2>4, <2>5
  <2> QED BY <1>1, <1>2, <2>6 DEF Y!Chunk, Y!Receive, Y!page
<1>3. CASE Y!NewText
  <2> DEFINE text == [version |-> CHOOSE v \in Versions : TRUE, size |-> 1]
  <2>1. text \in SomeText
    BY PagesAssumption DEF SomeText
  <2>2. texts' = Append(texts, text)
    BY <1>3 DEF Y!NewText
  <2> HIDE DEF text
  <2>3. texts' \in Seq(SomeText)
    BY <2>1, <2>2
  <2> QED BY <1>1, <1>3, <2>3 DEF Y!NewText, Y!Receive, Y!page
<1>4. CASE Y!Done
  BY <1>4 DEF Y!Done, Y!page
<1>5. CASE Y!Untick
  BY <1>5 DEF Y!Untick, Y!page
<1>6. ASSUME NEW lines \in Y!Lists, Y!Snapshot(lines) PROVE PlayKept'
  <2>1. PICK n \in 0 .. Paragraphs : lines \in [1 .. n -> Y!Texts]
    BY <1>6 DEF Y!Lists
  <2>2. n \in Nat /\ Y!Texts \subseteq SomeText
    BY <2>1, PagesAssumption DEF Y!Texts, SomeText
  <2>3. lines \in Seq(SomeText)
    BY <2>1, <2>2
  <2> QED BY <1>1, <1>6, <2>3 DEF Y!Snapshot, Y!page
<1>7. CASE Y!Flush
  <2>1. /\ rendered' = texts /\ texts' = texts
        /\ displayed' = [i \in DOMAIN texts |-> Y!Watched(i)]
    BY <1>7 DEF Y!Flush, Y!store
  <2> DEFINE starts == {i \in Y!Changed : Y!Plays(i) /\ Y!Watched(i) # texts[i]}
             quiet  == {i \in Y!Changed : ~Y!Plays(i)}
             ends   == {i \in Y!Changed : Y!Plays(i) /\ Y!Watched(i) = texts[i]}
  <2>2. /\ playing' = (playing \cup starts) \ (ends \cup Y!Unmounted)
        /\ timers' = (timers \cup starts) \ (quiet \cup (DOMAIN rendered \ DOMAIN texts))
    BY <1>7 DEF Y!Flush
  <2>3. timers' \subseteq DOMAIN texts /\ playing' \subseteq DOMAIN texts
    BY <2>2 DEF Y!Changed, Y!Unmounted
  <2>4. ASSUME NEW i \in DOMAIN texts
        PROVE  (i \in playing' <=> Y!Watched(i) # texts[i]) /\ (i \in playing' => i \in timers')
    <3>1. CASE i \notin Y!Changed
      <4>1. i \in DOMAIN rendered /\ rendered[i] = texts[i] /\ Y!Watched(i) = displayed[i]
        BY <3>1 DEF Y!Changed, Y!Watched
      <4>2. i \notin starts /\ i \notin quiet /\ i \notin ends /\ i \notin Y!Unmounted
        BY <3>1, <4>1 DEF Y!Unmounted
      <4>3. (i \in playing' <=> i \in playing) /\ (i \in playing => i \in timers')
        BY <2>2, <4>2
      <4> QED BY <4>1, <4>3
    <3>2. CASE i \in Y!Changed /\ ~Y!Plays(i)
      <4>1. i \notin playing /\ Y!Watched(i) = texts[i]
        BY <3>2 DEF Y!Changed, Y!Watched, Y!Plays
      <4>2. i \notin starts
        BY <3>2
      <4> QED BY <2>2, <4>1, <4>2
    <3>3. CASE i \in Y!Changed /\ Y!Plays(i) /\ Y!Watched(i) # texts[i]
      <4>1. i \in starts /\ i \notin ends /\ i \notin quiet /\ i \notin Y!Unmounted
        BY <3>3 DEF Y!Unmounted
      <4> QED BY <2>2, <3>3, <4>1
    <3>4. CASE i \in Y!Changed /\ Y!Plays(i) /\ Y!Watched(i) = texts[i]
      <4>1. i \in ends
        BY <3>4
      <4> QED BY <2>2, <3>4, <4>1
    <3> QED BY <3>1, <3>2, <3>3, <3>4
  <2> QED BY <2>1, <2>3, <2>4
<1>8. ASSUME NEW i \in timers, Y!Advance(i) PROVE PlayKept'
  <2> DEFINE left == rendered[i].size - displayed[i].size
             now  == displayed[i].size + (IF Y!Step(left) < left THEN Y!Step(left) ELSE left)
  <2>1. /\ displayed' = [displayed EXCEPT ![i] = [rendered[i] EXCEPT !.size = now]]
        /\ now = rendered[i].size => playing' = playing \ {i} /\ timers' = timers \ {i}
        /\ now # rendered[i].size => UNCHANGED <<playing, timers>>
        /\ UNCHANGED <<texts, rendered>>
    BY <1>8 DEF Y!Advance, Y!Ends, Y!store
  <2>0. i \in DOMAIN rendered
    BY <1>8
  <2>2. ASSUME displayed[i] = rendered[i] PROVE now = rendered[i].size
    <3>0. rendered[i] \in SomeText
      BY <2>0
    <3>1. PICK n \in Nat : n = rendered[i].size /\ n = displayed[i].size
      BY <2>2, <3>0 DEF SomeText
    <3>2. left = 0
      BY <3>1
    <3> QED BY <3>1, <3>2, StepIsSize
  <2>3. now = rendered[i].size <=> displayed'[i] = rendered[i]
    <3> HIDE DEF now
    <3>1. rendered[i] \in SomeText /\ displayed'[i] = [rendered[i] EXCEPT !.size = now]
      BY <2>0, <2>1
    <3> QED BY <3>1 DEF SomeText
  <2> HIDE DEF now
  <2>4. displayed' = [j \in DOMAIN rendered |-> displayed'[j]]
    BY <2>1
  <2>5. \A j \in DOMAIN rendered : j # i => displayed'[j] = displayed[j]
    BY <2>1
  <2>6. timers' \subseteq timers /\ playing' \subseteq timers'
    BY <2>1
  <2>7. ASSUME NEW j \in DOMAIN rendered PROVE j \in playing' <=> displayed'[j] # rendered[j]
    <3>1. CASE j # i
      <4>1. j \in playing' <=> j \in playing
        BY <2>1, <3>1
      <4> QED BY <2>5, <3>1, <4>1
    <3>2. CASE j = i
      BY <2>1, <2>2, <2>3, <3>2
    <3> QED BY <3>1, <3>2
  <2> QED BY <2>1, <2>4, <2>6, <2>7
<1> QED BY <1>2, <1>3, <1>4, <1>5, <1>6, <1>7, <1>8 DEF Y!Next

(* The texts a message counts as playing are those not on screen in full,   *)
(* and each has its timer, for any number of texts and any speed: no flush  *)
(* leaves a MarkdownBlock behind half-played, and none that is done holds up *)
(* the texts and the suggestions behind it.                                 *)
THEOREM TextsPlayOut == AllSpec => []PlaysOut
<1>1. AllInit => (part = "playback" => PlayKept)
  BY PlayInit DEF AllInit
<1>2. (part = "playback" => PlayKept) /\ [AllNext]_all => (part = "playback" => PlayKept)'
  <2>1. PlayKept /\ UNCHANGED playback => PlayKept'
    BY DEF PlayKept, playback
  <2> QED BY <2>1, PartStep, PlayStep
<1>3. (part = "playback" => PlayKept) => PlaysOut
  <2>1. PlayKept => rendered = [i \in DOMAIN rendered |-> rendered[i]]
    BY DEF PlayKept
  <2>2. PlayKept /\ playing = {} => displayed = rendered
    BY <2>1 DEF PlayKept
  <2> QED BY <2>2 DEF PlayKept, PlaysOut, Y!PlaysOut, Y!Suggests
<1> QED BY <1>1, <1>2, <1>3, PTL DEF AllSpec
-----------------------------------------------------------------------------
(* The page of memories *)

Pages == [of : Datasources \cup {None}, search : Searches, page : Nat \ {0}]

(* The load that the page waits for is of its datasource and brings what is  *)
(* next in the list, or a new one; an old version is of the memory's own.   *)
LoadKept(l) ==
  /\ l.seq \in Nat /\ l.seq <= epoch /\ l.search \in Searches
  /\ l.seq = epoch =>
       /\ l.of = datasource
       /\ l.at = "items" => l.from = IF l.more THEN Len(items) + 1 ELSE 1

PageKept ==
  /\ epoch \in Nat /\ datasource \in Datasources \cup {None} /\ search \in Searches
  /\ items \in Seq(Pages)
  /\ \A l \in lists : LoadKept(l)
  /\ \A l, k \in lists : l.seq = k.seq => l = k
  /\ \A r \in details : r.kind = "version" => r.of = r.for
  /\ L!PageIsOfDatasource

LEMMA PageInit ==
  ASSUME L!Init
  PROVE  PageKept
<1>1. "all" \in Searches
  BY PagesAssumption
<1> QED BY <1>1 DEF L!Init, PageKept, L!PageIsOfDatasource

(* A load that starts is the one the page waits for. *)
LEMMA Loading ==
  ASSUME PageKept, NEW ds, NEW more \in BOOLEAN, L!Load(ds, more, lists), datasource' = ds,
         items' \in Seq(Pages), more => items' = items /\ cursor # None
  PROVE  /\ epoch' = epoch + 1
         /\ \A l \in lists' : LoadKept(l)'
         /\ \A l, k \in lists' : l.seq = k.seq => l = k
<1> DEFINE new == [seq |-> epoch + 1, of |-> ds, search |-> search, more |-> more, at |-> "items",
                   from |-> IF more /\ cursor # None THEN cursor ELSE 1]
<1>1. PICK e \in Nat : e = epoch
  BY DEF PageKept
<1>2. epoch' = e + 1 /\ lists' \subseteq lists \cup {new}
  BY <1>1 DEF L!Load
<1>3. new.seq = e + 1 /\ new.of = ds /\ new.search \in Searches /\ new.from = IF more THEN Len(items') + 1 ELSE 1
  BY <1>1 DEF PageKept, L!PageIsOfDatasource
<1>4. new.more = more
  OBVIOUS
<1> HIDE DEF new
<1>5. ASSUME NEW l \in lists PROVE l.seq \in Nat /\ l.seq <= e /\ l.search \in Searches
  BY <1>1 DEF PageKept, LoadKept
<1>6. ASSUME NEW l \in lists' PROVE LoadKept(l)'
  <2>1. CASE l \in lists
    <3>1. l.seq \in Nat /\ l.seq <= e + 1 /\ l.seq # e + 1 /\ l.search \in Searches
      BY <2>1, <1>5
    <3> QED BY <1>2, <3>1 DEF LoadKept
  <2>2. CASE l = new
    BY <1>2, <1>3, <1>4, <2>2 DEF LoadKept
  <2> QED BY <1>2, <2>1, <2>2
<1>7. ASSUME NEW l \in lists', NEW k \in lists', l.seq = k.seq PROVE l = k
  BY <1>2, <1>3, <1>5, <1>7 DEF PageKept
<1> QED BY <1>1, <1>2, <1>6, <1>7

(* A load that ends leaves the others as they are. *)
LEMMA LoadsEnd ==
  ASSUME PageKept, UNCHANGED <<epoch, datasource, items>>, lists' \subseteq lists
  PROVE  /\ \A l \in lists' : LoadKept(l)'
         /\ \A l, k \in lists' : l.seq = k.seq => l = k
BY DEF PageKept, LoadKept

LEMMA SameList ==
  ASSUME PageKept, UNCHANGED <<epoch, datasource, items, lists>>
  PROVE  /\ \A l \in lists' : LoadKept(l)'
         /\ \A l, k \in lists' : l.seq = k.seq => l = k
BY DEF PageKept, LoadKept

(* Another datasource: nothing is left of the old one. *)
LEMMA Leaving ==
  ASSUME PageKept, NEW ds \in Datasources, datasource' = ds, L!Leave, L!Load(ds, FALSE, lists), search' = search,
         \A r \in details' : r.kind = "version" => r.of = r.for
  PROVE  PageKept'
<1>1. /\ items' = <<>> /\ cursor' = None /\ candidates' = None
      /\ editing' = None /\ viewing' = None /\ deleting' = None /\ history' = None
  BY DEF L!Leave
<1>2. items' \in Seq(Pages)
  BY <1>1
<1>3. /\ epoch' = epoch + 1
      /\ \A l \in lists' : LoadKept(l)'
      /\ \A l, k \in lists' : l.seq = k.seq => l = k
  BY <1>2, Loading
<1>4. epoch' \in Nat /\ search' \in Searches
  BY <1>3 DEF PageKept
<1>5. L!PageIsOfDatasource'
  BY <1>1 DEF L!PageIsOfDatasource
<1> QED BY <1>2, <1>3, <1>4, <1>5 DEF PageKept

LEMMA PageStep ==
  ASSUME PageKept, L!Next
  PROVE  PageKept'
<1> USE DEF L!dialogs, L!list, L!work
<1>0. /\ epoch \in Nat /\ items \in Seq(Pages) /\ search \in Searches /\ datasource \in Datasources \cup {None}
      /\ \A r \in details : r.kind = "version" => r.of = r.for
      /\ L!PageIsOfDatasource
  BY DEF PageKept
<1>a. ASSUME NEW more \in BOOLEAN, L!Load(datasource, more, lists), more => cursor # None,
             UNCHANGED <<datasource, search, items, details>>, L!PageIsOfDatasource'
      PROVE  PageKept'
  <2>1. /\ epoch' = epoch + 1
        /\ \A l \in lists' : LoadKept(l)'
        /\ \A l, k \in lists' : l.seq = k.seq => l = k
    BY <1>0, <1>a, Loading
  <2>2. epoch' \in Nat
    BY <1>0, <2>1
  <2> QED BY <1>0, <1>a, <2>1, <2>2 DEF PageKept
<1>b. ASSUME UNCHANGED <<datasource, items, epoch>>, search' \in Searches, lists' \subseteq lists, L!PageIsOfDatasource',
             \A r \in details' : r.kind = "version" => r.of = r.for
      PROVE  PageKept'
  BY <1>0, <1>b, LoadsEnd DEF PageKept
<1>1. CASE L!Search
  BY <1>0, <1>1, <1>a DEF L!Search, L!PageIsOfDatasource
<1>2. CASE L!More
  BY <1>0, <1>2, <1>a DEF L!More, L!PageIsOfDatasource
<1>3. CASE L!OpenLink
  <2>1. \A r \in details' : r.kind = "version" => r.of = r.for
    BY <1>0, <1>3 DEF L!OpenLink, L!Linked, L!Reads
  <2> QED BY <1>0, <1>3, <1>b, <2>1 DEF L!OpenLink, L!PageIsOfDatasource
<1>4. CASE L!Dialog
  <2>1. L!Listed \subseteq {datasource}
    BY <1>0 DEF L!Listed, L!PageIsOfDatasource
  <2>2. L!PageIsOfDatasource'
    BY <1>0, <1>4, <2>1 DEF L!Dialog, L!View, L!Close, L!Start, L!PageIsOfDatasource
  <2> QED BY <1>0, <1>4, <1>b, <2>2 DEF L!Dialog
<1>5. CASE L!ReadVersion
  <2>1. \A r \in details' : r.kind = "version" => r.of = r.for
    BY <1>0, <1>5 DEF L!ReadVersion, L!Reads, L!PageIsOfDatasource
  <2> QED BY <1>0, <1>5, <1>b, <2>1 DEF L!ReadVersion, L!PageIsOfDatasource
<1>6. CASE L!Mutate
  BY <1>0, <1>6, <1>b DEF L!Mutate, L!PageIsOfDatasource
<1>7. CASE L!Mutated
  <2>1. L!PageIsOfDatasource'
    BY <1>0, <1>7 DEF L!Mutated, L!PageIsOfDatasource
  <2> QED BY <1>7, <1>a, <2>1 DEF L!Mutated
<1>8. CASE L!Refreshed
  BY <1>0, <1>8, <1>b DEF L!Refreshed, L!PageIsOfDatasource
<1>9. CASE L!MutateFails
  BY <1>0, <1>9, <1>b DEF L!MutateFails, L!PageIsOfDatasource
<1>10. CASE L!Save
  BY <1>0, <1>10, <1>b DEF L!Save, L!PageIsOfDatasource
<1>11. CASE L!SaveEnds
  <2>1. /\ UNCHANGED <<datasource, search, items, cursor, candidates, viewing, deleting, history, details>>
        /\ editing' \in {editing, None}
        /\ \/ UNCHANGED <<epoch, lists>>
           \/ L!Load(datasource, FALSE, lists)
    BY <1>11 DEF L!SaveEnds
  <2>2. L!PageIsOfDatasource'
    BY <1>0, <2>1 DEF L!PageIsOfDatasource
  <2> QED BY <1>0, <1>a, <1>b, <2>1, <2>2
<1>12. ASSUME NEW l \in lists, L!PageComes(l) PROVE PageKept'
  <2>1. /\ l.seq = epoch /\ l.at = "items" /\ l.of = datasource /\ l.search \in Searches
        /\ l.from = IF l.more THEN Len(items) + 1 ELSE 1
    BY <1>12 DEF L!PageComes, L!Current, PageKept, LoadKept
  <2> DEFINE before == IF l.more THEN items ELSE <<>>
             page == [of |-> l.of, search |-> l.search, page |-> l.from]
             asks == [l EXCEPT !.at = "candidates"]
  <2>2. before \in Seq(Pages) /\ l.from = Len(before) + 1
        /\ \A i \in DOMAIN before : before[i].of = datasource /\ before[i].page = i
    BY <1>0, <2>1 DEF L!PageIsOfDatasource
  <2>3. items' = before \o <<page>>
    BY <1>12 DEF L!PageComes
  <2>4. page \in Pages /\ page.of = datasource /\ page.page = Len(before) + 1
    BY <1>0, <2>1, <2>2 DEF Pages
  <2> HIDE DEF before, page
  <2>5. /\ items' \in Seq(Pages) /\ Len(items') = Len(before) + 1
        /\ \A i \in DOMAIN items' : items'[i].of = datasource /\ items'[i].page = i
    BY <2>2, <2>3, <2>4
  <2>6. cursor' \in {None, Len(items') + 1}
    BY <1>12, <2>2, <2>5 DEF L!PageComes
  <2>7. L!PageIsOfDatasource'
    BY <1>0, <1>12, <2>5, <2>6 DEF L!PageComes, L!PageIsOfDatasource
  <2>8. asks.seq = l.seq /\ asks.of = l.of /\ asks.search = l.search /\ asks.at # "items"
    OBVIOUS
  <2>9. /\ lists' \subseteq (lists \ {l}) \cup {asks}
        /\ UNCHANGED <<datasource, search, epoch, details>>
    BY <1>12 DEF L!PageComes
  <2> HIDE DEF asks
  <2>10. ASSUME NEW k \in lists, k # l PROVE k.seq # epoch /\ LoadKept(k)
    BY <2>1, <2>10 DEF PageKept
  <2>11. ASSUME NEW k \in lists' PROVE LoadKept(k)'
    BY <1>0, <2>1, <2>8, <2>9, <2>10 DEF LoadKept
  <2>12. ASSUME NEW j \in lists', NEW k \in lists', j.seq = k.seq PROVE j = k
    BY <2>1, <2>8, <2>9, <2>10, <2>12 DEF PageKept
  <2> QED BY <1>0, <2>5, <2>7, <2>9, <2>11, <2>12 DEF PageKept
<1>13. ASSUME NEW l \in lists, L!CandidatesCome(l) PROVE PageKept'
  <2>1. l.of = datasource
    BY <1>13 DEF L!CandidatesCome, L!Current, PageKept, LoadKept
  <2>2. L!PageIsOfDatasource'
    BY <1>0, <1>13, <2>1 DEF L!CandidatesCome, L!PageIsOfDatasource
  <2> QED BY <1>0, <1>13, <1>b, <2>2 DEF L!CandidatesCome
<1>14. ASSUME NEW l \in lists, L!LoadFails(l) \/ L!Outdated(l) PROVE PageKept'
  BY <1>0, <1>14, <1>b DEF L!LoadFails, L!Outdated, L!PageIsOfDatasource
<1>15. ASSUME NEW r \in details, L!ReadComes(r) PROVE PageKept'
  <2>1. L!PageIsOfDatasource'
    BY <1>0, <1>15 DEF L!ReadComes, L!OfThis, L!PageIsOfDatasource
  <2> QED BY <1>0, <1>15, <1>b, <2>1 DEF L!ReadComes
<1>16. ASSUME NEW ds \in Datasources, L!Select(ds) \/ L!Navigate(ds) PROVE PageKept'
  <2>1. \A r \in details' : r.kind = "version" => r.of = r.for
    BY <1>0, <1>16 DEF L!Select, L!Navigate, L!Linked, L!Reads
  <2> QED BY <1>16, <2>1, Leaving DEF L!Select, L!Navigate
<1>17. CASE L!Type
  BY <1>0, <1>17, <1>b DEF L!Type, L!PageIsOfDatasource
<1> QED BY <1>1, <1>2, <1>3, <1>4, <1>5, <1>6, <1>7, <1>8, <1>9, <1>10, <1>11, <1>12, <1>13, <1>14, <1>15, <1>16, <1>17
        DEF L!Next

(* MemoriesView shows the selected datasource and no other, each page from   *)
(* where the one before it ends, for any datasources, searches and pages and *)
(* any loads that answer late.                                              *)
THEOREM MemoriesOfDatasource == AllSpec => []PageIsOfDatasource
<1>1. AllInit => (part = "memories" => PageKept)
  BY PageInit DEF AllInit
<1>2. (part = "memories" => PageKept) /\ [AllNext]_all => (part = "memories" => PageKept)'
  <2>1. PageKept /\ UNCHANGED memories => PageKept'
    BY DEF PageKept, LoadKept, L!PageIsOfDatasource, memories
  <2> QED BY <2>1, PartStep, PageStep
<1>3. (part = "memories" => PageKept) => PageIsOfDatasource
  BY DEF PageKept, PageIsOfDatasource
<1> QED BY <1>1, <1>2, <1>3, PTL DEF AllSpec
-----------------------------------------------------------------------------
(* The form for a memory *)

Stored == {None, M!Deleted} \cup [version : Nat, content : M!Contents]

Reviewed == [content : M!Contents, found : SUBSET [id : Memories, version : Nat]]

(* The memory v was shown beside what is in the form. *)
ShownBeside(v) == \E x \in related : x.content = form /\ v \in x.found

SaveTyped == save # None /\ save.at \in {"asked", "sent"} => save.content \in M!Contents

(* What was reviewed has been shown, what may be replaced was shown beside   *)
(* what is in the form, and a save of this form is of what is in it.        *)
FormKept ==
  /\ saved \in [Memories -> Stored]
  /\ context \in Nat
  /\ item # None => form \in M!Contents
  /\ reviewed # None => reviewed \in related
  /\ \A v \in matches : ShownBeside(v)
  /\ target # None => ShownBeside(target)
  /\ SaveTyped
  /\ M!Asked => /\ save.context \in Nat /\ save.context <= context
                /\ M!SameForm(save) => /\ save.content = form
                                       /\ save.exclude = IF item = M!New THEN None ELSE item.id

LEMMA FormInit ==
  ASSUME M!Init
  PROVE  FormKept
BY DEF M!Init, FormKept, Stored, M!Asked, SaveTyped

LEMMA FoundTyped ==
  ASSUME FormKept, M!Asked
  PROVE  M!Fingerprint(save.content, M!Found) \in Reviewed
<1>1. ASSUME NEW m \in M!Active PROVE M!Version(m) \in [id : Memories, version : Nat]
  BY <1>1 DEF FormKept, M!Active, M!Version, Stored
<1>2. M!Found \in SUBSET [id : Memories, version : Nat]
  BY <1>1 DEF M!Found, M!Related
<1> QED BY <1>2 DEF FormKept, M!Fingerprint, Reviewed, SaveTyped, M!Asked

(* A write of the content c to the memory m. *)
LEMMA Putting ==
  ASSUME FormKept, NEW m \in Memories, NEW c \in M!Contents, M!Put(m, c)
  PROVE  saved' \in [Memories -> Stored]
<1> DEFINE v == IF saved[m] = None THEN 1 ELSE saved[m].version + 1
<1>1. v \in Nat
  BY DEF FormKept, Stored, M!Deleted
<1>2. saved' = [saved EXCEPT ![m] = [version |-> v, content |-> c]]
  BY DEF M!Put
<1> HIDE DEF v
<1> QED BY <1>1, <1>2 DEF FormKept, Stored

(* Nothing but the memories and the save under way changes. *)
LEMMA SameForm ==
  ASSUME FormKept, saved' \in [Memories -> Stored], UNCHANGED <<item, context, form, matches, target, related>>,
         reviewed' \in {reviewed, None},
         (~M!Asked' /\ SaveTyped') \/ UNCHANGED save
  PROVE  FormKept'
BY DEF FormKept, ShownBeside, M!Asked, M!SameForm, SaveTyped

(* The form is given something else, or closed. *)
LEMMA OtherForm ==
  ASSUME saved' \in [Memories -> Stored], context' \in Nat, item' # None => form' \in M!Contents,
         reviewed' = None, matches' = {}, target' = None,
         SaveTyped', M!Asked' => save'.context \in Nat /\ save'.context < context'
  PROVE  FormKept'
BY DEF FormKept, ShownBeside, M!Asked, M!SameForm

LEMMA FormStep ==
  ASSUME FormKept, M!Next
  PROVE  FormKept'
<1> USE DEF M!page
<1>0. /\ saved \in [Memories -> Stored] /\ context \in Nat
      /\ item # None => form \in M!Contents
      /\ reviewed # None => reviewed \in related
      /\ \A v \in matches : ShownBeside(v)
      /\ target # None => ShownBeside(target)
      /\ SaveTyped
  BY DEF FormKept
<1>1. CASE M!Elsewhere
  <2>1. ASSUME NEW m \in Memories, NEW c \in M!Contents, M!Put(m, c)
        PROVE  saved' \in [Memories -> Stored]
    BY <2>1, Putting
  <2>2. ASSUME NEW m \in M!Active, saved' = [saved EXCEPT ![m] = M!Deleted]
        PROVE  saved' \in [Memories -> Stored]
    BY <1>0, <2>2 DEF Stored, M!Active
  <2>3. saved' \in [Memories -> Stored] /\ UNCHANGED <<item, context, form, reviewed, matches, target, save, related>>
    BY <1>1, <2>1, <2>2 DEF M!Elsewhere
  <2> QED BY <2>3, SameForm
<1>2. CASE M!Given
  <2>1. /\ context' = context + 1 /\ reviewed' = None /\ matches' = {} /\ target' = None
        /\ UNCHANGED <<saved, save>>
    BY <1>2 DEF M!Given
  <2>2. form' \in M!Contents
    BY <1>0, <1>2 DEF M!Given, M!Active, Stored
  <2>3. PICK n \in Nat : n = context
    BY <1>0
  <2>4. context' = n + 1
    BY <2>1, <2>3
  <2>5. M!Asked' => save'.context \in Nat /\ save'.context < context'
    <3>1. M!Asked' => save.context \in Nat /\ save.context <= n
      BY <2>1, <2>3 DEF M!Asked, FormKept
    <3> QED BY <2>1, <2>4, <3>1
  <2>6. context' \in Nat /\ SaveTyped'
    BY <1>0, <2>1, <2>4 DEF SaveTyped
  <2> QED BY <1>0, <2>1, <2>2, <2>5, <2>6, OtherForm
<1>3. CASE M!Edit
  <2>1. form' \in M!Contents /\ reviewed' = None /\ matches' = {} /\ target' = None
        /\ UNCHANGED <<saved, item, context, save>> /\ save = None
    BY <1>3 DEF M!Edit, M!Usable, M!Idle
  <2> QED BY <1>0, <2>1, OtherForm DEF M!Asked, SaveTyped
<1>4. CASE M!Target
  <2>1. /\ target' \in matches \cup {None} /\ save' = None
        /\ UNCHANGED <<saved, item, context, form, reviewed, matches, related>>
    BY <1>4 DEF M!Target, M!Usable, M!Idle
  <2> QED BY <1>0, <2>1 DEF FormKept, ShownBeside, M!Asked, SaveTyped
<1>5. CASE M!Save
  <2>1. /\ save' = [at |-> "asked", context |-> context, content |-> form,
                    exclude |-> IF item = M!New THEN None ELSE item.id]
        /\ form \in M!Contents
        /\ UNCHANGED <<saved, item, context, form, reviewed, matches, target, related>>
    BY <1>0, <1>5 DEF M!Save, M!Usable
  <2>2. /\ save'.context = context /\ save'.content = form
        /\ save'.exclude = IF item = M!New THEN None ELSE item.id
    BY <2>1
  <2> HIDE DEF M!page
  <2> QED BY <1>0, <2>1, <2>2 DEF FormKept, ShownBeside, M!Asked, M!SameForm, SaveTyped
<1>6. CASE M!Outdated
  BY <1>0, <1>6, SameForm DEF M!Outdated, M!Asked, SaveTyped
<1>7. CASE M!Review
  <2> DEFINE print == M!Fingerprint(save.content, M!Found)
  <2>1. /\ matches' = M!Found /\ reviewed' = print /\ related' = related \cup {print}
        /\ save' = None /\ save.content = form
        /\ UNCHANGED <<saved, item, context, form, target>>
    BY <1>7 DEF M!Review, M!Fingerprint, FormKept
  <2>2. print.content = save.content /\ print.found = M!Found
    BY DEF M!Fingerprint
  <2> HIDE DEF print
  <2>3. \A v \in matches' : ShownBeside(v)'
    BY <2>1, <2>2 DEF ShownBeside
  <2>4. target' # None => ShownBeside(target)'
    BY <1>0, <2>1 DEF ShownBeside
  <2> QED BY <1>0, <2>1, <2>3, <2>4 DEF FormKept, ShownBeside, M!Asked, SaveTyped
<1>8. CASE M!Send
  <2>1. /\ matches' = M!Found /\ save'.at = "sent" /\ save'.content = save.content
        /\ save.content = form /\ M!Asked
        /\ M!Found # {} => reviewed = M!Fingerprint(save.content, M!Found)
        /\ UNCHANGED <<saved, item, context, form, reviewed, target, related>>
    BY <1>8 DEF M!Send, FormKept
  <2>2. M!Found # {} => M!Fingerprint(save.content, M!Found) \in related
    BY <1>0, <2>1, FoundTyped, PagesAssumption DEF Reviewed
  <2>3. \A v \in matches' : ShownBeside(v)'
    BY <2>1, <2>2 DEF ShownBeside, M!Fingerprint
  <2>4. target' # None => ShownBeside(target)'
    BY <1>0, <2>1 DEF ShownBeside
  <2>5. ~M!Asked' /\ SaveTyped'
    BY <1>0, <2>1 DEF M!Asked, SaveTyped
  <2> QED BY <1>0, <2>1, <2>3, <2>4, <2>5 DEF FormKept
<1>9. CASE M!Write
  <2>1. /\ save'.at = "written"
        /\ UNCHANGED <<item, context, form, reviewed, matches, target, related>>
        /\ save.content \in M!Contents
    BY <1>0, <1>9 DEF M!Write, SaveTyped
  <2>2. PICK m \in Memories : M!Put(m, save.content)
    BY <1>9 DEF M!Write, M!Active
  <2>3. saved' \in [Memories -> Stored]
    BY <2>1, <2>2, Putting
  <2> QED BY <1>0, <2>1, <2>3, SameForm DEF M!Asked, SaveTyped
<1>10. CASE M!Saved
  <2>1. /\ save' = None /\ item' = None /\ reviewed' = None /\ matches' = {} /\ target' = None
        /\ UNCHANGED <<saved, context>>
    BY <1>10 DEF M!Saved
  <2>2. ~M!Asked' /\ SaveTyped'
    BY <2>1 DEF M!Asked, SaveTyped
  <2> QED BY <1>0, <2>1, <2>2, OtherForm
<1>11. CASE M!Fails
  BY <1>0, <1>11, SameForm DEF M!Fails, M!Asked, SaveTyped
<1> QED BY <1>1, <1>2, <1>3, <1>4, <1>5, <1>6, <1>7, <1>8, <1>9, <1>10, <1>11 DEF M!Next

(* MemoryEditor writes only a content that was on screen with the memories  *)
(* found related to it, for any memories and however many versions of them. *)
THEOREM MemoriesReviewed == AllSpec => WritesReviewed
<1>1. AllInit => (part = "editor" => FormKept)
  BY FormInit DEF AllInit
<1>2. (part = "editor" => FormKept) /\ [AllNext]_all => (part = "editor" => FormKept)'
  <2>1. FormKept /\ UNCHANGED editor => FormKept'
    BY DEF FormKept, ShownBeside, SaveTyped, M!Asked, M!SameForm, editor
  <2> QED BY <2>1, PartStep, FormStep
<1>3. FormKept => M!Reviews
  <2> SUFFICES ASSUME FormKept, M!Send PROVE M!Reviews
    BY DEF M!Reviews
  <2>1. /\ M!Asked /\ M!SameForm(save) /\ save'.memory = M!Replaces
        /\ M!Found # {} => reviewed = M!Fingerprint(save.content, M!Found)
    BY DEF M!Send
  <2>2. save.content = form /\ save.exclude = IF item = M!New THEN None ELSE item.id
    BY <2>1 DEF FormKept
  <2>3. M!Found # {} => M!Fingerprint(save.content, M!Found) \in related
    BY <2>1, FoundTyped, PagesAssumption DEF FormKept, Reviewed
  <2>4. save'.memory \notin {item, None} =>
          \E x \in related : x.content = save.content /\ save'.memory \in x.found
    <3>1. save'.memory \notin {item, None} => target # None /\ save'.memory = target
      BY <2>1 DEF M!Replaces
    <3> QED BY <2>2, <3>1 DEF FormKept, ShownBeside
  <2> QED BY <2>2, <2>3, <2>4 DEF M!Reviews, M!Fingerprint
<1>4. (part = "editor" => FormKept) => (part = "editor" => M!Reviews)
  BY <1>3
<1> QED BY <1>1, <1>2, <1>4, PTL DEF AllSpec, WritesReviewed
-----------------------------------------------------------------------------
(* Paging *)

Row == Artifacts \X Nat

Pane == [loading : BOOLEAN, error : BOOLEAN, metadata : Artifacts \cup {None}, rows : Seq(Row),
         cursor : Nat \cup {None}]

Object == [artifact : Artifacts, loading : BOOLEAN, more : BOOLEAN, error : BOOLEAN,
           metadata : Artifacts \cup {None}, rows : Seq(Row), cursor : Nat \cup {None}]

Read == [artifact : Artifacts, tag : Nat, reset : BOOLEAN, offset : Nat, of : {"metadata", "rows", "both"}]

(* The rows from the offset on continue what was read of the artifact. *)
Continues(v, a, offset) == P!Beginning(v, a) /\ offset = Len(v.rows) /\ offset < rowsOf[a]

LEMMA PageTyped ==
  ASSUME rowsOf \in [Artifacts -> 0 .. MaxRows], NEW a \in Artifacts, NEW offset \in Nat,
         offset = 0 \/ offset < rowsOf[a]
  PROVE  /\ P!Page(a, offset).rows \in Seq(Row)
         /\ P!Page(a, offset).cursor \in Nat \cup {None}
         /\ \E n \in Nat :
              /\ Len(P!Page(a, offset).rows) = n
              /\ \A i \in 1 .. n : P!Page(a, offset).rows[i] = <<a, offset + i>>
              /\ P!Page(a, offset).cursor = IF offset + n < rowsOf[a] THEN offset + n ELSE None
<1> DEFINE to == IF offset + Limit < rowsOf[a] THEN offset + Limit ELSE rowsOf[a]
           rows == [i \in 1 .. (to - offset) |-> <<a, offset + i>>]
<1>1. P!Page(a, offset).rows = rows
  BY DEF P!Page
<1>2. P!Page(a, offset).cursor = IF offset + Limit < rowsOf[a] THEN offset + Limit ELSE None
  BY DEF P!Page
<1>3. PICK n \in Nat : n = rowsOf[a]
  BY PagesAssumption
<1>4. PICK k \in Nat : k = to - offset
  BY <1>3, PagesAssumption
<1>5. (offset + Limit < n => offset + k = offset + Limit) /\ (~(offset + Limit < n) => offset + k = n)
  BY <1>3, <1>4, PagesAssumption
<1> HIDE DEF to
<1>6. rows = [i \in 1 .. k |-> <<a, offset + i>>]
  BY <1>4
<1> HIDE DEF rows
<1>9. \A i \in 1 .. k : <<a, offset + i>> \in Row
  BY DEF Row
<1>10. rows \in [1 .. k -> Row] /\ \A i \in 1 .. k : rows[i] = <<a, offset + i>>
  BY <1>6, <1>9
<1>11. rows \in Seq(Row) /\ Len(rows) = k
  BY <1>10
<1>7. P!Page(a, offset).cursor = IF offset + k < n THEN offset + k ELSE None
  BY <1>2, <1>3, <1>5, PagesAssumption
<1>8. P!Page(a, offset).cursor \in Nat \cup {None}
  BY <1>7
<1> QED BY <1>1, <1>3, <1>7, <1>8, <1>10, <1>11

LEMMA RowsOf ==
  ASSUME NEW rows \in Seq(Row), NEW a, NEW n \in Nat, Len(rows) = n, \A i \in 1 .. n : rows[i] = <<a, i>>
  PROVE  rows = [i \in DOMAIN rows |-> <<a, i>>]
<1>1. DOMAIN rows = 1 .. n /\ rows = [i \in DOMAIN rows |-> rows[i]]
  OBVIOUS
<1> QED BY <1>1

LEMMA FirstPage ==
  ASSUME rowsOf \in [Artifacts -> 0 .. MaxRows], NEW a \in Artifacts, NEW v,
         v.rows = P!Page(a, 0).rows, v.cursor = P!Page(a, 0).cursor
  PROVE  P!Beginning(v, a)
<1>1. v.rows \in Seq(Row)
  BY PageTyped
<1>2. PICK n \in Nat : /\ Len(v.rows) = n
                       /\ \A i \in 1 .. n : v.rows[i] = <<a, 0 + i>>
                       /\ v.cursor = IF 0 + n < rowsOf[a] THEN 0 + n ELSE None
  BY PageTyped
<1>3. v.rows = [i \in DOMAIN v.rows |-> <<a, i>>]
  <2>1. \A i \in 1 .. n : v.rows[i] = <<a, i>>
    BY <1>2
  <2> QED BY <1>1, <1>2, <2>1, RowsOf
<1> QED BY <1>2, <1>3 DEF P!Beginning

LEMMA NextPage ==
  ASSUME rowsOf \in [Artifacts -> 0 .. MaxRows], NEW a \in Artifacts, NEW o, o.rows \in Seq(Row),
         NEW offset \in Nat, Continues(o, a, offset), NEW v,
         v.rows = o.rows \o P!Page(a, offset).rows, v.cursor = P!Page(a, offset).cursor
  PROVE  P!Beginning(v, a)
<1> DEFINE more == P!Page(a, offset).rows
<1>1. more \in Seq(Row)
  BY PageTyped DEF Continues
<1>2. PICK n \in Nat : /\ Len(more) = n
                       /\ \A i \in 1 .. n : more[i] = <<a, offset + i>>
                       /\ v.cursor = IF offset + n < rowsOf[a] THEN offset + n ELSE None
  BY PageTyped DEF Continues
<1>3. PICK before \in Seq(Row) : before = o.rows
  OBVIOUS
<1>4. Len(before) = offset /\ \A i \in 1 .. offset : before[i] = <<a, i>>
  BY <1>3 DEF Continues, P!Beginning
<1>5. PICK after \in Seq(Row) : after = more
  BY <1>1
<1> DEFINE whole == before \o after
<1>6. v.rows = whole /\ Len(after) = n /\ \A i \in 1 .. n : after[i] = <<a, offset + i>>
  BY <1>2, <1>3, <1>5
<1> HIDE DEF more
<1>7. /\ whole \in Seq(Row) /\ Len(whole) = offset + n
      /\ \A i \in 1 .. offset + n : whole[i] = IF i <= offset THEN before[i] ELSE after[i - offset]
  BY <1>4, <1>6, ConcatProperties
<1> HIDE DEF whole
<1>8. ASSUME NEW i \in 1 .. offset + n PROVE whole[i] = <<a, i>>
  <2>1. CASE i <= offset
    BY <1>4, <1>7, <2>1
  <2>2. CASE i > offset
    <3> DEFINE k == i - offset
    <3>1. k \in 1 .. n /\ offset + k = i
      BY <2>2
    <3>2. whole[i] = after[k]
      BY <1>7, <2>2
    <3> HIDE DEF k
    <3> QED BY <1>6, <3>1, <3>2
  <2> QED BY <2>1, <2>2
<1>9. whole = [i \in DOMAIN whole |-> <<a, i>>]
  <2>1. PICK w \in Seq(Row), m \in Nat : w = whole /\ m = offset + n
    BY <1>7
  <2>2. Len(w) = m /\ \A i \in 1 .. m : w[i] = <<a, i>>
    BY <1>7, <1>8, <2>1
  <2>3. w = [i \in DOMAIN w |-> <<a, i>>]
    BY <2>2, RowsOf
  <2> QED BY <2>1, <2>3
<1> QED BY <1>2, <1>6, <1>7, <1>9 DEF P!Beginning

TableRecords == [artifact : Artifacts \cup {None}, revision : Nat, is : Pane]

(* The read that the table waits for begins its artifact or continues it; it *)
(* is the only one of this revision.                                        *)
Waited(l) ==
  /\ l.artifact = table.artifact /\ table.is.loading
  /\ IF l.reset THEN l.offset = 0 ELSE Continues(table.is, l.artifact, l.offset)

ShowsBeginning ==
  /\ table.is.error => table.artifact \in Artifacts
  /\ table.is.metadata # None => table.is.metadata = table.artifact
  /\ table.is.rows # <<>> => P!Beginning(table.is, table.artifact)
  /\ table.is.metadata # None /\ viewer = "table" /\ ~table.is.loading /\ ~table.is.error
       => P!Beginning(table.is, table.artifact)

TableKept ==
  /\ table \in TableRecords
  /\ \A l \in reads : l.tag <= table.revision /\ (P!Current(l) => Waited(l))
  /\ \A l, k \in reads : P!Current(l) /\ P!Current(k) => l = k
  /\ ShowsBeginning
  /\ current = [a \in Artifacts |-> 0]

(* An object is empty, or what was read of its artifact. *)
ObjectKept(o) == (o.metadata = None /\ o.cursor = None) \/ P!Beginning(o, o.artifact)

(* The rows that are read go on where their object ends. *)
Awaited(l) ==
  /\ l.tag \in DOMAIN objects /\ objects[l.tag].more /\ l.artifact = objects[l.tag].artifact
  /\ Continues(objects[l.tag], l.artifact, l.offset)

ProcessKept ==
  /\ objects \in Seq(Object) /\ \A i \in DOMAIN objects : ObjectKept(objects[i])
  /\ current \in [Artifacts -> Nat]
  /\ \A a \in Artifacts : current[a] # 0 =>
       current[a] \in DOMAIN objects /\ objects[current[a]].artifact = a
  /\ \A l \in reads : l.of = "rows" => Awaited(l)
  /\ \A l, k \in reads : l.of = "rows" /\ k.of = "rows" /\ l.tag = k.tag => l = k
  /\ table.is = P!Blank

PagingKept ==
  /\ rowsOf \in [Artifacts -> 0 .. MaxRows] /\ reads \subseteq Read
  /\ viewer \in {"table", "evidence", "process"}
  /\ viewer # "process" => TableKept
  /\ viewer = "process" => ProcessKept

LEMMA PagingInit ==
  ASSUME P!Init
  PROVE  PagingKept
<1>1. P!Blank \in Pane /\ P!Blank.rows = <<>> /\ P!Blank.metadata = None /\ ~P!Blank.error
  BY DEF P!Blank, Pane
<1>2. table \in TableRecords /\ table.is = P!Blank
  BY <1>1 DEF P!Init, TableRecords
<1>3. TableKept
  BY <1>1, <1>2 DEF P!Init, TableKept, ShowsBeginning
<1>4. ProcessKept
  BY <1>2 DEF P!Init, ProcessKept
<1> QED BY <1>3, <1>4 DEF P!Init, PagingKept

(* The table forgets everything and reads on under a new revision. *)
LEMMA Reloading ==
  ASSUME PagingKept, viewer # "process", NEW a \in Artifacts, NEW step \in Nat \ {0},
         P!Reload(a, table.revision + step)
  PROVE  PagingKept'
<1> DEFINE is == [P!Blank EXCEPT !.loading = TRUE]
<1>1. PICK n \in Nat : n = table.revision
  BY DEF PagingKept, TableKept, TableRecords
<1>a. /\ P!Blank \in Pane /\ ~P!Blank.error /\ P!Blank.metadata = None /\ P!Blank.rows = <<>>
  BY DEF P!Blank, Pane
<1>2. /\ is \in Pane /\ is.loading /\ ~is.error /\ is.metadata = None /\ is.rows = <<>>
  BY <1>a DEF Pane
<1>3. table' = [artifact |-> a, revision |-> n + step, is |-> is]
  BY <1>1 DEF P!Reload
<1> DEFINE read == P!Load(a, n + step, TRUE, 0, "metadata")
<1>4. reads' = reads \cup {read} /\ UNCHANGED <<viewer, rowsOf, current>>
  BY <1>1 DEF P!Reload, P!Send
<1>5. /\ read \in Read /\ read.tag = n + step /\ read.artifact = a
      /\ read.reset /\ read.offset = 0
  BY DEF P!Load, Read
<1> HIDE DEF is, read
<1>6. table' \in TableRecords /\ table'.artifact = a /\ table'.revision = n + step /\ table'.is = is
  BY <1>2, <1>3 DEF TableRecords
<1>7. ASSUME NEW l \in reads PROVE l.tag \in Nat /\ l.tag <= n
  BY <1>1 DEF PagingKept, TableKept, Read
<1>8. ASSUME NEW l \in reads' PROVE l.tag <= table'.revision /\ (P!Current(l)' => l = read)
  <2>1. CASE l \in reads
    BY <1>6, <1>7, <2>1 DEF P!Current
  <2>2. CASE l = read
    BY <1>5, <1>6, <2>2
  <2> QED BY <1>4, <2>1, <2>2
<1>9. Waited(read)'
  BY <1>2, <1>5, <1>6 DEF Waited
<1>10. ShowsBeginning'
  BY <1>2, <1>6 DEF ShowsBeginning
<1>11. TableKept'
  BY <1>4, <1>6, <1>8, <1>9, <1>10 DEF PagingKept, TableKept
<1> QED BY <1>4, <1>5, <1>11 DEF PagingKept

(* What the table shows changes under the revision it has. *)
LEMMA Showing ==
  ASSUME PagingKept, viewer # "process", NEW is \in Pane,
         table' = [artifact |-> table.artifact, revision |-> table.revision, is |-> is],
         UNCHANGED <<viewer, rowsOf, current>>, ShowsBeginning',
         reads' \subseteq Read, \A l \in reads' : l.tag <= table.revision,
         \A l \in reads' : P!Current(l) => Waited(l)',
         \A l, k \in reads' : P!Current(l) /\ P!Current(k) => l = k
  PROVE  PagingKept'
<1>1. table' \in TableRecords /\ table'.revision = table.revision
  BY DEF PagingKept, TableKept, TableRecords
<1>2. \A l : P!Current(l)' <=> P!Current(l)
  BY <1>1 DEF P!Current
<1>3. TableKept'
  BY <1>1, <1>2 DEF PagingKept, TableKept
<1>4. rowsOf' \in [Artifacts -> 0 .. MaxRows] /\ reads' \subseteq Read
  BY DEF PagingKept
<1>5. viewer' \in {"table", "evidence", "process"} /\ viewer' # "process"
  BY Zenon DEF PagingKept
<1> QED BY <1>3, <1>4, <1>5 DEF PagingKept

LEMMA TableStep ==
  ASSUME PagingKept, viewer # "process", P!Next
  PROVE  PagingKept'
<1>0. /\ TableKept /\ rowsOf \in [Artifacts -> 0 .. MaxRows] /\ reads \subseteq Read
      /\ table \in TableRecords /\ table.is \in Pane /\ ShowsBeginning
      /\ viewer \in {"table", "evidence"}
      /\ \A l \in reads : l.tag <= table.revision
      /\ \A l \in reads : P!Current(l) => Waited(l)
      /\ \A l, k \in reads : P!Current(l) /\ P!Current(k) => l = k
      /\ \A a \in Artifacts : current[a] = 0
  BY DEF PagingKept, TableKept, TableRecords
<1>1. ASSUME NEW a \in Artifacts, P!Show(a) PROVE PagingKept'
  <2>1. PICK step \in Nat \ {0} : P!Reload(a, table.revision + step)
    BY <1>1 DEF P!Show
  <2> QED BY <2>1, Reloading
<1>2. CASE P!Retry
  <2>1. table.artifact \in Artifacts /\ P!Reload(table.artifact, table.revision + 1)
    BY <1>0, <1>2 DEF P!Retry, ShowsBeginning
  <2>2. PICK a \in Artifacts : a = table.artifact
    BY <2>1
  <2>3. P!Reload(a, table.revision + 1)
    BY <2>1, <2>2
  <2> QED BY <2>3, Reloading
<1>3. CASE P!More
  <2> DEFINE is == [loading |-> TRUE, error |-> FALSE, metadata |-> table.is.metadata,
                    rows |-> table.is.rows, cursor |-> table.is.cursor]
  <2>a. PICK read : read = P!Load(table.artifact, table.revision, FALSE, table.is.cursor, "rows")
    OBVIOUS
  <2>1. /\ viewer = "table" /\ table.is.cursor # None /\ table.is.metadata # None
        /\ ~table.is.loading /\ ~table.is.error
        /\ reads' = reads \cup {read} /\ UNCHANGED <<viewer, rowsOf, current>>
    BY <1>3, <2>a DEF P!More, P!Send
  <2>2. table' = [artifact |-> table.artifact, revision |-> table.revision, is |-> is]
    BY <1>0, <1>3 DEF P!More, TableRecords, Pane
  <2>3. /\ table.artifact \in Artifacts /\ P!Beginning(table.is, table.artifact)
        /\ table.is.metadata = table.artifact
    BY <1>0, <2>1 DEF ShowsBeginning, Pane
  <2>4. Continues(table.is, table.artifact, table.is.cursor)
    BY <2>1, <2>3 DEF P!Beginning, Continues
  <2>5. /\ is \in Pane /\ is.loading /\ ~is.error /\ is.metadata = table.is.metadata
        /\ is.rows = table.is.rows /\ is.cursor = table.is.cursor
    BY <1>0 DEF Pane
  <2>6. table.is.cursor \in Nat
    BY <1>0, <2>1 DEF Pane
  <2>7. /\ read \in Read /\ read.tag = table.revision /\ read.artifact = table.artifact
        /\ ~read.reset /\ read.offset = table.is.cursor
    BY <1>0, <2>a, <2>3, <2>6 DEF P!Load, Read, TableRecords
  <2> HIDE DEF is
  <2>8. table'.is = is /\ table'.artifact = table.artifact
    BY <2>2
  <2>9. Waited(read)'
    BY <2>1, <2>4, <2>5, <2>7, <2>8 DEF Waited, Continues, P!Beginning
  <2>10. ShowsBeginning'
    BY <2>1, <2>3, <2>5, <2>8 DEF ShowsBeginning, P!Beginning
  <2>11. \A l \in reads : ~P!Current(l)
    BY <1>0, <2>1 DEF Waited
  <2>12. \A l \in reads' : P!Current(l) => l = read
    BY <2>1, <2>11
  <2>13. reads' \subseteq Read /\ \A l \in reads' : l.tag <= table.revision
    BY <1>0, <2>1, <2>7 DEF TableRecords
  <2> QED BY <2>1, <2>2, <2>5, <2>9, <2>10, <2>12, <2>13, Showing
<1>4. ASSUME NEW l \in reads, P!Stale(l) PROVE PagingKept'
  <2>1. table' = table /\ reads' \subseteq reads /\ UNCHANGED <<viewer, rowsOf, current>>
    BY <1>4 DEF P!Stale
  <2> QED BY <1>0, <2>1 DEF PagingKept, TableKept, ShowsBeginning, Waited, Continues, P!Current, P!Beginning
<1>5. ASSUME NEW l \in reads, P!MetadataReply(l) PROVE PagingKept'
  <2> DEFINE is == [loading |-> viewer = "table", error |-> table.is.error, metadata |-> l.artifact,
                    rows |-> table.is.rows, cursor |-> table.is.cursor]
             read == [l EXCEPT !.of = "rows"]
  <2>1. P!Current(l) /\ Waited(l) /\ UNCHANGED <<viewer, rowsOf, current>>
    BY <1>0, <1>5 DEF P!MetadataReply
  <2>2. table' = [artifact |-> table.artifact, revision |-> table.revision, is |-> is]
    BY <1>0, <1>5 DEF P!MetadataReply, TableRecords, Pane
  <2>3. reads' = (reads \ {l}) \cup {read : v \in {viewer} \ {"evidence"}}
    BY <1>5 DEF P!MetadataReply
  <2>4. /\ is \in Pane /\ (is.loading <=> viewer = "table") /\ is.error = table.is.error
        /\ is.metadata = l.artifact /\ is.rows = table.is.rows /\ is.cursor = table.is.cursor
    BY <1>0 DEF Pane, Read
  <2>5. /\ read \in Read /\ read.tag = l.tag /\ read.artifact = l.artifact
        /\ read.reset = l.reset /\ read.offset = l.offset
    BY <1>0 DEF Read
  <2> HIDE DEF is, read
  <2>6. table'.is = is /\ table'.artifact = table.artifact
    BY <2>2
  <2>7. ASSUME NEW k \in reads'
        PROVE  /\ k \in Read /\ k.tag <= table.revision
               /\ P!Current(k) => k = read /\ viewer # "evidence"
    BY <1>0, <2>1, <2>3, <2>5
  <2>8. viewer # "evidence" => Waited(read)'
    BY <1>0, <2>1, <2>4, <2>5, <2>6 DEF Waited, Continues, P!Beginning, PagingKept
  <2>9. ShowsBeginning'
    BY <1>0, <2>1, <2>4, <2>6 DEF ShowsBeginning, P!Beginning, Waited
  <2>10. reads' \subseteq Read
    BY <2>7
  <2> QED BY <2>1, <2>2, <2>4, <2>7, <2>8, <2>9, <2>10, Showing
<1>6. ASSUME NEW l \in reads, P!RowsReply(l) PROVE PagingKept'
  <2> DEFINE page == P!Page(l.artifact, l.offset)
             is == [loading |-> FALSE, error |-> table.is.error, metadata |-> table.is.metadata,
                    rows |-> IF l.reset THEN page.rows ELSE table.is.rows \o page.rows,
                    cursor |-> page.cursor]
  <2>1. P!Current(l) /\ Waited(l) /\ UNCHANGED <<viewer, rowsOf, current>> /\ reads' = reads \ {l}
    BY <1>0, <1>6 DEF P!RowsReply
  <2>2. table' = [artifact |-> table.artifact, revision |-> table.revision, is |-> is]
    BY <1>0, <1>6 DEF P!RowsReply, TableRecords, Pane
  <2>3. PICK a \in Artifacts, offset \in Nat : a = l.artifact /\ offset = l.offset
    BY <1>0 DEF Read
  <2>4. a = table.artifact /\ IF l.reset THEN offset = 0 ELSE Continues(table.is, a, offset)
    BY <2>1, <2>3 DEF Waited
  <2>5. page.rows \in Seq(Row) /\ page.cursor \in Nat \cup {None}
    BY <1>0, <2>3, <2>4, PageTyped DEF Continues
  <2>6. /\ ~is.loading /\ is.error = table.is.error /\ is.metadata = table.is.metadata
        /\ is.rows = IF l.reset THEN page.rows ELSE table.is.rows \o page.rows
        /\ is.cursor = page.cursor
    OBVIOUS
  <2>7. is \in Pane
    BY <1>0, <2>5 DEF Pane
  <2> HIDE DEF is
  <2>8. P!Beginning(is, a)
    <3>1. CASE l.reset
      BY <1>0, <2>3, <2>4, <2>6, <3>1, FirstPage
    <3>2. CASE ~l.reset
      <4>1. table.is.rows \in Seq(Row)
        BY <1>0 DEF Pane
      <4>2. /\ is.rows = table.is.rows \o P!Page(a, offset).rows
            /\ is.cursor = P!Page(a, offset).cursor /\ Continues(table.is, a, offset)
        BY <2>3, <2>4, <2>6, <3>2
      <4> QED BY <1>0, <4>1, <4>2, NextPage
    <3> QED BY <3>1, <3>2
  <2>9. table'.is = is /\ table'.artifact = a
    BY <2>2, <2>4
  <2>10. ShowsBeginning'
    <3>1. P!Beginning(table.is, table.artifact)'
      BY <2>1, <2>8, <2>9 DEF P!Beginning
    <3>2. is.error => a \in Artifacts
      BY <1>0, <2>3
    <3>3. is.metadata # None => is.metadata = a
      BY <1>0, <2>4, <2>6 DEF ShowsBeginning
    <3> QED BY <2>9, <3>1, <3>2, <3>3 DEF ShowsBeginning
  <2>11. \A k \in reads' : ~P!Current(k)
    BY <1>0, <2>1
  <2> QED BY <1>0, <2>1, <2>2, <2>7, <2>10, <2>11, Showing
<1>7. ASSUME NEW l \in reads, P!Fails(l) PROVE PagingKept'
  <2> DEFINE is == [loading |-> FALSE, error |-> TRUE, metadata |-> table.is.metadata,
                    rows |-> table.is.rows, cursor |-> table.is.cursor]
  <2>1. P!Current(l) /\ Waited(l) /\ UNCHANGED <<viewer, rowsOf, current>> /\ reads' = reads \ {l}
    BY <1>0, <1>7 DEF P!Fails
  <2>2. table' = [artifact |-> table.artifact, revision |-> table.revision, is |-> is]
    BY <1>0, <1>7 DEF P!Fails, TableRecords, Pane
  <2>3. /\ is \in Pane /\ is.error /\ is.metadata = table.is.metadata
        /\ is.rows = table.is.rows /\ is.cursor = table.is.cursor
    BY <1>0 DEF Pane
  <2> HIDE DEF is
  <2>4. table'.is = is /\ table'.artifact = table.artifact /\ table.artifact \in Artifacts
    BY <1>0, <2>1, <2>2 DEF Waited, Read
  <2>5. ShowsBeginning'
    BY <1>0, <2>1, <2>3, <2>4 DEF ShowsBeginning, P!Beginning
  <2>6. \A k \in reads' : ~P!Current(k)
    BY <1>0, <2>1
  <2> QED BY <1>0, <2>1, <2>2, <2>3, <2>5, <2>6, Showing
<1> QED BY <1>0, <1>1, <1>2, <1>3, <1>4, <1>5, <1>6, <1>7, Zenon
        DEF P!Next, P!Open, P!LoadMore, P!Opened, P!LoadedMore

(* A new object takes the place of the one its artifact has. *)
LEMMA Replacing ==
  ASSUME PagingKept, viewer = "process", NEW a \in Artifacts, NEW o \in Object,
         o.artifact = a, ObjectKept(o),
         objects' = Append(objects, o), current' = [current EXCEPT ![a] = Len(objects')],
         UNCHANGED <<viewer, rowsOf, table>>, reads' \subseteq Read,
         \A l \in reads' : l.of = "rows" => l \in reads
  PROVE  PagingKept'
<1>0. ProcessKept
  BY DEF PagingKept
<1>1. PICK n \in Nat : n = Len(objects) /\ DOMAIN objects = 1 .. n
  BY <1>0 DEF ProcessKept
<1>2. /\ objects' \in Seq(Object) /\ Len(objects') = n + 1 /\ DOMAIN objects' = 1 .. n + 1
      /\ objects'[n + 1] = o
      /\ \A i \in 1 .. n : objects'[i] = objects[i]
  BY <1>0, <1>1, AppendProperties DEF ProcessKept
<1>3. ASSUME NEW i \in DOMAIN objects' PROVE ObjectKept(objects[i])'
  <2>1. PICK x : x = objects'[i]
    OBVIOUS
  <2>2. x = o \/ (i \in DOMAIN objects /\ x = objects[i])
    BY <1>1, <1>2, <2>1
  <2>3. ObjectKept(x)
    BY <1>0, <2>2 DEF ProcessKept
  <2> QED BY <2>1, <2>3 DEF ObjectKept, P!Beginning
<1>4. current' = [current EXCEPT ![a] = n + 1]
  BY <1>2
<1>5. current' \in [Artifacts -> Nat]
  BY <1>0, <1>4 DEF ProcessKept
<1>6. \A b \in Artifacts : current'[b] # 0 =>
        current'[b] \in DOMAIN objects' /\ objects'[current'[b]].artifact = b
  BY <1>0, <1>1, <1>2, <1>4 DEF ProcessKept
<1>7. ASSUME NEW l \in reads', l.of = "rows" PROVE Awaited(l)'
  <2>1. Awaited(l) /\ l.tag \in 1 .. n
    BY <1>0, <1>1, <1>7 DEF ProcessKept, Awaited
  <2>2. l.tag \in DOMAIN objects' /\ objects'[l.tag] = objects[l.tag]
    BY <1>2, <2>1
  <2> QED BY <2>1, <2>2 DEF Awaited, Continues, P!Beginning
<1>8. ProcessKept'
  BY <1>0, <1>2, <1>3, <1>5, <1>6, <1>7 DEF ProcessKept
<1> QED BY <1>8 DEF PagingKept

(* The object i becomes o; the reads of rows that are left are of others, or *)
(* go on where it ends.                                                     *)
LEMMA Changing ==
  ASSUME PagingKept, viewer = "process", NEW i \in DOMAIN objects, NEW o \in Object,
         o.artifact = objects[i].artifact, ObjectKept(o),
         objects' = [objects EXCEPT ![i] = o],
         UNCHANGED <<viewer, rowsOf, table, current>>, reads' \subseteq Read,
         \A l \in reads' : l.of = "rows" => (l \in reads /\ l.tag # i) \/ Awaited(l)',
         \A l, k \in reads' : l.of = "rows" /\ k.of = "rows" /\ l.tag = k.tag => l = k
  PROVE  PagingKept'
<1>0. ProcessKept
  BY DEF PagingKept
<1>1. /\ objects' \in Seq(Object) /\ DOMAIN objects' = DOMAIN objects
      /\ objects'[i] = o
      /\ \A j \in DOMAIN objects : j # i => objects'[j] = objects[j]
  BY <1>0 DEF ProcessKept
<1>2. ASSUME NEW j \in DOMAIN objects' PROVE ObjectKept(objects[j])'
  <2>1. PICK x : x = objects'[j]
    OBVIOUS
  <2>2. x = o \/ x = objects[j]
    BY <1>1, <2>1
  <2>3. ObjectKept(x)
    BY <1>0, <1>1, <2>2 DEF ProcessKept
  <2> QED BY <2>1, <2>3 DEF ObjectKept, P!Beginning
<1>3. \A a \in Artifacts : current'[a] # 0 =>
        current'[a] \in DOMAIN objects' /\ objects'[current'[a]].artifact = a
  BY <1>0, <1>1 DEF ProcessKept
<1>4. \A l \in reads' : l.of = "rows" => Awaited(l)'
  BY <1>0, <1>1 DEF ProcessKept, Awaited, Continues, P!Beginning
<1>5. ProcessKept'
  BY <1>0, <1>1, <1>2, <1>3, <1>4 DEF ProcessKept
<1> QED BY <1>5 DEF PagingKept

LEMMA ProcessStep ==
  ASSUME PagingKept, viewer = "process", P!Next
  PROVE  PagingKept'
<1>0. ProcessKept /\ rowsOf \in [Artifacts -> 0 .. MaxRows] /\ reads \subseteq Read
  BY DEF PagingKept
<1>1. ASSUME NEW a \in Artifacts, P!Open(a) PROVE PagingKept'
  <2> DEFINE o == P!NewObject(a)
  <2>1. o \in Object /\ o.artifact = a /\ ObjectKept(o)
    BY DEF P!NewObject, Object, ObjectKept
  <2>2. /\ objects' = Append(objects, o) /\ current' = [current EXCEPT ![a] = Len(objects')]
        /\ reads' = reads \cup {P!Load(a, 0, TRUE, 0, "both")} /\ UNCHANGED <<viewer, rowsOf, table>>
    BY <1>1 DEF P!Open, P!Send
  <2>3. P!Load(a, 0, TRUE, 0, "both") \in Read /\ P!Load(a, 0, TRUE, 0, "both").of # "rows"
    BY DEF P!Load, Read
  <2> HIDE DEF o
  <2>4. reads' \subseteq Read /\ \A l \in reads' : l.of = "rows" => l \in reads
    BY <1>0, <2>2, <2>3
  <2> QED BY <2>1, <2>2, <2>4, Replacing
<1>2. ASSUME NEW l \in reads, P!Opened(l) PROVE PagingKept'
  <2>1. PICK a \in Artifacts : a = l.artifact
    BY <1>0 DEF Read
  <2> DEFINE page == P!Page(a, 0)
             new == P!NewObject(a)
             good == [new EXCEPT !.loading = FALSE, !.metadata = a, !.rows = page.rows, !.cursor = page.cursor]
             bad == [new EXCEPT !.loading = FALSE, !.error = TRUE]
  <2>2. PICK o \in {good, bad} : objects' = Append(objects, o)
    BY <1>2, <2>1 DEF P!Opened
  <2>3. page.rows \in Seq(Row) /\ page.cursor \in Nat \cup {None}
    BY <1>0, PageTyped
  <2>a. new \in Object /\ new.artifact = a /\ new.metadata = None /\ new.cursor = None
    BY DEF P!NewObject, Object
  <2> HIDE DEF page, new
  <2>4. good \in Object /\ good.artifact = a /\ good.rows = page.rows /\ good.cursor = page.cursor
    BY <2>a, <2>3 DEF Object
  <2>5. bad \in Object /\ bad.artifact = a /\ bad.metadata = None /\ bad.cursor = None
    BY <2>a DEF Object
  <2> HIDE DEF good, bad
  <2>6. P!Beginning(good, a)
    BY <1>0, <2>4, FirstPage DEF page
  <2>7. ObjectKept(good) /\ ObjectKept(bad)
    BY <2>4, <2>5, <2>6 DEF ObjectKept
  <2>8. o \in Object /\ o.artifact = a /\ ObjectKept(o)
    BY <2>2, <2>4, <2>5, <2>7
  <2>9. /\ current' = [current EXCEPT ![a] = Len(objects')] /\ UNCHANGED <<viewer, rowsOf, table>>
        /\ reads' = reads \ {l}
    BY <1>2, <2>1 DEF P!Opened
  <2> QED BY <1>0, <2>2, <2>8, <2>9, Replacing
<1>3. ASSUME NEW a \in Artifacts, P!LoadMore(a) PROVE PagingKept'
  <2>1. PICK i \in DOMAIN objects : i = current[a] /\ objects[i].artifact = a
    BY <1>0, <1>3 DEF P!LoadMore, ProcessKept
  <2>2. objects[i] \in Object /\ ObjectKept(objects[i])
    BY <1>0 DEF ProcessKept
  <2>3. /\ objects[i].cursor # None /\ ~objects[i].more
        /\ objects' = [objects EXCEPT ![i].more = TRUE]
        /\ reads' = reads \cup {P!Load(a, i, FALSE, objects[i].cursor, "rows")}
        /\ UNCHANGED <<viewer, rowsOf, table, current>>
    BY <1>3, <2>1 DEF P!LoadMore, P!Object, P!Send
  <2>4. PICK o : o = [objects[i] EXCEPT !.more = TRUE]
    OBVIOUS
  <2>5. /\ o \in Object /\ o.more /\ o.artifact = a
        /\ o.rows = objects[i].rows /\ o.cursor = objects[i].cursor /\ o.metadata = objects[i].metadata
    BY <2>1, <2>2, <2>4 DEF Object
  <2>6. objects' = [objects EXCEPT ![i] = o]
    BY <1>0, <2>3, <2>4 DEF ProcessKept
  <2>7. P!Beginning(objects[i], a)
    BY <2>1, <2>2, <2>3 DEF ObjectKept
  <2>8. Continues(o, a, o.cursor) /\ ObjectKept(o)
    BY <2>3, <2>5, <2>7 DEF Continues, ObjectKept, P!Beginning
  <2>9. PICK offset \in Nat : offset = o.cursor
    BY <2>3, <2>5 DEF Object
  <2>10. PICK read : read = P!Load(a, i, FALSE, offset, "rows")
    OBVIOUS
  <2>11. i \in Nat /\ objects' \in Seq(Object) /\ objects'[i] = o /\ i \in DOMAIN objects'
    BY <1>0, <2>5, <2>6 DEF ProcessKept
  <2>12. read \in Read /\ read.artifact = a /\ read.tag = i /\ read.offset = offset
    BY <2>10, <2>11 DEF P!Load, Read
  <2>13. reads' = reads \cup {read}
    BY <2>3, <2>5, <2>9, <2>10
  <2>14. Awaited(read)'
    <3>1. Continues(o, a, offset)'
      BY <2>3, <2>8, <2>9 DEF Continues, P!Beginning
    <3>2. DOMAIN objects' = DOMAIN objects /\ objects'[i] = o
      BY <2>6, <2>11
    <3> QED BY <2>5, <2>12, <3>1, <3>2 DEF Awaited
  <2>15. \A l \in reads : l.of = "rows" => l.tag # i
    BY <1>0, <2>3 DEF ProcessKept, Awaited
  <2>16. reads' \subseteq Read
    BY <1>0, <2>12, <2>13
  <2>17. \A l \in reads' : l.of = "rows" => (l \in reads /\ l.tag # i) \/ Awaited(l)'
    BY <2>13, <2>14, <2>15
  <2>18. \A l, k \in reads' : l.of = "rows" /\ k.of = "rows" /\ l.tag = k.tag => l = k
    BY <1>0, <2>12, <2>13, <2>15 DEF ProcessKept
  <2> QED BY <2>1, <2>3, <2>5, <2>6, <2>8, <2>16, <2>17, <2>18, Changing
<1>4. ASSUME NEW l \in reads, P!LoadedMore(l) PROVE PagingKept'
  <2>1. Awaited(l) /\ l.of = "rows"
    BY <1>0, <1>4 DEF P!LoadedMore, ProcessKept
  <2>2. PICK i \in DOMAIN objects, a \in Artifacts, offset \in Nat :
          i = l.tag /\ a = l.artifact /\ offset = l.offset
    BY <1>0, <2>1 DEF Awaited, Read
  <2>3. PICK b \in Object : b = objects[i]
    BY <1>0 DEF ProcessKept
  <2>4. b.artifact = a /\ Continues(b, a, offset) /\ ObjectKept(b)
    BY <1>0, <2>1, <2>2, <2>3 DEF Awaited, ProcessKept
  <2> DEFINE page == P!Page(a, offset)
             good == [b EXCEPT !.rows = b.rows \o page.rows, !.cursor = page.cursor, !.more = FALSE]
             bad == [b EXCEPT !.error = TRUE, !.more = FALSE]
  <2>7. PICK o \in {good, bad} : objects' = [objects EXCEPT ![i] = o]
    BY <1>4, <2>2, <2>3 DEF P!LoadedMore
  <2>8. page.rows \in Seq(Row) /\ page.cursor \in Nat \cup {None}
    BY <1>0, <2>4, PageTyped DEF Continues
  <2> HIDE DEF page
  <2>a. b.rows \in Seq(Row)
    BY DEF Object
  <2>b. b.rows \o page.rows \in Seq(Row)
    BY <2>a, <2>8
  <2>9. good \in Object /\ good.artifact = a /\ good.rows = b.rows \o page.rows /\ good.cursor = page.cursor
    BY <2>4, <2>8, <2>b DEF Object
  <2>10. /\ bad \in Object /\ bad.artifact = a
         /\ bad.rows = b.rows /\ bad.cursor = b.cursor /\ bad.metadata = b.metadata
    BY <2>4 DEF Object
  <2> HIDE DEF good, bad
  <2>11. P!Beginning(good, a)
    BY <1>0, <2>4, <2>9, <2>a, NextPage DEF page
  <2>12. ObjectKept(good)
    BY <2>9, <2>11 DEF ObjectKept
  <2>13. ObjectKept(bad)
    BY <2>4, <2>10 DEF ObjectKept, P!Beginning
  <2>14. o \in Object /\ o.artifact = a /\ ObjectKept(o)
    BY <2>7, <2>9, <2>10, <2>12, <2>13
  <2>15. reads' = reads \ {l} /\ UNCHANGED <<viewer, rowsOf, table, current>>
    BY <1>4 DEF P!LoadedMore
  <2>16. \A k \in reads' : k.of = "rows" => k \in reads /\ k.tag # i
    BY <1>0, <2>1, <2>2, <2>15 DEF ProcessKept
  <2>17. \A j, k \in reads' : j.of = "rows" /\ k.of = "rows" /\ j.tag = k.tag => j = k
    BY <1>0, <2>15 DEF ProcessKept
  <2>18. o.artifact = objects[i].artifact /\ reads' \subseteq Read
    BY <1>0, <2>3, <2>4, <2>14, <2>15
  <2> QED BY <2>7, <2>14, <2>15, <2>16, <2>17, <2>18, Changing
<1> QED BY <1>1, <1>2, <1>3, <1>4
        DEF P!Next, P!Show, P!Retry, P!More, P!Stale, P!MetadataReply, P!RowsReply, P!Fails

(* The rows under the description of an artifact are its rows from the      *)
(* first on, each once, and "load more" goes on behind them, for any        *)
(* artifacts, numbers of rows, sizes of a page and requests under way.      *)
THEOREM PagesInOrder == AllSpec => []PagesFollow
<1>1. AllInit => (part = "paging" => PagingKept)
  BY PagingInit DEF AllInit
<1>2. (part = "paging" => PagingKept) /\ [AllNext]_all => (part = "paging" => PagingKept)'
  <2>1. PagingKept /\ UNCHANGED paging => PagingKept'
    BY DEF PagingKept, TableKept, ShowsBeginning, Waited, Continues, ProcessKept, ObjectKept, Awaited,
           P!Current, P!Beginning, paging
  <2> QED BY <2>1, PartStep, TableStep, ProcessStep
<1>3. (part = "paging" => PagingKept) => PagesFollow
  <2> SUFFICES ASSUME PagingKept PROVE P!PagesFollow
    BY DEF PagesFollow
  <2>1. CASE viewer # "process"
    BY <2>1 DEF PagingKept, TableKept, ShowsBeginning, P!PagesFollow
  <2>2. CASE viewer = "process"
    <3>1. table.is.metadata = None
      BY <2>2 DEF PagingKept, ProcessKept, P!Blank
    <3>2. \A a \in Artifacts : current[a] # 0 /\ P!Object(a).metadata # None => P!Beginning(P!Object(a), a)
      BY <2>2 DEF PagingKept, ProcessKept, ObjectKept, P!Object
    <3> QED BY <3>1, <3>2 DEF P!PagesFollow
  <2> QED BY <2>1, <2>2
<1> QED BY <1>1, <1>2, <1>3, PTL DEF AllSpec
-----------------------------------------------------------------------------
(* Upload *)

CellValues == [kind : Kinds, n : Nat]

IsSequence(s) == \E n \in Nat : s = [i \in 1 .. n |-> s[i]]

LEMMA Scaled ==
  ASSUME NEW e \in Nat, NEW k \in Nat, NEW m \in Nat, k <= m
  PROVE  e * k <= e * m
<1>1. PICK d \in Nat : m = k + d
  <2>1. m - k \in Nat /\ m = k + (m - k)
    OBVIOUS
  <2> QED BY <2>1
<1>2. e * m = e * k + e * d /\ e * k \in Nat /\ e * d \in Nat
  BY <1>1
<1> QED BY <1>2

LEMMA AsSequence ==
  ASSUME NEW n \in Nat, NEW s, s = [i \in 1 .. n |-> s[i]]
  PROVE  s \in Seq({s[i] : i \in 1 .. n}) /\ Len(s) = n /\ DOMAIN s = 1 .. n
<1>1. s \in [1 .. n -> {s[i] : i \in 1 .. n}]
  OBVIOUS
<1> QED BY <1>1

(* The double next to a number differs from it by half of what lies between *)
(* two doubles there, which is one part in Exact at most.                   *)
LEMMA RoundedNear ==
  ASSUME NEW n \in Nat, U!InRange(n)
  PROVE  U!Rounded(n) \in Nat /\ Exact * (U!Rounded(n) - n) \in -n .. n
<1>1. PICK e \in Nat : e = Exact
  BY PagesAssumption
<1> DEFINE chosen == CHOOSE s \in Spacings : U!IsSpacing(n, s)
<1>2. chosen \in Spacings /\ U!IsSpacing(n, chosen)
  BY DEF U!InRange
<1> HIDE DEF chosen
<1>3. PICK s \in Nat \ {0} : s = chosen
  BY <1>2, PagesAssumption
<1>4. s = 1 \/ e * s <= 2 * n
  BY <1>1, <1>2, <1>3 DEF U!IsSpacing
<1>5. PICK q \in Nat, r \in Nat : q = n \div s /\ r = n % s /\ n = s * q + r /\ r < s
  BY <1>3
<1> DEFINE up == 2 * r > s \/ (2 * r = s /\ q % 2 = 1)
<1>6. U!Rounded(n) = s * q + (IF up THEN s ELSE 0)
  <2>1. U!Rounded(n) = chosen * (n \div chosen)
                         + (IF 2 * (n % chosen) > chosen
                               \/ (2 * (n % chosen) = chosen /\ (n \div chosen) % 2 = 1)
                              THEN chosen ELSE 0)
    BY Zenon DEF U!Rounded, chosen
  <2>2. U!Rounded(n) = s * (n \div s)
                         + (IF 2 * (n % s) > s \/ (2 * (n % s) = s /\ (n \div s) % 2 = 1) THEN s ELSE 0)
    BY <1>3, <2>1, Zenon
  <2>3. PICK i \in Nat : i = n % s /\ i = r
    BY <1>5
  <2>4. PICK j \in Nat : j = n \div s /\ j = q
    BY <1>5
  <2> QED BY <2>2, <2>3, <2>4
<1>7. s * q \in Nat
  BY <1>3, <1>5
<1>8. CASE up
  <2>1. PICK d \in Nat : d = s - r /\ 2 * d <= s /\ s # 1
    BY <1>3, <1>5, <1>8
  <2>2. U!Rounded(n) = n + d
    <3>1. U!Rounded(n) = s * q + s
      BY <1>6, <1>8
    <3> QED BY <1>3, <1>5, <1>7, <2>1, <3>1
  <2>3. e * (2 * d) <= e * s
    BY <1>1, <1>3, <2>1, Scaled
  <2>4. PICK p \in Nat : p = e * d /\ 2 * p = e * (2 * d)
    BY <1>1, <2>1
  <2>5. p <= n
    <3>1. PICK k \in Nat : k = e * s
      BY <1>1, <1>3
    <3> QED BY <1>4, <2>1, <2>3, <2>4, <3>1
  <2>6. U!Rounded(n) - n = d
    BY <2>1, <2>2
  <2> QED BY <1>1, <2>1, <2>2, <2>4, <2>5, <2>6
<1>9. CASE ~up
  <2>1. U!Rounded(n) = s * q /\ 2 * r <= s
    BY <1>3, <1>5, <1>6, <1>7, <1>9
  <2>2. U!Rounded(n) - n = -r
    BY <1>3, <1>5, <1>7, <2>1
  <2>3. e * (2 * r) <= e * s
    BY <1>1, <1>3, <1>5, <2>1, Scaled
  <2>4. PICK p \in Nat : p = e * r /\ 2 * p = e * (2 * r) /\ e * (-r) = -p
    BY <1>1, <1>5
  <2>5. p <= n
    <3>1. CASE s = 1
      <4>1. r = 0
        BY <1>5, <3>1
      <4> QED BY <1>1, <2>4, <4>1
    <3>2. CASE s # 1
      <4>1. PICK k \in Nat : k = e * s
        BY <1>1, <1>3
      <4> QED BY <1>4, <2>3, <2>4, <3>2, <4>1
    <3> QED BY <3>1, <3>2
  <2> QED BY <1>1, <1>7, <2>1, <2>2, <2>4, <2>5
<1> QED BY <1>8, <1>9

LEMMA CellSays ==
  ASSUME NEW raw \in CellValues, NEW type,
         type = "TEXT" \/ U!Normal(raw) = U!Null \/ U!IsNumeric(U!Normal(raw))
  PROVE  U!Says(raw, U!Coerce(U!Normal(raw), type), type)
<1>0. PICK n \in Nat : n = raw.n /\ raw = [kind |-> raw.kind, n |-> n]
  BY DEF CellValues
<1>1. CASE type = "TEXT"
  BY <1>0, <1>1 DEF U!Normal, U!Says, U!Coerce
<1>2. CASE type # "TEXT" /\ raw.kind \in {"blank", "text", "typed"}
  BY <1>2 DEF U!Normal, U!Null, U!IsNumeric, U!Says, U!Coerce
<1>3. CASE type # "TEXT" /\ raw.kind \in {"number", "padded", "grouped"}
  <2>1. U!Normal(raw).kind \in {"number", "padded"} /\ U!Normal(raw).n = n
    BY <1>0, <1>3 DEF U!Normal, CellValues
  <2>2. U!Coerce(U!Normal(raw), type)
          = IF U!IsFinite(n) THEN [kind |-> "typed", n |-> U!Rounded(n)] ELSE U!Null
    BY <1>3, <2>1 DEF U!Coerce, U!IsNumeric
  <2>3. U!IsFinite(n) => Exact * (U!Rounded(n) - n) \in -n .. n
    BY RoundedNear DEF U!IsFinite
  <2>4. raw.kind \notin {"blank", "typed", "text"}
    BY <1>3
  <2>5. CASE U!IsFinite(n)
    <3>1. PICK k : k = U!Rounded(n)
      OBVIOUS
    <3>2. PICK kept : kept = U!Coerce(U!Normal(raw), type) /\ kept = [kind |-> "typed", n |-> k]
      BY <2>2, <2>5, <3>1
    <3>3. Exact * (kept.n - n) \in -n .. n
      BY <2>3, <2>5, <3>1, <3>2
    <3> QED BY <1>0, <1>3, <2>4, <2>5, <3>2, <3>3 DEF U!Says
  <2>6. CASE ~U!IsFinite(n)
    BY <1>0, <1>3, <2>2, <2>4, <2>6 DEF U!Says
  <2> QED BY <2>5, <2>6
<1> QED BY <1>1, <1>2, <1>3 DEF CellValues, Kinds

(* A column that has a type other than text holds numbers or nothing. *)
LEMMA Inferred ==
  ASSUME NEW cells, NEW cell \in cells
  PROVE  U!Infer(cells) = "TEXT" \/ cell = U!Null \/ U!IsNumeric(cell)
BY DEF U!Infer

(* What Holds says, but for the names of columns, which CREATE TABLE tests *)
KeepsSheet(t, sheet) ==
  /\ IsFiniteSet(DOMAIN t.columns)
  /\ {t.columns[c].originalName : c \in DOMAIN t.columns} = {sheet.header[c] : c \in DOMAIN sheet.rows[1]}
  /\ \A c, d \in DOMAIN t.columns : t.columns[c].originalName = t.columns[d].originalName => c = d
  /\ Len(t.rows) = Len(sheet.rows)
  /\ \A r \in DOMAIN t.rows, c \in DOMAIN t.columns :
       LET cells == U!Under(sheet, r, t.columns[c].originalName)
       IN /\ cells = {} => t.rows[r][c] = U!Null
          /\ \A d \in cells : (\A e \in cells : e <= d) =>
               U!Says(sheet.rows[r][d], t.rows[r][c], t.columns[c].type)

LEMMA LeastOf ==
  ASSUME NEW W, W \subseteq Nat, W # {}
  PROVE  \E k \in W : \A n \in W : k <= n
<1> DEFINE less == {p \in Nat \X Nat : p[1] < p[2]}
<1>1. IsWellFoundedOn(less, Nat)
  BY NatLessThanWellFounded DEF OpToRel
<1>2. PICK k \in W : \A n \in W : ~(<<n, k>> \in less)
  <2> HIDE DEF less
  <2> QED BY <1>1, WFMin, Zenon
<1>3. \A n \in W : ~(n < k)
  BY <1>2
<1> QED BY <1>3

LEMMA MaxIs ==
  ASSUME NEW W, W \subseteq Nat, NEW k \in W, \A n \in W : n <= k
  PROVE  U!Max(W) = k
<1>1. \A n \in W : k >= n
  OBVIOUS
<1>2. U!Max(W) \in W /\ \A n \in W : U!Max(W) >= n
  BY <1>1 DEF U!Max
<1>3. PICK m \in W : m = U!Max(W)
  BY <1>2
<1>4. m >= k /\ k >= m
  BY <1>1, <1>2, <1>3
<1> QED BY <1>3, <1>4

(* Each name over the first row is one of a column. *)
LEMMA KeysAreNames ==
  ASSUME NEW sheet, NEW w \in Nat, Len(sheet.rows[1]) = w, DOMAIN sheet.rows[1] = 1 .. w
  PROVE  /\ U!Keys(sheet) \subseteq 1 .. w
         /\ \A c \in 1 .. w : \E k \in U!Keys(sheet) : sheet.header[k] = sheet.header[c]
         /\ \A c, d \in U!Keys(sheet) : sheet.header[c] = sheet.header[d] => c = d
<1>1. U!Keys(sheet) \subseteq 1 .. w
  BY DEF U!Keys
<1>2. ASSUME NEW c \in 1 .. w PROVE \E k \in U!Keys(sheet) : sheet.header[k] = sheet.header[c]
  <2> DEFINE W == {d \in 1 .. w : sheet.header[d] = sheet.header[c]}
  <2>1. PICK k \in W : \A n \in W : k <= n
    <3>1. W \subseteq Nat /\ W # {}
      OBVIOUS
    <3> HIDE DEF W
    <3> QED BY <3>1, LeastOf
  <2>2. ASSUME NEW d \in 1 .. k - 1 PROVE sheet.header[d] # sheet.header[k]
    <3>1. d \in 1 .. w /\ ~(k <= d)
      BY <2>1
    <3> QED BY <2>1, <3>1
  <2> QED BY <2>1, <2>2 DEF U!Keys
<1>3. ASSUME NEW c \in U!Keys(sheet), NEW d \in U!Keys(sheet), sheet.header[c] = sheet.header[d], c < d
      PROVE  FALSE
  <2>1. c \in 1 .. d - 1
    BY <1>1, <1>3
  <2> QED BY <1>3, <2>1 DEF U!Keys
<1> QED BY <1>1, <1>2, <1>3

LEMMA TableKeeps ==
  ASSUME NEW f \in Files, NEW config, U!CanPrepare(f, config), NEW t, t = U!Table(f, config)
  PROVE  /\ t = [name |-> t.name, columns |-> t.columns, rows |-> t.rows]
         /\ IsSequence(t.rows)
         /\ KeepsSheet(t, U!SheetOf(f, config))
<1> DEFINE sheet == U!SheetOf(f, config)
           type(c) == U!Infer({U!Cell(sheet, r, c) : r \in DOMAIN sheet.rows})
           heads == [c \in U!Keys(sheet) |->
                       [originalName |-> sheet.header[c], name |-> U!UniqueNames(sheet)[c], type |-> type(c)]]
           rows == [r \in DOMAIN sheet.rows |->
                      [c \in U!Keys(sheet) |-> U!Coerce(U!Cell(sheet, r, c), type(c))]]
<1>1. t = [name |-> config.name, columns |-> heads, rows |-> rows]
  BY DEF U!Table
<1>2. PICK lines \in Seq(Seq(CellValues)) : lines = sheet.rows
  BY PagesAssumption DEF U!CanPrepare, U!SheetOf, CellValues
<1>3. PICK m \in Nat : m = Len(lines) /\ DOMAIN lines = 1 .. m /\ 1 \in DOMAIN lines
  BY <1>2 DEF U!CanPrepare
<1>4. PICK w \in Nat : w = Len(sheet.rows[1]) /\ DOMAIN sheet.rows[1] = 1 .. w
  BY <1>2, <1>3
<1>k. /\ U!Keys(sheet) \subseteq 1 .. w
      /\ \A c \in 1 .. w : \E k \in U!Keys(sheet) : sheet.header[k] = sheet.header[c]
      /\ \A c, d \in U!Keys(sheet) : sheet.header[c] = sheet.header[d] => c = d
  <2>1. PICK x : x = sheet
    OBVIOUS
  <2> QED BY <1>4, <2>1, KeysAreNames
<1>5. rows = [r \in 1 .. m |-> rows[r]] /\ DOMAIN heads = U!Keys(sheet)
  BY <1>2, <1>3
<1>6. Len(rows) = m /\ DOMAIN rows = 1 .. m
  BY <1>5, AsSequence
<1>7. ASSUME NEW r \in 1 .. m, NEW c \in U!Keys(sheet)
      PROVE  LET cells == U!Under(sheet, r, heads[c].originalName)
             IN /\ cells = {} => rows[r][c] = U!Null
                /\ \A d \in cells : (\A e \in cells : e <= d) => U!Says(lines[r][d], rows[r][c], heads[c].type)
  <2> DEFINE cells == U!Under(sheet, r, sheet.header[c])
  <2>1. /\ rows[r][c] = U!Coerce(U!Cell(sheet, r, c), type(c)) /\ heads[c].type = type(c)
        /\ heads[c].originalName = sheet.header[c]
    BY <1>2, <1>3
  <2>2. lines[r] \in Seq(CellValues) /\ cells \subseteq DOMAIN lines[r]
    BY <1>2, <1>3 DEF U!Under
  <2>3. U!Cell(sheet, r, c) \in {U!Cell(sheet, q, c) : q \in DOMAIN sheet.rows}
    BY <1>2, <1>3
  <2>4. type(c) = "TEXT" \/ U!Cell(sheet, r, c) = U!Null \/ U!IsNumeric(U!Cell(sheet, r, c))
    BY <2>3, Inferred
  <2>5. U!Cell(sheet, r, c) = IF cells = {} THEN U!Null ELSE U!Normal(lines[r][U!Max(cells)])
    BY <1>2 DEF U!Cell
  <2> HIDE DEF cells, type, heads, rows
  <2>6. ASSUME cells = {} PROVE rows[r][c] = U!Null
    BY <2>1, <2>5, <2>6 DEF U!Coerce, U!Null
  <2>7. ASSUME NEW d \in cells, \A e \in cells : e <= d
        PROVE  U!Says(lines[r][d], rows[r][c], heads[c].type)
    <3>1. cells \subseteq Nat /\ lines[r][d] \in CellValues
      BY <2>2
    <3>2. U!Max(cells) = d
      BY <2>7, <3>1, MaxIs
    <3>3. U!Cell(sheet, r, c) = U!Normal(lines[r][d])
      BY <2>5, <3>2
    <3>4. PICK raw \in CellValues : raw = lines[r][d]
      BY <3>1
    <3>5. U!Says(raw, U!Coerce(U!Normal(raw), type(c)), type(c))
      BY <2>4, <3>3, <3>4, CellSays
    <3> QED BY <2>1, <3>3, <3>4, <3>5
  <2> QED BY <2>1, <2>6, <2>7 DEF cells
<1>8. {heads[c].originalName : c \in DOMAIN heads} = {sheet.header[c] : c \in DOMAIN sheet.rows[1]}
  <2>1. \A c \in U!Keys(sheet) : heads[c].originalName = sheet.header[c]
    OBVIOUS
  <2> HIDE DEF heads, sheet
  <2>2. ASSUME NEW c \in DOMAIN heads PROVE heads[c].originalName \in {sheet.header[k] : k \in DOMAIN sheet.rows[1]}
    <3>1. c \in DOMAIN sheet.rows[1] /\ heads[c].originalName = sheet.header[c]
      BY <1>4, <1>5, <1>k, <2>1, <2>2
    <3> QED BY <3>1
  <2>3. ASSUME NEW c \in DOMAIN sheet.rows[1] PROVE sheet.header[c] \in {heads[k].originalName : k \in DOMAIN heads}
    <3>1. PICK k \in U!Keys(sheet) : sheet.header[k] = sheet.header[c]
      BY <1>4, <1>k, <2>3
    <3>2. k \in DOMAIN heads /\ heads[k].originalName = sheet.header[c]
      BY <1>5, <2>1, <3>1
    <3> QED BY <3>2
  <2> QED BY <2>2, <2>3
<1>9. \A c, d \in DOMAIN heads : heads[c].originalName = heads[d].originalName => c = d
  BY <1>k
<1>10. IsFiniteSet(DOMAIN heads)
  <2>1. IsFiniteSet(1 .. w)
    BY <1>4, FS_Interval
  <2> QED BY <1>5, <1>k, <2>1, FS_Subset
<1> HIDE DEF heads, rows
<1>11. IsSequence(rows)
  BY <1>5 DEF IsSequence
<1>12. KeepsSheet(t, sheet)
  <2> HIDE DEF sheet
  <2>1. t.columns = heads /\ t.rows = rows /\ Len(t.rows) = Len(sheet.rows)
    BY <1>1, <1>2, <1>3, <1>6
  <2>2. ASSUME NEW r \in DOMAIN t.rows, NEW c \in DOMAIN t.columns
        PROVE  LET cells == U!Under(sheet, r, t.columns[c].originalName)
               IN /\ cells = {} => t.rows[r][c] = U!Null
                  /\ \A d \in cells : (\A e \in cells : e <= d) =>
                       U!Says(sheet.rows[r][d], t.rows[r][c], t.columns[c].type)
    <3>1. r \in 1 .. m /\ c \in U!Keys(sheet)
      BY <1>5, <1>6, <2>1
    <3> QED BY <1>2, <1>7, <2>1, <3>1
  <2>3. {t.columns[c].originalName : c \in DOMAIN t.columns} = {sheet.header[c] : c \in DOMAIN sheet.rows[1]}
    BY <1>8, <2>1, Zenon
  <2>4. \A c, d \in DOMAIN t.columns : t.columns[c].originalName = t.columns[d].originalName => c = d
    BY <1>9, <2>1, Zenon
  <2>5. IsFiniteSet(DOMAIN t.columns)
    BY <1>10, <2>1, Zenon
  <2> QED BY <2>1, <2>2, <2>3, <2>4, <2>5, Zenon DEF KeepsSheet
<1> QED BY <1>1, <1>11, <1>12

(* The table t with its first k rows *)
Partial(t, k) == [name |-> t.name, columns |-> t.columns, rows |-> SubSeq(t.rows, 1, k)]

WholeTable(t) == t = [name |-> t.name, columns |-> t.columns, rows |-> t.rows]

(* A table that is created has the columns of the one that was prepared, and *)
(* its first rows; only the last may lack some.                             *)
CreatedKept(j) ==
  /\ DOMAIN ready[j].columns # {}
  /\ U!IsInjective([c \in DOMAIN ready[j].columns |-> ready[j].columns[c].name])
  /\ \E k \in Nat : /\ k <= Len(ready[j].rows) /\ created[j] = Partial(ready[j], k)
                    /\ j < Len(created) => k = Len(ready[j].rows)

UploadKept ==
  /\ file \in Files \cup {None} /\ IsSequence(configs)
  /\ upload # None => upload.file \in Files /\ IsSequence(upload.configs)
  /\ ready # <<>> =>
       /\ upload # None
       /\ ready = [i \in DOMAIN upload.configs |-> U!Table(upload.file, upload.configs[i])]
       /\ \A i \in DOMAIN upload.configs : U!CanPrepare(upload.file, upload.configs[i])
  /\ ready = <<>> => created = <<>>
  /\ created = [j \in 1 .. Len(created) |-> created[j]] /\ Len(created) \in 0 .. Len(ready)
  /\ \A j \in 1 .. Len(created) : CreatedKept(j)
  /\ U!UploadKeepsFile

LEMMA UploadInit ==
  ASSUME U!Init
  PROVE  UploadKept
<1>1. IsSequence(<<>>)
  BY DEF IsSequence
<1> QED BY <1>1 DEF U!Init, UploadKept, U!UploadKeepsFile

LEMMA LengthOf ==
  ASSUME NEW rows, IsSequence(rows)
  PROVE  Len(rows) \in Nat
BY AsSequence DEF IsSequence

LEMMA Rows ==
  ASSUME NEW rows, IsSequence(rows), NEW k \in Nat, k <= Len(rows)
  PROVE  /\ Len(rows) \in Nat /\ Len(SubSeq(rows, 1, k)) = k /\ SubSeq(rows, 1, Len(rows)) = rows
         /\ SubSeq(rows, 1, k) = [i \in 1 .. k |-> rows[i]]
<1>1. PICK n \in Nat : rows = [i \in 1 .. n |-> rows[i]]
  BY DEF IsSequence
<1> DEFINE S == {rows[i] : i \in 1 .. n}
<1>2. rows \in Seq(S) /\ Len(rows) = n
  BY <1>1, AsSequence
<1>3. \A i \in 1 .. n : rows[i] \in S
  OBVIOUS
<1> HIDE DEF S
<1>4. ASSUME NEW m \in 0 .. n
      PROVE  Len(SubSeq(rows, 1, m)) = m /\ SubSeq(rows, 1, m) = [i \in 1 .. m |-> rows[i]]
  <2> DEFINE piece == SubSeq(rows, 1, m)
  <2>1. /\ piece \in Seq(S) /\ Len(piece) = IF 1 <= m THEN m - 1 + 1 ELSE 0
        /\ \A i \in 1 .. m - 1 + 1 : piece[i] = rows[1 + i - 1]
    BY <1>2, <1>3, SubSeqProperties
  <2> HIDE DEF piece
  <2>2. Len(piece) = m /\ \A i \in 1 .. m : piece[i] = rows[i]
    BY <2>1
  <2>3. piece = [i \in 1 .. m |-> piece[i]]
    BY <2>1, <2>2
  <2>4. piece = [i \in 1 .. m |-> rows[i]]
    BY <2>2, <2>3
  <2> QED BY <2>2, <2>4 DEF piece
<1> QED BY <1>1, <1>2, <1>4

LEMMA MoreRows ==
  ASSUME NEW rows, IsSequence(rows), NEW k \in Nat, NEW m \in Nat, k <= m, m <= Len(rows)
  PROVE  SubSeq(rows, 1, k) \o SubSeq(rows, k + 1, m) = SubSeq(rows, 1, m)
<1>1. PICK n \in Nat : rows = [i \in 1 .. n |-> rows[i]]
  BY DEF IsSequence
<1> DEFINE S == {rows[i] : i \in 1 .. n}
<1>2. rows \in Seq(S) /\ Len(rows) = n /\ m <= n
  BY <1>1, AsSequence
<1>3. \A i \in 1 .. n : rows[i] \in S
  OBVIOUS
<1> HIDE DEF S
<1>4. PICK a \in Seq(S) : a = SubSeq(rows, 1, k) /\ Len(a) = k /\ \A i \in 1 .. k : a[i] = rows[i]
  <2>1. SubSeq(rows, 1, k) \in Seq(S)
    BY <1>2, <1>3, SubSeqProperties
  <2>2. Len(SubSeq(rows, 1, k)) = k /\ SubSeq(rows, 1, k) = [i \in 1 .. k |-> rows[i]]
    BY <1>2, Rows
  <2> QED BY <2>1, <2>2
<1>5. PICK b \in Seq(S) : /\ b = SubSeq(rows, k + 1, m) /\ Len(b) = m - k
                          /\ \A i \in 1 .. m - k : b[i] = rows[k + i]
  <2> DEFINE piece == SubSeq(rows, k + 1, m)
  <2>1. /\ piece \in Seq(S) /\ Len(piece) = IF k + 1 <= m THEN m - (k + 1) + 1 ELSE 0
        /\ \A i \in 1 .. m - (k + 1) + 1 : piece[i] = rows[k + 1 + i - 1]
    BY <1>2, <1>3, SubSeqProperties
  <2> HIDE DEF piece
  <2>2. Len(piece) = m - k
    BY <2>1
  <2>3. ASSUME NEW i \in 1 .. m - k PROVE piece[i] = rows[k + i]
    <3>1. i \in 1 .. m - (k + 1) + 1 /\ k + 1 + i - 1 = k + i
      OBVIOUS
    <3> QED BY <2>1, <3>1
  <2> QED BY <2>1, <2>2, <2>3 DEF piece
<1> DEFINE both == a \o b
<1>6. /\ both \in Seq(S) /\ Len(both) = m
      /\ \A i \in 1 .. m : both[i] = IF i <= k THEN a[i] ELSE b[i - k]
  <2>1. Len(a) + Len(b) = m
    BY <1>4, <1>5
  <2> QED BY <1>4, <2>1, ConcatProperties
<1> HIDE DEF both
<1>7. ASSUME NEW i \in 1 .. m PROVE both[i] = rows[i]
  <2>1. CASE i <= k
    BY <1>4, <1>6, <2>1
  <2>2. CASE ~(i <= k)
    <3>1. PICK j \in 1 .. m - k : j = i - k /\ k + j = i
      BY <2>2
    <3> QED BY <1>5, <1>6, <2>2, <3>1
  <2> QED BY <2>1, <2>2
<1>8. both = [i \in 1 .. m |-> rows[i]]
  BY <1>6, <1>7
<1>9. SubSeq(rows, 1, m) = [i \in 1 .. m |-> rows[i]]
  BY <1>2, Rows
<1> QED BY <1>4, <1>5, <1>8, <1>9 DEF both

(* Tables that were prepared are whole, and keep what their sheets say. *)
LEMMA ReadyTables ==
  ASSUME UploadKept
  PROVE  /\ Len(ready) \in Nat /\ ready = [i \in 1 .. Len(ready) |-> ready[i]]
         /\ \A i \in 1 .. Len(ready) :
              /\ WholeTable(ready[i]) /\ IsSequence(ready[i].rows)
              /\ KeepsSheet(ready[i], U!SheetOf(upload.file, upload.configs[i]))
         /\ ready # <<>> => DOMAIN upload.configs = 1 .. Len(ready)
<1>1. CASE ready = <<>>
  BY <1>1
<1>2. CASE ready # <<>>
  <2>1. /\ upload.file \in Files /\ IsSequence(upload.configs)
        /\ ready = [i \in DOMAIN upload.configs |-> U!Table(upload.file, upload.configs[i])]
        /\ \A i \in DOMAIN upload.configs : U!CanPrepare(upload.file, upload.configs[i])
    BY <1>2 DEF UploadKept
  <2>2. PICK n \in Nat : DOMAIN upload.configs = 1 .. n
    BY <2>1 DEF IsSequence
  <2>3. ready = [i \in 1 .. n |-> ready[i]]
    BY <2>1, <2>2
  <2>4. Len(ready) = n
    BY <2>3, AsSequence
  <2>5. ASSUME NEW i \in 1 .. n
        PROVE  /\ WholeTable(ready[i]) /\ IsSequence(ready[i].rows)
               /\ KeepsSheet(ready[i], U!SheetOf(upload.file, upload.configs[i]))
    <3>1. PICK t : t = ready[i] /\ t = U!Table(upload.file, upload.configs[i])
      BY <2>1, <2>2
    <3>0. PICK f \in Files : f = upload.file
      BY <2>1
    <3>2. PICK config : config = upload.configs[i]
      OBVIOUS
    <3>3. U!CanPrepare(f, config) /\ t = U!Table(f, config)
      BY <2>1, <2>2, <3>0, <3>1, <3>2
    <3>4. /\ t = [name |-> t.name, columns |-> t.columns, rows |-> t.rows]
          /\ IsSequence(t.rows) /\ KeepsSheet(t, U!SheetOf(f, config))
      BY <3>3, TableKeeps
    <3> QED BY <3>0, <3>1, <3>2, <3>4 DEF WholeTable
  <2> QED BY <2>2, <2>3, <2>4, <2>5
<1> QED BY <1>1, <1>2

(* When no table is being filled, those that there are are whole. *)
LEMMA CreatedWhole ==
  ASSUME UploadKept, ~U!Working, NEW j \in 1 .. Len(created)
  PROVE  created[j] = ready[j] /\ created[j] = Partial(ready[j], Len(ready[j].rows))
<1>1. PICK n \in Nat : n = Len(created) /\ n <= Len(ready) /\ created = [i \in 1 .. n |-> created[i]]
  BY ReadyTables DEF UploadKept
<1>2. j \in 1 .. Len(ready)
  BY <1>1, ReadyTables
<1>3. WholeTable(ready[j]) /\ IsSequence(ready[j].rows)
  BY <1>2, ReadyTables
<1>4. PICK k \in Nat : /\ k <= Len(ready[j].rows) /\ created[j] = Partial(ready[j], k)
                       /\ j < n => k = Len(ready[j].rows)
  BY <1>1 DEF UploadKept, CreatedKept
<1>5. Len(ready[j].rows) \in Nat /\ Len(created[j].rows) = k
  BY <1>3, <1>4, Rows DEF Partial
<1>6. ASSUME j = n PROVE k = Len(ready[j].rows)
  <2>1. U!Last(created) = created[j]
    BY <1>1, <1>6 DEF U!Last
  <2> QED BY <1>1, <1>4, <1>5, <1>6, <2>1 DEF U!Working
<1>7. k = Len(ready[j].rows)
  BY <1>1, <1>4, <1>6
<1>8. SubSeq(ready[j].rows, 1, Len(ready[j].rows)) = ready[j].rows
  BY <1>3, <1>5, Rows
<1> QED BY <1>3, <1>4, <1>7, <1>8 DEF Partial, WholeTable

(* A step of the dialog *)
LEMMA InDialog ==
  ASSUME UploadKept, file' \in Files \cup {None}, IsSequence(configs)',
         UNCHANGED <<upload, ready, created, loaded>>
  PROVE  UploadKept'
BY DEF UploadKept, CreatedKept, Partial, U!UploadKeepsFile

LEMMA NewTable ==
  ASSUME UploadKept, U!CreateTable
  PROVE  UploadKept'
<1>1. PICK n \in Nat : n = Len(created) /\ n < Len(ready) /\ created = [i \in 1 .. n |-> created[i]]
  BY ReadyTables DEF UploadKept, U!CreateTable
<1>2. PICK t : t = ready[n + 1]
  OBVIOUS
<1>3. /\ n + 1 \in 1 .. Len(ready) /\ WholeTable(t) /\ IsSequence(t.rows)
      /\ DOMAIN t.columns # {} /\ U!IsInjective([c \in DOMAIN t.columns |-> t.columns[c].name])
  BY <1>1, <1>2, ReadyTables DEF U!CreateTable, U!CanCreate, U!NextTable
<1>4. Len(t.rows) \in Nat /\ SubSeq(t.rows, 1, 0) = <<>>
  <2>1. PICK m \in Nat : t.rows = [i \in 1 .. m |-> t.rows[i]]
    BY <1>3 DEF IsSequence
  <2>2. Len(t.rows) = m
    BY <2>1, AsSequence
  <2> QED BY <2>2, SubSeqEmpty
<1>5. [t EXCEPT !.rows = <<>>] = Partial(t, 0)
  BY <1>3, <1>4 DEF WholeTable, Partial
<1>6. created' = Append(created, Partial(t, 0)) /\ UNCHANGED <<file, configs, upload, ready, loaded>>
  BY <1>1, <1>2, <1>5 DEF U!CreateTable, U!NextTable, U!dialog
<1>7. created \in Seq({created[i] : i \in 1 .. n} \cup {Partial(t, 0)})
  BY <1>1, AsSequence
<1>8. /\ Len(created') = n + 1 /\ created' = [i \in 1 .. n + 1 |-> created'[i]]
      /\ created'[n + 1] = Partial(t, 0) /\ \A i \in 1 .. n : created'[i] = created[i]
  BY <1>1, <1>6, <1>7, AppendProperties
<1>9. ASSUME NEW j \in 1 .. n + 1 PROVE CreatedKept(j)'
  <2>1. CASE j = n + 1
    <3>1. 0 \in Nat /\ 0 <= Len(t.rows) /\ ~(j < n + 1)
      BY <1>4, <2>1
    <3> QED BY <1>2, <1>3, <1>6, <1>8, <2>1, <3>1 DEF CreatedKept, Partial
  <2>2. CASE j # n + 1
    <3>1. j \in 1 .. n /\ CreatedKept(j)
      BY <1>1, <2>2 DEF UploadKept
    <3>2. created[j] = Partial(ready[j], Len(ready[j].rows))
      BY <1>1, <3>1, CreatedWhole DEF U!CreateTable
    <3>3. PICK l \in Nat : l = Len(ready[j].rows)
      <4>1. j \in 1 .. Len(ready)
        BY <1>1, <3>1, ReadyTables
      <4>2. IsSequence(ready[j].rows)
        BY <4>1, ReadyTables
      <4> QED BY <4>2, LengthOf
    <3>4. created'[j] = Partial(ready[j], l) /\ l <= l
      BY <1>8, <3>1, <3>2, <3>3
    <3> QED BY <1>6, <3>1, <3>3, <3>4 DEF CreatedKept, Partial
  <2> QED BY <2>1, <2>2
<1>10. ready # <<>> /\ Len(ready) \in Nat /\ n + 1 \in 0 .. Len(ready)
  BY <1>1, ReadyTables
<1>11. U!UploadKeepsFile'
  BY <1>6 DEF UploadKept, U!UploadKeepsFile
<1> QED BY <1>6, <1>8, <1>9, <1>10, <1>11 DEF UploadKept

LEMMA NewRows ==
  ASSUME UploadKept, U!Insert
  PROVE  UploadKept'
<1>1. PICK n \in Nat \ {0} : n = Len(created) /\ n <= Len(ready) /\ created = [i \in 1 .. n |-> created[i]]
  BY ReadyTables DEF UploadKept, U!Insert, U!Working
<1>2. PICK t : t = ready[n]
  OBVIOUS
<1>3. n \in 1 .. Len(ready) /\ WholeTable(t) /\ IsSequence(t.rows) /\ IsFiniteSet(DOMAIN t.columns)
  BY <1>1, <1>2, ReadyTables DEF KeepsSheet
<1>a. CreatedKept(n)
  BY <1>1 DEF UploadKept
<1>4. PICK k \in Nat : k <= Len(t.rows) /\ created[n] = Partial(t, k)
  BY <1>2, <1>a DEF CreatedKept
<1>5. DOMAIN t.columns # {} /\ U!IsInjective([c \in DOMAIN t.columns |-> t.columns[c].name])
  BY <1>2, <1>a DEF CreatedKept
<1>6. PICK l \in Nat : l = Len(t.rows)
  BY <1>3, <1>4, Rows
<1>7. created[n].rows = SubSeq(t.rows, 1, k) /\ Len(created[n].rows) = k
  BY <1>3, <1>4, Rows DEF Partial
<1>8. U!Last(created) = created[n]
  BY <1>1 DEF U!Last
<1>9. k < l
  BY <1>1, <1>2, <1>6, <1>7, <1>8 DEF U!Insert, U!Working
<1>10. PICK size \in Nat : U!Batch = SubSeq(t.rows, k + 1, IF k + size < l THEN k + size ELSE l)
  <2>1. PICK w \in Nat \ {0} : w = Cardinality(DOMAIN t.columns)
    <3>1. Cardinality(DOMAIN t.columns) \in Nat
      BY <1>3, FS_CardinalityType
    <3>2. Cardinality(DOMAIN t.columns) # 0
      BY <1>3, <1>5, FS_EmptySet
    <3> QED BY <3>1, <3>2
  <2>2. PICK s \in Int : s = Params \div w
    BY PagesAssumption
  <2>3. U!Batch = SubSeq(t.rows, k + 1, IF k + (IF s > 1 THEN s ELSE 1) < l THEN k + (IF s > 1 THEN s ELSE 1) ELSE l)
    <3>1. U!Cardinality(DOMAIN t.columns) = Cardinality(DOMAIN t.columns)
      BY Zenon DEF U!Cardinality, Cardinality
    <3>2. ready[Len(created)] = t /\ U!Last(created).rows = created[n].rows /\ Len(created[n].rows) = k
      BY <1>1, <1>2, <1>7, <1>8
    <3> QED BY <1>6, <2>1, <2>2, <3>1, <3>2 DEF U!Batch
  <2>4. (IF s > 1 THEN s ELSE 1) \in Nat
    OBVIOUS
  <2> QED BY <2>3, <2>4
<1>11. PICK m \in Nat : k <= m /\ m <= l /\ U!Batch = SubSeq(t.rows, k + 1, m)
  <2>1. PICK m : m = IF k + size < l THEN k + size ELSE l
    OBVIOUS
  <2>2. m \in Nat /\ k <= m /\ m <= l
    BY <1>9, <2>1
  <2> QED BY <1>10, <2>1, <2>2
<1>12. created[n].rows \o U!Batch = SubSeq(t.rows, 1, m)
  BY <1>3, <1>6, <1>7, <1>11, MoreRows
<1>13. created' = [created EXCEPT ![n].rows = created[n].rows \o U!Batch]
  BY <1>1 DEF U!Insert
<1>14. [created[n] EXCEPT !.rows = SubSeq(t.rows, 1, m)] = Partial(t, m)
  <2>1. PICK old, new : old = SubSeq(t.rows, 1, k) /\ new = SubSeq(t.rows, 1, m)
    OBVIOUS
  <2>2. created[n] = [name |-> t.name, columns |-> t.columns, rows |-> old]
    BY <1>4, <2>1 DEF Partial
  <2>3. [created[n] EXCEPT !.rows = new] = [name |-> t.name, columns |-> t.columns, rows |-> new]
    BY <2>2
  <2> QED BY <2>1, <2>3 DEF Partial
<1>15. created' = [created EXCEPT ![n] = Partial(t, m)]
  BY <1>1, <1>12, <1>13, <1>14
<1>16. UNCHANGED <<file, configs, upload, ready, loaded>>
  BY DEF U!Insert, U!dialog
<1>17. created' = [i \in 1 .. n |-> created'[i]] /\ created'[n] = Partial(t, m)
       /\ \A i \in 1 .. n : i # n => created'[i] = created[i]
  <2>1. DOMAIN created = 1 .. n /\ n \in 1 .. n
    BY <1>1
  <2>2. PICK new : new = Partial(t, m)
    OBVIOUS
  <2> QED BY <1>15, <2>1, <2>2
<1>18. Len(created') = n
  BY <1>17, AsSequence
<1>19. ASSUME NEW j \in 1 .. n PROVE CreatedKept(j)'
  <2>1. CASE j = n
    <3>1. ~(j < n)
      BY <2>1
    <3> QED BY <1>2, <1>5, <1>6, <1>11, <1>16, <1>17, <1>18, <2>1, <3>1 DEF CreatedKept, Partial
  <2>2. CASE j # n
    <3>1. CreatedKept(j)
      BY <1>1 DEF UploadKept
    <3> QED BY <1>1, <1>16, <1>17, <1>18, <2>2, <3>1 DEF CreatedKept, Partial
  <2> QED BY <2>1, <2>2
<1>20. ready # <<>> /\ n \in 0 .. Len(ready)
  BY <1>1, <1>3
<1>21. U!UploadKeepsFile'
  BY <1>16 DEF UploadKept, U!UploadKeepsFile
<1> QED BY <1>16, <1>17, <1>18, <1>19, <1>20, <1>21 DEF UploadKept

(* The tables are there: all of them, and whole. *)
LEMMA Committing ==
  ASSUME UploadKept, U!Commit
  PROVE  UploadKept'
<1>1. /\ loaded' = [file |-> upload.file, configs |-> upload.configs, tables |-> created]
      /\ upload' = None /\ ready' = <<>> /\ created' = <<>> /\ file' = None /\ configs' = <<>>
  BY DEF U!Commit
<1>2. ready # <<>> /\ Len(created) = Len(ready) /\ ~U!Working
  BY DEF U!Commit
<1>3. PICK n \in Nat : n = Len(ready) /\ DOMAIN upload.configs = 1 .. n
  BY <1>2, ReadyTables
<1>4. created = [j \in 1 .. n |-> created[j]]
  BY <1>2, <1>3 DEF UploadKept
<1>5. DOMAIN created = DOMAIN upload.configs
  BY <1>3, <1>4
<1>6. ASSUME NEW j \in 1 .. n
      PROVE  U!Holds(created[j], U!SheetOf(upload.file, upload.configs[j]))
  <2>1. created[j] = ready[j] /\ CreatedKept(j)
    BY <1>2, <1>3, CreatedWhole DEF UploadKept
  <2>2. KeepsSheet(ready[j], U!SheetOf(upload.file, upload.configs[j]))
    BY <1>3, ReadyTables
  <2>3. ASSUME NEW c \in DOMAIN ready[j].columns, NEW d \in DOMAIN ready[j].columns, c # d
        PROVE  ready[j].columns[c].name # ready[j].columns[d].name
    <3> DEFINE names == [b \in DOMAIN ready[j].columns |-> ready[j].columns[b].name]
    <3>1. names[c] # names[d]
      <4>1. U!IsInjective(names) /\ DOMAIN names = DOMAIN ready[j].columns
        BY <2>1 DEF CreatedKept
      <4> HIDE DEF names
      <4> QED BY <2>3, <4>1 DEF U!IsInjective
    <3> QED BY <3>1
  <2>4. PICK x, sheet : x = ready[j] /\ sheet = U!SheetOf(upload.file, upload.configs[j])
    OBVIOUS
  <2> QED BY <2>1, <2>2, <2>3, <2>4 DEF KeepsSheet, U!Holds
<1>7. U!UploadKeepsFile'
  <2>1. loaded'.file = upload.file /\ loaded'.configs = upload.configs /\ loaded'.tables = created
    BY <1>1
  <2>2. DOMAIN loaded'.tables = DOMAIN loaded'.configs
    BY <1>5, <2>1
  <2>3. ASSUME NEW i \in DOMAIN loaded'.tables
        PROVE  U!Holds(loaded'.tables[i], U!SheetOf(loaded'.file, loaded'.configs[i]))
    BY <1>3, <1>5, <1>6, <2>1
  <2> QED BY <2>2, <2>3 DEF U!UploadKeepsFile
<1>8. IsSequence(<<>>)
  BY DEF IsSequence
<1> QED BY <1>1, <1>7, <1>8 DEF UploadKept

LEMMA UploadStep ==
  ASSUME UploadKept, U!Next
  PROVE  UploadKept'
<1> USE DEF U!dialog
<1>0. file \in Files \cup {None} /\ IsSequence(configs)
  BY DEF UploadKept
<1>1. ASSUME NEW f \in Files, U!Pick(f) PROVE UploadKept'
  <2>1. ASSUME NEW x PROVE IsSequence(<<x>>)
    <3>1. 1 \in Nat /\ <<x>> = [i \in 1 .. 1 |-> <<x>>[i]]
      OBVIOUS
    <3> QED BY <3>1 DEF IsSequence
  <2>2. IsSequence(configs)'
    BY <1>0, <1>1, <2>1 DEF U!Pick
  <2> QED BY <1>1, <2>2, InDialog DEF U!Pick
<1>2. ASSUME NEW f \in Files, U!Parsed(f) PROVE UploadKept'
  <2>1. PICK n \in Nat : f.sheets = [i \in 1 .. n |-> f.sheets[i]]
    BY PagesAssumption
  <2>2. configs' = [i \in 1 .. n |-> configs'[i]]
    BY <1>2, <2>1 DEF U!Parsed
  <2>3. IsSequence(configs)'
    BY <2>2 DEF IsSequence
  <2> QED BY <1>0, <1>2, <2>3, InDialog DEF U!Parsed
<1>3. ASSUME NEW f \in Files, U!ParseFails(f) PROVE UploadKept'
  <2>1. IsSequence(configs)'
    BY <1>0, <1>3 DEF U!ParseFails, IsSequence
  <2> QED BY <1>0, <1>3, <2>1, InDialog DEF U!ParseFails
<1>4. ASSUME NEW i \in DOMAIN configs, NEW new, configs' = [configs EXCEPT ![i] = new],
             UNCHANGED <<file, upload, ready, created, loaded>>
      PROVE  UploadKept'
  <2>1. PICK n \in Nat : configs = [j \in 1 .. n |-> configs[j]]
    BY <1>0 DEF IsSequence
  <2>2. DOMAIN configs = 1 .. n
    BY <2>1
  <2>3. configs' = [j \in 1 .. n |-> configs'[j]]
    BY <1>4, <2>2
  <2>4. IsSequence(configs)'
    BY <2>3 DEF IsSequence
  <2> QED BY <1>0, <1>4, <2>4, InDialog
<1>5. ASSUME NEW i \in DOMAIN configs, U!Tick(i) PROVE UploadKept'
  <2>1. configs' = [configs EXCEPT ![i] = [configs[i] EXCEPT !.ticked = ~configs[i].ticked]]
    BY <1>5 DEF U!Tick
  <2> QED BY <1>4, <1>5, <2>1 DEF U!Tick
<1>6. ASSUME NEW i \in DOMAIN configs, NEW name, U!Rename(i, name) PROVE UploadKept'
  <2>1. configs' = [configs EXCEPT ![i] = [configs[i] EXCEPT !.name = name]]
    BY <1>6 DEF U!Rename
  <2> QED BY <1>4, <1>6, <2>1 DEF U!Rename
<1>7. CASE U!Reset
  <2>1. IsSequence(configs)'
    BY <1>7 DEF U!Reset, IsSequence
  <2> QED BY <1>7, <2>1, InDialog DEF U!Reset
<1>8. CASE U!Submit
  <2>1. /\ file \in Files /\ upload = None /\ UNCHANGED <<file, configs, ready, created, loaded>>
    BY <1>0, <1>8 DEF U!Submit
  <2>2. PICK n \in 1 .. Len(configs) : \E at \in [1 .. n -> U!Ticked] :
          upload' = [file |-> file, configs |-> [k \in 1 .. n |-> configs[at[k]]]]
    BY <1>8 DEF U!Submit
  <2>3. n \in Nat
    BY <1>0, <2>2, LengthOf
  <2>4. upload'.file = file /\ upload'.configs = [k \in 1 .. n |-> upload'.configs[k]]
    <3>1. PICK at : upload' = [file |-> file, configs |-> [k \in 1 .. n |-> configs[at[k]]]]
      BY <2>2
    <3> QED BY <3>1
  <2>5. IsSequence(upload.configs)' /\ IsSequence(configs)'
    BY <1>0, <2>1, <2>3, <2>4 DEF IsSequence
  <2>6. ready = <<>>
    BY <2>1 DEF UploadKept
  <2> QED BY <2>1, <2>4, <2>5, <2>6 DEF UploadKept, CreatedKept, Partial, U!UploadKeepsFile
<1>9. CASE U!Prepare
  <2>1. /\ upload # None /\ ready = <<>> /\ created = <<>>
        /\ \A i \in DOMAIN upload.configs : U!CanPrepare(upload.file, upload.configs[i])
        /\ ready' = [i \in DOMAIN upload.configs |-> U!Table(upload.file, upload.configs[i])]
        /\ UNCHANGED <<file, configs, upload, created, loaded>>
    BY <1>9 DEF U!Prepare, UploadKept
  <2>2. IsSequence(ready)' /\ IsSequence(upload.configs)
    <3>1. PICK n \in Nat : upload.configs = [i \in 1 .. n |-> upload.configs[i]]
      BY <2>1 DEF UploadKept, IsSequence
    <3>2. ready' = [i \in 1 .. n |-> ready'[i]]
      BY <2>1, <3>1
    <3> QED BY <3>1, <3>2 DEF IsSequence
  <2>3. Len(ready') \in Nat
    <3>1. PICK t : t = ready'
      OBVIOUS
    <3> QED BY <2>2, <3>1, LengthOf DEF IsSequence
  <2>4. created' = <<>> /\ Len(created') = 0 /\ 0 \in 0 .. Len(ready')
    BY <2>1, <2>3
  <2>5. created' = [j \in 1 .. 0 |-> created'[j]]
    BY <2>4
  <2>6. U!UploadKeepsFile' /\ (file \in Files \cup {None} /\ IsSequence(configs))'
    BY <2>1 DEF UploadKept, U!UploadKeepsFile, IsSequence
  <2> QED BY <2>1, <2>4, <2>5, <2>6 DEF UploadKept, IsSequence
<1>10. CASE U!Refuse
  <2>1. IsSequence(configs)' /\ UNCHANGED <<file, configs, loaded>> /\ upload' = None /\ ready' = <<>> /\ created' = <<>>
    BY <1>0, <1>10 DEF U!Refuse, IsSequence
  <2> QED BY <1>0, <2>1 DEF UploadKept, U!UploadKeepsFile
<1>11. CASE U!Revoke
  <2>1. IsSequence(configs)'
    BY <1>0, <1>11 DEF U!Revoke, IsSequence
  <2> QED BY <1>0, <1>11, <2>1, InDialog DEF U!Revoke
<1> QED BY <1>1, <1>2, <1>3, <1>5, <1>6, <1>7, <1>8, <1>9, <1>10, <1>11, NewTable, NewRows, Committing DEF U!Next

(* uploadTables makes all the ticked tables or none, with a column for every *)
(* name over the first row and every row in order, for any files, names and  *)
(* sizes of an INSERT.  What each table keeps of its cells is Holds and Says: *)
(* the last under a name; of one in a column of numbers, its value as near   *)
(* as a double gives it.                                                    *)
THEOREM FileKept == AllSpec => []UploadKeepsFile
<1>1. AllInit => (part = "uploading" => UploadKept)
  BY UploadInit DEF AllInit
<1>2. (part = "uploading" => UploadKept) /\ [AllNext]_all => (part = "uploading" => UploadKept)'
  <2>1. UploadKept /\ UNCHANGED uploading => UploadKept'
    <3> SUFFICES ASSUME UploadKept, UNCHANGED uploading PROVE UploadKept'
      OBVIOUS
    <3>1. file' \in Files \cup {None} /\ IsSequence(configs)' /\ UNCHANGED <<upload, ready, created, loaded>>
      BY DEF UploadKept, IsSequence, uploading
    <3> QED BY <3>1, InDialog
  <2> QED BY <2>1, PartStep, UploadStep
<1>3. (part = "uploading" => UploadKept) => UploadKeepsFile
  BY DEF UploadKept, UploadKeepsFile
<1> QED BY <1>1, <1>2, <1>3, PTL DEF AllSpec
=============================================================================
