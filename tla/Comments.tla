------------------------------ MODULE Comments ------------------------------
(***************************************************************************)
(* The review of column comments: editors (SchemaEnrichmentModal) that show *)
(* the official comments of a table, ask a model for better ones, tick some *)
(* of those, and save them; and the service that answers them.              *)
(*                                                                         *)
(* inspect, generate and save read and write under the locks of the table's *)
(* rows, so each is one step of the server; a request and its reply travel. *)
(* Suggested texts may be edited at will and are chosen when they are sent. *)
(* Definitions marked "Faulty" are plausible bugs in the definition after   *)
(* them and not part of the specification.                                 *)
(***************************************************************************)
EXTENDS Naturals, FiniteSets

CONSTANTS
  Editors,
  Columns,
  Texts,     \* comments a column may get
  None

VARIABLES
  official,   \* the comments in the database
  columns,    \* per editor: the comments it shows
  suggested,  \* columns it has suggestions for
  ticked,     \* the suggestions it will save
  request,    \* its request under way: what, about which columns, how far; busy while there is one
  wrote,      \* history variable: the comments the last save replaced, with what was seen
  seen        \* history variable: what an editor showed beside a column when it was ticked

editors == <<columns, suggested, ticked, request, seen>>

vars == <<official, editors, wrote>>

Nothing == <<>>

Comment == Texts \cup {None}   \* None is the empty comment

Init ==
  /\ official \in [Columns -> Comment]
  /\ columns = [e \in Editors |-> Nothing]
  /\ suggested = [e \in Editors |-> {}]
  /\ ticked = [e \in Editors |-> {}]
  /\ request = [e \in Editors |-> None]
  /\ wrote = {}
  /\ seen = [e \in Editors |-> [c \in Columns |-> None]]

Idle(e) == request[e] = None

Sends(e, what, about, texts) ==
  request' = [request EXCEPT ![e] =
    [what |-> what, about |-> about, texts |-> texts, shown |-> columns[e], seen |-> seen[e],
     at |-> "sent", reply |-> Nothing]]

-----------------------------------------------------------------------------
(* What an editor does *)

(* The dialog opens for the table: everything is forgotten and asked for.   *)
(* A dialog that is busy does not close.                                   *)
Open(e) ==
  /\ Idle(e)
  /\ columns' = [columns EXCEPT ![e] = Nothing]
  /\ suggested' = [suggested EXCEPT ![e] = {}]
  /\ ticked' = [ticked EXCEPT ![e] = {}]
  /\ Sends(e, "inspect", {}, Nothing)
  /\ UNCHANGED <<official, wrote, seen>>

Generate(e) ==
  /\ Idle(e) /\ columns[e] # Nothing /\ suggested[e] = {}
  /\ \E about \in SUBSET Columns \ {{}} : Sends(e, "generate", about, Nothing)
  /\ UNCHANGED <<official, columns, suggested, ticked, wrote, seen>>

Tick(e, c) ==
  /\ Idle(e) /\ c \in suggested[e] \ ticked[e]
  /\ ticked' = [ticked EXCEPT ![e] = @ \cup {c}]
  /\ seen' = [seen EXCEPT ![e] = [@ EXCEPT ![c] = columns[e][c]]]
  /\ UNCHANGED <<official, columns, suggested, request, wrote>>

Untick(e, c) ==
  /\ Idle(e) /\ c \in ticked[e]
  /\ ticked' = [ticked EXCEPT ![e] = @ \ {c}]
  /\ UNCHANGED <<official, columns, suggested, request, wrote, seen>>

RefreshOriginals(e) ==
  /\ Idle(e) /\ suggested[e] # {}
  /\ Sends(e, "refresh", {}, Nothing)
  /\ UNCHANGED <<official, columns, suggested, ticked, wrote, seen>>

Save(e) ==
  /\ Idle(e) /\ ticked[e] # {}
  /\ \E texts \in [ticked[e] -> Texts] :
       Sends(e, "save", ticked[e], texts)
  /\ UNCHANGED <<official, columns, suggested, ticked, wrote, seen>>

-----------------------------------------------------------------------------
(* What the service does *)

Asks(e, what) == request[e] # None /\ request[e].what \in what /\ request[e].at = "sent"

Replies(e, comments) == request' = [request EXCEPT ![e] = [@ EXCEPT !.at = "answered", !.reply = comments]]

(* inspect, and the transaction of generate before the model is asked *)
Inspect(e) ==
  /\ Asks(e, {"inspect", "refresh", "generate"})
  /\ Replies(e, official)
  /\ UNCHANGED <<official, columns, suggested, ticked, wrote, seen>>

(* Every change names the comment it replaces. *)
OriginalsMatch(e) == \A c \in request[e].about : request[e].shown[c] = official[c]

ServeSave(e) ==
  /\ Asks(e, {"save"}) /\ OriginalsMatch(e)
  /\ official' = [c \in Columns |-> IF c \in request[e].about THEN request[e].texts[c] ELSE official[c]]
  /\ wrote' = {[replaced |-> official[c], seen |-> request[e].seen[c]] : c \in request[e].about}
  /\ Replies(e, official')
  /\ UNCHANGED <<columns, suggested, ticked, seen>>

-----------------------------------------------------------------------------
(* What comes back *)

(* An error of any kind, before or after the service has done its work. *)
Fails(e) ==
  /\ request[e] # None
  /\ request' = [request EXCEPT ![e] = None]
  /\ UNCHANGED <<official, columns, suggested, ticked, wrote, seen>>

Arrives(e, what) ==
  /\ request[e] # None /\ request[e].what = what /\ request[e].at = "answered"
  /\ request' = [request EXCEPT ![e] = None]

Opened(e) ==
  /\ Arrives(e, "inspect")
  /\ columns' = [columns EXCEPT ![e] = request[e].reply]
  /\ UNCHANGED <<official, suggested, ticked, wrote, seen>>

(* The columns asked about, as the service saw them; nothing is ticked. *)
Generated(e) ==
  /\ Arrives(e, "generate")
  /\ columns' = [columns EXCEPT ![e] = [c \in Columns |-> IF c \in request[e].about THEN request[e].reply[c] ELSE @[c]]]
  /\ \E cs \in SUBSET request[e].about : suggested' = [suggested EXCEPT ![e] = cs]
  /\ ticked' = [ticked EXCEPT ![e] = {}]
  /\ UNCHANGED <<official, wrote, seen>>

(* Faulty: what was ticked stays ticked. *)
TickedAsBefore(e) == ticked[e]

(* After a refresh everything is to be looked at again. *)
StillTicked(e) == {}

Refreshed(e) ==
  /\ Arrives(e, "refresh")
  /\ columns' = [columns EXCEPT ![e] = request[e].reply]
  /\ ticked' = [ticked EXCEPT ![e] = StillTicked(e)]
  /\ UNCHANGED <<official, suggested, wrote, seen>>

(* The suggestions that were saved go, with their ticks. *)
Saved(e) ==
  /\ Arrives(e, "save")
  /\ columns' = [columns EXCEPT ![e] = request[e].reply]
  /\ suggested' = [suggested EXCEPT ![e] = @ \ request[e].about]
  /\ ticked' = [ticked EXCEPT ![e] = @ \ request[e].about]
  /\ UNCHANGED <<official, wrote, seen>>

Next ==
  \E e \in Editors :
    \/ Open(e) \/ Generate(e) \/ RefreshOriginals(e) \/ Save(e)
    \/ \E c \in Columns : Tick(e, c) \/ Untick(e, c)
    \/ Inspect(e) \/ ServeSave(e)
    \/ Fails(e) \/ Opened(e) \/ Generated(e) \/ Refreshed(e) \/ Saved(e)

Spec == Init /\ [][Next]_vars

-----------------------------------------------------------------------------
(* Properties *)

(* Nobody overwrites a comment unseen: what a save replaces is, column by    *)
(* column, what the editor showed when the column was ticked, whatever other *)
(* editors save meanwhile and whatever replies are lost.                     *)
CommentsReviewed == \A w \in wrote : w.replaced = w.seen
=============================================================================
