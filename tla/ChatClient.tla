----------------------------- MODULE ChatClient -----------------------------
(***************************************************************************)
(* The chat store of one browser tab, and the answers of one conversation. *)
(*                                                                         *)
(* The tab learns of an answer in five ways: the reply to its own POST, the *)
(* user's event stream, the event history it asks for when it sees a gap,  *)
(* the messages of the conversation, and the sync at its start.  Every one *)
(* of them writes the same two records, the answer's status and sequence   *)
(* and the message on screen, and their replies arrive in any order.       *)
(*                                                                         *)
(* Definitions marked "Faulty" are plausible bugs in the definition after  *)
(* them and not part of the specification.                                 *)
(***************************************************************************)
EXTENDS Naturals, Sequences, FiniteSets

CONSTANTS
  Generations,
  MayAsk,      \* those this tab may be the one to ask for
  None,
  MaxEvents,   \* bound: events of an answer, done included
  MaxFetches   \* bound: requests for messages under way at a time, of a tab that only watches

ASSUME ClientAssumption ==
  /\ MayAsk \subseteq Generations
  /\ MaxEvents \in Nat \ {0}
  /\ MaxFetches \in Nat \ {0}

VARIABLES
  (* the server *)
  status,   \* of the row: "absent" before INSERT, "gone" after deletion
  last,     \* last_sequence
  ending,   \* status in the done event, None before it is written
  stored,   \* message.blocks shows the first stored[g] events
  stream,   \* the user's Redis stream, <<g, n>> for event n of g
  (* requests of this tab *)
  own,      \* the answers this tab asks for and may stop; the others are another tab's
  asked,    \* of a question: "no", "posted" or "answered"
  cancels,  \* of a cancel: "no", "sent" or "accepted"
  fetches,  \* requests for messages: "idle", "asked" or "answered" with the rows
  (* the store *)
  listed,   \* conversations holds the conversation
  known,    \* generations[g]: status and sequence
  shown,    \* the events the message of g shows, None if it is not on screen
  missed,   \* history variable: messages the tab needs were never delivered
  (* startRealtime *)
  pc,       \* where it stands
  cursor,   \* how much of the stream it has handled
  sync,     \* what the sync has answered so far, None once it is over
  history   \* the resync under way

server == <<status, last, ending, stored, stream>>
requests == <<own, asked, cancels>>
store == <<listed, known, shown, missed, fetches>>
realtime == <<pc, cursor, sync, history>>
vars == <<server, requests, store, realtime>>

Active == {"pending", "running", "cancel_requested"}
Terminal == {"completed", "failed", "cancelled"}

States == [status : Active \cup Terminal, seq : 0..MaxEvents]
Rows == [status : Active \cup Terminal, last : 0..MaxEvents, stored : 0..MaxEvents]

(* What startRealtime has of its sync while it is under way. *)
Syncs == [asked : SUBSET Generations, cursor : Nat,
          active : [Generations -> Rows \cup {None}], known : [Generations -> Rows \cup {None}]]

ASSUME NoneAssumption == None \notin Syncs

Present(g) == status[g] \in Active \cup Terminal

Nothing == [g \in Generations |-> None]

(* A row of generation joined with its message. *)
Row(g) == IF Present(g) THEN [status |-> status[g], last |-> last[g], stored |-> stored[g]] ELSE None

(* Event n of g is its done event. *)
Done(g, n) == ending[g] # None /\ n = last[g]

Init ==
  /\ status = [g \in Generations |-> "absent"]
  /\ last = [g \in Generations |-> 0]
  /\ ending = Nothing
  /\ stored = [g \in Generations |-> 0]
  /\ stream = <<>>
  /\ asked = [g \in Generations |-> "no"]
  /\ cancels = [g \in Generations |-> "no"]
  /\ own \in SUBSET MayAsk
  /\ fetches = [i \in 1..MaxFetches |-> [stage |-> "idle", rows |-> None]]
  /\ listed = TRUE
  /\ known = Nothing
  /\ shown = Nothing
  /\ missed = FALSE
  /\ pc = "idle"
  /\ cursor = 0
  /\ sync = None
  /\ history = None

-----------------------------------------------------------------------------
(* The server, as Generation and Outbox describe it. *)

(* createTurn, for this tab's question or for another tab's. *)
Create(g) ==
  /\ status[g] = "absent" /\ (g \in own => asked[g] = "posted")
  /\ \A h \in Generations : status[h] \notin Active \cup {"gone"}
  /\ status' = [status EXCEPT ![g] = "pending"]
  /\ UNCHANGED <<last, ending, stored, stream, requests, store, realtime>>

Write(g) ==
  /\ status[g] \in {"pending", "running"}
  /\ last[g] + 1 < MaxEvents
  /\ status' = [status EXCEPT ![g] = "running"]
  /\ last' = [last EXCEPT ![g] = @ + 1]
  /\ UNCHANGED <<ending, stored, stream, requests, store, realtime>>

(* The checkpoint may lag behind the log, or lead by what is queued. *)
Checkpoint(g) ==
  /\ status[g] = "running"
  /\ \E k \in {last[g], last[g] + 1} : k > stored[g] /\ stored' = [stored EXCEPT ![g] = k]
  /\ UNCHANGED <<status, last, ending, stream, requests, store, realtime>>

(* done, with the whole message on completion, with an error block behind   *)
(* it if the writer itself failed, and with the last checkpoint otherwise.  *)
Finish(g) ==
  /\ status[g] \in Active
  /\ \E s \in IF status[g] = "running" THEN Terminal ELSE Terminal \ {"completed"},
        k \in {stored[g], last[g], last[g] + 1} :
       /\ IF s = "completed" THEN k = last[g] ELSE k # last[g] \/ k = stored[g]
       /\ status' = [status EXCEPT ![g] = s]
       /\ ending' = [ending EXCEPT ![g] = s]
       /\ stored' = [stored EXCEPT ![g] = k]
  /\ last' = [last EXCEPT ![g] = @ + 1]
  /\ UNCHANGED <<stream, requests, store, realtime>>

Sent(g) == Cardinality({i \in 1..Len(stream) : stream[i][1] = g})

(* The relay: in order, each event once. *)
Relay(g) ==
  /\ Present(g) /\ Sent(g) < last[g]
  /\ stream' = Append(stream, <<g, Sent(g) + 1>>)
  /\ UNCHANGED <<status, last, ending, stored, requests, store, realtime>>

(* The conversation is deleted, with all its answers. *)
Remove ==
  /\ \E g \in Generations : Present(g)
  /\ status' = [g \in Generations |-> IF Present(g) THEN "gone" ELSE status[g]]
  /\ UNCHANGED <<last, ending, stored, stream, requests, store, realtime>>

-----------------------------------------------------------------------------
(* The store's records. *)

(* Bound: the places for requests. *)
Slots == IF own = {} THEN 1..MaxFetches ELSE {1}

(* fetchMessages asks, if it is wanted.  A request that fails is one that   *)
(* stays unanswered; one beyond the bound is left out.                      *)
AskIf(wanted) ==
  LET free == {i \in Slots : fetches[i].stage = "idle"} IN
  /\ fetches' = IF wanted /\ free # {}
                THEN [fetches EXCEPT ![CHOOSE i \in free : \A j \in free : i <= j].stage = "asked"]
                ELSE fetches
  /\ missed' = (missed \/ (wanted /\ free = {}))

(* What the store holds of an answer. *)
View(g) == [state |-> known[g], shown |-> shown[g], fetch |-> FALSE]

SeqOf(v) == IF v.state = None THEN 0 ELSE v.state.seq

(* Faulty: every done event is taken for a completion. *)
StatusAfterCompleted(v, g, n) ==
  IF Done(g, n) THEN "completed"
  ELSE IF v.state # None /\ v.state.status = "cancel_requested" THEN "cancel_requested"
  ELSE "running"

StatusAfter(v, g, n) ==
  IF Done(g, n) THEN ending[g]
  ELSE IF v.state # None /\ v.state.status = "cancel_requested" THEN "cancel_requested"
  ELSE "running"

(* applyEvent for events lo..hi of g in turn.  Duplicates and whatever lies *)
(* behind a gap are left out; done shows nothing but asks for the messages. *)
Applied(v, g, lo, hi) ==
  LET c == SeqOf(v)
      top == IF Done(g, hi) THEN hi - 1 ELSE hi
      old == IF v.shown = None THEN <<>> ELSE v.shown
  IN IF lo <= c + 1 /\ c < hi
     THEN [state |-> [status |-> StatusAfter(v, g, hi), seq |-> hi],
           shown |-> IF listed THEN old \o [i \in 1..(top - c) |-> c + i] ELSE v.shown,
           fetch |-> v.fetch \/ (Done(g, hi) /\ listed)]
     ELSE v

Keep(g, v) ==
  /\ known' = [known EXCEPT ![g] = v.state]
  /\ shown' = [shown EXCEPT ![g] = v.shown]
  /\ AskIf(v.fetch)
  /\ UNCHANGED listed

(* generations[g] gets a new record: a resync that holds the old one writes *)
(* to an object nobody reads.                                              *)
Detach(S) ==
  history' = IF history # None /\ history.of \in S THEN [history EXCEPT !.detached = TRUE] ELSE history

-----------------------------------------------------------------------------
(* sendMessage, retryGeneration, cancelGeneration *)

(* The input is open while no answer of the conversation is active. *)
Post(g) ==
  /\ g \in own /\ asked[g] = "no" /\ listed
  /\ \A h \in Generations : known[h] # None => known[h].status \notin Active
  /\ asked' = [asked EXCEPT ![g] = "posted"]
  /\ UNCHANGED <<own, cancels, server, store, realtime>>

(* The reply registers the answer as new.  A question's has a message on    *)
(* screen from here; for a retry of an earlier answer, one that failed      *)
(* before those of Generations, the messages are asked for.                 *)
Answered(g) ==
  /\ asked[g] = "posted" /\ status[g] # "absent"
  /\ asked' = [asked EXCEPT ![g] = "answered"]
  /\ known' = [known EXCEPT ![g] = [status |-> "pending", seq |-> 0]]
  /\ \/ /\ shown' = [shown EXCEPT ![g] = IF @ = None /\ listed THEN <<>> ELSE @]
        /\ AskIf(FALSE)
     \/ /\ AskIf(TRUE)
        /\ UNCHANGED shown
  /\ Detach({g})
  /\ UNCHANGED <<own, listed, cancels, server, pc, cursor, sync>>

(* The stop button. *)
Stop(g) ==
  /\ g \in own /\ known[g] # None /\ known[g].status \in {"pending", "running"}
  /\ cancels[g] = "no"
  /\ cancels' = [cancels EXCEPT ![g] = "sent"]
  /\ UNCHANGED <<own, asked, server, store, realtime>>

(* The server's UPDATE on the row, if it is still active. *)
Cancel(g) ==
  /\ g \in own => cancels[g] = "sent"
  /\ status[g] \in Active
  /\ cancels' = [cancels EXCEPT ![g] = IF g \in own THEN "accepted" ELSE @]
  /\ status' = [status EXCEPT ![g] = "cancel_requested"]
  /\ UNCHANGED <<own, asked, last, ending, stored, stream, store, realtime>>

CancelAnswered(g) ==
  /\ cancels[g] = "accepted"
  /\ cancels' = [cancels EXCEPT ![g] = "no"]
  /\ known' = [known EXCEPT ![g] = IF @ = None THEN None ELSE [@ EXCEPT !.status = "cancel_requested"]]
  /\ UNCHANGED <<own, asked, server, listed, shown, missed, fetches, realtime>>

-----------------------------------------------------------------------------
(* fetchMessages and deleteConversation *)

(* selectConversation: only if it has no message on screen. *)
Open ==
  /\ listed
  /\ \A g \in Generations : shown[g] = None /\ asked[g] # "posted"
  /\ \E i \in Slots : fetches[i].stage = "idle"
  /\ AskIf(TRUE)
  /\ UNCHANGED <<listed, known, shown, server, requests, realtime>>

(* getMessages; of two requests under way, alike, the first is answered. *)
FetchRead(i) ==
  /\ fetches[i].stage = "asked" /\ \A j \in 1..(i - 1) : fetches[j].stage # "asked"
  /\ fetches' = [fetches EXCEPT ![i] = [stage |-> "answered", rows |-> [g \in Generations |-> Row(g)]]]
  /\ UNCHANGED <<listed, known, shown, missed, server, requests, realtime>>

(* Faulty: a message on screen is never replaced. *)
LiveAlways(g, state) == shown[g] # None

(* A message on screen whose answer is active stays as it is. *)
Live(g, state) == shown[g] # None /\ state.status \in Active

(* Status and sequence from the reply, and the messages it has. *)
FetchApply(i) ==
  LET reply == fetches[i].rows
      S == {g \in Generations : reply[g] # None}
      state(g) == [status |-> reply[g].status, seq |-> reply[g].last]
  IN /\ fetches[i].stage = "answered"
     /\ fetches' = [fetches EXCEPT ![i] = [stage |-> "idle", rows |-> None]]
     /\ IF listed
        THEN /\ known' = [g \in Generations |-> IF g \in S THEN state(g) ELSE known[g]]
             /\ shown' = [g \in Generations |->
                  IF g \notin S THEN None
                  ELSE IF Live(g, state(g)) THEN shown[g] ELSE [n \in 1..reply[g].stored |-> n]]
             /\ Detach(S)
        ELSE UNCHANGED <<known, shown, history>>
     /\ UNCHANGED <<listed, missed, server, requests, pc, cursor, sync>>

(* The tab that deleted the conversation takes it off its list. *)
Unlist ==
  /\ listed /\ \E g \in Generations : status[g] = "gone"
  /\ listed' = FALSE
  /\ shown' = Nothing
  /\ UNCHANGED <<known, missed, fetches, server, requests, realtime>>

-----------------------------------------------------------------------------
(* resync: pc is "row" and "events" while history is asked for, the row and *)
(* then the events, and "history" when it is answered.                      *)

Resync(g, after) ==
  /\ pc' = "row"
  /\ history' = [of |-> g, after |-> after, row |-> None, upto |-> 0, closed |-> FALSE, detached |-> FALSE]

(* Faulty: there is no history of an answer that has ended. *)
HistoryRowUnfinished ==
  /\ pc = "row" /\ status[history.of] \in Active
  /\ history' = [history EXCEPT !.row = Row(history.of)]
  /\ pc' = "events"
  /\ UNCHANGED <<cursor, sync, server, requests, store>>

HistoryRow ==
  /\ pc = "row" /\ Present(history.of)
  /\ history' = [history EXCEPT !.row = Row(history.of)]
  /\ pc' = "events"
  /\ UNCHANGED <<cursor, sync, server, requests, store>>

HistoryEvents ==
  LET g == history.of IN
  /\ pc = "events"
  /\ history' = [history EXCEPT !.upto = IF Present(g) THEN last[g] ELSE history.after,
                                !.closed = Present(g) /\ ending[g] # None /\ last[g] > history.after]
  /\ pc' = "history"
  /\ UNCHANGED <<cursor, sync, server, requests, store>>

(* The events after "after" say all there is to say. *)
Complete ==
  /\ history.upto > history.after \/ history.after = history.row.last
  /\ history.row.status \in Terminal => history.closed

(* resync with its answer: events, or the snapshot of row and message. *)
Resynced(v) ==
  IF Complete THEN Applied(v, history.of, history.after + 1, history.upto)
  ELSE [v EXCEPT !.state = IF history.detached THEN @ ELSE [status |-> history.row.status, seq |-> history.row.last],
                 !.shown = IF @ = None THEN None ELSE [n \in 1..history.row.stored |-> n]]

(* At the start it goes on with the next answer, otherwise with the frame.  *)
ResyncApply ==
  LET g == history.of IN
  /\ pc = "history"
  /\ IF sync # None
     THEN /\ Keep(g, Resynced(View(g)))
          /\ pc' = "synced"
          /\ UNCHANGED cursor
     ELSE /\ Keep(g, Applied(Resynced(View(g)), g, stream[cursor + 1][2], stream[cursor + 1][2]))
          /\ pc' = "read"
          /\ cursor' = cursor + 1
  /\ history' = None
  /\ UNCHANGED <<sync, server, requests>>

(* A request fails, or the reply has no snapshot since the row is gone.  At *)
(* the start the sync is given up; later the connection is, and the stream   *)
(* is read again from the cursor.                                           *)
ResyncFails ==
  /\ pc \in {"row", "events", "history"}
  /\ pc' = "read"
  /\ sync' = None
  /\ history' = None
  /\ UNCHANGED <<cursor, server, requests, store>>

-----------------------------------------------------------------------------
(* startRealtime *)

(* The cursor an earlier page of the session has left, which is not past    *)
(* what this page asked for, and the known ids.                            *)
Start ==
  /\ pc = "idle"
  /\ cursor' \in {c \in 0..Len(stream) : \A i \in 1..c : asked[stream[i][1]] = "no"}
  /\ sync' = [asked |-> {g \in Generations : known[g] # None}, cursor |-> 0, active |-> Nothing, known |-> Nothing]
  /\ pc' = "sync"
  /\ UNCHANGED <<history, server, requests, store>>

SyncCursor ==
  /\ pc = "sync"
  /\ sync' = [sync EXCEPT !.cursor = Len(stream)]
  /\ pc' = "active"
  /\ UNCHANGED <<cursor, history, server, requests, store>>

SyncActive ==
  /\ pc = "active"
  /\ sync' = [sync EXCEPT !.active = [g \in Generations |-> IF status[g] \in Active THEN Row(g) ELSE None]]
  /\ pc' = "known"
  /\ UNCHANGED <<cursor, history, server, requests, store>>

SyncKnown ==
  /\ pc = "known"
  /\ sync' = [sync EXCEPT !.asked = {}, !.known = [g \in Generations |-> IF g \in sync.asked THEN Row(g) ELSE None]]
  /\ pc' = "synced"
  /\ UNCHANGED <<cursor, history, server, requests, store>>

SyncFails ==
  /\ pc \in {"sync", "active", "known"}
  /\ sync' = None
  /\ pc' = "read"
  /\ UNCHANGED <<cursor, history, server, requests, store>>

(* An active answer is registered anew and its events are asked for. *)
Replay(g) ==
  /\ pc = "synced" /\ sync.active[g] # None
  /\ known' = [known EXCEPT ![g] = [status |-> sync.active[g].status, seq |-> 0]]
  /\ sync' = [sync EXCEPT !.active[g] = None]
  /\ Resync(g, 0)
  /\ UNCHANGED <<cursor, listed, shown, missed, fetches, server, requests>>

(* Known answers get their status and sequence, not their blocks. *)
Reconcile ==
  /\ pc = "synced" /\ sync.active = Nothing
  /\ known' = [g \in Generations |->
       IF sync.known[g] # None THEN [status |-> sync.known[g].status, seq |-> sync.known[g].last] ELSE known[g]]
  /\ missed' = (missed \/ sync.known # Nothing)
  /\ cursor' = sync.cursor
  /\ sync' = None
  /\ pc' = "read"
  /\ UNCHANGED <<history, listed, shown, fetches, server, requests>>

(* A gap that a resync may close. *)
BehindGap(g, n) == known[g] # None /\ n > known[g].seq + 1

(* The API sends what is behind the reader's cursor, entry by entry. *)
Incoming == stream[cursor + 1]

(* The next frame of the stream. *)
Frame ==
  LET g == Incoming[1]
      n == Incoming[2]
  IN /\ pc = "read" /\ cursor < Len(stream)
     /\ IF BehindGap(g, n)
        THEN /\ Resync(g, SeqOf(View(g)))
             /\ UNCHANGED <<cursor, store>>
        ELSE /\ Keep(g, Applied(View(g), g, n, n))
             /\ cursor' = cursor + 1
             /\ UNCHANGED <<pc, history>>
     /\ UNCHANGED <<sync, server, requests>>

-----------------------------------------------------------------------------
Server ==
  \/ \E g \in Generations : Create(g) \/ Write(g) \/ Checkpoint(g) \/ Finish(g) \/ Relay(g) \/ Cancel(g)
  \/ Remove

User == Open \/ \E g \in Generations : Post(g) \/ Stop(g)

Reply ==
  \/ \E g \in Generations : Answered(g) \/ CancelAnswered(g)
  \/ \E i \in 1..MaxFetches : FetchRead(i) \/ FetchApply(i)
  \/ Unlist

Realtime ==
  \/ Start \/ SyncCursor \/ SyncActive \/ SyncKnown \/ SyncFails \/ Reconcile
  \/ \E g \in Generations : Replay(g)
  \/ HistoryRow \/ HistoryEvents \/ ResyncApply \/ ResyncFails
  \/ Frame

Next == Server \/ User \/ Reply \/ Realtime

Spec == Init /\ [][Next]_vars

(* The loop goes on by itself, and requests are answered or fail, the       *)
(* history's not every time.                                               *)
Fairness ==
  /\ WF_vars(SyncCursor \/ SyncActive \/ SyncKnown \/ SyncFails)
  /\ WF_vars(Reconcile \/ \E g \in Generations : Replay(g))
  /\ WF_vars(Frame)
  /\ WF_vars(ResyncFails)
  /\ SF_vars(HistoryRow) /\ SF_vars(HistoryEvents) /\ SF_vars(ResyncApply)

FairSpec == Spec /\ Fairness

-----------------------------------------------------------------------------
(* The tab is never ahead of the server: it has seen no event that is not   *)
(* in the log, and the end it reports is the one that was written.          *)
NeverAhead ==
  \A g \in Generations : known[g] # None =>
    /\ known[g].seq <= last[g]
    /\ known[g].status \in Terminal => known[g].status = ending[g] /\ known[g].seq = last[g]

(* Once the tab reports the end of an answer and all it asked for has       *)
(* arrived, the message on screen is the stored one: whatever was shown on  *)
(* the way, repeated or left out.                                          *)
StoredAtRest ==
  ~missed /\ own = {} => \A g \in Generations :
    /\ status[g] # "gone"
    /\ known[g] # None /\ known[g].status \in Terminal
    /\ \A i \in 1..MaxFetches : fetches[i].stage = "idle"
    => shown[g] \in {None, [n \in 1..stored[g] |-> n]}

(* The stream goes on: every frame is handled in the end, unless the        *)
(* conversation of an answer was deleted.                                  *)
FramesHandled ==
  \A i \in 1..(MaxEvents * Cardinality(Generations)) :
    pc # "idle" /\ Len(stream) >= i ~> cursor >= i \/ \E g \in Generations : status[g] = "gone"

(* Every frame is handled in the end, whatever was deleted. *)
StreamGoesOn ==
  \A i \in 1..(MaxEvents * Cardinality(Generations)) :
    pc # "idle" /\ Len(stream) >= i ~> cursor >= i

(* An event is appended to its message once. *)
AppendedOnce ==
  \A g \in Generations : shown[g] # None =>
    \A i, j \in 1..Len(shown[g]) : i # j => shown[g][i] # shown[g][j]
=============================================================================
