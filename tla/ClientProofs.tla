---------------------------- MODULE ClientProofs ----------------------------
(***************************************************************************)
(* What holds of the chat store for any number of answers, events and      *)
(* requests: it is never ahead of the server, and at rest it shows what is *)
(* stored.                                                                 *)
(*                                                                         *)
(* Whatever the store has been told, in a reply, in a frame or in the      *)
(* snapshot of a resync, was true of the server when it was read, and what *)
(* it was told of an answer that is over stays true.  The invariant says   *)
(* this of every reply under way, next to the types.                       *)
(***************************************************************************)
EXTENDS ChatClient, FiniteSetTheorems, SequenceTheorems, WellFoundedInduction, TLAPS

Statuses == Active \cup Terminal

Counts == 0..MaxEvents

(* The answer has its done event, or the conversation is deleted. *)
Over(g) == status[g] \in Terminal \cup {"gone"}

(* "s, with n events" is what the server says of g or once said. *)
Truthful(s, n, g) ==
  /\ s \in Statuses /\ n \in Counts /\ n <= last[g]
  /\ s \in Terminal => s = ending[g] /\ n = last[g] /\ Over(g)

RowTruthful(r, g) ==
  /\ r \in Rows
  /\ Truthful(r.status, r.last, g)
  /\ r.status \in Terminal => r.stored = stored[g]

ServerKept ==
  /\ status \in [Generations -> Statuses \cup {"absent", "gone"}]
  /\ last \in [Generations -> Counts]
  /\ stored \in [Generations -> Counts]
  /\ ending \in [Generations -> Terminal \cup {None}]
  /\ \A g \in Generations :
       /\ ending[g] # None => Over(g)
       /\ status[g] \in Terminal => ending[g] = status[g]
       /\ ~Over(g) => last[g] < MaxEvents
       /\ status[g] = "gone" => \A h \in Generations : status[h] \in {"absent", "gone"}

StreamKept ==
  /\ stream \in Seq(Generations \X Nat)
  /\ \A i \in 1..Len(stream) : stream[i][2] \in 1..last[stream[i][1]]

RequestsKept ==
  /\ own \in SUBSET Generations
  /\ asked \in [Generations -> {"no", "posted", "answered"}]
  /\ cancels \in [Generations -> {"no", "sent", "accepted"}]
  /\ \A g \in Generations : asked[g] # "no" \/ cancels[g] # "no" => g \in own

Fetches == [stage : {"idle", "asked", "answered"}, rows : [Generations -> Rows \cup {None}] \cup {None}]

FetchTruthful(f) ==
  f.stage = "answered" =>
    /\ f.rows \in [Generations -> Rows \cup {None}]
    /\ \A g \in Generations : f.rows[g] # None => RowTruthful(f.rows[g], g)

FetchesKept ==
  /\ fetches \in [1..MaxFetches -> Fetches]
  /\ \A i \in 1..MaxFetches : FetchTruthful(fetches[i])

StateTruthful(r, g) == r # None => Truthful(r.status, r.seq, g)

KnownKept ==
  /\ known \in [Generations -> States \cup {None}]
  /\ \A g \in Generations : StateTruthful(known[g], g)

ShownKept ==
  /\ listed \in BOOLEAN /\ missed \in BOOLEAN
  /\ shown \in [Generations -> Seq(Nat) \cup {None}]
  /\ ~listed => \E g \in Generations : status[g] = "gone"

SyncKept ==
  /\ sync \in Syncs \cup {None}
  /\ pc \in {"sync", "active", "known", "synced"} => sync # None
  /\ sync # None => \A g \in Generations :
       /\ sync.active[g] # None => sync.active[g] \in Rows /\ sync.active[g].status \in Active
       /\ sync.known[g] # None => RowTruthful(sync.known[g], g)

Histories ==
  [of : Generations, after : Counts, row : Rows \cup {None}, upto : Counts,
   closed : BOOLEAN, detached : BOOLEAN]

(* A resync that the stream waits for has its frame ahead of it; its row    *)
(* and events are the server's, and only a row of an answer that is over    *)
(* can be wanting in events.                                               *)
HistoryKept ==
  /\ cursor \in Nat
  /\ pc \in {"row", "events", "history"} =>
       /\ history \in Histories
       /\ history.after <= last[history.of]
       /\ history.upto <= last[history.of]
       /\ sync = None => cursor < Len(stream) /\ stream[cursor + 1][1] = history.of
  /\ pc \in {"events", "history"} =>
       /\ RowTruthful(history.row, history.of)
       /\ status[history.of] # "absent"
  /\ pc = "events" /\ status[history.of] # "gone" => history.after <= history.row.last
  /\ pc = "history" /\ status[history.of] # "gone" => Complete \/ history.row.status \in Terminal

Kept ==
  /\ ServerKept /\ StreamKept /\ RequestsKept /\ FetchesKept
  /\ KnownKept /\ ShownKept /\ SyncKept /\ HistoryKept

-----------------------------------------------------------------------------
(* What the server does, seen from the tab. *)

(* The log grows, and an answer that is over stays what it is. *)
GoesOn ==
  /\ \A g \in Generations :
       /\ last'[g] \in Nat /\ last[g] <= last'[g]
       /\ Over(g) => Over(g)' /\ last'[g] = last[g] /\ ending'[g] = ending[g] /\ stored'[g] = stored[g]
       /\ status[g] # "absent" => status'[g] # "absent"
       /\ status[g] = "gone" => status'[g] = "gone"
  /\ Len(stream) \in Nat /\ Len(stream') \in Nat /\ Len(stream) <= Len(stream')
  /\ \A i \in 1..Len(stream) : stream'[i] = stream[i]

LEMMA TabLeavesServer ==
  ASSUME User \/ Reply \/ Realtime \/ UNCHANGED vars
  PROVE  UNCHANGED server
<1>1. CASE User
  BY <1>1 DEF User, Open, Post, Stop, server
<1>2. CASE Reply
  BY <1>2 DEF Reply, Answered, CancelAnswered, FetchRead, FetchApply, Unlist, server
<1>3. CASE Realtime
  <2>1. CASE Start \/ SyncCursor \/ SyncActive \/ SyncKnown \/ SyncFails \/ Reconcile
    BY <2>1 DEF Start, SyncCursor, SyncActive, SyncKnown, SyncFails, Reconcile, server
  <2>2. CASE \E g \in Generations : Replay(g)
    BY <2>2 DEF Replay, server
  <2>3. CASE HistoryRow \/ HistoryEvents \/ ResyncApply \/ ResyncFails
    BY <2>3 DEF HistoryRow, HistoryEvents, ResyncApply, ResyncFails, server
  <2>4. CASE Frame
    BY <2>4 DEF Frame, server
  <2> QED BY <1>3, <2>1, <2>2, <2>3, <2>4 DEF Realtime
<1>4. CASE UNCHANGED vars
  BY <1>4 DEF vars
<1> QED BY <1>1, <1>2, <1>3, <1>4

LEMMA SentIsNat ==
  ASSUME StreamKept, NEW g \in Generations
  PROVE  Sent(g) \in Nat
<1>1. Len(stream) \in Nat
  BY DEF StreamKept
<1>2. IsFiniteSet(1..Len(stream))
  BY <1>1, FS_Interval
<1>3. IsFiniteSet({i \in 1..Len(stream) : stream[i][1] = g})
  BY <1>2, FS_Subset
<1> QED BY <1>3, FS_CardinalityType DEF Sent

LEMMA ServerStep ==
  ASSUME ServerKept, StreamKept, [Next]_vars
  PROVE  ServerKept' /\ StreamKept' /\ GoesOn
<1> USE ClientAssumption
<1>1. Len(stream) \in Nat
  BY DEF StreamKept
<1>2. ASSUME NEW g \in Generations, Create(g) PROVE ServerKept' /\ StreamKept' /\ GoesOn
  <2>1. ServerKept'
    BY <1>2 DEF Create, ServerKept, Over, Statuses, Active, Terminal, Counts
  <2>2. stream' = stream /\ \A h \in Generations : last[h] \in Nat /\ last'[h] \in Nat /\ last[h] <= last'[h]
    BY <1>2 DEF Create, ServerKept, Over, Statuses, Active, Terminal, Counts
  <2>3. StreamKept'
    BY <1>1, <2>2 DEF StreamKept
  <2>4. GoesOn
    BY <1>1, <1>2, <2>2 DEF Create, GoesOn, ServerKept, Over, Statuses, Active, Terminal, Counts
  <2> QED BY <2>1, <2>3, <2>4
<1>3. ASSUME NEW g \in Generations, Write(g) PROVE ServerKept' /\ StreamKept' /\ GoesOn
  <2>1. ServerKept'
    BY <1>3 DEF Write, ServerKept, Over, Statuses, Active, Terminal, Counts
  <2>2. stream' = stream /\ \A h \in Generations : last[h] \in Nat /\ last'[h] \in Nat /\ last[h] <= last'[h]
    BY <1>3 DEF Write, ServerKept, Over, Statuses, Active, Terminal, Counts
  <2>3. StreamKept'
    BY <1>1, <2>2 DEF StreamKept
  <2>4. GoesOn
    BY <1>1, <1>3, <2>2 DEF Write, GoesOn, ServerKept, Over, Statuses, Active, Terminal, Counts
  <2> QED BY <2>1, <2>3, <2>4
<1>4. ASSUME NEW g \in Generations, Checkpoint(g) PROVE ServerKept' /\ StreamKept' /\ GoesOn
  <2>1. ServerKept'
    BY <1>4 DEF Checkpoint, ServerKept, Over, Statuses, Active, Terminal, Counts
  <2>2. stream' = stream /\ \A h \in Generations : last[h] \in Nat /\ last'[h] \in Nat /\ last[h] <= last'[h]
    BY <1>4 DEF Checkpoint, ServerKept, Over, Statuses, Active, Terminal, Counts
  <2>3. StreamKept'
    BY <1>1, <2>2 DEF StreamKept
  <2>4. GoesOn
    BY <1>1, <1>4, <2>2 DEF Checkpoint, GoesOn, ServerKept, Over, Statuses, Active, Terminal, Counts
  <2> QED BY <2>1, <2>3, <2>4
<1>5. ASSUME NEW g \in Generations, Finish(g) PROVE ServerKept' /\ StreamKept' /\ GoesOn
  <2>1. ServerKept'
    BY <1>5 DEF Finish, ServerKept, Over, Statuses, Active, Terminal, Counts
  <2>2. stream' = stream /\ \A h \in Generations : last[h] \in Nat /\ last'[h] \in Nat /\ last[h] <= last'[h]
    BY <1>5 DEF Finish, ServerKept, Over, Statuses, Active, Terminal, Counts
  <2>3. StreamKept'
    BY <1>1, <2>2 DEF StreamKept
  <2>4. GoesOn
    BY <1>1, <1>5, <2>2 DEF Finish, GoesOn, ServerKept, Over, Statuses, Active, Terminal, Counts
  <2> QED BY <2>1, <2>3, <2>4
<1>6. ASSUME NEW g \in Generations, Relay(g) PROVE ServerKept' /\ StreamKept' /\ GoesOn
  <2>1. status' = status /\ last' = last /\ ending' = ending /\ stored' = stored
    BY <1>6 DEF Relay
  <2>2. PICK k \in Nat : k = Sent(g)
    BY SentIsNat
  <2>3. k + 1 \in 1..last[g]
    BY <1>6, <2>2 DEF Relay, ServerKept, Counts
  <2>4. /\ stream' \in Seq(Generations \X Nat)
        /\ Len(stream') = Len(stream) + 1
        /\ \A i \in 1..Len(stream) : stream'[i] = stream[i]
        /\ stream'[Len(stream) + 1] = <<g, k + 1>>
    BY <1>6, <2>2, AppendProperties DEF Relay, StreamKept
  <2>5. ServerKept'
    BY <2>1 DEF ServerKept, Over, Counts
  <2>6. StreamKept'
    <3>1. \A i \in 1..Len(stream) : stream'[i][2] \in 1..last'[stream'[i][1]]
      BY <2>1, <2>4 DEF StreamKept
    <3>2. stream'[Len(stream) + 1][2] \in 1..last'[stream'[Len(stream) + 1][1]]
      BY <2>1, <2>3, <2>4
    <3>3. \A i \in 1..Len(stream') : i \in 1..Len(stream) \/ i = Len(stream) + 1
      BY <1>1, <2>4
    <3> QED BY <2>4, <3>1, <3>2, <3>3 DEF StreamKept
  <2>7. GoesOn
    BY <1>1, <2>1, <2>4 DEF GoesOn, ServerKept, Over, Counts
  <2> QED BY <2>5, <2>6, <2>7
<1>7. ASSUME NEW g \in Generations, Cancel(g) PROVE ServerKept' /\ StreamKept' /\ GoesOn
  <2>1. ServerKept'
    BY <1>7 DEF Cancel, ServerKept, Over, Statuses, Active, Terminal, Counts
  <2>2. stream' = stream /\ \A h \in Generations : last[h] \in Nat /\ last'[h] \in Nat /\ last[h] <= last'[h]
    BY <1>7 DEF Cancel, ServerKept, Over, Statuses, Active, Terminal, Counts
  <2>3. StreamKept'
    BY <1>1, <2>2 DEF StreamKept
  <2>4. GoesOn
    BY <1>1, <1>7, <2>2 DEF Cancel, GoesOn, ServerKept, Over, Statuses, Active, Terminal, Counts
  <2> QED BY <2>1, <2>3, <2>4
<1>8. ASSUME Remove PROVE ServerKept' /\ StreamKept' /\ GoesOn
  <2>1. ServerKept'
    BY <1>8 DEF Remove, Present, ServerKept, Over, Statuses, Active, Terminal, Counts
  <2>2. stream' = stream /\ last' = last
    BY <1>8 DEF Remove
  <2>3. StreamKept'
    BY <2>2 DEF StreamKept
  <2>4. GoesOn
    BY <1>1, <1>8, <2>2 DEF Remove, Present, GoesOn, ServerKept, Over, Statuses, Active, Terminal, Counts
  <2> QED BY <2>1, <2>3, <2>4
<1>9. CASE User \/ Reply \/ Realtime \/ UNCHANGED vars
  <2>1. status' = status /\ last' = last /\ ending' = ending /\ stored' = stored /\ stream' = stream
    BY <1>9, TabLeavesServer DEF server
  <2>2. ServerKept'
    BY <2>1 DEF ServerKept, Over, Counts
  <2>3. StreamKept'
    BY <2>1 DEF StreamKept
  <2>4. GoesOn
    BY <1>1, <2>1 DEF GoesOn, ServerKept, Over, Counts
  <2> QED BY <2>2, <2>3, <2>4
<1> QED BY <1>2, <1>3, <1>4, <1>5, <1>6, <1>7, <1>8, <1>9 DEF Next, Server

-----------------------------------------------------------------------------
(* What the store makes of an event, a snapshot and a wish for messages. *)

Views == [state : States \cup {None}, shown : Seq(Nat) \cup {None}, fetch : BOOLEAN]

ViewTruthful(v, g) ==
  /\ v \in Views
  /\ v.state # None => Truthful(v.state.status, v.state.seq, g)

(* The end is not shown unless the message is, or is asked for. *)
ViewAtRest(v, g) ==
  v.state # None /\ v.state.status \in Terminal =>
    v.fetch \/ v.shown \in {None, [n \in 1..stored[g] |-> n]}

LEMMA ViewIsTruthful ==
  ASSUME KnownKept, ShownKept, NEW g \in Generations
  PROVE  ViewTruthful(View(g), g)
BY DEF KnownKept, ShownKept, StateTruthful, View, Views, ViewTruthful

LEMMA AppliedTruthful ==
  ASSUME ServerKept, ShownKept, NEW g \in Generations, NEW v, ViewTruthful(v, g),
         NEW lo \in Nat, NEW hi \in Counts, hi <= last[g]
  PROVE  ViewTruthful(Applied(v, g, lo, hi), g)
<1> DEFINE c == SeqOf(v)
           top == IF Done(g, hi) THEN hi - 1 ELSE hi
           old == IF v.shown = None THEN <<>> ELSE v.shown
           more == [i \in 1..(top - c) |-> c + i]
           w == [state |-> [status |-> StatusAfter(v, g, hi), seq |-> hi],
                 shown |-> IF listed THEN old \o more ELSE v.shown,
                 fetch |-> v.fetch \/ (Done(g, hi) /\ listed)]
<1>1. c \in Nat /\ hi \in Nat
  BY ClientAssumption DEF ViewTruthful, Views, SeqOf, States, Counts
<1>2. ASSUME lo <= c + 1, c < hi PROVE ViewTruthful(w, g)
  <2>1. top - c \in Nat
    BY <1>1, <1>2
  <2>2. more \in Seq(Nat)
    BY <1>1, <2>1
  <2>3. old \in Seq(Nat)
    BY DEF ViewTruthful, Views
  <2>4. old \o more \in Seq(Nat)
    BY <2>2, <2>3, ConcatProperties
  <2>5. (IF listed THEN old \o more ELSE v.shown) \in Seq(Nat) \cup {None}
    BY <2>4 DEF ViewTruthful, Views
  <2>6. Truthful(StatusAfter(v, g, hi), hi, g)
    BY <1>1 DEF StatusAfter, Done, Truthful, ServerKept, Statuses, Active, Terminal
  <2>7. [status |-> StatusAfter(v, g, hi), seq |-> hi] \in States
    BY <2>6 DEF Truthful, States, Statuses, Counts
  <2>8. (v.fetch \/ (Done(g, hi) /\ listed)) \in BOOLEAN
    BY DEF ViewTruthful, Views, ShownKept, Done
  <2>9. w.state = [status |-> StatusAfter(v, g, hi), seq |-> hi] /\ w \in Views
    BY <2>5, <2>7, <2>8 DEF Views
  <2> QED BY <2>6, <2>9 DEF ViewTruthful
<1>3. Applied(v, g, lo, hi) = IF lo <= c + 1 /\ c < hi THEN w ELSE v
  BY DEF Applied
<1> QED BY <1>2, <1>3

LEMMA AppliedAtRest ==
  ASSUME listed, NEW g \in Generations, NEW v, ViewAtRest(v, g), NEW lo, NEW hi
  PROVE  ViewAtRest(Applied(v, g, lo, hi), g)
<1> DEFINE w == Applied(v, g, lo, hi)
<1>1. CASE lo <= SeqOf(v) + 1 /\ SeqOf(v) < hi
  <2>1. w.state = [status |-> StatusAfter(v, g, hi), seq |-> hi] /\ w.fetch = (v.fetch \/ Done(g, hi))
    BY <1>1 DEF Applied
  <2>2. w.state.status \in Terminal => Done(g, hi)
    BY <2>1 DEF StatusAfter, Terminal
  <2> QED BY <2>1, <2>2 DEF ViewAtRest
<1>2. CASE ~(lo <= SeqOf(v) + 1 /\ SeqOf(v) < hi)
  BY <1>2 DEF Applied
<1> QED BY <1>1, <1>2

LEMMA ResyncedTruthful ==
  ASSUME ServerKept, ShownKept, HistoryKept, pc = "history", NEW v, ViewTruthful(v, history.of)
  PROVE  ViewTruthful(Resynced(v), history.of)
<1> DEFINE g == history.of
           row == history.row
           state == IF history.detached THEN v.state ELSE [status |-> row.status, seq |-> row.last]
           text == IF v.shown = None THEN None ELSE [n \in 1..row.stored |-> n]
           w == [v EXCEPT !.state = state, !.shown = text]
<1>1. /\ history \in Histories /\ g \in Generations
      /\ history.upto \in Counts /\ history.upto <= last[g] /\ history.after + 1 \in Nat
      /\ row \in Rows /\ Truthful(row.status, row.last, g)
  BY ClientAssumption DEF HistoryKept, Histories, RowTruthful, Counts
<1>2. CASE Complete
  BY <1>1, <1>2, AppliedTruthful DEF Resynced
<1>3. CASE ~Complete
  <2>1. row.stored \in Nat /\ text \in Seq(Nat) \cup {None}
    BY <1>1, ClientAssumption DEF Rows
  <2>2. [status |-> row.status, seq |-> row.last] \in States
    BY <1>1 DEF Rows, States
  <2>3. w \in Views /\ w.state = state
    BY <2>1, <2>2 DEF ViewTruthful, Views
  <2>4. w.state # None => Truthful(w.state.status, w.state.seq, g)
    BY <1>1, <2>3 DEF ViewTruthful
  <2>5. Resynced(v) = w
    BY <1>3 DEF Resynced
  <2> QED BY <2>3, <2>4, <2>5 DEF ViewTruthful
<1> QED BY <1>2, <1>3

LEMMA ResyncedAtRest ==
  ASSUME listed, HistoryKept, pc = "history", status[history.of] # "gone",
         NEW v \in Views, ViewAtRest(v, history.of)
  PROVE  ViewAtRest(Resynced(v), history.of)
<1>1. history.of \in Generations
  BY DEF HistoryKept, Histories
<1>2. CASE Complete
  BY <1>1, <1>2, AppliedAtRest DEF Resynced
<1>3. CASE ~Complete
  <2>1. history.row.stored = stored[history.of]
    BY <1>3 DEF HistoryKept, RowTruthful
  <2>2. Resynced(v).shown = IF v.shown = None THEN None ELSE [n \in 1..history.row.stored |-> n]
    BY <1>3 DEF Resynced, Views
  <2> QED BY <2>1, <2>2 DEF ViewAtRest
<1> QED BY <1>2, <1>3

(* A set of natural numbers has a least element. *)
LEMMA LeastOf ==
  ASSUME NEW V \in SUBSET Nat, V # {}
  PROVE  \E m \in V : \A n \in V : m <= n
<1>1. \E m \in V : \A n \in V : <<n, m>> \notin OpToRel(<, Nat)
  BY NatLessThanWellFounded, WFMin
<1>2. PICK m \in V : \A n \in V : <<n, m>> \notin OpToRel(<, Nat)
  BY <1>1
<1>3. \A n \in V : ~(n < m)
  BY <1>2 DEF OpToRel
<1> QED BY <1>3

(* A request for messages takes a free place, or they are missed. *)
LEMMA AskingKeeps ==
  ASSUME FetchesKept, ShownKept, NEW wanted \in BOOLEAN, AskIf(wanted)
  PROVE  /\ fetches' \in [1..MaxFetches -> Fetches]
         /\ \A i \in 1..MaxFetches : fetches'[i] = fetches[i] \/ fetches'[i].stage = "asked"
         /\ \A i \in 1..MaxFetches : fetches'[i].stage = "idle" => fetches[i].stage = "idle"
         /\ missed' \in BOOLEAN /\ (missed => missed')
         /\ wanted => missed' \/ \E i \in 1..MaxFetches : fetches'[i].stage = "asked"
<1> DEFINE free == {i \in Slots : fetches[i].stage = "idle"}
           first == CHOOSE i \in free : \A j \in free : i <= j
<1>1. MaxFetches \in Nat \ {0} /\ Slots \subseteq 1..MaxFetches
  BY ClientAssumption DEF Slots
<1>2. missed' = (missed \/ (wanted /\ free = {})) /\ missed \in BOOLEAN
  BY DEF AskIf, ShownKept
<1>3. CASE wanted /\ free # {}
  <2>1. free \in SUBSET Nat
    <3>1. \A i \in free : i \in 1..MaxFetches
      BY <1>1
    <3>2. \A i \in 1..MaxFetches : i \in Nat
      BY <1>1
    <3> HIDE DEF free
    <3>3. \A i \in free : i \in Nat
      BY <3>1, <3>2
    <3> QED BY <3>3
  <2>2. \E i \in free : \A j \in free : i <= j
    BY <1>3, <2>1, LeastOf
  <2>3. PICK f : f = first
    OBVIOUS
  <2>4. f \in free /\ f \in 1..MaxFetches
    BY <1>1, <2>2, <2>3
  <2>5. fetches' = [fetches EXCEPT ![f].stage = "asked"]
    BY <1>3, <2>3 DEF AskIf
  <2>6. fetches' \in [1..MaxFetches -> Fetches] /\ fetches'[f].stage = "asked"
    BY <2>4, <2>5 DEF FetchesKept, Fetches
  <2>7. \A i \in 1..MaxFetches : i # f => fetches'[i] = fetches[i]
    BY <2>4, <2>5 DEF FetchesKept
  <2> QED BY <1>2, <2>4, <2>6, <2>7
<1>4. CASE ~(wanted /\ free # {})
  <2>1. fetches' = fetches
    BY <1>4 DEF AskIf
  <2> QED BY <1>2, <1>4, <2>1 DEF FetchesKept
<1> QED BY <1>3, <1>4

-----------------------------------------------------------------------------
(* What a step does to the store. *)

(* A view of the answer that is true of the server is kept; it is at rest   *)
(* if the one before was.                                                  *)
KeepsView(g) ==
  /\ UNCHANGED server
  /\ \E v : /\ ViewTruthful(v, g)
            /\ listed /\ status[g] # "gone" /\ ViewAtRest(View(g), g) => ViewAtRest(v, g)
            /\ Keep(g, v)

LEMMA IncomingIsSent ==
  ASSUME ServerKept, StreamKept, cursor \in Nat, cursor < Len(stream)
  PROVE  /\ Incoming[1] \in Generations /\ Incoming = stream[cursor + 1]
         /\ Incoming[2] \in Counts /\ Incoming[2] \in Nat /\ Incoming[2] <= last[Incoming[1]]
<1>1. cursor + 1 \in 1..Len(stream)
  BY DEF StreamKept
<1>2. stream[cursor + 1] \in Generations \X Nat
  BY <1>1, ElementOfSeq DEF StreamKept
<1>3. last[Incoming[1]] \in Counts /\ Incoming[2] \in 1..last[Incoming[1]]
  BY <1>1, <1>2 DEF Incoming, StreamKept, ServerKept
<1> QED BY <1>2, <1>3, ClientAssumption DEF Incoming, Counts

LEMMA ResyncKeepsView ==
  ASSUME Kept, ResyncApply
  PROVE  KeepsView(history.of)
<1> DEFINE g == history.of
           u == View(g)
           r == Resynced(u)
           n == Incoming[2]
<1>1. pc = "history" /\ history \in Histories /\ g \in Generations /\ UNCHANGED server
  BY DEF ResyncApply, Kept, HistoryKept, Histories
<1>2. ViewTruthful(u, g)
  BY <1>1, ViewIsTruthful DEF Kept
<1>3. ViewTruthful(r, g) /\ u \in Views
  BY <1>1, <1>2, ResyncedTruthful DEF Kept, ViewTruthful
<1>4. listed /\ status[g] # "gone" /\ ViewAtRest(u, g) => ViewAtRest(r, g)
  BY <1>1, <1>3, ResyncedAtRest DEF Kept
<1>5. CASE sync # None
  <2>1. Keep(g, r)
    BY <1>5 DEF ResyncApply
  <2> QED BY <1>1, <1>3, <1>4, <2>1 DEF KeepsView
<1>6. CASE sync = None
  <2>1. cursor \in Nat /\ cursor < Len(stream) /\ stream[cursor + 1][1] = g
    BY <1>1, <1>6 DEF Kept, HistoryKept
  <2>2. n \in Counts /\ n \in Nat /\ n <= last[g] /\ n = stream[cursor + 1][2]
    BY <2>1, IncomingIsSent DEF Kept, Incoming
  <2>3. ViewTruthful(Applied(r, g, n, n), g)
    BY <1>1, <1>3, <2>2, AppliedTruthful DEF Kept
  <2>4. listed /\ status[g] # "gone" /\ ViewAtRest(u, g) => ViewAtRest(Applied(r, g, n, n), g)
    BY <1>1, <1>4, AppliedAtRest
  <2>5. Keep(g, Applied(r, g, n, n))
    BY <1>6, <2>2 DEF ResyncApply
  <2> QED BY <1>1, <2>3, <2>4, <2>5 DEF KeepsView
<1> QED BY <1>5, <1>6

LEMMA FrameKeepsView ==
  ASSUME Kept, Frame, ~BehindGap(Incoming[1], Incoming[2])
  PROVE  \E g \in Generations : KeepsView(g)
<1> DEFINE g == Incoming[1]
           n == Incoming[2]
           v == Applied(View(g), g, n, n)
<1>1. cursor \in Nat /\ cursor < Len(stream) /\ UNCHANGED server
  BY DEF Kept, HistoryKept, Frame
<1>2. g \in Generations /\ n \in Counts /\ n \in Nat /\ n <= last[g]
  BY <1>1, IncomingIsSent DEF Kept
<1>3. ViewTruthful(v, g)
  BY <1>2, ViewIsTruthful, AppliedTruthful DEF Kept
<1>4. listed /\ ViewAtRest(View(g), g) => ViewAtRest(v, g)
  BY <1>2, AppliedAtRest
<1>5. Keep(g, v)
  BY DEF Frame
<1> QED BY <1>1, <1>2, <1>3, <1>4, <1>5 DEF KeepsView

Untouched == UNCHANGED <<listed, known, shown, missed, fetches>>

LEMMA StoreMoves ==
  ASSUME Kept, [Next]_vars
  PROVE  \/ Untouched
         \/ \E g \in Generations : KeepsView(g) \/ Answered(g) \/ CancelAnswered(g) \/ Replay(g)
         \/ \E i \in 1..MaxFetches : FetchRead(i) \/ FetchApply(i)
         \/ Open \/ Unlist \/ Reconcile
<1>1. ASSUME Server PROVE Untouched
  BY <1>1 DEF Server, Create, Write, Checkpoint, Finish, Relay, Cancel, Remove, store, Untouched
<1>2. ASSUME NEW g \in Generations, Post(g) \/ Stop(g) PROVE Untouched
  BY <1>2 DEF Post, Stop, store, Untouched
<1>3. ASSUME Start \/ SyncCursor \/ SyncActive \/ SyncKnown \/ SyncFails PROVE Untouched
  BY <1>3 DEF Start, SyncCursor, SyncActive, SyncKnown, SyncFails, store, Untouched
<1>4. ASSUME HistoryRow \/ HistoryEvents \/ ResyncFails PROVE Untouched
  BY <1>4 DEF HistoryRow, HistoryEvents, ResyncFails, store, Untouched
<1>5. ASSUME Frame, BehindGap(Incoming[1], Incoming[2]) PROVE Untouched
  BY <1>5 DEF Frame, store, Untouched
<1>6. ASSUME ResyncApply PROVE history.of \in Generations
  BY <1>6 DEF ResyncApply, Kept, HistoryKept, Histories
<1>7. ASSUME UNCHANGED vars PROVE Untouched
  BY <1>7 DEF vars, store, Untouched
<1> QED BY <1>1, <1>2, <1>3, <1>4, <1>5, <1>6, <1>7, ResyncKeepsView, FrameKeepsView
        DEF Next, User, Reply, Realtime

LEMMA RequestsStep ==
  ASSUME RequestsKept, [Next]_vars
  PROVE  RequestsKept' /\ own' = own
<1>1. ASSUME NEW g \in Generations, Post(g) \/ Answered(g) PROVE RequestsKept' /\ own' = own
  BY <1>1 DEF Post, Answered, RequestsKept
<1>2. ASSUME NEW g \in Generations, Stop(g) \/ Cancel(g) \/ CancelAnswered(g) PROVE RequestsKept' /\ own' = own
  BY <1>2 DEF Stop, Cancel, CancelAnswered, RequestsKept
<1>3. ASSUME UNCHANGED requests PROVE RequestsKept' /\ own' = own
  BY <1>3 DEF requests, RequestsKept
<1>4. ASSUME NEW g \in Generations, Create(g) \/ Write(g) \/ Checkpoint(g) \/ Finish(g) \/ Relay(g)
      PROVE  UNCHANGED requests
  BY <1>4 DEF Create, Write, Checkpoint, Finish, Relay
<1>5. ASSUME Remove \/ Open \/ Unlist PROVE UNCHANGED requests
  BY <1>5 DEF Remove, Open, Unlist
<1>6. ASSUME NEW i \in 1..MaxFetches, FetchRead(i) \/ FetchApply(i) PROVE UNCHANGED requests
  BY <1>6 DEF FetchRead, FetchApply
<1>7. ASSUME Start \/ SyncCursor \/ SyncActive \/ SyncKnown \/ SyncFails \/ Reconcile PROVE UNCHANGED requests
  BY <1>7 DEF Start, SyncCursor, SyncActive, SyncKnown, SyncFails, Reconcile
<1>8. ASSUME NEW g \in Generations, Replay(g) PROVE UNCHANGED requests
  BY <1>8 DEF Replay
<1>9. ASSUME HistoryRow \/ HistoryEvents \/ ResyncApply \/ ResyncFails \/ Frame PROVE UNCHANGED requests
  BY <1>9 DEF HistoryRow, HistoryEvents, ResyncApply, ResyncFails, Frame
<1> QED BY <1>1, <1>2, <1>3, <1>4, <1>5, <1>6, <1>7, <1>8, <1>9
        DEF Next, Server, User, Reply, Realtime, vars

(* What was true of the server when it was read still is. *)
LEMMA StillTruthful ==
  ASSUME ServerKept, GoesOn, NEW g \in Generations, NEW r
  PROVE  /\ RowTruthful(r, g) => RowTruthful(r, g)'
         /\ StateTruthful(r, g) => StateTruthful(r, g)'
<1>1. ASSUME NEW s, NEW n, Truthful(s, n, g) PROVE Truthful(s, n, g)'
  BY <1>1, ClientAssumption DEF Truthful, GoesOn, ServerKept, Counts
<1> QED BY <1>1 DEF RowTruthful, StateTruthful, GoesOn, Truthful

LEMMA FetchStillTruthful ==
  ASSUME ServerKept, GoesOn, NEW f, FetchTruthful(f)
  PROVE  FetchTruthful(f)'
<1>1. ASSUME NEW g \in Generations, f.stage = "answered", f.rows[g] # None PROVE RowTruthful(f.rows[g], g)'
  BY <1>1, StillTruthful DEF FetchTruthful
<1> QED BY <1>1 DEF FetchTruthful

LEMMA FetchesStep ==
  ASSUME Kept, GoesOn, [Next]_vars
  PROVE  FetchesKept'
<1>1. ServerKept /\ FetchesKept /\ ShownKept
  BY DEF Kept
<1>2. ASSUME NEW i \in 1..MaxFetches, NEW f, fetches'[i] = f, f = fetches[i] PROVE FetchTruthful(fetches[i])'
  BY <1>1, <1>2, FetchStillTruthful DEF FetchesKept
<1>3. ASSUME NEW i \in 1..MaxFetches, fetches'[i].stage # "answered" PROVE FetchTruthful(fetches[i])'
  BY <1>3 DEF FetchTruthful
<1>4. ASSUME fetches' \in [1..MaxFetches -> Fetches],
             \A i \in 1..MaxFetches : fetches'[i] = fetches[i] \/ fetches'[i].stage # "answered"
      PROVE  FetchesKept'
  BY <1>2, <1>3, <1>4 DEF FetchesKept
<1>5. ASSUME NEW w \in BOOLEAN, AskIf(w) PROVE FetchesKept'
  <2>1. \A i \in 1..MaxFetches : fetches'[i] = fetches[i] \/ fetches'[i].stage # "answered"
    BY <1>1, <1>5, AskingKeeps
  <2> QED BY <1>1, <1>4, <1>5, <2>1, AskingKeeps
<1>6. ASSUME NEW g \in Generations, KeepsView(g) PROVE FetchesKept'
  <2>1. PICK v : ViewTruthful(v, g) /\ Keep(g, v)
    BY <1>6 DEF KeepsView
  <2>2. v.fetch \in BOOLEAN /\ AskIf(v.fetch)
    BY <2>1 DEF ViewTruthful, Views, Keep
  <2> QED BY <1>5, <2>2
<1>7. ASSUME NEW g \in Generations, Answered(g) PROVE FetchesKept'
  BY <1>5, <1>7 DEF Answered
<1>8. ASSUME Open PROVE FetchesKept'
  BY <1>5, <1>8 DEF Open
<1>9. ASSUME fetches' = fetches PROVE FetchesKept'
  BY <1>1, <1>4, <1>9 DEF FetchesKept
<1>10. ASSUME NEW i \in 1..MaxFetches, FetchRead(i) PROVE FetchesKept'
  <2> DEFINE rows == [g \in Generations |-> Row(g)]
  <2>1. PICK f : f = [stage |-> "answered", rows |-> rows]
    OBVIOUS
  <2>2. fetches' = [fetches EXCEPT ![i] = f]
    BY <1>10, <2>1 DEF FetchRead
  <2>3. \A g \in Generations : Row(g) # None => RowTruthful(Row(g), g)
    BY <1>1 DEF Row, Present, RowTruthful, Truthful, Rows, ServerKept, Over, Statuses, Active, Terminal, Counts
  <2>4. \A g \in Generations : Row(g) \in Rows \cup {None}
    BY <2>3 DEF RowTruthful
  <2>5. f \in Fetches /\ f.rows = rows
    BY <2>1, <2>4 DEF Fetches
  <2>6. FetchTruthful(f)
    BY <2>3, <2>4, <2>5 DEF FetchTruthful
  <2>7. fetches' \in [1..MaxFetches -> Fetches] /\ fetches'[i] = f
    BY <1>1, <2>2, <2>5 DEF FetchesKept
  <2>8. \A j \in 1..MaxFetches : j # i => fetches'[j] = fetches[j]
    BY <1>1, <2>2 DEF FetchesKept
  <2>9. FetchTruthful(fetches[i])'
    BY <1>1, <2>6, <2>7, FetchStillTruthful
  <2>10. \A j \in 1..MaxFetches : FetchTruthful(fetches[j])'
    BY <1>2, <2>8, <2>9
  <2> QED BY <2>7, <2>10 DEF FetchesKept
<1>11. ASSUME NEW i \in 1..MaxFetches, FetchApply(i) PROVE FetchesKept'
  <2>1. fetches' = [fetches EXCEPT ![i] = [stage |-> "idle", rows |-> None]]
    BY <1>11 DEF FetchApply
  <2>2. fetches' \in [1..MaxFetches -> Fetches] /\ fetches'[i].stage = "idle"
    BY <1>1, <2>1 DEF FetchesKept, Fetches
  <2>3. \A j \in 1..MaxFetches : j # i => fetches'[j] = fetches[j]
    BY <1>1, <2>1 DEF FetchesKept
  <2> QED BY <1>4, <2>2, <2>3
<1>12. ASSUME Untouched \/ Unlist \/ Reconcile PROVE fetches' = fetches
  BY <1>12 DEF Untouched, Unlist, Reconcile
<1>13. ASSUME NEW g \in Generations, CancelAnswered(g) \/ Replay(g) PROVE fetches' = fetches
  BY <1>13 DEF CancelAnswered, Replay
<1> QED BY <1>6, <1>7, <1>8, <1>9, <1>10, <1>11, <1>12, <1>13, StoreMoves

LEMMA KnownStep ==
  ASSUME Kept, GoesOn, [Next]_vars
  PROVE  KnownKept'
<1>1. ServerKept /\ KnownKept
  BY DEF Kept
<1>2. ASSUME known' = known PROVE KnownKept'
  <2>1. ASSUME NEW g \in Generations PROVE StateTruthful(known[g], g)'
    <3>1. PICK r : r = known[g]
      OBVIOUS
    <3>2. StateTruthful(r, g)'
      BY <1>1, <3>1, StillTruthful DEF KnownKept
    <3> QED BY <1>2, <3>1, <3>2
  <2> QED BY <1>1, <1>2, <2>1 DEF KnownKept
<1>3. ASSUME UNCHANGED server, NEW g \in Generations, NEW r \in States \cup {None},
             r # None => Truthful(r.status, r.seq, g), known' = [known EXCEPT ![g] = r]
      PROVE  KnownKept'
  <2>1. UNCHANGED <<status, last, ending>>
    BY <1>3 DEF server
  <2>2. known' \in [Generations -> States \cup {None}]
    BY <1>1, <1>3 DEF KnownKept
  <2>3. \A h \in Generations : known'[h] = IF h = g THEN r ELSE known[h]
    BY <1>1, <1>3 DEF KnownKept
  <2> QED BY <1>1, <1>3, <2>1, <2>2, <2>3 DEF KnownKept, StateTruthful, Truthful, Over
<1>4. ASSUME NEW g \in Generations, KeepsView(g) PROVE KnownKept'
  <2>1. PICK v : ViewTruthful(v, g) /\ Keep(g, v) /\ UNCHANGED server
    BY <1>4 DEF KeepsView
  <2>2. v.state \in States \cup {None} /\ (v.state # None => Truthful(v.state.status, v.state.seq, g))
    BY <2>1 DEF ViewTruthful, Views
  <2>3. known' = [known EXCEPT ![g] = v.state]
    BY <2>1 DEF Keep
  <2> QED BY <1>3, <2>1, <2>2, <2>3
<1>5. ASSUME NEW g \in Generations, NEW s \in Active, UNCHANGED server,
             known' = [known EXCEPT ![g] = [status |-> s, seq |-> 0]]
      PROVE  KnownKept'
  <2> DEFINE r == [status |-> s, seq |-> 0]
  <2>1. r \in States /\ r.status = s /\ r.seq = 0
    BY ClientAssumption DEF States
  <2>2. Truthful(s, 0, g)
    BY <1>1, ClientAssumption DEF Truthful, ServerKept, Statuses, Active, Terminal, Counts
  <2> HIDE DEF r
  <2> QED BY <1>3, <1>5, <2>1, <2>2 DEF r
<1>6. ASSUME NEW g \in Generations, Answered(g) PROVE KnownKept'
  BY <1>5, <1>6 DEF Answered, Active
<1>7. ASSUME NEW g \in Generations, CancelAnswered(g) PROVE KnownKept'
  <2>1. PICK r : r = IF known[g] = None THEN None ELSE [known[g] EXCEPT !.status = "cancel_requested"]
    OBVIOUS
  <2>2. known' = [known EXCEPT ![g] = r] /\ UNCHANGED server
    BY <1>1, <1>7, <2>1 DEF CancelAnswered, KnownKept
  <2>3. r \in States \cup {None} /\ (known[g] # None => r.status = "cancel_requested" /\ r.seq = known[g].seq)
    BY <1>1, <2>1 DEF KnownKept, States, Active
  <2>4. r # None => Truthful(r.status, r.seq, g)
    BY <1>1, <2>1, <2>3 DEF KnownKept, StateTruthful, Truthful, Statuses, Active, Terminal
  <2> QED BY <1>3, <2>2, <2>3, <2>4
<1>8. ASSUME NEW g \in Generations, Replay(g) PROVE KnownKept'
  <2>1. sync # None /\ sync.active[g] # None
    BY <1>8 DEF Replay, Kept, SyncKept
  <2>2. PICK s : s = sync.active[g].status
    OBVIOUS
  <2>3. s \in Active
    BY <2>1, <2>2 DEF Kept, SyncKept
  <2> QED BY <1>5, <1>8, <2>2, <2>3 DEF Replay
<1>9. ASSUME NEW row, NEW S \in SUBSET Generations, UNCHANGED server,
             \A g \in S : RowTruthful(row[g], g),
             known' = [g \in Generations |->
                         IF g \in S THEN [status |-> row[g].status, seq |-> row[g].last] ELSE known[g]]
      PROVE  KnownKept'
  <2>1. UNCHANGED <<status, last, ending>>
    BY <1>9 DEF server
  <2>2. \A g \in S : [status |-> row[g].status, seq |-> row[g].last] \in States
    BY <1>9 DEF RowTruthful, Rows, States
  <2>3. known' \in [Generations -> States \cup {None}]
    BY <1>1, <1>9, <2>2 DEF KnownKept
  <2>4. ASSUME NEW g \in Generations PROVE StateTruthful(known[g], g)'
    <3>1. CASE g \in S
      <4>1. known'[g] = [status |-> row[g].status, seq |-> row[g].last]
        BY <1>9, <3>1
      <4> QED BY <1>9, <2>1, <3>1, <4>1 DEF RowTruthful, StateTruthful, Truthful, Over
    <3>2. CASE g \notin S
      <4>1. known'[g] = known[g]
        BY <1>9, <3>2
      <4> QED BY <1>1, <2>1, <4>1 DEF KnownKept, StateTruthful, Truthful, Over
    <3> QED BY <3>1, <3>2
  <2> QED BY <2>3, <2>4 DEF KnownKept
<1>10. ASSUME NEW i \in 1..MaxFetches, FetchApply(i) PROVE KnownKept'
  <2>1. PICK row : row = fetches[i].rows
    OBVIOUS
  <2> DEFINE S == {g \in Generations : row[g] # None}
  <2>2. \A g \in S : RowTruthful(row[g], g)
    BY <1>10, <2>1 DEF FetchApply, Kept, FetchesKept, FetchTruthful
  <2>3. CASE listed
    <3>1. UNCHANGED server
      BY <1>10 DEF FetchApply
    <3>2. known' = [g \in Generations |->
                      IF g \in S THEN [status |-> row[g].status, seq |-> row[g].last] ELSE known[g]]
      BY <1>10, <2>1, <2>3 DEF FetchApply
    <3> QED BY <1>9, <2>2, <3>1, <3>2
  <2>4. CASE ~listed
    BY <1>2, <1>10, <2>4 DEF FetchApply
  <2> QED BY <2>3, <2>4
<1>11. ASSUME Reconcile PROVE KnownKept'
  <2>1. PICK row : row = sync.known
    OBVIOUS
  <2> DEFINE S == {g \in Generations : row[g] # None}
  <2>2. \A g \in S : RowTruthful(row[g], g)
    BY <1>11, <2>1 DEF Reconcile, Kept, SyncKept
  <2>3. UNCHANGED server
    BY <1>11 DEF Reconcile
  <2>4. known' = [g \in Generations |->
                    IF g \in S THEN [status |-> row[g].status, seq |-> row[g].last] ELSE known[g]]
    BY <1>11, <2>1 DEF Reconcile
  <2> QED BY <1>9, <2>2, <2>3, <2>4
<1> QED BY <1>2, <1>4, <1>6, <1>7, <1>8, <1>10, <1>11, StoreMoves DEF Untouched, FetchRead, Open, Unlist

LEMMA ShownStep ==
  ASSUME Kept, GoesOn, [Next]_vars
  PROVE  ShownKept'
<1>1. ServerKept /\ FetchesKept /\ ShownKept
  BY DEF Kept
<1>2. ASSUME listed' = listed PROVE ~listed' => \E g \in Generations : status'[g] = "gone"
  BY <1>1, <1>2 DEF ShownKept, GoesOn
<1>3. ASSUME listed' = listed, shown' = shown, missed' \in BOOLEAN PROVE ShownKept'
  BY <1>1, <1>2, <1>3 DEF ShownKept
<1>4. ASSUME NEW g \in Generations, NEW m \in Seq(Nat) \cup {None}, listed' = listed,
             shown' = [shown EXCEPT ![g] = m], NEW w \in BOOLEAN, AskIf(w)
      PROVE  ShownKept'
  <2>1. missed' \in BOOLEAN
    BY <1>1, <1>4, AskingKeeps
  <2>2. shown' \in [Generations -> Seq(Nat) \cup {None}]
    BY <1>1, <1>4 DEF ShownKept
  <2> QED BY <1>1, <1>2, <1>4, <2>1, <2>2 DEF ShownKept
<1>5. ASSUME NEW g \in Generations, KeepsView(g) PROVE ShownKept'
  <2>1. PICK v : ViewTruthful(v, g) /\ Keep(g, v)
    BY <1>5 DEF KeepsView
  <2>2. v.fetch \in BOOLEAN /\ v.shown \in Seq(Nat) \cup {None}
    BY <2>1 DEF ViewTruthful, Views
  <2> QED BY <1>4, <2>1, <2>2 DEF Keep
<1>6. ASSUME NEW g \in Generations, Answered(g) PROVE ShownKept'
  <2>1. PICK m : m = IF shown[g] = None /\ listed THEN <<>> ELSE shown[g]
    OBVIOUS
  <2>2. m \in Seq(Nat) \cup {None} /\ listed' = listed
    BY <1>1, <1>6, <2>1 DEF ShownKept, Answered
  <2>3. CASE shown' = [shown EXCEPT ![g] = IF @ = None /\ listed THEN <<>> ELSE @] /\ AskIf(FALSE)
    BY <1>1, <1>4, <2>1, <2>2, <2>3 DEF ShownKept
  <2>4. CASE AskIf(TRUE) /\ UNCHANGED shown
    BY <1>1, <1>3, <2>2, <2>4, AskingKeeps
  <2> QED BY <1>6, <2>3, <2>4 DEF Answered
<1>7. ASSUME Open PROVE ShownKept'
  BY <1>1, <1>3, <1>7, AskingKeeps DEF Open
<1>8. ASSUME Untouched PROVE ShownKept'
  BY <1>1, <1>3, <1>8 DEF Untouched, ShownKept
<1>9. ASSUME NEW g \in Generations, CancelAnswered(g) \/ Replay(g) PROVE ShownKept'
  BY <1>1, <1>3, <1>9 DEF CancelAnswered, Replay, ShownKept
<1>10. ASSUME NEW i \in 1..MaxFetches, FetchRead(i) PROVE ShownKept'
  BY <1>1, <1>3, <1>10 DEF FetchRead, ShownKept
<1>11. ASSUME NEW i \in 1..MaxFetches, FetchApply(i) PROVE ShownKept'
  <2>1. listed' = listed /\ missed' = missed
    BY <1>11 DEF FetchApply
  <2>2. CASE ~listed
    BY <1>1, <1>3, <1>11, <2>1, <2>2 DEF FetchApply, ShownKept
  <2>3. CASE listed
    <3>1. PICK r : r = fetches[i].rows
      OBVIOUS
    <3>2. \A g \in Generations : r[g] # None => r[g].stored \in Nat
      BY <1>1, <1>11, <3>1, ClientAssumption DEF FetchApply, FetchesKept, FetchTruthful, RowTruthful, Rows
    <3>3. \A g \in Generations : r[g] # None => [n \in 1..r[g].stored |-> n] \in Seq(Nat)
      BY <3>2
    <3>4. shown' \in [Generations -> Seq(Nat) \cup {None}]
      <4> DEFINE text(g) == IF g \notin {h \in Generations : r[h] # None} THEN None
                            ELSE IF Live(g, [status |-> r[g].status, seq |-> r[g].last]) THEN shown[g]
                            ELSE [n \in 1..r[g].stored |-> n]
      <4>1. \A g \in Generations : text(g) \in Seq(Nat) \cup {None}
        BY <1>1, <3>3 DEF ShownKept
      <4>2. shown' = [g \in Generations |-> text(g)]
        BY <1>11, <2>3, <3>1 DEF FetchApply
      <4> HIDE DEF text
      <4> QED BY <4>1, <4>2
    <3> QED BY <1>1, <1>2, <2>1, <3>4 DEF ShownKept
  <2> QED BY <2>2, <2>3
<1>12. ASSUME Unlist PROVE ShownKept'
  <2>1. \E g \in Generations : status'[g] = "gone"
    BY <1>12 DEF Unlist, server
  <2>2. listed' = FALSE /\ missed' = missed /\ shown' = Nothing
    BY <1>12 DEF Unlist
  <2>3. Nothing \in [Generations -> Seq(Nat) \cup {None}]
    BY DEF Nothing
  <2> QED BY <1>1, <2>1, <2>2, <2>3 DEF ShownKept
<1>13. ASSUME Reconcile PROVE ShownKept'
  <2>1. missed' \in BOOLEAN
    BY <1>1, <1>13 DEF Reconcile, ShownKept
  <2> QED BY <1>3, <1>13, <2>1 DEF Reconcile
<1> QED BY <1>5, <1>6, <1>7, <1>8, <1>9, <1>10, <1>11, <1>12, <1>13, StoreMoves

-----------------------------------------------------------------------------
(* The sync and the resync. *)

SyncTruthful(g) ==
  /\ sync.active[g] # None => sync.active[g] \in Rows /\ sync.active[g].status \in Active
  /\ sync.known[g] # None => RowTruthful(sync.known[g], g)

LEMMA SyncStep ==
  ASSUME Kept, GoesOn, [Next]_vars
  PROVE  SyncKept'
<1> USE NoneAssumption
<1>1. ServerKept /\ StreamKept /\ SyncKept
  BY DEF Kept
<1>2. ASSUME sync' = sync, pc' = pc \/ pc' \notin {"sync", "active", "known", "synced"} \/ sync # None
      PROVE  SyncKept'
  <2>1. ASSUME sync # None, NEW g \in Generations PROVE SyncTruthful(g)'
    <3>1. PICK r : r = sync.known[g]
      OBVIOUS
    <3>2. r # None => RowTruthful(r, g)'
      BY <1>1, <2>1, <3>1, StillTruthful DEF SyncKept
    <3> QED BY <1>1, <1>2, <2>1, <3>1, <3>2 DEF SyncKept, SyncTruthful
  <2> QED BY <1>1, <1>2, <2>1 DEF SyncKept, SyncTruthful
<1>3. ASSUME sync' = None, pc' \notin {"sync", "active", "known", "synced"} PROVE SyncKept'
  BY <1>3 DEF SyncKept
<1>4. ASSUME NEW s \in Syncs, sync' = s, UNCHANGED server,
             \A g \in Generations :
               /\ s.active[g] # None => s.active[g] \in Rows /\ s.active[g].status \in Active
               /\ s.known[g] # None => RowTruthful(s.known[g], g)
      PROVE  SyncKept'
  <2>1. UNCHANGED <<status, last, ending, stored>>
    BY <1>4 DEF server
  <2> QED BY <1>4, <2>1 DEF SyncKept, RowTruthful, Truthful, Over
<1>5. \A g \in Generations : Row(g) # None => RowTruthful(Row(g), g) /\ Row(g).status = status[g]
  BY <1>1 DEF Row, Present, RowTruthful, Truthful, Rows, ServerKept, Over, Statuses, Active, Terminal, Counts
<1>6. \A g \in Generations : Row(g) \in Rows \cup {None}
  BY <1>5 DEF RowTruthful
<1>7. ASSUME Start PROVE SyncKept'
  <2>1. PICK s : s = [asked |-> {g \in Generations : known[g] # None}, cursor |-> 0,
                      active |-> Nothing, known |-> Nothing]
    OBVIOUS
  <2>2. s \in Syncs /\ s.active = Nothing /\ s.known = Nothing
    BY <2>1 DEF Syncs, Nothing
  <2>3. sync' = s /\ UNCHANGED server
    BY <1>7, <2>1 DEF Start
  <2>4. \A g \in Generations : s.active[g] = None /\ s.known[g] = None
    BY <2>2 DEF Nothing
  <2> QED BY <1>4, <2>2, <2>3, <2>4
<1>8. ASSUME SyncCursor PROVE SyncKept'
  <2>1. sync \in Syncs /\ sync # None /\ Len(stream) \in Nat
    BY <1>1, <1>8 DEF SyncCursor, SyncKept, StreamKept
  <2>2. PICK s : s = [sync EXCEPT !.cursor = Len(stream)]
    OBVIOUS
  <2>3. s \in Syncs /\ s.active = sync.active /\ s.known = sync.known
    BY <2>1, <2>2 DEF Syncs
  <2> QED BY <1>1, <1>4, <1>8, <2>1, <2>2, <2>3 DEF SyncCursor, SyncKept
<1>9. ASSUME SyncActive PROVE SyncKept'
  <2>1. sync \in Syncs /\ sync # None
    BY <1>1, <1>9 DEF SyncActive, SyncKept
  <2>2. PICK a : a = [g \in Generations |-> IF status[g] \in Active THEN Row(g) ELSE None]
    OBVIOUS
  <2>3. a \in [Generations -> Rows \cup {None}]
    BY <1>6, <2>2
  <2>4. \A g \in Generations : a[g] # None => a[g] \in Rows /\ a[g].status \in Active
    BY <1>5, <2>2 DEF RowTruthful
  <2>5. PICK s : s = [sync EXCEPT !.active = a]
    OBVIOUS
  <2>6. s \in Syncs /\ s.active = a /\ s.known = sync.known
    BY <2>1, <2>3, <2>5 DEF Syncs
  <2>7. sync' = s /\ UNCHANGED server
    BY <1>9, <2>2, <2>5 DEF SyncActive
  <2> QED BY <1>1, <1>4, <2>1, <2>4, <2>6, <2>7 DEF SyncKept
<1>10. ASSUME SyncKnown PROVE SyncKept'
  <2>1. sync \in Syncs /\ sync # None
    BY <1>1, <1>10 DEF SyncKnown, SyncKept
  <2>2. PICK k : k = [g \in Generations |-> IF g \in sync.asked THEN Row(g) ELSE None]
    OBVIOUS
  <2>3. k \in [Generations -> Rows \cup {None}]
    BY <1>6, <2>2
  <2>4. \A g \in Generations : k[g] # None => RowTruthful(k[g], g)
    BY <1>5, <2>2
  <2>5. PICK s : s = [sync EXCEPT !.asked = {}, !.known = k]
    OBVIOUS
  <2>6. s \in Syncs /\ s.active = sync.active /\ s.known = k
    BY <2>1, <2>3, <2>5 DEF Syncs
  <2>7. sync' = s /\ UNCHANGED server
    BY <1>10, <2>2, <2>5 DEF SyncKnown
  <2> QED BY <1>1, <1>4, <2>1, <2>4, <2>6, <2>7 DEF SyncKept
<1>11. ASSUME SyncFails \/ ResyncFails \/ Reconcile PROVE SyncKept'
  BY <1>3, <1>11 DEF SyncFails, ResyncFails, Reconcile
<1>12. ASSUME NEW g \in Generations, Replay(g) PROVE SyncKept'
  <2>1. sync \in Syncs /\ sync # None
    BY <1>1, <1>12 DEF Replay, SyncKept
  <2>2. PICK s : s = [sync EXCEPT !.active[g] = None]
    OBVIOUS
  <2>3. s \in Syncs /\ s.known = sync.known /\ s.active = [sync.active EXCEPT ![g] = None]
    BY <2>1, <2>2 DEF Syncs
  <2>4. \A h \in Generations : s.active[h] = IF h = g THEN None ELSE sync.active[h]
    BY <2>1, <2>3 DEF Syncs
  <2>5. sync' = s /\ UNCHANGED server
    BY <1>12, <2>2 DEF Replay
  <2> QED BY <1>1, <1>4, <2>1, <2>3, <2>4, <2>5 DEF SyncKept
<1>13. ASSUME HistoryRow \/ HistoryEvents \/ ResyncApply PROVE SyncKept'
  BY <1>2, <1>13 DEF HistoryRow, HistoryEvents, ResyncApply
<1>14. ASSUME Frame PROVE SyncKept'
  BY <1>2, <1>14 DEF Frame, Resync
<1>15. ASSUME Server \/ User \/ Reply \/ UNCHANGED vars PROVE sync' = sync /\ pc' = pc
  <2>1. CASE Server
    BY <2>1 DEF Server, Create, Write, Checkpoint, Finish, Relay, Cancel, Remove, realtime
  <2>2. CASE User
    BY <2>2 DEF User, Open, Post, Stop, realtime
  <2>3. CASE Reply
    BY <2>3 DEF Reply, Answered, CancelAnswered, FetchRead, FetchApply, Unlist, realtime
  <2> QED BY <1>15, <2>1, <2>2, <2>3 DEF vars, realtime
<1> QED BY <1>2, <1>7, <1>8, <1>9, <1>10, <1>11, <1>12, <1>13, <1>14, <1>15 DEF Next, Realtime

LEMMA HistoryStep ==
  ASSUME Kept, GoesOn, [Next]_vars
  PROVE  HistoryKept'
<1> USE NoneAssumption
<1>1. /\ ServerKept /\ StreamKept /\ KnownKept /\ SyncKept /\ HistoryKept
      /\ \A i \in Nat : i < Len(stream) => i < Len(stream') /\ stream'[i + 1] = stream[i + 1]
  BY DEF Kept, GoesOn
(* Nothing of the resync changes but whether its record is still the store's. *)
<1>2. ASSUME UNCHANGED <<pc, cursor, sync>>,
             history' = history \/ history' = [history EXCEPT !.detached = TRUE]
      PROVE  HistoryKept'
  <2>1. CASE pc \notin {"row", "events", "history"}
    BY <1>1, <1>2, <2>1 DEF HistoryKept
  <2>2. CASE pc \in {"row", "events", "history"}
    <3>1. history \in Histories /\ history.of \in Generations
      BY <1>1, <2>2 DEF HistoryKept, Histories
    <3>2. /\ history' \in Histories /\ history'.of = history.of /\ history'.after = history.after
          /\ history'.row = history.row /\ history'.upto = history.upto /\ history'.closed = history.closed
      BY <1>2, <3>1 DEF Histories
    <3>3. PICK g, r, a, u : g = history.of /\ r = history.row /\ a = history.after /\ u = history.upto
      OBVIOUS
    <3>4. pc # "row" => RowTruthful(r, g)'
      BY <1>1, <2>2, <3>1, <3>3, StillTruthful DEF HistoryKept
    <3>5. a \in Nat /\ u \in Nat /\ a <= last'[g] /\ u <= last'[g]
      BY <1>1, <2>2, <3>1, <3>3, ClientAssumption DEF HistoryKept, GoesOn, ServerKept, Counts, Histories
    <3>6. Complete' <=> Complete
      BY <3>2 DEF Complete
    <3>7. status'[g] # "gone" => status[g] # "gone"
      BY <3>1, <3>3 DEF GoesOn
    <3>8. status[g] # "absent" => status'[g] # "absent"
      BY <3>1, <3>3 DEF GoesOn
    <3>9. cursor \in Nat /\ (sync = None => cursor < Len(stream) /\ stream[cursor + 1][1] = g)
      BY <1>1, <2>2, <3>3 DEF HistoryKept
    <3>10. sync = None => cursor < Len(stream') /\ stream'[cursor + 1][1] = g
      BY <1>1, <3>9
    <3> QED BY <1>1, <1>2, <2>2, <3>2, <3>3, <3>4, <3>5, <3>6, <3>7, <3>8, <3>9, <3>10 DEF HistoryKept
  <2> QED BY <2>1, <2>2
<1>3. ASSUME cursor' \in Nat, pc' \notin {"row", "events", "history"} PROVE HistoryKept'
  BY <1>3 DEF HistoryKept
<1>4. ASSUME Server \/ User \/ UNCHANGED vars PROVE UNCHANGED <<pc, cursor, sync, history>>
  <2>1. CASE Server
    BY <2>1 DEF Server, Create, Write, Checkpoint, Finish, Relay, Cancel, Remove, realtime
  <2>2. CASE User
    BY <2>2 DEF User, Open, Post, Stop, realtime
  <2> QED BY <1>4, <2>1, <2>2 DEF vars, realtime
<1>5. ASSUME Reply PROVE HistoryKept'
  <2>1. ASSUME NEW g \in Generations, Answered(g) \/ CancelAnswered(g)
        PROVE  /\ UNCHANGED <<pc, cursor, sync>>
               /\ history' = history \/ history' = [history EXCEPT !.detached = TRUE]
    BY <2>1 DEF Answered, CancelAnswered, Detach, realtime
  <2>2. ASSUME NEW i \in 1..MaxFetches, FetchRead(i) \/ FetchApply(i)
        PROVE  /\ UNCHANGED <<pc, cursor, sync>>
               /\ history' = history \/ history' = [history EXCEPT !.detached = TRUE]
    BY <2>2 DEF FetchRead, FetchApply, Detach, realtime
  <2>3. ASSUME Unlist PROVE UNCHANGED <<pc, cursor, sync, history>>
    BY <2>3 DEF Unlist, realtime
  <2> QED BY <1>2, <1>5, <2>1, <2>2, <2>3 DEF Reply
<1>6. ASSUME Start PROVE HistoryKept'
  <2>1. cursor' \in 0..Len(stream) /\ pc' = "sync"
    BY <1>6 DEF Start
  <2> QED BY <1>1, <1>3, <2>1 DEF StreamKept
<1>7. ASSUME SyncCursor \/ SyncActive \/ SyncKnown \/ SyncFails \/ ResyncFails PROVE HistoryKept'
  BY <1>1, <1>3, <1>7 DEF SyncCursor, SyncActive, SyncKnown, SyncFails, ResyncFails, HistoryKept
<1>8. ASSUME Reconcile PROVE HistoryKept'
  BY <1>1, <1>3, <1>8 DEF Reconcile, SyncKept, Syncs
<1>9. ASSUME ResyncApply PROVE HistoryKept'
  BY <1>1, <1>3, <1>9 DEF ResyncApply, HistoryKept
(* A resync begins. *)
<1>10. ASSUME NEW g \in Generations, NEW a \in Counts, a <= last[g], Resync(g, a), UNCHANGED <<cursor, server>>,
              sync' = None => cursor < Len(stream) /\ stream[cursor + 1][1] = g
       PROVE  HistoryKept'
  <2>1. PICK r : r = [of |-> g, after |-> a, row |-> None, upto |-> 0, closed |-> FALSE, detached |-> FALSE]
    OBVIOUS
  <2>2. r \in Histories /\ r.of = g /\ r.after = a /\ r.upto = 0
    BY <2>1, ClientAssumption DEF Histories, Counts
  <2>3. history' = r /\ pc' = "row"
    BY <1>10, <2>1 DEF Resync
  <2>4. UNCHANGED <<last, stream>> /\ 0 <= last[g]
    BY <1>1, <1>10 DEF server, ServerKept, Counts
  <2> QED BY <1>1, <1>10, <2>2, <2>3, <2>4 DEF HistoryKept
<1>11. ASSUME NEW g \in Generations, Replay(g) PROVE HistoryKept'
  <2>1. sync \in Syncs
    BY <1>1, <1>11 DEF Replay, SyncKept
  <2>2. [sync EXCEPT !.active[g] = None] \in Syncs
    BY <2>1 DEF Syncs
  <2>3. sync' # None
    BY <1>11, <2>2 DEF Replay
  <2>4. 0 \in Counts /\ 0 <= last[g]
    BY <1>1, ClientAssumption DEF ServerKept, Counts
  <2> QED BY <1>10, <1>11, <2>3, <2>4 DEF Replay
<1>12. ASSUME Frame PROVE HistoryKept'
  <2>1. cursor \in Nat /\ cursor < Len(stream)
    BY <1>1, <1>12 DEF Frame, HistoryKept
  <2>2. Incoming[1] \in Generations /\ Incoming = stream[cursor + 1]
    BY <1>1, <2>1, IncomingIsSent
  <2>3. CASE BehindGap(Incoming[1], Incoming[2])
    <3>1. PICK g \in Generations : g = Incoming[1]
      BY <2>2
    <3>2. SeqOf(View(g)) \in Counts /\ SeqOf(View(g)) <= last[g]
      BY <1>1, <2>3, <3>1, ClientAssumption
         DEF BehindGap, SeqOf, View, KnownKept, StateTruthful, Truthful, ServerKept, Counts
    <3>3. Resync(g, SeqOf(View(g))) /\ UNCHANGED <<cursor, server>>
      BY <1>12, <2>3, <3>1 DEF Frame
    <3> QED BY <1>10, <2>1, <2>2, <3>1, <3>2, <3>3
  <2>4. CASE ~BehindGap(Incoming[1], Incoming[2])
    BY <1>1, <1>3, <1>12, <2>1, <2>4 DEF Frame
  <2> QED BY <2>3, <2>4
(* The row is read; it is not behind what the tab had seen. *)
<1>13. ASSUME HistoryRow PROVE HistoryKept'
  <2>1. PICK g, r : g = history.of /\ r = Row(g)
    OBVIOUS
  <2>2. history \in Histories /\ g \in Generations /\ Present(g) /\ pc = "row" /\ pc' = "events"
    BY <1>1, <1>13, <2>1 DEF HistoryRow, HistoryKept, Histories
  <2>3. r \in Rows /\ RowTruthful(r, g) /\ r.last = last[g]
    BY <1>1, <2>1, <2>2 DEF Row, Present, RowTruthful, Truthful, Rows, ServerKept, Over, Statuses, Active, Terminal, Counts
  <2>4. /\ history' \in Histories /\ history'.of = g /\ history'.after = history.after
        /\ history'.row = r /\ history'.upto = history.upto
    BY <1>13, <2>1, <2>2, <2>3 DEF HistoryRow, Histories
  <2>5. UNCHANGED <<status, last, ending, stored, stream, cursor, sync>>
    BY <1>13 DEF HistoryRow, server
  <2>6. RowTruthful(r, g)' /\ status'[g] # "absent"
    BY <2>2, <2>3, <2>5 DEF RowTruthful, Truthful, Over, Present, Active, Terminal
  <2> QED BY <1>1, <2>1, <2>2, <2>3, <2>4, <2>5, <2>6 DEF HistoryKept
(* The events are read; none is wanting unless the row was the last word. *)
<1>14. ASSUME HistoryEvents PROVE HistoryKept'
  <2>1. PICK g, r, a : g = history.of /\ r = history.row /\ a = history.after
    OBVIOUS
  <2>2. /\ history \in Histories /\ g \in Generations /\ pc = "events" /\ pc' = "history"
        /\ RowTruthful(r, g) /\ status[g] # "absent" /\ a <= last[g] /\ (status[g] # "gone" => a <= r.last)
    BY <1>1, <1>14, <2>1 DEF HistoryEvents, HistoryKept, Histories
  <2>3. PICK u : u = IF Present(g) THEN last[g] ELSE a
    OBVIOUS
  <2>4. PICK c : c = (Present(g) /\ ending[g] # None /\ last[g] > a)
    OBVIOUS
  <2>5. c \in BOOLEAN /\ u \in Counts /\ a \in Counts /\ last[g] \in Counts /\ u <= last[g]
    <3>1. c \in BOOLEAN
      BY <2>4
    <3>2. a \in Counts /\ last[g] \in Counts
      BY <1>1, <2>1, <2>2 DEF ServerKept, Histories
    <3>3. last[g] <= last[g]
      BY <3>2, ClientAssumption DEF Counts
    <3> QED BY <2>2, <2>3, <3>1, <3>2, <3>3
  <2>6. history' = [history EXCEPT !.upto = u, !.closed = c]
    BY <1>14, <2>1, <2>3, <2>4 DEF HistoryEvents
  <2>7. /\ history' \in Histories /\ history'.of = g /\ history'.after = a
        /\ history'.row = r /\ history'.upto = u /\ history'.closed = c
    BY <2>1, <2>2, <2>5, <2>6 DEF Histories
  <2>8. UNCHANGED <<status, last, ending, stored, stream, cursor, sync>>
    BY <1>14 DEF HistoryEvents, server
  <2>9. status[g] # "gone" => Complete' \/ r.status \in Terminal
    <3>1. SUFFICES ASSUME status[g] # "gone", r.status \notin Terminal PROVE Complete'
      OBVIOUS
    <3>2. Present(g)
      BY <1>1, <2>2, <3>1 DEF Present, ServerKept, Statuses
    <3>3. r.last \in Nat /\ a \in Nat /\ last[g] \in Nat /\ a <= r.last /\ r.last <= last[g] /\ u = last[g]
      BY <2>2, <2>3, <2>5, <3>1, <3>2, ClientAssumption DEF RowTruthful, Truthful, Counts
    <3> QED BY <2>7, <3>1, <3>3 DEF Complete
  <2>10. RowTruthful(r, g)'
    BY <2>2, <2>8 DEF RowTruthful, Truthful, Over
  <2> QED BY <1>1, <2>1, <2>2, <2>5, <2>7, <2>8, <2>9, <2>10 DEF HistoryKept
<1> QED BY <1>2, <1>4, <1>5, <1>6, <1>7, <1>8, <1>9, <1>11, <1>12, <1>13, <1>14 DEF Next, Realtime

-----------------------------------------------------------------------------
(* The theorems. *)

LEMMA KeptAtFirst == Init => Kept
<1> SUFFICES ASSUME Init PROVE Kept
  OBVIOUS
<1> USE ClientAssumption, NoneAssumption
<1>1. ServerKept
  BY DEF Init, ServerKept, Nothing, Over, Statuses, Active, Terminal, Counts
<1>2. StreamKept
  BY DEF Init, StreamKept
<1>3. RequestsKept
  BY DEF Init, RequestsKept
<1>4. FetchesKept
  BY DEF Init, FetchesKept, Fetches, FetchTruthful
<1>5. KnownKept
  BY DEF Init, KnownKept, Nothing, StateTruthful
<1>6. ShownKept
  BY DEF Init, ShownKept, Nothing
<1>7. SyncKept /\ HistoryKept
  BY DEF Init, SyncKept, HistoryKept
<1> QED BY <1>1, <1>2, <1>3, <1>4, <1>5, <1>6, <1>7 DEF Kept

LEMMA KeptStep ==
  ASSUME Kept, [Next]_vars
  PROVE  Kept' /\ GoesOn /\ own' = own
<1>1. ServerKept /\ StreamKept /\ RequestsKept
  BY DEF Kept
<1>2. ServerKept' /\ StreamKept' /\ GoesOn
  BY <1>1, ServerStep
<1>3. RequestsKept' /\ own' = own
  BY <1>1, RequestsStep
<1> QED BY <1>2, <1>3, FetchesStep, KnownStep, ShownStep, SyncStep, HistoryStep DEF Kept

(* Types, and the truth of all the tab has been told. *)
THEOREM RepliesWereTrue == Spec => []Kept
BY KeptAtFirst, KeptStep, PTL DEF Spec

(* The tab has seen no event that is not in the log, and the end it reports *)
(* is the one that was written: whichever of the five ways it learned of    *)
(* the answer, in whatever order their replies came.                       *)
THEOREM ServerLeads == Spec => []NeverAhead
<1>1. Kept => NeverAhead
  BY DEF Kept, KnownKept, StateTruthful, Truthful, NeverAhead
<1> QED BY <1>1, RepliesWereTrue, PTL

LEMMA AtRestStep ==
  ASSUME Kept, StoredAtRest, [Next]_vars
  PROVE  StoredAtRest'
<1>1. Kept' /\ GoesOn /\ own' = own
  BY KeptStep
<1>2. SUFFICES ASSUME ~missed', own = {}, NEW g \in Generations,
                      status'[g] # "gone", known'[g] # None, known'[g].status \in Terminal,
                      \A i \in 1..MaxFetches : fetches'[i].stage = "idle"
               PROVE  shown'[g] \in {None, [n \in 1..stored'[g] |-> n]}
  BY <1>1 DEF StoredAtRest
<1>3. /\ ServerKept /\ FetchesKept /\ ShownKept /\ KnownKept /\ RequestsKept
      /\ status[g] # "gone"
  BY <1>1, <1>2 DEF Kept, GoesOn
<1>4. status'[g] \in Terminal
  BY <1>1, <1>2 DEF Kept, KnownKept, StateTruthful, Truthful, Over
<1>5. ASSUME ~missed, known'[g] = known[g], shown'[g] = shown[g], \A i \in 1..MaxFetches : fetches[i].stage = "idle"
      PROVE  shown'[g] \in {None, [n \in 1..stored'[g] |-> n]}
  <2>1. Over(g)
    BY <1>2, <1>3, <1>5 DEF KnownKept, StateTruthful, Truthful
  <2>2. stored'[g] = stored[g]
    BY <1>1, <2>1 DEF GoesOn
  <2> QED BY <1>2, <1>3, <1>5, <2>2 DEF StoredAtRest
<1>6. UNCHANGED status => listed
  BY <1>3, <1>4 DEF ShownKept, ServerKept, Terminal
<1>7. CASE Untouched
  BY <1>2, <1>5, <1>7 DEF Untouched
<1>8. ASSUME NEW h \in Generations, KeepsView(h)
      PROVE  shown'[g] \in {None, [n \in 1..stored'[g] |-> n]}
  <2>1. PICK v : /\ ViewTruthful(v, h) /\ Keep(h, v) /\ UNCHANGED server
                 /\ listed /\ status[h] # "gone" /\ ViewAtRest(View(h), h) => ViewAtRest(v, h)
    BY <1>8 DEF KeepsView
  <2>2. v.fetch \in BOOLEAN /\ AskIf(v.fetch)
    BY <2>1 DEF ViewTruthful, Views, Keep
  <2>3. ~missed /\ ~v.fetch /\ \A i \in 1..MaxFetches : fetches[i].stage = "idle"
    BY <1>2, <1>3, <2>2, AskingKeeps
  <2>4. known' = [known EXCEPT ![h] = v.state] /\ shown' = [shown EXCEPT ![h] = v.shown]
    BY <2>1 DEF Keep
  <2>5. CASE g # h
    <3>1. known'[g] = known[g] /\ shown'[g] = shown[g]
      BY <1>3, <2>4, <2>5 DEF KnownKept, ShownKept
    <3> QED BY <1>5, <2>3, <3>1
  <2>6. CASE g = h
    <3>1. known'[g] = v.state /\ shown'[g] = v.shown
      BY <1>3, <2>4, <2>6 DEF KnownKept, ShownKept
    <3>2. UNCHANGED <<status, stored>>
      BY <2>1 DEF server
    <3>3. ViewAtRest(View(g), g)
      BY <1>2, <1>3, <2>3 DEF StoredAtRest, ViewAtRest, View
    <3>4. ViewAtRest(v, g)
      BY <1>3, <1>6, <2>1, <2>6, <3>2, <3>3
    <3> QED BY <1>2, <2>3, <3>1, <3>2, <3>4 DEF ViewAtRest
  <2> QED BY <2>5, <2>6
<1>9. ASSUME NEW h \in Generations, Answered(h) \/ CancelAnswered(h) PROVE FALSE
  BY <1>2, <1>3, <1>9 DEF Answered, CancelAnswered, RequestsKept
<1>10. ASSUME NEW h \in Generations, Replay(h)
       PROVE  shown'[g] \in {None, [n \in 1..stored'[g] |-> n]}
  <2>1. sync.active[h].status \in Active
    BY <1>10 DEF Replay, Kept, SyncKept
  <2>2. known'[h] = [status |-> sync.active[h].status, seq |-> 0]
    BY <1>3, <1>10 DEF Replay, KnownKept
  <2>3. g # h
    BY <1>2, <2>1, <2>2 DEF Active, Terminal
  <2>4. known'[g] = known[g] /\ UNCHANGED <<shown, missed, fetches>>
    BY <1>3, <1>10, <2>3 DEF Replay, KnownKept
  <2> QED BY <1>2, <1>5, <2>4
<1>11. ASSUME NEW i \in 1..MaxFetches, FetchRead(i) PROVE FALSE
  <2>1. fetches'[i].stage = "answered"
    BY <1>3, <1>11 DEF FetchRead, FetchesKept
  <2> QED BY <1>2, <2>1
<1>12. ASSUME NEW i \in 1..MaxFetches, FetchApply(i)
       PROVE  shown'[g] \in {None, [n \in 1..stored'[g] |-> n]}
  <2>1. UNCHANGED <<status, stored>> /\ fetches[i].stage = "answered"
    BY <1>12 DEF FetchApply, server
  <2>2. PICK r : r = fetches[i].rows
    OBVIOUS
  <2>3. r[g] # None => RowTruthful(r[g], g)
    BY <1>3, <2>1, <2>2 DEF FetchesKept, FetchTruthful
  <2>4. /\ known'[g] = IF r[g] # None THEN [status |-> r[g].status, seq |-> r[g].last] ELSE known[g]
        /\ shown'[g] = IF r[g] = None THEN None
                       ELSE IF Live(g, [status |-> r[g].status, seq |-> r[g].last]) THEN shown[g]
                       ELSE [n \in 1..r[g].stored |-> n]
    BY <1>6, <1>12, <2>1, <2>2 DEF FetchApply
  <2>5. CASE r[g] = None
    BY <2>4, <2>5
  <2>6. CASE r[g] # None
    <3>1. r[g].status \in Terminal
      BY <1>2, <2>4, <2>6
    <3>2. ~Live(g, [status |-> r[g].status, seq |-> r[g].last])
      BY <3>1 DEF Live, Active, Terminal
    <3>3. r[g].stored = stored'[g]
      BY <2>1, <2>3, <2>6, <3>1 DEF RowTruthful
    <3> QED BY <2>4, <2>6, <3>2, <3>3
  <2> QED BY <2>5, <2>6
<1>13. ASSUME Open PROVE FALSE
  BY <1>2, <1>3, <1>13, AskingKeeps DEF Open
<1>14. CASE Unlist
  BY <1>14 DEF Unlist, Nothing
<1>15. CASE Reconcile
  <2>1. ~missed /\ sync.known = Nothing /\ UNCHANGED <<shown, fetches>>
    BY <1>2, <1>15 DEF Reconcile
  <2>2. known'[g] = known[g]
    BY <1>15, <2>1 DEF Reconcile, Nothing
  <2> QED BY <1>2, <1>5, <2>1, <2>2
<1> QED BY <1>7, <1>8, <1>9, <1>10, <1>11, <1>12, <1>13, <1>14, <1>15, StoreMoves

(* At rest the tab shows what is stored: of an answer whose end it reports, *)
(* with all its requests answered, the message on screen is the stored one, *)
(* although it was put together from events, snapshots and replies that    *)
(* overtook each other.                                                    *)
THEOREM ScreenSettles == Spec => []StoredAtRest
<1>1. Init => StoredAtRest
  BY DEF Init, StoredAtRest, Nothing
<1>2. Kept /\ StoredAtRest /\ [Next]_vars => StoredAtRest'
  BY AtRestStep
<1> QED BY <1>1, <1>2, RepliesWereTrue, PTL DEF Spec
=============================================================================
