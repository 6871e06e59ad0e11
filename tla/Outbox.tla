------------------------------- MODULE Outbox -------------------------------
(***************************************************************************)
(* The outbox relay: how jobs and events leave PostgreSQL.                 *)
(*                                                                         *)
(* Whoever writes an event writes an outbox row in the same transaction.   *)
(* A relay in every API process claims open rows, hands them to the job    *)
(* queue or to the user's Redis stream, and marks them published.  Relays  *)
(* die, calls are rejected after they took effect, and a slow relay's rows *)
(* are claimed by another after 30 seconds, so every step below may find   *)
(* that somebody else was there first.                                     *)
(*                                                                         *)
(* Definitions marked "Faulty" are plausible bugs in the definition after  *)
(* them and not part of the specification.                                 *)
(***************************************************************************)
EXTENDS Naturals, Sequences, FiniteSets

CONSTANTS
  Generations,  \* aggregate_id
  Relays,       \* API processes; a relay's name is the lock token of its dispatch
  None,         \* NULL
  MaxEvents,    \* bound: events a generation writes
  BatchLimit,   \* LIMIT of dispatch (20 in the code)
  Invalid       \* rows whose payload the relay does not accept

(* A row is its generation and its number: 0 asks for the job, n > 0 is     *)
(* the event with sequence n.                                              *)
Rows == Generations \X (0..MaxEvents)

ASSUME OutboxAssumption ==
  /\ MaxEvents \in Nat
  /\ BatchLimit \in Nat \ {0}
  /\ Invalid \subseteq Rows
  /\ None \notin Relays \cup Rows

VARIABLES
  generation,  \* "new" before INSERT, then "present", "gone" after deletion
  written,     \* events written: generation.last_sequence
  state,       \* of a row: open, published (published_at) or dead (dead_lettered_at)
  due,         \* next_attempt_at <= NOW()
  lock,        \* lock_token
  lapsed,      \* locked_at is more than 30 seconds ago
  jobs,        \* job ids the queue knows
  last,        \* Redis key gen:<id>:seq
  delivered,   \* Redis keys event-dedupe:<event>
  stream,      \* the user's Redis stream
  pc,          \* where a relay's dispatch stands, "idle" if none runs
  batch,       \* rows it has claimed and not yet dealt with
  current      \* the row it is dealing with

rows   == <<generation, written, state, due, lock, lapsed>>
redis  == <<jobs, last, delivered, stream>>
relays == <<pc, batch, current>>
vars   == <<rows, redis, relays>>

Written(p) == generation[p[1]] = "present" /\ p[2] <= written[p[1]]

TypeOK ==
  /\ generation \in [Generations -> {"new", "present", "gone"}]
  /\ written \in [Generations -> 0..MaxEvents]
  /\ state \in [Rows -> {"open", "published", "dead"}]
  /\ due \in [Rows -> BOOLEAN]
  /\ lock \in [Rows -> Relays \cup {None}]
  /\ lapsed \in [Rows -> BOOLEAN]
  /\ jobs \subseteq Generations
  /\ last \in [Generations -> 0..MaxEvents]
  /\ delivered \subseteq Rows
  /\ stream \in Seq(Rows)
  /\ pc \in [Relays -> {"idle", "loop", "publish", "mark", "fail"}]
  /\ batch \in [Relays -> SUBSET Rows]
  /\ current \in [Relays -> Rows \cup {None}]

Init ==
  /\ generation = [g \in Generations |-> "new"]
  /\ written = [g \in Generations |-> 0]
  /\ state = [p \in Rows |-> "open"]
  /\ due = [p \in Rows |-> TRUE]
  /\ lock = [p \in Rows |-> None]
  /\ lapsed = [p \in Rows |-> FALSE]
  /\ jobs = {}
  /\ last = [g \in Generations |-> 0]
  /\ delivered = {}
  /\ stream = <<>>
  /\ pc = [r \in Relays |-> "idle"]
  /\ batch = [r \in Relays |-> {}]
  /\ current = [r \in Relays |-> None]

-----------------------------------------------------------------------------
(* The writers: createTurn, enqueueGenerationEvent, remove. *)

Create(g) ==
  /\ generation[g] = "new"
  /\ generation' = [generation EXCEPT ![g] = "present"]
  /\ UNCHANGED <<written, state, due, lock, lapsed, redis, relays>>

(* The next sequence, its event and its row, under the generation's row lock. *)
Write(g) ==
  /\ generation[g] = "present"
  /\ written[g] < MaxEvents
  /\ written' = [written EXCEPT ![g] = @ + 1]
  /\ UNCHANGED <<generation, state, due, lock, lapsed, redis, relays>>

(* The rows are deleted together with their generation. *)
Remove(g) ==
  /\ generation[g] = "present"
  /\ generation' = [generation EXCEPT ![g] = "gone"]
  /\ UNCHANGED <<written, state, due, lock, lapsed, redis, relays>>

-----------------------------------------------------------------------------
(* Time. *)

Lapse(p) ==
  /\ lock[p] # None /\ ~lapsed[p]
  /\ lapsed' = [lapsed EXCEPT ![p] = TRUE]
  /\ UNCHANGED <<generation, written, state, due, lock, redis, relays>>

BackoffEnds(p) ==
  /\ ~due[p]
  /\ due' = [due EXCEPT ![p] = TRUE]
  /\ UNCHANGED <<generation, written, state, lock, lapsed, redis, relays>>

-----------------------------------------------------------------------------
(* dispatch *)

(* No earlier event of the generation is still to be delivered. *)
EarlierSettled(p) == \A n \in 1..MaxEvents : n < p[2] => state[<<p[1], n>>] # "open"

(* Faulty: a lock is never taken over. *)
UnlockedOnly(p) == lock[p] = None

Unlocked(p) == lock[p] = None \/ lapsed[p]

Candidate(p) == Written(p) /\ state[p] = "open" /\ due[p] /\ EarlierSettled(p) /\ Unlocked(p)

(* All candidates, up to BatchLimit, in one statement.  running keeps a     *)
(* second dispatch of the process out.                                     *)
Dispatch(r) ==
  LET C == {p \in Rows : Candidate(p)} IN
  /\ pc[r] = "idle"
  /\ \E S \in SUBSET C :
       /\ S # {} /\ Cardinality(S) <= BatchLimit
       /\ S = C \/ Cardinality(S) = BatchLimit
       /\ batch' = [batch EXCEPT ![r] = S]
       /\ lock' = [p \in Rows |-> IF p \in S THEN r ELSE lock[p]]
       /\ lapsed' = [p \in Rows |-> p \notin S /\ lapsed[p]]
  /\ pc' = [pc EXCEPT ![r] = "loop"]
  /\ UNCHANGED <<generation, written, state, due, redis, current>>

(* The next row: a payload that is not valid throws INVALID_...; a job is   *)
(* added under its generation's id; an event is published if its generation *)
(* still exists.                                                           *)
Take(r, p) ==
  /\ pc[r] = "loop"
  /\ p \in batch[r]
  /\ current' = [current EXCEPT ![r] = p]
  /\ pc' = [pc EXCEPT ![r] =
       IF p \in Invalid THEN "fail"
       ELSE IF p[2] > 0 /\ generation[p[1]] = "present" THEN "publish" ELSE "mark"]
  /\ jobs' = IF p \notin Invalid /\ p[2] = 0 THEN jobs \cup {p[1]} ELSE jobs
  /\ UNCHANGED <<rows, last, delivered, stream, batch>>

(* Faulty: the script adds whatever it is given. *)
AddToStreamBlindly(p) ==
  /\ stream' = Append(stream, p)
  /\ last' = [last EXCEPT ![p[1]] = p[2]]
  /\ delivered' = delivered \cup {p}

(* PUBLISH_EVENT_SCRIPT: nothing for a known event or a sequence not above  *)
(* the last one.                                                           *)
AddToStream(p) ==
  IF p \in delivered \/ p[2] <= last[p[1]]
  THEN UNCHANGED <<stream, last, delivered>>
  ELSE /\ stream' = Append(stream, p)
       /\ last' = [last EXCEPT ![p[1]] = p[2]]
       /\ delivered' = delivered \cup {p}

Publish(r) ==
  /\ pc[r] = "publish"
  /\ AddToStream(current[r])
  /\ pc' = [pc EXCEPT ![r] = "mark"]
  /\ UNCHANGED <<rows, jobs, batch, current>>

(* The iteration ends; after the last one so does dispatch. *)
NextRow(r) ==
  /\ batch' = [batch EXCEPT ![r] = @ \ {current[r]}]
  /\ pc' = [pc EXCEPT ![r] = IF batch[r] = {current[r]} THEN "idle" ELSE "loop"]
  /\ current' = [current EXCEPT ![r] = None]

(* WHERE id=? AND lock_token=?: the row is still there and still ours. *)
Holds(r, p) == Written(p) /\ lock[p] = r

(* published_at, unless the row was taken over meanwhile. *)
Mark(r) ==
  LET p == current[r]
      mine == Holds(r, p) /\ state[p] # "published"
  IN /\ pc[r] = "mark"
     /\ state' = [state EXCEPT ![p] = IF mine THEN "published" ELSE @]
     /\ lock' = [lock EXCEPT ![p] = IF mine THEN None ELSE @]
     /\ lapsed' = [lapsed EXCEPT ![p] = @ /\ ~mine]
     /\ NextRow(r)
     /\ UNCHANGED <<generation, written, due, redis>>

(* The catch block of an iteration: back off, or give the row up for ever. *)
Fail(r) ==
  LET p == current[r] IN
  /\ pc[r] = "fail"
  /\ state' = [state EXCEPT ![p] = IF Holds(r, p) /\ p \in Invalid THEN "dead" ELSE @]
  /\ due' = [due EXCEPT ![p] = @ /\ ~Holds(r, p)]
  /\ lock' = [lock EXCEPT ![p] = IF Holds(r, p) THEN None ELSE @]
  /\ lapsed' = [lapsed EXCEPT ![p] = @ /\ ~Holds(r, p)]
  /\ NextRow(r)
  /\ UNCHANGED <<generation, written, redis>>

(* Faulty: a rejected call is swallowed. *)
RejectSwallowed(r, p) ==
  /\ \/ pc[r] = "loop" /\ p \in batch[r]
     \/ pc[r] \in {"publish", "mark"} /\ p = current[r]
  /\ current' = [current EXCEPT ![r] = p]
  /\ pc' = [pc EXCEPT ![r] = "mark"]
  /\ UNCHANGED <<rows, redis, batch>>

(* A call to Redis, the queue or PostgreSQL is rejected, before or after it *)
(* took effect.                                                            *)
Reject(r, p) ==
  /\ \/ pc[r] = "loop" /\ p \in batch[r]
     \/ pc[r] \in {"publish", "mark"} /\ p = current[r]
  /\ current' = [current EXCEPT ![r] = p]
  /\ pc' = [pc EXCEPT ![r] = "fail"]
  /\ UNCHANGED <<rows, redis, batch>>

(* The process dies, or the catch block itself throws: dispatch ends and    *)
(* its rows stay locked.                                                   *)
Abandon(r) ==
  /\ pc[r] # "idle"
  /\ pc' = [pc EXCEPT ![r] = "idle"]
  /\ batch' = [batch EXCEPT ![r] = {}]
  /\ current' = [current EXCEPT ![r] = None]
  /\ UNCHANGED <<rows, redis>>

-----------------------------------------------------------------------------
Writers == \E g \in Generations : Create(g) \/ Write(g) \/ Remove(g)

Time == \E p \in Rows : Lapse(p) \/ BackoffEnds(p)

Relay(r) ==
  \/ Dispatch(r)
  \/ \E p \in Rows : Take(r, p) \/ Reject(r, p)
  \/ Publish(r)
  \/ Mark(r)
  \/ Fail(r)
  \/ Abandon(r)

Next == Writers \/ Time \/ \E r \in Relays : Relay(r)

Spec == Init /\ [][Next]_vars

(* Timers fire and a dispatch does not stop half way by itself.  Redis, the *)
(* queue and PostgreSQL answer some of the calls, within the 30 seconds of  *)
(* the lock: no row is refused, loses its relay or is taken over at the     *)
(* same call every time.                                                   *)
Fairness ==
  /\ \A p \in Rows : WF_vars(Lapse(p)) /\ WF_vars(BackoffEnds(p))
  /\ \A r \in Relays : WF_vars(Dispatch(r)) /\ WF_vars(Fail(r))
  /\ \A p \in Rows :
       /\ SF_vars(\E r \in Relays : Holds(r, p) /\ Take(r, p))
       /\ SF_vars(\E r \in Relays : Holds(r, p) /\ current[r] = p /\ Publish(r))
       /\ SF_vars(\E r \in Relays : Holds(r, p) /\ current[r] = p /\ (Mark(r) \/ Fail(r)) /\ state'[p] # state[p])

FairSpec == Spec /\ Fairness

-----------------------------------------------------------------------------
(* A reader of the user's stream sees the events of a generation in order   *)
(* and each once, however often and by however many relays they are sent.  *)
StreamInOrder ==
  \A i, j \in 1..Len(stream) :
    i < j /\ stream[i][1] = stream[j][1] => stream[i][2] < stream[j][2]

(* What is marked published did reach the queue or the stream; in           *)
(* particular the script's test on the sequence never swallows an event.   *)
NothingLost ==
  \A p \in Rows : state[p] = "published" =>
    IF p[2] = 0 THEN p[1] \in jobs ELSE \E i \in 1..Len(stream) : stream[i] = p

(* The stream leaves out only events that were given up. *)
GapsAreDead ==
  \A i \in 1..Len(stream), n \in 1..MaxEvents :
    n < stream[i][2] =>
      \/ \E j \in 1..(i - 1) : stream[j] = <<stream[i][1], n>>
      \/ state[<<stream[i][1], n>>] = "dead"

(* The rows still to deliver. *)
Backlog == {p \in Rows : Written(p) /\ state[p] = "open"}

(* Once nothing more is written the backlog empties: every row is published *)
(* or given up, unless it is deleted, whatever relay died with it and       *)
(* however often a delivery failed.                                         *)
EventuallyDelivered == Backlog # {} ~> Backlog = {}

-----------------------------------------------------------------------------
(* The inductive invariant behind them. *)

(* A relay deals with a row of its batch, and dispatch ends with the batch. *)
Placed ==
  \A r \in Relays :
    /\ pc[r] = "idle" <=> batch[r] = {}
    /\ IF pc[r] \in {"publish", "mark", "fail"} THEN current[r] \in batch[r] ELSE current[r] = None

(* What a relay has claimed was written and may go: nothing open is ahead. *)
Ready ==
  \A r \in Relays : \A p \in batch[r] : generation[p[1]] # "new" /\ EarlierSettled(p)

(* The rows given up are those that no relay accepts, and none of them is   *)
(* ever marked published.                                                  *)
DeadInvalid ==
  \A p \in Rows : /\ state[p] = "dead" => p \in Invalid
                  /\ state[p] = "published" => p \notin Invalid

(* The script's keys know what is in the stream. *)
KeysAgree ==
  /\ delivered = {stream[i] : i \in 1..Len(stream)}
  /\ \A p \in delivered : 0 < p[2] /\ p[2] <= last[p[1]]
  /\ \A g \in Generations : last[g] > 0 => <<g, last[g]>> \in delivered

(* A relay about to mark a row has sent it, unless it was deleted. *)
SentBy(r) ==
  LET p == current[r] IN
  /\ pc[r] = "publish" => p \notin Invalid /\ p[2] > 0
  /\ pc[r] = "mark" =>
       /\ p \notin Invalid
       /\ IF p[2] = 0 THEN p[1] \in jobs ELSE p \in delivered \/ generation[p[1]] = "gone"

Sent == \A r \in Relays : SentBy(r)

Inductive ==
  /\ TypeOK
  /\ Placed
  /\ Ready
  /\ DeadInvalid
  /\ KeysAgree
  /\ Sent
  /\ StreamInOrder
  /\ NothingLost
  /\ GapsAreDead
=============================================================================
