---------------------------- MODULE OutboxProofs ----------------------------
(***************************************************************************)
(* The relay keeps a user's stream in order, sends every event once, and   *)
(* marks nothing that it has not sent: for any number of relays, rows and  *)
(* crashes.                                                                *)
(***************************************************************************)
EXTENDS Outbox, TLAPS

USE OutboxAssumption

LEMMA RowTypes ==
  /\ \A p \in Rows : p[1] \in Generations /\ p[2] \in 0..MaxEvents /\ p = <<p[1], p[2]>>
  /\ \A g \in Generations, n \in 0..MaxEvents : <<g, n>> \in Rows
BY DEF Rows

LEMMA InitInductive == Init => Inductive
<1> SUFFICES ASSUME Init PROVE Inductive
  OBVIOUS
<1>1. TypeOK
  BY DEF Init, TypeOK
<1>2. Placed /\ Ready /\ DeadInvalid /\ KeysAgree /\ Sent
  BY RowTypes DEF Init, Placed, Ready, DeadInvalid, KeysAgree, Sent, SentBy, EarlierSettled
<1>3. StreamInOrder /\ NothingLost /\ GapsAreDead
  BY DEF Init, StreamInOrder, NothingLost, GapsAreDead
<1> QED BY <1>1, <1>2, <1>3 DEF Inductive

-----------------------------------------------------------------------------
(* What a row once settled means to the order of the others. *)

LEMMA ReadyStable ==
  ASSUME TypeOK, \A p \in Rows : state[p] # "open" => state'[p] # "open"
  PROVE  \A p \in Rows : EarlierSettled(p) => EarlierSettled(p)'
<1> SUFFICES ASSUME NEW p \in Rows, EarlierSettled(p), NEW n \in 1..MaxEvents, n < p[2]
             PROVE state'[<<p[1], n>>] # "open"
  BY DEF EarlierSettled
<1>1. <<p[1], n>> \in Rows
  BY RowTypes
<1> QED BY <1>1 DEF EarlierSettled

(* A relay ends an iteration. *)
LEMMA NextRowPlaces ==
  ASSUME TypeOK, Placed, Sent, NEW r \in Relays, pc[r] \in {"mark", "fail"}, NextRow(r),
         UNCHANGED <<jobs, delivered, generation>>
  PROVE  /\ pc' \in [Relays -> {"idle", "loop", "publish", "mark", "fail"}]
         /\ batch' \in [Relays -> SUBSET Rows]
         /\ current' \in [Relays -> Rows \cup {None}]
         /\ Placed' /\ Sent'
         /\ \A q \in Relays : batch'[q] \subseteq batch[q]
<1>1. /\ pc' \in [Relays -> {"idle", "loop", "publish", "mark", "fail"}]
      /\ batch' \in [Relays -> SUBSET Rows]
      /\ current' \in [Relays -> Rows \cup {None}]
  BY DEF NextRow, TypeOK
<1>2. \A q \in Relays : batch'[q] \subseteq batch[q]
  BY DEF NextRow, TypeOK
<1>3. /\ batch'[r] = batch[r] \ {current[r]}
      /\ pc'[r] = IF batch[r] = {current[r]} THEN "idle" ELSE "loop"
      /\ current'[r] = None
      /\ \A q \in Relays : q # r => pc'[q] = pc[q] /\ batch'[q] = batch[q] /\ current'[q] = current[q]
  BY DEF NextRow, TypeOK
<1>4. current[r] \in batch[r]
  BY DEF Placed
<1>5. Placed'
  BY <1>3, <1>4 DEF Placed
<1>6. Sent'
  BY <1>3 DEF Sent, SentBy
<1> QED BY <1>1, <1>2, <1>5, <1>6

(* The properties of the stream see only part of the state. *)
LEMMA StreamFrame ==
  ASSUME Inductive, UNCHANGED <<last, delivered, stream>>, jobs \subseteq jobs',
         state' \in [Rows -> {"open", "published", "dead"}],
         \A p \in Rows : /\ state[p] # "open" => state'[p] = state[p]
                         /\ state'[p] = "dead" => state[p] = "dead" \/ p \in Invalid
                         /\ state'[p] = "published" /\ state[p] # "published" =>
                              /\ p \notin Invalid
                              /\ IF p[2] = 0 THEN p[1] \in jobs ELSE p \in delivered
  PROVE  DeadInvalid' /\ KeysAgree' /\ StreamInOrder' /\ NothingLost' /\ GapsAreDead'
<1>1. DeadInvalid'
  BY DEF Inductive, DeadInvalid
<1>2. KeysAgree' /\ StreamInOrder'
  BY DEF Inductive, KeysAgree, StreamInOrder
<1>3. NothingLost'
  <2> SUFFICES ASSUME NEW p \in Rows, state'[p] = "published"
               PROVE IF p[2] = 0 THEN p[1] \in jobs' ELSE \E i \in 1..Len(stream) : stream[i] = p
    BY DEF NothingLost
  <2>1. CASE state[p] = "published"
    BY <2>1 DEF Inductive, NothingLost
  <2>2. CASE state[p] # "published"
    BY <2>2 DEF Inductive, KeysAgree
  <2> QED BY <2>1, <2>2
<1>4. GapsAreDead'
  <2> SUFFICES ASSUME NEW i \in 1..Len(stream), NEW n \in 1..MaxEvents, n < stream[i][2]
               PROVE \/ \E j \in 1..(i - 1) : stream[j] = <<stream[i][1], n>>
                     \/ state'[<<stream[i][1], n>>] = "dead"
    BY DEF GapsAreDead
  <2>1. stream[i] \in Rows
    BY DEF Inductive, TypeOK
  <2>2. <<stream[i][1], n>> \in Rows
    BY <2>1, RowTypes
  <2> QED BY <2>2 DEF Inductive, GapsAreDead
<1> QED BY <1>1, <1>2, <1>3, <1>4

-----------------------------------------------------------------------------
(* One lemma per kind of step. *)

LEMMA WritersStep == Inductive /\ Writers => Inductive'
<1> SUFFICES ASSUME Inductive, NEW g \in Generations, Create(g) \/ Write(g) \/ Remove(g)
             PROVE Inductive'
  BY DEF Writers
<1>1. UNCHANGED <<state, due, lock, lapsed, jobs, last, delivered, stream, pc, batch, current>>
  BY DEF Create, Write, Remove, redis, relays
<1>2. generation' \in [Generations -> {"new", "present", "gone"}]
  BY DEF Create, Write, Remove, Inductive, TypeOK
<1>3. written' \in [Generations -> 0..MaxEvents]
  <2>1. CASE Write(g)
    <3>1. written[g] + 1 \in 0..MaxEvents
      BY <2>1 DEF Write, Inductive, TypeOK
    <3> QED BY <2>1, <3>1 DEF Write, Inductive, TypeOK
  <2>2. CASE Create(g) \/ Remove(g)
    BY <2>2 DEF Create, Remove, Inductive, TypeOK
  <2> QED BY <2>1, <2>2
<1>4. \A h \in Generations : /\ generation[h] = "gone" => generation'[h] = "gone"
                             /\ generation[h] # "new" => generation'[h] # "new"
  BY DEF Create, Write, Remove, Inductive, TypeOK
<1>5. TypeOK'
  BY <1>1, <1>2, <1>3 DEF Inductive, TypeOK
<1>6. Placed'
  BY <1>1 DEF Inductive, Placed
<1>7. Ready'
  <2> SUFFICES ASSUME NEW r \in Relays, NEW p \in batch[r]
               PROVE generation'[p[1]] # "new" /\ EarlierSettled(p)'
    BY <1>1 DEF Ready
  <2>1. p \in Rows
    BY DEF Inductive, TypeOK
  <2> QED BY <1>1, <1>4, <2>1, RowTypes DEF Inductive, Ready, EarlierSettled
<1>8. Sent'
  <2> SUFFICES ASSUME NEW r \in Relays, pc[r] \in {"publish", "mark"}
               PROVE SentBy(r)'
    BY <1>1 DEF Sent, SentBy
  <2>1. current[r] \in Rows
    BY DEF Inductive, Placed, TypeOK
  <2> QED BY <1>1, <1>4, <2>1, RowTypes DEF Inductive, Sent, SentBy
<1>9. DeadInvalid' /\ KeysAgree' /\ StreamInOrder' /\ NothingLost' /\ GapsAreDead'
  BY <1>1, StreamFrame DEF Inductive, TypeOK
<1> QED BY <1>5, <1>6, <1>7, <1>8, <1>9 DEF Inductive

LEMMA TimeStep == Inductive /\ Time => Inductive'
<1> SUFFICES ASSUME Inductive, NEW p \in Rows, Lapse(p) \/ BackoffEnds(p)
             PROVE Inductive'
  BY DEF Time
<1>1. UNCHANGED <<generation, written, state, lock, jobs, last, delivered, stream, pc, batch, current>>
  BY DEF Lapse, BackoffEnds, redis, relays
<1>2. due' \in [Rows -> BOOLEAN] /\ lapsed' \in [Rows -> BOOLEAN]
  BY DEF Lapse, BackoffEnds, Inductive, TypeOK
<1>3. TypeOK'
  BY <1>1, <1>2 DEF Inductive, TypeOK
<1>4. Placed' /\ Ready' /\ Sent'
  BY <1>1 DEF Inductive, Placed, Ready, EarlierSettled, Sent, SentBy
<1>5. DeadInvalid' /\ KeysAgree' /\ StreamInOrder' /\ NothingLost' /\ GapsAreDead'
  BY <1>1, StreamFrame DEF Inductive, TypeOK
<1> QED BY <1>3, <1>4, <1>5 DEF Inductive

LEMMA DispatchStep == ASSUME Inductive, NEW r \in Relays, Dispatch(r) PROVE Inductive'
<1>1. UNCHANGED <<generation, written, state, due, jobs, last, delivered, stream, current>>
  BY DEF Dispatch, redis
<1>2. PICK S \in SUBSET {p \in Rows : Candidate(p)} :
        /\ S # {}
        /\ batch' = [batch EXCEPT ![r] = S]
        /\ lock' = [p \in Rows |-> IF p \in S THEN r ELSE lock[p]]
        /\ lapsed' = [p \in Rows |-> p \notin S /\ lapsed[p]]
  BY Zenon DEF Dispatch
<1>3. pc[r] = "idle" /\ pc' = [pc EXCEPT ![r] = "loop"]
  BY DEF Dispatch
<1>4. TypeOK'
  <2>1. batch' \in [Relays -> SUBSET Rows]
    BY <1>2 DEF Inductive, TypeOK
  <2>2. lock' \in [Rows -> Relays \cup {None}]
    BY <1>2 DEF Inductive, TypeOK
  <2>3. lapsed' \in [Rows -> BOOLEAN]
    BY <1>2 DEF Inductive, TypeOK
  <2>4. pc' \in [Relays -> {"idle", "loop", "publish", "mark", "fail"}]
    BY <1>3 DEF Inductive, TypeOK
  <2> QED BY <1>1, <2>1, <2>2, <2>3, <2>4 DEF Inductive, TypeOK
<1>5. Placed'
  BY <1>1, <1>2, <1>3 DEF Inductive, Placed, TypeOK
<1>6. Ready'
  <2> SUFFICES ASSUME NEW q \in Relays, NEW p \in batch'[q]
               PROVE generation[p[1]] # "new" /\ EarlierSettled(p)
    BY <1>1 DEF Ready, EarlierSettled
  <2>1. CASE q = r
    <3>1. p \in Rows /\ Candidate(p)
      BY <1>2, <2>1 DEF Inductive, TypeOK
    <3> QED BY <3>1 DEF Candidate, Written
  <2>2. CASE q # r
    BY <1>2, <2>2 DEF Inductive, TypeOK, Ready
  <2> QED BY <2>1, <2>2
<1>7. Sent'
  BY <1>1, <1>3 DEF Inductive, TypeOK, Sent, SentBy
<1>8. DeadInvalid' /\ KeysAgree' /\ StreamInOrder' /\ NothingLost' /\ GapsAreDead'
  BY <1>1, StreamFrame DEF Inductive, TypeOK
<1> QED BY <1>4, <1>5, <1>6, <1>7, <1>8 DEF Inductive

(* Take and Reject: the relay picks a row and goes on with it. *)
LEMMA TakeStep ==
  ASSUME Inductive, NEW r \in Relays, NEW p \in Rows, Take(r, p) \/ Reject(r, p)
  PROVE  Inductive'
<1>1. UNCHANGED <<generation, written, state, due, lock, lapsed, last, delivered, stream, batch>>
  BY DEF Take, Reject, rows, redis
<1>2. /\ p \in batch[r]
      /\ current' = [current EXCEPT ![r] = p]
      /\ pc[r] # "idle"
  BY DEF Take, Reject, Inductive, Placed
<1>3. \/ pc' = [pc EXCEPT ![r] = "fail"] /\ jobs' = jobs
      \/ /\ p \notin Invalid
         /\ pc' = [pc EXCEPT ![r] = "publish"] /\ jobs' = jobs /\ p[2] > 0
      \/ /\ p \notin Invalid
         /\ pc' = [pc EXCEPT ![r] = "mark"] /\ jobs' = IF p[2] = 0 THEN jobs \cup {p[1]} ELSE jobs
         /\ p[2] > 0 => generation[p[1]] # "present"
  <2>1. CASE Reject(r, p)
    BY <2>1 DEF Reject, redis
  <2>2. CASE Take(r, p)
    <3>1. p[2] \in Nat
      BY RowTypes
    <3>2. CASE p \in Invalid
      BY <2>2, <3>2 DEF Take
    <3>3. CASE p \notin Invalid /\ p[2] > 0 /\ generation[p[1]] = "present"
      <4>1. pc' = [pc EXCEPT ![r] = "publish"]
        BY <2>2, <3>3 DEF Take
      <4>2. jobs' = jobs
        BY <2>2, <3>1, <3>3 DEF Take
      <4> QED BY <3>3, <4>1, <4>2
    <3>4. CASE p \notin Invalid /\ ~(p[2] > 0 /\ generation[p[1]] = "present")
      <4>1. pc' = [pc EXCEPT ![r] = "mark"]
        BY <2>2, <3>4 DEF Take
      <4>2. jobs' = IF p[2] = 0 THEN jobs \cup {p[1]} ELSE jobs
        BY <2>2, <3>4 DEF Take
      <4> QED BY <3>4, <4>1, <4>2
    <3> QED BY <3>2, <3>3, <3>4
  <2> QED BY <2>1, <2>2
<1>4. jobs \subseteq jobs' /\ jobs' \subseteq Generations
  BY <1>3, RowTypes DEF Inductive, TypeOK
<1>5. TypeOK'
  <2>1. pc' \in [Relays -> {"idle", "loop", "publish", "mark", "fail"}]
    BY <1>3 DEF Inductive, TypeOK
  <2>2. current' \in [Relays -> Rows \cup {None}]
    BY <1>2 DEF Inductive, TypeOK
  <2> QED BY <1>1, <1>4, <2>1, <2>2 DEF Inductive, TypeOK
<1>6. Placed'
  BY <1>1, <1>2, <1>3 DEF Inductive, Placed, TypeOK
<1>7. Ready'
  BY <1>1 DEF Inductive, Ready, EarlierSettled
<1>8. Sent'
  <2> SUFFICES ASSUME NEW q \in Relays PROVE SentBy(q)'
    BY DEF Sent
  <2>1. CASE q # r
    BY <1>1, <1>2, <1>3, <1>4, <2>1 DEF Inductive, TypeOK, Sent, SentBy
  <2>2. CASE q = r
    <3>1. generation[p[1]] \in {"present", "gone"}
      BY <1>2, RowTypes DEF Inductive, TypeOK, Ready
    <3>2. current'[r] = p
      BY <1>2 DEF Inductive, TypeOK
    <3>3. p[2] \in Nat
      BY RowTypes
    <3> QED BY <1>1, <1>3, <2>2, <3>1, <3>2, <3>3 DEF Inductive, TypeOK, SentBy
  <2> QED BY <2>1, <2>2
<1>9. DeadInvalid' /\ KeysAgree' /\ StreamInOrder' /\ NothingLost' /\ GapsAreDead'
  BY <1>1, <1>4, StreamFrame DEF Inductive, TypeOK
<1> QED BY <1>5, <1>6, <1>7, <1>8, <1>9 DEF Inductive

LEMMA AbandonStep == ASSUME Inductive, NEW r \in Relays, Abandon(r) PROVE Inductive'
<1>1. UNCHANGED <<generation, written, state, due, lock, lapsed, jobs, last, delivered, stream>>
  BY DEF Abandon, rows, redis
<1>2. /\ pc' = [pc EXCEPT ![r] = "idle"]
      /\ batch' = [batch EXCEPT ![r] = {}]
      /\ current' = [current EXCEPT ![r] = None]
  BY DEF Abandon
<1>3. TypeOK'
  BY <1>1, <1>2 DEF Inductive, TypeOK
<1>4. Placed' /\ Ready' /\ Sent'
  BY <1>1, <1>2 DEF Inductive, TypeOK, Placed, Ready, EarlierSettled, Sent, SentBy
<1>5. DeadInvalid' /\ KeysAgree' /\ StreamInOrder' /\ NothingLost' /\ GapsAreDead'
  BY <1>1, StreamFrame DEF Inductive, TypeOK
<1> QED BY <1>3, <1>4, <1>5 DEF Inductive

(* Mark and Fail settle a row or leave it. *)
LEMMA SettleStep == ASSUME Inductive, NEW r \in Relays, Mark(r) \/ Fail(r) PROVE Inductive'
<1> DEFINE p == current[r]
<1>1. UNCHANGED <<generation, written, jobs, last, delivered, stream>>
  BY DEF Mark, Fail, redis
<1>2. pc[r] \in {"mark", "fail"} /\ NextRow(r)
  BY DEF Mark, Fail
<1>3. p \in Rows /\ p \in batch[r]
  BY <1>2 DEF Inductive, TypeOK, Placed
<1>4. /\ state' \in [Rows -> {"open", "published", "dead"}]
      /\ \A q \in Rows : q # p => state'[q] = state[q]
  BY <1>3 DEF Mark, Fail, Inductive, TypeOK
<1>5. due' \in [Rows -> BOOLEAN] /\ lapsed' \in [Rows -> BOOLEAN] /\ lock' \in [Rows -> Relays \cup {None}]
  <2>1. CASE Mark(r)
    <3>1. lock' \in [Rows -> Relays \cup {None}]
      BY <1>3, <2>1 DEF Mark, Inductive, TypeOK
    <3>2. lapsed' \in [Rows -> BOOLEAN]
      BY <1>3, <2>1, Zenon DEF Mark, Inductive, TypeOK
    <3> QED BY <2>1, <3>1, <3>2 DEF Mark, Inductive, TypeOK
  <2>2. CASE Fail(r)
    <3>1. lock' \in [Rows -> Relays \cup {None}]
      BY <1>3, <2>2 DEF Fail, Inductive, TypeOK
    <3>2. lapsed' \in [Rows -> BOOLEAN]
      BY <1>3, <2>2, Zenon DEF Fail, Inductive, TypeOK
    <3>3. due' \in [Rows -> BOOLEAN]
      BY <1>3, <2>2, Zenon DEF Fail, Inductive, TypeOK
    <3> QED BY <3>1, <3>2, <3>3
  <2> QED BY <2>1, <2>2
<1>6. /\ pc' \in [Relays -> {"idle", "loop", "publish", "mark", "fail"}]
      /\ batch' \in [Relays -> SUBSET Rows]
      /\ current' \in [Relays -> Rows \cup {None}]
      /\ Placed' /\ Sent'
      /\ \A q \in Relays : batch'[q] \subseteq batch[q]
  BY <1>1, <1>2, NextRowPlaces DEF Inductive
<1>7. TypeOK'
  BY <1>1, <1>4, <1>5, <1>6 DEF Inductive, TypeOK
<1>8. /\ state[p] # "open" => state'[p] = state[p]
      /\ state'[p] = "dead" => state[p] = "dead" \/ p \in Invalid
      /\ state'[p] = "published" /\ state[p] # "published" => pc[r] = "mark" /\ Holds(r, p)
  <2>1. CASE Mark(r)
    BY <1>3, <2>1 DEF Mark, Inductive, TypeOK, DeadInvalid, Sent, SentBy
  <2>2. CASE Fail(r)
    <3>1. state'[p] = IF Holds(r, p) /\ p \in Invalid THEN "dead" ELSE state[p]
      BY <1>3, <2>2 DEF Fail, Inductive, TypeOK
    <3>2. state[p] = "published" => p \notin Invalid
      BY <1>3 DEF Inductive, DeadInvalid
    <3> QED BY <1>3, <3>1, <3>2 DEF Inductive, TypeOK
  <2> QED BY <2>1, <2>2
<1>9. state'[p] = "published" /\ state[p] # "published" =>
        /\ p \notin Invalid
        /\ IF p[2] = 0 THEN p[1] \in jobs ELSE p \in delivered
  BY <1>8 DEF Holds, Written, Inductive, Sent, SentBy
<1>10. Ready'
  <2> SUFFICES ASSUME NEW q \in Relays, NEW o \in batch[q]
               PROVE generation[o[1]] # "new" /\ EarlierSettled(o)'
    BY <1>1, <1>6 DEF Ready
  <2>1. o \in Rows /\ generation[o[1]] # "new" /\ EarlierSettled(o)
    BY DEF Inductive, TypeOK, Ready
  <2>2. \A o2 \in Rows : state[o2] # "open" => state'[o2] # "open"
    BY <1>4, <1>8
  <2> QED BY <2>1, <2>2, ReadyStable DEF Inductive
<1>11. DeadInvalid' /\ KeysAgree' /\ StreamInOrder' /\ NothingLost' /\ GapsAreDead'
  <2>1. \A q \in Rows : /\ state[q] # "open" => state'[q] = state[q]
                        /\ state'[q] = "dead" => state[q] = "dead" \/ q \in Invalid
                        /\ state'[q] = "published" /\ state[q] # "published" =>
                             /\ q \notin Invalid
                             /\ IF q[2] = 0 THEN q[1] \in jobs ELSE q \in delivered
    BY <1>4, <1>8, <1>9
  <2> QED BY <1>1, <1>4, <2>1, StreamFrame
<1> QED BY <1>6, <1>7, <1>10, <1>11 DEF Inductive

(* Publish: the only step that moves the stream. *)
LEMMA PublishStep == ASSUME Inductive, NEW r \in Relays, Publish(r) PROVE Inductive'
<1> DEFINE p == current[r]
<1>1. UNCHANGED <<generation, written, state, due, lock, lapsed, jobs, batch, current>>
  BY DEF Publish, rows
<1>2. /\ pc[r] = "publish" /\ pc' = [pc EXCEPT ![r] = "mark"]
      /\ p \in Rows /\ p \in batch[r] /\ p \notin Invalid /\ p[2] > 0
  BY DEF Publish, Inductive, TypeOK, Placed, Sent, SentBy
<1>3. p[1] \in Generations /\ p[2] \in 1..MaxEvents /\ p = <<p[1], p[2]>>
  BY <1>2, RowTypes
<1>4. \A n \in 1..MaxEvents : n < p[2] =>
        (\E j \in 1..Len(stream) : stream[j] = <<p[1], n>>) \/ state[<<p[1], n>>] = "dead"
  <2> SUFFICES ASSUME NEW n \in 1..MaxEvents, n < p[2], state[<<p[1], n>>] # "dead"
               PROVE \E j \in 1..Len(stream) : stream[j] = <<p[1], n>>
    OBVIOUS
  <2>1. <<p[1], n>> \in Rows
    BY <1>3, RowTypes
  <2>2. state[<<p[1], n>>] = "published"
    BY <1>2, <2>1 DEF Inductive, TypeOK, Ready, EarlierSettled
  <2> QED BY <2>1, <2>2 DEF Inductive, NothingLost
<1>5. CASE p \in delivered \/ p[2] <= last[p[1]]
  <2>1. UNCHANGED <<stream, last, delivered>>
    BY <1>5 DEF Publish, AddToStream
  <2>2. p \in delivered
    <3>1. CASE p[2] <= last[p[1]] /\ p \notin delivered
      <4>1. last[p[1]] \in 1..MaxEvents /\ <<p[1], last[p[1]]>> \in delivered
        BY <1>3, <3>1 DEF Inductive, TypeOK, KeysAgree
      <4>2. p[2] < last[p[1]]
        <5>1. p[2] # last[p[1]]
          BY <1>3, <3>1, <4>1
        <5> QED BY <1>3, <3>1, <4>1, <5>1
      <4>3. PICK i \in 1..Len(stream) : stream[i] = <<p[1], last[p[1]]>>
        BY <4>1 DEF Inductive, KeysAgree
      <4>4. state[p] # "dead"
        BY <1>2 DEF Inductive, DeadInvalid
      <4>5. \E j \in 1..(i - 1) : stream[j] = p
        <5>1. stream[i][1] = p[1] /\ p[2] < stream[i][2]
          BY <4>2, <4>3
        <5>2. \/ \E j \in 1..(i - 1) : stream[j] = <<stream[i][1], p[2]>>
              \/ state[<<stream[i][1], p[2]>>] = "dead"
          BY <1>3, <5>1 DEF Inductive, GapsAreDead
        <5>3. <<stream[i][1], p[2]>> = p
          BY <1>3, <5>1
        <5> QED BY <4>4, <5>2, <5>3
      <4>6. Len(stream) \in Nat
        BY DEF Inductive, TypeOK
      <4> QED BY <4>5, <4>6 DEF Inductive, KeysAgree
    <3> QED BY <1>5, <3>1
  <2>3. TypeOK' /\ Placed' /\ Ready' /\ Sent'
    BY <1>1, <1>2, <2>1, <2>2 DEF Inductive, TypeOK, Placed, Ready, EarlierSettled, Sent, SentBy
  <2>4. DeadInvalid' /\ KeysAgree' /\ StreamInOrder' /\ NothingLost' /\ GapsAreDead'
    BY <1>1, <2>1, StreamFrame DEF Inductive, TypeOK
  <2> QED BY <2>3, <2>4 DEF Inductive
<1>6. CASE p \notin delivered /\ p[2] > last[p[1]]
  <2>1. /\ stream' = Append(stream, p)
        /\ last' = [last EXCEPT ![p[1]] = p[2]]
        /\ delivered' = delivered \cup {p}
    <3>1. ~(p \in delivered \/ p[2] <= last[p[1]])
      BY <1>3, <1>6 DEF Inductive, TypeOK
    <3> QED BY <3>1 DEF Publish, AddToStream
  <2>2. /\ stream \in Seq(Rows) /\ Len(stream) \in Nat
        /\ Len(stream') = Len(stream) + 1
        /\ stream'[Len(stream) + 1] = p
        /\ \A i \in 1..Len(stream) : stream'[i] = stream[i] /\ stream[i] \in Rows
    BY <1>2, <2>1 DEF Inductive, TypeOK
  <2>3. TypeOK'
    BY <1>1, <1>2, <1>3, <2>1 DEF Inductive, TypeOK
  <2>4. Placed' /\ Ready'
    BY <1>1, <1>2 DEF Inductive, TypeOK, Placed, Ready, EarlierSettled
  <2>5. Sent'
    BY <1>1, <1>2, <2>1 DEF Inductive, TypeOK, Sent, SentBy
  <2>6. DeadInvalid'
    BY <1>1 DEF Inductive, DeadInvalid
  <2>7. KeysAgree'
    <3>1. delivered' = {stream'[i] : i \in 1..Len(stream')}
      BY <2>1, <2>2 DEF Inductive, KeysAgree
    <3>2. \A q \in delivered' : 0 < q[2] /\ q[2] <= last'[q[1]]
      <4> SUFFICES ASSUME NEW q \in delivered' PROVE 0 < q[2] /\ q[2] <= last'[q[1]]
        OBVIOUS
      <4>1. q \in Rows /\ q[1] \in Generations /\ q[2] \in Nat
        BY <1>2, <2>1, RowTypes DEF Inductive, TypeOK
      <4>2. last \in [Generations -> 0..MaxEvents]
        BY DEF Inductive, TypeOK
      <4>3. CASE q = p
        BY <1>3, <2>1, <4>2, <4>3
      <4>4. CASE q # p
        <5>1. 0 < q[2] /\ q[2] <= last[q[1]]
          BY <2>1, <4>4 DEF Inductive, KeysAgree
        <5> QED BY <1>3, <1>6, <2>1, <4>1, <4>2, <5>1
      <4> QED BY <4>3, <4>4
    <3>3. \A g \in Generations : last'[g] > 0 => <<g, last'[g]>> \in delivered'
      BY <1>3, <2>1 DEF Inductive, TypeOK, KeysAgree
    <3> QED BY <3>1, <3>2, <3>3 DEF KeysAgree
  <2>8. StreamInOrder'
    <3> SUFFICES ASSUME NEW i \in 1..Len(stream'), NEW j \in 1..Len(stream'), i < j,
                        stream'[i][1] = stream'[j][1]
                 PROVE stream'[i][2] < stream'[j][2]
      BY DEF StreamInOrder
    <3>1. i \in 1..Len(stream) /\ stream'[i] = stream[i]
      BY <2>2
    <3>2. CASE j \in 1..Len(stream)
      BY <2>2, <3>1, <3>2 DEF Inductive, StreamInOrder
    <3>3. CASE j = Len(stream) + 1
      <4>1. stream[i] \in delivered /\ stream[i][1] = p[1]
        BY <2>2, <3>1, <3>3 DEF Inductive, KeysAgree
      <4>2. stream[i][2] <= last[p[1]] /\ stream[i][2] \in Nat
        BY <2>2, <3>1, <4>1, RowTypes DEF Inductive, KeysAgree
      <4>3. last[p[1]] \in Nat
        BY <1>3 DEF Inductive, TypeOK
      <4> QED BY <1>3, <1>6, <2>2, <3>1, <3>3, <4>2, <4>3
    <3> QED BY <2>2, <3>2, <3>3
  <2>9. NothingLost'
    <3> SUFFICES ASSUME NEW q \in Rows, state[q] = "published"
                 PROVE IF q[2] = 0 THEN q[1] \in jobs ELSE \E i \in 1..Len(stream') : stream'[i] = q
      BY <1>1 DEF NothingLost
    <3> QED BY <2>2 DEF Inductive, NothingLost
  <2>10. GapsAreDead'
    <3> SUFFICES ASSUME NEW i \in 1..Len(stream'), NEW n \in 1..MaxEvents, n < stream'[i][2]
                 PROVE \/ \E j \in 1..(i - 1) : stream'[j] = <<stream'[i][1], n>>
                       \/ state[<<stream'[i][1], n>>] = "dead"
      BY <1>1 DEF GapsAreDead
    <3>1. CASE i \in 1..Len(stream)
      <4>1. stream'[i] = stream[i] /\ \A j \in 1..(i - 1) : stream'[j] = stream[j]
        BY <2>2, <3>1
      <4>2. (\E j \in 1..(i - 1) : stream[j] = <<stream[i][1], n>>) \/ state[<<stream[i][1], n>>] = "dead"
        BY <3>1, <4>1 DEF Inductive, GapsAreDead
      <4> QED BY <4>1, <4>2
    <3>2. CASE i = Len(stream) + 1
      <4>1. stream'[i] = p /\ i - 1 = Len(stream)
        BY <2>2, <3>2
      <4> QED BY <1>4, <2>2, <4>1
    <3> QED BY <2>2, <3>1, <3>2
  <2> QED BY <2>3, <2>4, <2>5, <2>6, <2>7, <2>8, <2>9, <2>10 DEF Inductive
<1> QED
  <2>1. p[2] \in Nat /\ last[p[1]] \in Nat
    BY <1>3 DEF Inductive, TypeOK
  <2> QED BY <1>5, <1>6, <2>1

-----------------------------------------------------------------------------
LEMMA NextInductive == Inductive /\ [Next]_vars => Inductive'
<1> SUFFICES ASSUME Inductive, [Next]_vars PROVE Inductive'
  OBVIOUS
<1>1. CASE Writers
  BY <1>1, WritersStep
<1>2. CASE Time
  BY <1>2, TimeStep
<1>3. ASSUME NEW r \in Relays, Relay(r) PROVE Inductive'
  <2>1. ASSUME NEW p \in Rows, Take(r, p) \/ Reject(r, p) PROVE Inductive'
    BY <2>1, TakeStep
  <2> QED BY <1>3, <2>1, DispatchStep, PublishStep, SettleStep, AbandonStep DEF Relay
<1>4. CASE UNCHANGED vars
  <2>1. UNCHANGED <<generation, written, state, due, lock, lapsed>>
    BY <1>4 DEF vars, rows
  <2>2. UNCHANGED <<jobs, last, delivered, stream, pc, batch, current>>
    BY <1>4 DEF vars, redis, relays
  <2>3. TypeOK'
    BY <2>1, <2>2 DEF Inductive, TypeOK
  <2>4. Placed' /\ Ready' /\ Sent'
    BY <2>1, <2>2 DEF Inductive, Placed, Ready, EarlierSettled, Sent, SentBy
  <2>5. DeadInvalid' /\ KeysAgree' /\ StreamInOrder' /\ NothingLost' /\ GapsAreDead'
    BY <2>1, <2>2, StreamFrame DEF Inductive, TypeOK
  <2> QED BY <2>3, <2>4, <2>5 DEF Inductive
<1> QED BY <1>1, <1>2, <1>3, <1>4 DEF Next

(* The invariant of the relay holds of every reachable state. *)
THEOREM OutboxInvariant == Spec => []Inductive
BY InitInductive, NextInductive, PTL DEF Spec

(* PUBLISH_EVENT_SCRIPT under any number of relays: the events of a         *)
(* generation appear in the user's stream in order and each once.          *)
THEOREM StreamOrdered == Spec => []StreamInOrder
<1>1. Inductive => StreamInOrder
  BY DEF Inductive
<1> QED BY <1>1, OutboxInvariant, PTL

(* A row marked published was sent, whoever marked it. *)
THEOREM MarkedIsSent == Spec => []NothingLost
<1>1. Inductive => NothingLost
  BY DEF Inductive
<1> QED BY <1>1, OutboxInvariant, PTL

(* No event overtakes an earlier one that may still be delivered. *)
THEOREM OnlyDeadMissing == Spec => []GapsAreDead
<1>1. Inductive => GapsAreDead
  BY DEF Inductive
<1> QED BY <1>1, OutboxInvariant, PTL
=============================================================================
