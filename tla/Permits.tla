------------------------------ MODULE Permits -------------------------------
(***************************************************************************)
(* Capacity permits: before an executor claims a generation it takes a      *)
(* place in three Redis sorted sets, of everybody, of its provider and of   *)
(* its user, each with a limit.  A place is a lease: its score is the time  *)
(* it ends by the clock of the process that wrote it, and whoever acquires  *)
(* next drops the leases that have ended by its own clock.  Holders renew   *)
(* with every heartbeat.                                                    *)
(*                                                                         *)
(* Clocks of different processes differ, commands and their replies take    *)
(* time, and processes die.  Definitions marked "Faulty" are plausible bugs  *)
(* in the definition after them and not part of the specification.          *)
(***************************************************************************)
EXTENDS Integers, Sequences, FiniteSets

CONSTANTS
  Activations,  \* job activations; each has a token of its own
  Keys,
  KeysOf,       \* the sorted sets of an activation, in the script's order
  Limit,
  Lease,        \* leaseTtlMs
  Grace,        \* the second by which a set outlives its last lease
  MaxSkew,      \* bound: how far clocks are ahead of Redis's
  MaxBeats,     \* bound: heartbeats of an activation under way
  MaxTime       \* bound

ASSUME PermitsAssumption ==
  /\ KeysOf \in [Activations -> Seq(Keys)]
  /\ Limit \in [Keys -> Nat]
  /\ Lease \in Nat /\ Grace \in Nat /\ MaxSkew \in Nat /\ MaxBeats \in Nat /\ MaxTime \in Nat

VARIABLES
  now,      \* Redis's clock
  skew,     \* by how much the clock of an activation's process is ahead
  members,  \* the members of a sorted set
  score,    \* the end of a lease, the last one for a token that was dropped
  until,    \* when Redis drops the whole set (PEXPIRE)
  pc,       \* of an activation: "idle", "asking", "waiting", "running", "stopping", "over"
  sent,     \* ARGV now of its acquire script
  beats,    \* its heartbeats under way, oldest first
  lost,     \* ownershipLost
  ended     \* history variable: when it was over

vars == <<now, skew, members, score, until, pc, sent, beats, lost, ended>>

KeySet(a) == {KeysOf[a][i] : i \in 1..Len(KeysOf[a])}

(* Date.now() *)
Clock(a) == now + skew[a]

Init ==
  /\ now = 0
  /\ skew \in [Activations -> 0..MaxSkew]
  /\ members = [k \in Keys |-> {}]
  /\ score = [k \in Keys |-> [a \in Activations |-> 0]]
  /\ until = [k \in Keys |-> 0]
  /\ pc = [a \in Activations |-> "idle"]
  /\ sent = [a \in Activations |-> 0]
  /\ beats = [a \in Activations |-> <<>>]
  /\ lost = [a \in Activations |-> FALSE]
  /\ ended = [a \in Activations |-> 0]

-----------------------------------------------------------------------------
(* acquire *)

(* The script is sent, the first time or 50 ms after a refusal. *)
Ask(a) ==
  /\ pc[a] \in {"idle", "waiting"}
  /\ pc' = [pc EXCEPT ![a] = "asking"]
  /\ sent' = [sent EXCEPT ![a] = Clock(a)]
  /\ UNCHANGED <<now, skew, members, score, until, beats, lost, ended>>

(* What ZREMRANGEBYSCORE leaves of a set. *)
Unexpired(a, k) == {b \in members[k] : score[k][b] > sent[a]}

Full(a, k) == Cardinality(Unexpired(a, k)) >= Limit[k]

(* The script comes to its i-th set. *)
Reaches(a, i) == i \in 1..Len(KeysOf[a]) /\ \A j \in 1..(i - 1) : ~Full(a, KeysOf[a][j])

(* Sets it drops ended leases of. *)
Swept(a) == {KeysOf[a][i] : i \in {j \in 1..Len(KeysOf[a]) : Reaches(a, j)}}

Free(a) == \A k \in KeySet(a) : ~Full(a, k)

(* Faulty: a place is taken in every set before the next one is looked at. *)
TakenKeyByKey(a) == {k \in Swept(a) : ~Full(a, k)}

(* Sets it takes a place in: all or none. *)
Taken(a) == IF Free(a) THEN KeySet(a) ELSE {}

Script(a) ==
  /\ members' = [k \in Keys |->
       (IF k \in Swept(a) THEN Unexpired(a, k) ELSE members[k]) \cup (IF k \in Taken(a) THEN {a} ELSE {})]
  /\ score' = [k \in Keys |-> IF k \in Taken(a) THEN [score[k] EXCEPT ![a] = sent[a] + Lease] ELSE score[k]]
  /\ until' = [k \in Keys |-> IF k \in Taken(a) THEN now + Lease + Grace ELSE until[k]]

Acquire(a) ==
  /\ pc[a] = "asking"
  /\ Script(a)
  /\ pc' = [pc EXCEPT ![a] = IF Free(a) THEN "running" ELSE "waiting"]
  /\ UNCHANGED <<now, skew, sent, beats, lost, ended>>

(* The reply is lost with the connection, and the client library sends the  *)
(* script again, with the same arguments.                                  *)
Resend(a) ==
  /\ pc[a] = "asking"
  /\ Script(a)
  /\ UNCHANGED <<now, skew, pc, sent, beats, lost, ended>>

Over(a) ==
  /\ pc' = [pc EXCEPT ![a] = "over"]
  /\ ended' = [ended EXCEPT ![a] = now]

(* The call is rejected, or its process dies, before or after it took effect. *)
AcquireFails(a) ==
  /\ pc[a] = "asking"
  /\ Script(a) \/ UNCHANGED <<members, score, until>>
  /\ Over(a)
  /\ UNCHANGED <<now, skew, sent, beats, lost>>

(* semaphoreWaitMs are over. *)
GiveUp(a) ==
  /\ pc[a] = "waiting"
  /\ Over(a)
  /\ UNCHANGED <<now, skew, members, score, until, sent, beats, lost>>

-----------------------------------------------------------------------------
(* executeGeneration with a permit *)

(* Faulty: the interval is not cleared. *)
BeatOn(a) ==
  /\ pc[a] \in {"running", "stopping", "over"} /\ Len(beats[a]) < MaxBeats
  /\ beats' = [beats EXCEPT ![a] = Append(@, [ends |-> Clock(a) + Lease, done |-> FALSE, owned |-> FALSE])]
  /\ UNCHANGED <<now, skew, members, score, until, pc, sent, lost, ended>>

(* The interval sends a renewal. *)
Beat(a) ==
  /\ pc[a] = "running" /\ Len(beats[a]) < MaxBeats
  /\ beats' = [beats EXCEPT ![a] = Append(@, [ends |-> Clock(a) + Lease, done |-> FALSE, owned |-> FALSE])]
  /\ UNCHANGED <<now, skew, members, score, until, pc, sent, lost, ended>>

(* Faulty: a token that was dropped is added again. *)
RenewedBlindly(a) == KeySet(a)

(* Sets that still have the token. *)
Renewed(a) == {k \in KeySet(a) : a \in members[k]}

(* Faulty: one set is enough. *)
OwnsSome(a) == Renewed(a) # {}

Owns(a) == Renewed(a) = KeySet(a)

(* Redis runs the renewals of a connection in the order they were sent. *)
Renew(a, i) ==
  /\ i \in 1..Len(beats[a])
  /\ \A j \in 1..i : beats[a][j].done <=> j < i
  /\ members' = [k \in Keys |-> IF k \in Renewed(a) THEN members[k] \cup {a} ELSE members[k]]
  /\ score' = [k \in Keys |-> IF k \in Renewed(a) THEN [score[k] EXCEPT ![a] = beats[a][i].ends] ELSE score[k]]
  /\ until' = [k \in Keys |-> IF k \in Renewed(a) THEN now + Lease + Grace ELSE until[k]]
  /\ beats' = [beats EXCEPT ![a][i] = [@ EXCEPT !.done = TRUE, !.owned = Owns(a)]]
  /\ UNCHANGED <<now, skew, pc, sent, lost, ended>>

(* Both halves of a heartbeat have answered, or one was rejected.  Answers  *)
(* overtake each other, since the other half is a statement in a pool.      *)
Answer(a, i) ==
  /\ i \in 1..Len(beats[a])
  /\ \E owned \in BOOLEAN :
       /\ owned => beats[a][i].owned
       /\ lost' = [lost EXCEPT ![a] = ~owned]
  /\ beats' = [beats EXCEPT ![a] = SubSeq(@, 1, i - 1) \o SubSeq(@, i + 1, Len(@))]
  /\ UNCHANGED <<now, skew, members, score, until, pc, sent, ended>>

(* The poll aborts the run. *)
Notice(a) ==
  /\ pc[a] = "running" /\ lost[a]
  /\ pc' = [pc EXCEPT ![a] = "stopping"]
  /\ UNCHANGED <<now, skew, members, score, until, sent, beats, lost, ended>>

(* The claim was refused, or the run ends. *)
End(a) ==
  /\ pc[a] = "running" /\ ~lost[a]
  /\ pc' = [pc EXCEPT ![a] = "stopping"]
  /\ UNCHANGED <<now, skew, members, score, until, sent, beats, lost, ended>>

(* Behind the renewals of the same connection. *)
Release(a) ==
  /\ pc[a] = "stopping" /\ \A i \in 1..Len(beats[a]) : beats[a][i].done
  /\ members' = [k \in Keys |-> IF k \in KeySet(a) THEN members[k] \ {a} ELSE members[k]]
  /\ Over(a)
  /\ UNCHANGED <<now, skew, score, until, sent, beats, lost>>

(* The process dies, or the release is rejected. *)
Crash(a) ==
  /\ pc[a] \in {"waiting", "running", "stopping"}
  /\ Over(a)
  /\ UNCHANGED <<now, skew, members, score, until, sent, beats, lost>>

(* Time passes, and Redis drops sets nobody has written to for a while. *)
Tick ==
  /\ now < MaxTime
  /\ now' = now + 1
  /\ members' = [k \in Keys |-> IF until[k] <= now + 1 THEN {} ELSE members[k]]
  /\ UNCHANGED <<skew, score, until, pc, sent, beats, lost, ended>>

-----------------------------------------------------------------------------
Next ==
  \/ \E a \in Activations :
       \/ Ask(a) \/ Acquire(a) \/ Resend(a) \/ AcquireFails(a) \/ GiveUp(a)
       \/ Beat(a) \/ Notice(a) \/ End(a) \/ Release(a) \/ Crash(a)
       \/ \E i \in 1..MaxBeats : Renew(a, i) \/ Answer(a, i)
  \/ Tick

Spec == Init /\ [][Next]_vars

(* Intervals fire, and calls return or are rejected. *)
Fairness ==
  \A a \in Activations :
    /\ WF_vars(Beat(a)) /\ WF_vars(Notice(a))
    /\ \A i \in 1..MaxBeats : WF_vars(Renew(a, i)) /\ WF_vars(Answer(a, i))

FairSpec == Spec /\ Fairness

-----------------------------------------------------------------------------
Beats == [ends : Int, done : BOOLEAN, owned : BOOLEAN]

TypeOK ==
  /\ now \in Nat
  /\ skew \in [Activations -> 0..MaxSkew]
  /\ members \in [Keys -> SUBSET Activations]
  /\ score \in [Keys -> [Activations -> Int]]
  /\ until \in [Keys -> Int]
  /\ pc \in [Activations -> {"idle", "asking", "waiting", "running", "stopping", "over"}]
  /\ sent \in [Activations -> Int]
  /\ beats \in [Activations -> Seq(Beats)]
  /\ lost \in [Activations -> BOOLEAN]
  /\ ended \in [Activations -> Int]

(* No clock has seen the end of the lease. *)
InForce(a, k) == score[k][a] > now + MaxSkew

Holders(k) == {a \in Activations : k \in KeySet(a) /\ pc[a] = "running" /\ InForce(a, k)}

(* However clocks differ and calls are delayed, no more executors with a    *)
(* lease run at a time than a limit allows: of all, of a provider, of a     *)
(* user.                                                                   *)
NeverOvercommitted == \A k \in Keys : Cardinality(Holders(k)) <= Limit[k]

(* Who has no permit yet, refused or still asking, has places in all of its *)
(* sets or in none.  All is possible: a script that was sent again finds    *)
(* the places it has taken itself, and may be refused because of them.      *)
PlacesComeTogether ==
  \A a \in Activations : pc[a] \in {"asking", "waiting"} =>
    \A k, l \in KeySet(a) : a \in members[k] /\ InForce(a, k) => a \in members[l]

(* Who is over, by whatever death, occupies a place for one more lease. *)
DeadHoldsBriefly ==
  \A k \in Keys : \A a \in members[k] : pc[a] = "over" => score[k][a] <= ended[a] + MaxSkew + Lease

(* An executor whose place was given away stops in the end, although a      *)
(* renewal from before may report last that all is well.                   *)
DroppedStops ==
  \A a \in Activations : pc[a] = "running" /\ (\E k \in KeySet(a) : a \notin members[k]) ~> pc[a] # "running"

-----------------------------------------------------------------------------
(* The inductive invariant behind the three safety properties. *)

(* When an activation was last at work. *)
LastAlive(a) == IF pc[a] = "over" THEN ended[a] ELSE now

(* What was read from a clock is not ahead of the fastest one, and leases   *)
(* and renewals are no older or newer than their activation.               *)
Sane ==
  \A a \in Activations :
    /\ sent[a] <= now + MaxSkew
    /\ ended[a] <= now
    /\ \A i \in 1..Len(beats[a]) : beats[a][i].ends <= LastAlive(a) + MaxSkew + Lease
    /\ \A k \in Keys : a \in members[k] => score[k][a] <= LastAlive(a) + MaxSkew + Lease

(* Before it has a permit, an activation renews nothing, and its leases are *)
(* one.                                                                    *)
OneLease ==
  \A a \in Activations : pc[a] \in {"idle", "asking", "waiting"} =>
    /\ Len(beats[a]) = 0
    /\ \A k, l \in KeySet(a) : score[k][a] = score[l][a]

(* No set is larger than its limit. *)
WithinLimit == \A k \in Keys : IsFiniteSet(members[k]) /\ Cardinality(members[k]) <= Limit[k]

(* Redis drops a set only after all its leases have ended. *)
Outlived == \A k \in Keys : \A a \in members[k] : score[k][a] <= until[k] - Grace + MaxSkew

(* A token is dropped from a set only after its lease has ended. *)
Counted ==
  \A a \in Activations : pc[a] \in {"idle", "asking", "waiting", "running"} =>
    \A k \in KeySet(a) : InForce(a, k) => a \in members[k]

(* No set exceeds its limit, and no running executor is missing in a set    *)
(* before its lease is over, with what keeps both true from step to step.   *)
Inductive == TypeOK /\ Sane /\ OneLease /\ WithinLimit /\ Outlived /\ Counted
=============================================================================
