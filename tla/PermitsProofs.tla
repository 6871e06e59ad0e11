--------------------------- MODULE PermitsProofs ----------------------------
(***************************************************************************)
(* The limit of every sorted set holds for any number of activations, any   *)
(* clocks and any delays.  Each part of the inductive invariant has a lemma  *)
(* saying that a step preserves it.                                        *)
(***************************************************************************)
EXTENDS Permits, FiniteSetTheorems, SequenceTheorems, TLAPS

LEMMA KeysKnown ==
  ASSUME NEW a \in Activations
  PROVE  /\ KeySet(a) \subseteq Keys
         /\ \A i \in 1..Len(KeysOf[a]) : KeysOf[a][i] \in Keys
  BY PermitsAssumption DEF KeySet

(* A script that finds room in every set sweeps all it takes a place in. *)
LEMMA TakenIsSwept ==
  ASSUME NEW a \in Activations
  PROVE  Taken(a) \subseteq Swept(a)
<1>1. CASE ~Free(a)
  BY <1>1 DEF Taken
<1>2. CASE Free(a)
  <2>1. \A i \in 1..Len(KeysOf[a]) : Reaches(a, i)
    BY <1>2, PermitsAssumption DEF Reaches, Free, KeySet
  <2> QED
    BY <1>2, <2>1 DEF Taken, Swept, KeySet
<1> QED
  BY <1>1, <1>2

(* What a script leaves in a set and adds to it. *)
LEMMA ScriptMembers ==
  ASSUME TypeOK, NEW a \in Activations, NEW k \in Keys, Script(a)
  PROVE  /\ members'[k] \subseteq members[k] \cup {a}
         /\ a \in members'[k] => a \in members[k] \/ k \in Taken(a)
         /\ k \notin Taken(a) => members'[k] \subseteq members[k]
         /\ k \in Taken(a) => members'[k] = Unexpired(a, k) \cup {a}
         /\ \A b \in members[k] : b \in members'[k] \/ score[k][b] <= sent[a]
<1>1. Taken(a) \subseteq Swept(a)
  BY TakenIsSwept
<1>2. members'[k] = (IF k \in Swept(a) THEN Unexpired(a, k) ELSE members[k]) \cup (IF k \in Taken(a) THEN {a} ELSE {})
  BY DEF Script
<1> QED
  BY <1>1, <1>2 DEF Unexpired, TypeOK

LEMMA TypeInit == Init => TypeOK
  BY PermitsAssumption DEF Init, TypeOK

LEMMA ScriptType ==
  ASSUME TypeOK, NEW a \in Activations, Script(a)
  PROVE  /\ members' \in [Keys -> SUBSET Activations]
         /\ score' \in [Keys -> [Activations -> Int]]
         /\ until' \in [Keys -> Int]
<1>1. members' \in [Keys -> SUBSET Activations]
  <2>1. \A k \in Keys : members'[k] \subseteq Activations
    BY ScriptMembers DEF TypeOK
  <2> QED
    BY <2>1 DEF Script
<1>2. score' \in [Keys -> [Activations -> Int]]
  BY PermitsAssumption DEF Script, TypeOK
<1>3. until' \in [Keys -> Int]
  BY PermitsAssumption DEF Script, TypeOK
<1> QED
  BY <1>1, <1>2, <1>3

LEMMA BeatsType ==
  ASSUME NEW a \in Activations, NEW e \in Int, TypeOK,
         beats' = [beats EXCEPT ![a] = Append(@, [ends |-> e, done |-> FALSE, owned |-> FALSE])]
  PROVE  beats' \in [Activations -> Seq(Beats)]
<1> DEFINE new == [ends |-> e, done |-> FALSE, owned |-> FALSE]
<1>1. new \in Beats
  BY DEF Beats
<1>2. beats[a] \in Seq(Beats)
  BY DEF TypeOK
<1>3. beats' = [beats EXCEPT ![a] = Append(@, new)]
  OBVIOUS
<1> HIDE DEF new
<1>4. Append(beats[a], new) \in Seq(Beats)
  BY <1>1, <1>2
<1> QED
  BY <1>3, <1>4 DEF TypeOK

LEMMA TypeStep == TypeOK /\ [Next]_vars => TypeOK'
<1> SUFFICES ASSUME TypeOK, [Next]_vars PROVE TypeOK'
  OBVIOUS
<1>1. ASSUME NEW a \in Activations, Ask(a) PROVE TypeOK'
  BY <1>1, PermitsAssumption DEF Ask, Clock, TypeOK
<1>2. ASSUME NEW a \in Activations, Acquire(a) PROVE TypeOK'
  BY <1>2, ScriptType DEF Acquire, TypeOK
<1>13. ASSUME NEW a \in Activations, Resend(a) PROVE TypeOK'
  BY <1>13, ScriptType DEF Resend, TypeOK
<1>3. ASSUME NEW a \in Activations, AcquireFails(a) PROVE TypeOK'
  <2>1. /\ members' \in [Keys -> SUBSET Activations]
        /\ score' \in [Keys -> [Activations -> Int]]
        /\ until' \in [Keys -> Int]
    BY <1>3, ScriptType DEF AcquireFails, TypeOK
  <2>2. /\ pc' = [pc EXCEPT ![a] = "over"] /\ ended' = [ended EXCEPT ![a] = now]
        /\ UNCHANGED <<now, skew, sent, beats, lost>>
    BY <1>3 DEF AcquireFails, Over
  <2> QED
    BY <2>1, <2>2 DEF TypeOK
<1>4. ASSUME NEW a \in Activations, GiveUp(a) PROVE TypeOK'
  BY <1>4 DEF GiveUp, Over, TypeOK
<1>5. ASSUME NEW a \in Activations, Beat(a) PROVE TypeOK'
  <2>1. Clock(a) + Lease \in Int
    BY PermitsAssumption DEF Clock, TypeOK
  <2>2. beats' \in [Activations -> Seq(Beats)]
    BY <1>5, <2>1, BeatsType DEF Beat
  <2> QED
    BY <1>5, <2>2 DEF Beat, TypeOK
<1>6. ASSUME NEW a \in Activations, NEW i \in 1..MaxBeats, Renew(a, i) PROVE TypeOK'
  <2>1. beats[a] \in Seq(Beats) /\ i \in 1..Len(beats[a])
    BY <1>6 DEF Renew, TypeOK
  <2>2. beats[a][i] \in Beats /\ beats[a][i].ends \in Int
    <3>1. beats[a][i] \in Beats
      BY <2>1
    <3> QED
      BY <3>1 DEF Beats
  <2>3. [beats[a][i] EXCEPT !.done = TRUE, !.owned = Owns(a)] \in Beats
    <3>1. Owns(a) \in BOOLEAN
      BY Zenon DEF Owns
    <3>2. \A o \in BOOLEAN : [beats[a][i] EXCEPT !.done = TRUE, !.owned = o] \in Beats
      BY <2>2 DEF Beats
    <3> QED
      BY <3>1, <3>2
  <2>4. beats' \in [Activations -> Seq(Beats)]
    <3>1. [beats[a] EXCEPT ![i] = [@ EXCEPT !.done = TRUE, !.owned = Owns(a)]] \in Seq(Beats)
      BY <2>1, <2>3
    <3> QED
      BY <1>6, <3>1 DEF Renew, TypeOK
  <2>5. members' \in [Keys -> SUBSET Activations]
    BY <1>6 DEF Renew, TypeOK
  <2>6. score' \in [Keys -> [Activations -> Int]]
    <3>1. \A k \in Keys : [score[k] EXCEPT ![a] = beats[a][i].ends] \in [Activations -> Int]
      BY <2>2 DEF TypeOK
    <3> QED BY <1>6, <3>1 DEF Renew, TypeOK
  <2>7. until' \in [Keys -> Int]
    BY <1>6, PermitsAssumption DEF Renew, TypeOK
  <2> QED
    BY <1>6, <2>4, <2>5, <2>6, <2>7 DEF Renew, TypeOK
<1>7. ASSUME NEW a \in Activations, NEW i \in 1..MaxBeats, Answer(a, i) PROVE TypeOK'
  <2>1. SubSeq(beats[a], 1, i - 1) \o SubSeq(beats[a], i + 1, Len(beats[a])) \in Seq(Beats)
    BY <1>7 DEF Answer, TypeOK
  <2>2. beats' \in [Activations -> Seq(Beats)]
    BY <1>7, <2>1 DEF Answer, TypeOK
  <2>3. lost' \in [Activations -> BOOLEAN]
    BY <1>7, Zenon DEF Answer, TypeOK
  <2> QED
    BY <1>7, <2>2, <2>3 DEF Answer, TypeOK
<1>8. ASSUME NEW a \in Activations, Notice(a) \/ End(a) PROVE TypeOK'
  BY <1>8 DEF Notice, End, TypeOK
<1>9. ASSUME NEW a \in Activations, Release(a) PROVE TypeOK'
  BY <1>9 DEF Release, Over, TypeOK
<1>10. ASSUME NEW a \in Activations, Crash(a) PROVE TypeOK'
  BY <1>10 DEF Crash, Over, TypeOK
<1>11. CASE Tick
  BY <1>11 DEF Tick, TypeOK
<1>12. CASE UNCHANGED vars
  BY <1>12 DEF vars, TypeOK
<1> QED
  BY <1>1, <1>2, <1>3, <1>4, <1>5, <1>6, <1>7, <1>8, <1>9, <1>10, <1>11, <1>12, <1>13 DEF Next

-----------------------------------------------------------------------------
(* Time goes on, and nobody comes back. *)
LEMMA Alive ==
  ASSUME TypeOK, TypeOK', Sane, [Next]_vars, NEW a \in Activations
  PROVE  now <= now' /\ LastAlive(a) <= LastAlive(a)' /\ LastAlive(a) <= now
<1>1. CASE Tick
  BY <1>1 DEF Tick, LastAlive, Sane, TypeOK
<1>2. CASE UNCHANGED vars
  BY <1>2 DEF vars, LastAlive, Sane, TypeOK
<1>3. ASSUME NEW b \in Activations,
             \/ Ask(b) \/ Acquire(b) \/ Resend(b) \/ AcquireFails(b) \/ GiveUp(b)
             \/ Beat(b) \/ Notice(b) \/ End(b) \/ Release(b) \/ Crash(b)
             \/ \E i \in 1..MaxBeats : Renew(b, i) \/ Answer(b, i)
      PROVE  now' = now /\ LastAlive(a) <= LastAlive(a)' /\ LastAlive(a) <= now
  <2>1. now' = now
    BY <1>3 DEF Ask, Acquire, Resend, AcquireFails, GiveUp, Beat, Notice, End, Release, Crash, Renew, Answer
  <2>2. \/ pc'[a] = pc[a] /\ ended'[a] = ended[a]
        \/ pc[a] # "over" /\ pc'[a] # "over"
        \/ pc[a] # "over" /\ pc'[a] = "over" /\ ended'[a] = now
    <3>1. CASE Ask(b) \/ Acquire(b) \/ Resend(b)
      BY <3>1 DEF Ask, Acquire, Resend, TypeOK
    <3>2. CASE Beat(b) \/ \E i \in 1..MaxBeats : Renew(b, i) \/ Answer(b, i)
      BY <3>2 DEF Beat, Renew, Answer
    <3>3. CASE GiveUp(b) \/ Notice(b) \/ End(b)
      BY <3>3 DEF GiveUp, Notice, End, Over, TypeOK
    <3>4. CASE AcquireFails(b) \/ Release(b) \/ Crash(b)
      BY <3>4 DEF AcquireFails, Release, Crash, Over, TypeOK
    <3> QED BY <1>3, <3>1, <3>2, <3>3, <3>4
  <2> QED
    BY <2>1, <2>2 DEF LastAlive, Sane, TypeOK
<1>4. now \in Nat
  BY DEF TypeOK
<1>5. ASSUME Next PROVE now <= now' /\ LastAlive(a) <= LastAlive(a)' /\ LastAlive(a) <= now
  <2>1. CASE Tick
    BY <1>1, <2>1
  <2>2. ASSUME NEW b \in Activations,
               \/ Ask(b) \/ Acquire(b) \/ Resend(b) \/ AcquireFails(b) \/ GiveUp(b)
               \/ Beat(b) \/ Notice(b) \/ End(b) \/ Release(b) \/ Crash(b)
               \/ \E i \in 1..MaxBeats : Renew(b, i) \/ Answer(b, i)
        PROVE  now <= now' /\ LastAlive(a) <= LastAlive(a)' /\ LastAlive(a) <= now
    BY <1>3, <1>4, <2>2
  <2> QED BY <1>5, <2>1, <2>2 DEF Next
<1> QED BY <1>2, <1>5

(* A step that writes no lease and sends nothing keeps Sane. *)
LEMMA SaneKept ==
  ASSUME TypeOK, TypeOK', Sane, [Next]_vars,
         sent' = sent, score' = score,
         \A k \in Keys : members'[k] \subseteq members[k],
         \A a \in Activations : \A i \in 1..Len(beats'[a]) :
           \E j \in 1..Len(beats[a]) : beats'[a][i].ends = beats[a][j].ends,
         \A a \in Activations : ended'[a] <= now'
  PROVE  Sane'
<1> SUFFICES ASSUME NEW a \in Activations
             PROVE  /\ sent'[a] <= now' + MaxSkew
                    /\ \A i \in 1..Len(beats'[a]) : beats'[a][i].ends <= LastAlive(a)' + MaxSkew + Lease
                    /\ \A k \in Keys : a \in members'[k] => score'[k][a] <= LastAlive(a)' + MaxSkew + Lease
  BY DEF Sane
<1>1. now <= now' /\ LastAlive(a) <= LastAlive(a)' /\ LastAlive(a) \in Int /\ LastAlive(a)' \in Int /\ now' \in Int
  BY Alive DEF LastAlive, TypeOK
<1>2. sent'[a] <= now' + MaxSkew
  BY <1>1, PermitsAssumption DEF Sane, TypeOK
<1>3. ASSUME NEW i \in 1..Len(beats'[a]) PROVE beats'[a][i].ends <= LastAlive(a)' + MaxSkew + Lease
  <2>1. PICK j \in 1..Len(beats[a]) : beats'[a][i].ends = beats[a][j].ends
    OBVIOUS
  <2>2. beats[a][j].ends \in Int
    <3>1. beats[a][j] \in Beats
      BY DEF TypeOK
    <3> QED
      BY <3>1 DEF Beats
  <2> QED
    BY <1>1, <2>1, <2>2, PermitsAssumption DEF Sane
<1>4. ASSUME NEW k \in Keys, a \in members'[k] PROVE score'[k][a] <= LastAlive(a)' + MaxSkew + Lease
  <2>1. a \in members[k] /\ score'[k][a] = score[k][a]
    BY <1>4
  <2>2. score[k][a] \in Int
    BY DEF TypeOK
  <2>3. score[k][a] <= LastAlive(a) + MaxSkew + Lease
    BY <2>1 DEF Sane
  <2> QED
    BY <1>1, <2>1, <2>2, <2>3, PermitsAssumption
<1> QED
  BY <1>2, <1>3, <1>4

(* A script writes one lease, from the clock it was sent with. *)
LEMMA SaneScript ==
  ASSUME TypeOK, TypeOK', Sane, [Next]_vars, NEW a \in Activations, Script(a), pc[a] = "asking",
         UNCHANGED <<now, sent, beats>>,
         \A b \in Activations : ended'[b] <= now,
         \A b \in Activations \ {a} : pc'[b] = pc[b] /\ ended'[b] = ended[b],
         pc'[a] # "over" \/ ended'[a] = now
  PROVE  Sane'
<1> SUFFICES ASSUME NEW b \in Activations
             PROVE  /\ sent'[b] <= now' + MaxSkew
                    /\ \A i \in 1..Len(beats'[b]) : beats'[b][i].ends <= LastAlive(b)' + MaxSkew + Lease
                    /\ \A k \in Keys : b \in members'[k] => score'[k][b] <= LastAlive(b)' + MaxSkew + Lease
  BY DEF Sane
<1>1. LastAlive(b)' = LastAlive(b) /\ LastAlive(b) \in Int
  BY DEF LastAlive, TypeOK
<1>2. ASSUME NEW k \in Keys, b \in members'[k] PROVE score'[k][b] <= LastAlive(b)' + MaxSkew + Lease
  <2>1. CASE b = a /\ k \in Taken(a)
    <3>1. score'[k][b] = sent[a] + Lease
      BY <2>1 DEF Script, TypeOK
    <3>2. LastAlive(b)' = now
      BY <2>1 DEF LastAlive
    <3>3. sent[a] <= now + MaxSkew /\ sent[a] \in Int /\ now \in Int
      BY DEF Sane, TypeOK
    <3> QED
      BY <3>1, <3>2, <3>3, PermitsAssumption
  <2>2. CASE ~(b = a /\ k \in Taken(a))
    <3>1. b \in members[k]
      BY <1>2, <2>2, ScriptMembers
    <3>2. score'[k][b] = score[k][b]
      BY <2>2 DEF Script, TypeOK
    <3> QED
      BY <1>1, <3>1, <3>2 DEF Sane
  <2> QED
    BY <2>1, <2>2
<1> QED
  BY <1>1, <1>2 DEF Sane

Without(q, i) == SubSeq(q, 1, i - 1) \o SubSeq(q, i + 1, Len(q))

(* What is left when one is taken out was there before. *)
LEMMA WithoutOne ==
  ASSUME NEW S, NEW q \in Seq(S), NEW i \in 1..Len(q), NEW j \in 1..Len(Without(q, i))
  PROVE  \E m \in 1..Len(q) : Without(q, i)[j] = q[m]
<1> DEFINE p == SubSeq(q, 1, i - 1)
           r == SubSeq(q, i + 1, Len(q))
<1>1. p \in Seq(S) /\ Len(p) = i - 1 /\ \A m \in 1..(i - 1) : p[m] = q[m]
  OBVIOUS
<1>2. r \in Seq(S) /\ Len(r) = Len(q) - i /\ \A m \in 1..(Len(q) - i) : r[m] = q[i + m]
  OBVIOUS
<1>3. Without(q, i) = p \o r
  BY DEF Without
<1> HIDE DEF p, r
<1>4. Len(p \o r) = Len(q) - 1
  <2>1. Len(p \o r) = Len(p) + Len(r)
    BY <1>1, <1>2, ConcatProperties
  <2>2. Len(q) \in Nat
    OBVIOUS
  <2> QED
    BY <1>1, <1>2, <2>1, <2>2
<1>5. CASE j < i
  BY <1>1, <1>2, <1>3, <1>4, <1>5
<1>6. CASE j >= i
  <2>1. Without(q, i)[j] = r[j - Len(p)]
    BY <1>1, <1>2, <1>3, <1>4, <1>6
  <2>2. j - Len(p) \in 1..(Len(q) - i)
    <3>1. j \in 1..(Len(q) - 1) /\ Len(q) \in Nat /\ Len(p) = i - 1
      BY <1>1, <1>3, <1>4
    <3> QED
      BY <1>6, <3>1
  <2>3. r[j - Len(p)] = q[i + (j - Len(p))] /\ i + (j - Len(p)) \in 1..Len(q)
    BY <1>1, <1>2, <2>2
  <2> QED
    BY <2>1, <2>3
<1> QED
  BY <1>5, <1>6

(* The steps that are neither a script nor a renewal write no lease. *)
LEMMA SaneStep ==
  ASSUME TypeOK, TypeOK', Sane, [Next]_vars
  PROVE  Sane'
<1>1. ASSUME NEW a \in Activations, Ask(a) PROVE Sane'
  <2> SUFFICES ASSUME NEW b \in Activations PROVE sent'[b] <= now' + MaxSkew /\ LastAlive(b)' = LastAlive(b)
    BY <1>1 DEF Ask, Sane
  <2>1. LastAlive(b)' = LastAlive(b)
    BY <1>1 DEF Ask, LastAlive, TypeOK
  <2>2. sent'[b] = sent[b] \/ sent'[b] = now + skew[b]
    BY <1>1 DEF Ask, Clock, TypeOK
  <2> QED
    BY <1>1, <2>1, <2>2, PermitsAssumption DEF Ask, Sane, TypeOK
<1>2. ASSUME NEW a \in Activations, Acquire(a) PROVE Sane'
  BY <1>2, SaneScript DEF Acquire, Sane, TypeOK
<1>11. ASSUME NEW a \in Activations, Resend(a) PROVE Sane'
  BY <1>11, SaneScript DEF Resend, Sane, TypeOK
<1>3. ASSUME NEW a \in Activations, AcquireFails(a) PROVE Sane'
  <2>1. /\ pc[a] = "asking"
        /\ UNCHANGED <<now, sent, beats>>
        /\ \A b \in Activations : ended'[b] <= now
        /\ \A b \in Activations \ {a} : pc'[b] = pc[b] /\ ended'[b] = ended[b]
        /\ ended'[a] = now
    BY <1>3 DEF AcquireFails, Over, Sane, TypeOK
  <2>2. CASE Script(a)
    BY <2>1, <2>2, SaneScript
  <2>3. CASE UNCHANGED <<members, score, until>>
    BY <2>1, <2>3, SaneKept
  <2> QED
    BY <1>3, <2>2, <2>3 DEF AcquireFails
<1>4. ASSUME NEW a \in Activations, GiveUp(a) \/ Crash(a) \/ Release(a) PROVE Sane'
  <2>1. /\ UNCHANGED <<now, sent, score, beats>>
        /\ \A k \in Keys : members'[k] \subseteq members[k]
        /\ \A b \in Activations : ended'[b] <= now
    <3>1. UNCHANGED <<now, sent, score, beats>> /\ ended' = [ended EXCEPT ![a] = now]
      BY <1>4 DEF GiveUp, Crash, Release, Over
    <3>2. \A b \in Activations : ended'[b] <= now
      BY <3>1 DEF Sane, TypeOK
    <3>3. \A k \in Keys : members'[k] \subseteq members[k]
      BY <1>4 DEF GiveUp, Crash, Release
    <3> QED
      BY <3>1, <3>2, <3>3
  <2> QED
    BY <2>1, SaneKept
<1>5. ASSUME NEW a \in Activations, Beat(a) PROVE Sane'
  <2> SUFFICES ASSUME NEW b \in Activations, NEW i \in 1..Len(beats'[b])
               PROVE  beats'[b][i].ends <= LastAlive(b)' + MaxSkew + Lease
    BY <1>5 DEF Beat, Sane, LastAlive
  <2>1. LastAlive(b)' = LastAlive(b)
    BY <1>5 DEF Beat, LastAlive
  <2>2. CASE b = a /\ i = Len(beats[a]) + 1
    <3>1. beats'[b][i].ends = now + skew[a] + Lease
      BY <1>5, <2>2 DEF Beat, Clock, TypeOK
    <3>2. LastAlive(b) = now
      BY <1>5, <2>2 DEF Beat, LastAlive
    <3>3. now \in Int /\ skew[a] \in Int /\ skew[a] <= MaxSkew
      BY PermitsAssumption DEF TypeOK
    <3> QED
      BY <2>1, <3>1, <3>2, <3>3, PermitsAssumption
  <2>3. CASE ~(b = a /\ i = Len(beats[a]) + 1)
    <3>1. i \in 1..Len(beats[b]) /\ beats'[b][i] = beats[b][i]
      BY <1>5, <2>3 DEF Beat, TypeOK
    <3> QED
      BY <2>1, <3>1 DEF Sane
  <2> QED
    BY <2>2, <2>3
<1>6. ASSUME NEW a \in Activations, NEW i \in 1..MaxBeats, Renew(a, i) PROVE Sane'
  <2> SUFFICES ASSUME NEW b \in Activations
               PROVE  /\ \A j \in 1..Len(beats'[b]) : beats'[b][j].ends <= LastAlive(b)' + MaxSkew + Lease
                      /\ \A k \in Keys : b \in members'[k] => score'[k][b] <= LastAlive(b)' + MaxSkew + Lease
    BY <1>6 DEF Renew, Sane
  <2>1. LastAlive(b)' = LastAlive(b)
    BY <1>6 DEF Renew, LastAlive
  <2>2. ASSUME NEW j \in 1..Len(beats'[b]) PROVE beats'[b][j].ends <= LastAlive(b)' + MaxSkew + Lease
    <3>1. j \in 1..Len(beats[b]) /\ beats'[b][j].ends = beats[b][j].ends
      <4> DEFINE new == [beats[a][i] EXCEPT !.done = TRUE, !.owned = Owns(a)]
      <4>1. beats[a] \in Seq(Beats) /\ beats[b] \in Seq(Beats) /\ i \in 1..Len(beats[a])
        BY <1>6 DEF Renew, TypeOK
      <4>2. beats' = [beats EXCEPT ![a] = [beats[a] EXCEPT ![i] = new]]
        BY <1>6 DEF Renew
      <4>3. new.ends = beats[a][i].ends
        BY <4>1 DEF Beats
      <4> HIDE DEF new
      <4>4. beats'[b] = IF b = a THEN [beats[a] EXCEPT ![i] = new] ELSE beats[b]
        BY <4>2 DEF TypeOK
      <4> QED BY <4>1, <4>3, <4>4
    <3> QED
      BY <2>1, <3>1 DEF Sane
  <2>3. ASSUME NEW k \in Keys, b \in members'[k] PROVE score'[k][b] <= LastAlive(b)' + MaxSkew + Lease
    <3>1. b \in members[k]
      BY <1>6, <2>3 DEF Renew, Renewed
    <3>2. score'[k][b] = score[k][b] \/ (b = a /\ score'[k][b] = beats[a][i].ends)
      BY <1>6 DEF Renew, TypeOK
    <3>3. score[k][b] <= LastAlive(b) + MaxSkew + Lease
      BY <3>1 DEF Sane
    <3>4. i \in 1..Len(beats[a])
      BY <1>6 DEF Renew
    <3>5. beats[a][i].ends <= LastAlive(a) + MaxSkew + Lease
      BY <3>4 DEF Sane
    <3> QED
      BY <2>1, <3>2, <3>3, <3>5
  <2> QED
    BY <2>2, <2>3
<1>7. ASSUME NEW a \in Activations, NEW i \in 1..MaxBeats, Answer(a, i) PROVE Sane'
  <2>1. ASSUME NEW b \in Activations, NEW j \in 1..Len(beats'[b])
        PROVE  \E m \in 1..Len(beats[b]) : beats'[b][j].ends = beats[b][m].ends
    <3>1. CASE b # a
      BY <1>7, <3>1 DEF Answer, TypeOK
    <3>2. CASE b = a
      <4>1. beats[a] \in Seq(Beats) /\ i \in 1..Len(beats[a])
        BY <1>7 DEF Answer, TypeOK
      <4>2. beats'[b] = Without(beats[b], i)
        BY <1>7, <3>2 DEF Answer, Without, TypeOK
      <4> QED
        BY <3>2, <4>1, <4>2, WithoutOne
    <3> QED
      BY <3>1, <3>2
  <2>2. UNCHANGED <<now, sent, score, members, ended>>
    BY <1>7 DEF Answer
  <2> QED
    BY <2>1, <2>2, SaneKept DEF Sane
<1>8. ASSUME NEW a \in Activations, Notice(a) \/ End(a) PROVE Sane'
  <2>1. UNCHANGED <<now, sent, score, members, beats, ended>>
    BY <1>8 DEF Notice, End
  <2> QED
    BY <2>1, SaneKept DEF Sane
<1>9. CASE Tick
  <2>1. /\ UNCHANGED <<sent, score, beats>>
        /\ \A k \in Keys : members'[k] \subseteq members[k]
        /\ \A b \in Activations : ended'[b] <= now'
    BY <1>9 DEF Tick, Sane, TypeOK
  <2> QED
    BY <2>1, SaneKept
<1>10. CASE UNCHANGED vars
  BY <1>10 DEF vars, Sane, LastAlive
<1> QED
  BY <1>1, <1>2, <1>3, <1>4, <1>5, <1>6, <1>7, <1>8, <1>9, <1>10, <1>11 DEF Next

-----------------------------------------------------------------------------
(* A script writes the same lease to all of its sets, or to none. *)
LEMMA OneLeaseStep ==
  ASSUME TypeOK, OneLease, [Next]_vars
  PROVE  OneLease'
<1> SUFFICES ASSUME NEW b \in Activations, pc'[b] \in {"idle", "asking", "waiting"},
                    NEW k \in KeySet(b), NEW l \in KeySet(b)
             PROVE  score'[k][b] = score'[l][b]
  <2>1. ASSUME NEW b \in Activations, pc'[b] \in {"idle", "asking", "waiting"} PROVE Len(beats'[b]) = 0
    <3>1. pc[b] \in {"idle", "asking", "waiting"}
      <4>1. ASSUME NEW a \in Activations, Ask(a) \/ Acquire(a) \/ Resend(a) PROVE pc[b] \in {"idle", "asking", "waiting"}
        BY <2>1, <4>1 DEF Ask, Acquire, Resend, TypeOK
      <4>2. ASSUME NEW a \in Activations, GiveUp(a) \/ Notice(a) \/ End(a) PROVE pc[b] \in {"idle", "asking", "waiting"}
        BY <2>1, <4>2 DEF GiveUp, Notice, End, Over, TypeOK
      <4>3. ASSUME NEW a \in Activations, AcquireFails(a) \/ Release(a) \/ Crash(a)
            PROVE  pc[b] \in {"idle", "asking", "waiting"}
        BY <2>1, <4>3 DEF AcquireFails, Release, Crash, Over, TypeOK
      <4>4. ASSUME NEW a \in Activations, Beat(a) \/ \E i \in 1..MaxBeats : Renew(a, i) \/ Answer(a, i)
            PROVE  pc[b] \in {"idle", "asking", "waiting"}
        BY <2>1, <4>4 DEF Beat, Renew, Answer
      <4>5. CASE Tick \/ UNCHANGED vars
        BY <2>1, <4>5 DEF Tick, vars
      <4> QED BY <4>1, <4>2, <4>3, <4>4, <4>5 DEF Next
    <3>2. Len(beats[b]) = 0
      BY <3>1 DEF OneLease
    <3>3. ASSUME NEW a \in Activations, Beat(a) PROVE beats'[b] = beats[b]
      BY <3>1, <3>3 DEF Beat, TypeOK
    <3>4. ASSUME NEW a \in Activations, NEW i \in 1..MaxBeats, Renew(a, i) \/ Answer(a, i) PROVE beats'[b] = beats[b]
      BY <3>2, <3>4 DEF Renew, Answer, TypeOK
    <3> QED
      BY <3>2, <3>3, <3>4 DEF Next, vars, Ask, Acquire, Resend, AcquireFails, GiveUp, Notice, End, Release, Crash, Tick
  <2> QED
    BY <2>1 DEF OneLease
<1>1. k \in Keys /\ l \in Keys
  BY KeysKnown
<1>2. CASE pc[b] \in {"idle", "asking", "waiting"} /\ score' = score
  BY <1>2 DEF OneLease
<1>3. ASSUME NEW a \in Activations, Script(a), pc[b] \in {"idle", "asking", "waiting"}
      PROVE  score'[k][b] = score'[l][b]
  <2>1. score[k][b] = score[l][b]
    BY <1>3 DEF OneLease
  <2>2. CASE b = a /\ Free(a)
    BY <1>1, <1>3, <2>2 DEF Script, Taken, TypeOK
  <2>3. CASE b # a
    BY <1>1, <1>3, <2>1, <2>3 DEF Script, TypeOK
  <2>4. CASE ~Free(a)
    BY <1>1, <1>3, <2>1, <2>4 DEF Script, Taken
  <2> QED
    BY <2>2, <2>3, <2>4
<1>4. ASSUME NEW a \in Activations, Acquire(a) \/ Resend(a) PROVE score'[k][b] = score'[l][b]
  <2>1. pc[b] \in {"idle", "asking", "waiting"}
    BY <1>4 DEF Acquire, Resend, TypeOK
  <2> QED
    BY <1>3, <1>4, <2>1 DEF Acquire, Resend
<1>5. ASSUME NEW a \in Activations, AcquireFails(a) PROVE score'[k][b] = score'[l][b]
  <2>1. pc[b] \in {"idle", "asking", "waiting"}
    BY <1>5 DEF AcquireFails, Over, TypeOK
  <2> QED
    BY <1>2, <1>3, <1>5, <2>1 DEF AcquireFails
<1>6. ASSUME NEW a \in Activations,
             \/ Ask(a) \/ GiveUp(a) \/ Beat(a) \/ Notice(a) \/ End(a) \/ Release(a) \/ Crash(a)
             \/ \E i \in 1..MaxBeats : Answer(a, i)
      PROVE  score'[k][b] = score'[l][b]
  <2>1. score' = score
    BY <1>6 DEF Ask, GiveUp, Beat, Notice, End, Release, Crash, Answer
  <2>2. pc[b] \in {"idle", "asking", "waiting"}
    BY <1>6 DEF Ask, GiveUp, Beat, Notice, End, Release, Crash, Answer, Over, TypeOK
  <2> QED
    BY <1>2, <2>1, <2>2
<1>7. ASSUME NEW a \in Activations, NEW i \in 1..MaxBeats, Renew(a, i) PROVE score'[k][b] = score'[l][b]
  <2>1. pc' = pc
    BY <1>7 DEF Renew
  <2>2. b # a
    BY <1>7, <2>1 DEF Renew, OneLease
  <2>3. score'[k][b] = score[k][b] /\ score'[l][b] = score[l][b]
    BY <1>1, <1>7, <2>2 DEF Renew, TypeOK
  <2> QED
    BY <2>1, <2>3 DEF OneLease
<1>8. CASE Tick \/ UNCHANGED vars
  BY <1>2, <1>8 DEF Tick, vars
<1> QED
  BY <1>4, <1>5, <1>6, <1>7, <1>8 DEF Next

(* The test and the addition are one script: where it adds, there was room. *)
LEMMA LimitScript ==
  ASSUME TypeOK, WithinLimit, NEW a \in Activations, Script(a), NEW k \in Keys
  PROVE  IsFiniteSet(members'[k]) /\ Cardinality(members'[k]) <= Limit[k]
<1>1. IsFiniteSet(members[k]) /\ Cardinality(members[k]) <= Limit[k]
  BY DEF WithinLimit
<1>2. Unexpired(a, k) \subseteq members[k]
  BY DEF Unexpired
<1>3. CASE k \in Taken(a)
  <2>1. members'[k] = Unexpired(a, k) \cup {a}
    BY <1>3, ScriptMembers
  <2>2. ~Full(a, k)
    BY <1>3 DEF Taken, Free
  <2>3. IsFiniteSet(Unexpired(a, k)) /\ Cardinality(Unexpired(a, k)) \in Nat
    BY <1>1, <1>2, FS_Subset, FS_CardinalityType
  <2>4. Cardinality(Unexpired(a, k)) < Limit[k] /\ Limit[k] \in Nat
    BY <2>2, <2>3, PermitsAssumption DEF Full
  <2>5. IsFiniteSet(members'[k]) /\ Cardinality(members'[k]) <= Cardinality(Unexpired(a, k)) + 1
    <3> DEFINE rest == Unexpired(a, k)
    <3> HIDE DEF rest
    <3>1. /\ IsFiniteSet(rest \cup {a})
          /\ Cardinality(rest \cup {a}) = IF a \in rest THEN Cardinality(rest) ELSE Cardinality(rest) + 1
      BY <2>3, FS_AddElement DEF rest
    <3> QED BY <2>1, <2>3, <3>1 DEF rest
  <2>6. Cardinality(members'[k]) \in Nat
    BY <2>5, FS_CardinalityType
  <2> QED
    BY <2>3, <2>4, <2>5, <2>6
<1>4. CASE k \notin Taken(a)
  <2>1. members'[k] \subseteq members[k]
    BY <1>4, ScriptMembers
  <2>2. IsFiniteSet(members'[k]) /\ Cardinality(members'[k]) <= Cardinality(members[k])
    BY <1>1, <2>1, FS_Subset
  <2>3. Cardinality(members'[k]) \in Nat /\ Cardinality(members[k]) \in Nat /\ Limit[k] \in Nat
    BY <1>1, <2>2, FS_CardinalityType, PermitsAssumption
  <2> QED
    BY <1>1, <2>2, <2>3
<1> QED
  BY <1>3, <1>4

LEMMA LimitStep ==
  ASSUME TypeOK, WithinLimit, [Next]_vars
  PROVE  WithinLimit'
<1> SUFFICES ASSUME NEW k \in Keys
             PROVE  IsFiniteSet(members'[k]) /\ Cardinality(members'[k]) <= Limit[k]
  BY DEF WithinLimit
<1>1. ASSUME members'[k] \subseteq members[k]
      PROVE  IsFiniteSet(members'[k]) /\ Cardinality(members'[k]) <= Limit[k]
  <2>1. IsFiniteSet(members[k]) /\ Cardinality(members[k]) <= Limit[k]
    BY DEF WithinLimit
  <2>2. IsFiniteSet(members'[k]) /\ Cardinality(members'[k]) <= Cardinality(members[k])
    BY <1>1, <2>1, FS_Subset
  <2>3. Cardinality(members'[k]) \in Nat /\ Cardinality(members[k]) \in Nat /\ Limit[k] \in Nat
    BY <2>1, <2>2, FS_CardinalityType, PermitsAssumption
  <2> QED
    BY <2>1, <2>2, <2>3
<1>2. ASSUME NEW a \in Activations, Acquire(a) \/ Resend(a) \/ AcquireFails(a)
      PROVE  IsFiniteSet(members'[k]) /\ Cardinality(members'[k]) <= Limit[k]
  <2>1. Script(a) \/ members' = members
    BY <1>2 DEF Acquire, Resend, AcquireFails
  <2> QED
    BY <1>1, <2>1, LimitScript
<1>3. ASSUME NEW a \in Activations, NEW i \in 1..MaxBeats, Renew(a, i)
      PROVE  members'[k] \subseteq members[k]
  BY <1>3 DEF Renew, Renewed
<1>4. ASSUME NEW a \in Activations,
             \/ Ask(a) \/ GiveUp(a) \/ Beat(a) \/ Notice(a) \/ End(a) \/ Release(a) \/ Crash(a)
             \/ \E i \in 1..MaxBeats : Answer(a, i)
      PROVE  members'[k] \subseteq members[k]
  BY <1>4 DEF Ask, GiveUp, Beat, Notice, End, Release, Crash, Answer
<1>5. CASE Tick \/ UNCHANGED vars
  BY <1>1, <1>5 DEF Tick, vars
<1> QED
  BY <1>1, <1>2, <1>3, <1>4, <1>5 DEF Next

-----------------------------------------------------------------------------
(* Whoever writes a lease prolongs the set beyond every lease in it. *)
LEMMA OutlivedStep ==
  ASSUME TypeOK, TypeOK', Sane', Outlived, [Next]_vars
  PROVE  Outlived'
<1> SUFFICES ASSUME NEW k \in Keys, NEW b \in Activations, b \in members'[k]
             PROVE  score'[k][b] <= until'[k] - Grace + MaxSkew
  BY DEF Outlived, TypeOK
<1>1. score'[k][b] <= now' + MaxSkew + Lease
  <2>1. score'[k][b] <= LastAlive(b)' + MaxSkew + Lease
    BY DEF Sane
  <2>2. LastAlive(b)' <= now'
    BY DEF LastAlive, Sane, TypeOK
  <2>3. score'[k][b] \in Int /\ LastAlive(b)' \in Int /\ now' \in Int
    BY DEF LastAlive, TypeOK
  <2> QED
    BY <2>1, <2>2, <2>3, PermitsAssumption
<1>2. CASE now' = now /\ until'[k] = now + Lease + Grace
  BY <1>1, <1>2, PermitsAssumption DEF TypeOK
<1>3. CASE until'[k] = until[k] /\ score'[k] = score[k] /\ members'[k] \subseteq members[k]
  BY <1>3 DEF Outlived
<1>4. ASSUME NEW a \in Activations, Acquire(a) \/ Resend(a) \/ AcquireFails(a)
      PROVE  score'[k][b] <= until'[k] - Grace + MaxSkew
  <2>1. now' = now
    BY <1>4 DEF Acquire, Resend, AcquireFails
  <2>2. CASE Script(a)
    <3>1. until'[k] = now + Lease + Grace \/ (until'[k] = until[k] /\ score'[k] = score[k] /\ k \notin Taken(a))
      BY <2>2 DEF Script
    <3>2. k \notin Taken(a) => members'[k] \subseteq members[k]
      BY <2>2, ScriptMembers
    <3> QED
      BY <1>2, <1>3, <2>1, <3>1, <3>2
  <2>3. CASE UNCHANGED <<members, score, until>>
    BY <1>3, <2>3
  <2> QED
    BY <1>4, <2>2, <2>3 DEF Acquire, Resend, AcquireFails
<1>5. ASSUME NEW a \in Activations, NEW i \in 1..MaxBeats, Renew(a, i)
      PROVE  score'[k][b] <= until'[k] - Grace + MaxSkew
  BY <1>2, <1>3, <1>5 DEF Renew
<1>6. ASSUME NEW a \in Activations,
             \/ Ask(a) \/ GiveUp(a) \/ Beat(a) \/ Notice(a) \/ End(a) \/ Release(a) \/ Crash(a)
             \/ \E i \in 1..MaxBeats : Answer(a, i)
      PROVE  score'[k][b] <= until'[k] - Grace + MaxSkew
  BY <1>3, <1>6 DEF Ask, GiveUp, Beat, Notice, End, Release, Crash, Answer
<1>7. CASE Tick \/ UNCHANGED vars
  BY <1>3, <1>7 DEF Tick, vars
<1> QED
  BY <1>4, <1>5, <1>6, <1>7 DEF Next

(* A token comes out of a set only when some clock is past its lease. *)
LEMMA CountedStep ==
  ASSUME TypeOK, TypeOK', Sane, Outlived, Counted, [Next]_vars
  PROVE  Counted'
<1> DEFINE Early == {"idle", "asking", "waiting", "running"}
<1> SUFFICES ASSUME NEW b \in Activations, NEW k \in KeySet(b), pc'[b] \in Early, score'[k][b] > now' + MaxSkew
             PROVE  b \in members'[k]
  BY DEF Counted, InForce
<1>0. k \in Keys
  BY KeysKnown
<1>1. ASSUME pc[b] \in Early, score'[k][b] = score[k][b], now' = now
      PROVE  b \in members[k]
  BY <1>1 DEF Counted, InForce
<1>2. ASSUME NEW a \in Activations, Script(a), pc[b] \in Early, now' = now
      PROVE  b \in members'[k]
  <2>1. CASE b = a /\ k \in Taken(a)
    BY <1>0, <1>2, <2>1, ScriptMembers
  <2>2. CASE ~(b = a /\ k \in Taken(a))
    <3>1. score'[k][b] = score[k][b]
      BY <1>0, <1>2, <2>2 DEF Script, TypeOK
    <3>2. sent[a] <= now + MaxSkew /\ sent[a] \in Int /\ now \in Int /\ score[k][b] \in Int
      BY <1>0 DEF Sane, TypeOK
    <3>3. ~(score[k][b] <= sent[a])
      BY <1>2, <3>1, <3>2, PermitsAssumption
    <3> QED
      BY <1>0, <1>1, <1>2, <3>1, <3>3, ScriptMembers
  <2> QED
    BY <2>1, <2>2
<1>3. ASSUME NEW a \in Activations, Acquire(a) \/ Resend(a) \/ AcquireFails(a) PROVE b \in members'[k]
  <2>1. pc[b] \in Early /\ now' = now
    BY <1>3 DEF Acquire, Resend, AcquireFails, Over, TypeOK
  <2>2. Script(a) \/ UNCHANGED <<members, score>>
    BY <1>3 DEF Acquire, Resend, AcquireFails
  <2> QED
    BY <1>1, <1>2, <2>1, <2>2
<1>4. ASSUME NEW a \in Activations, NEW i \in 1..MaxBeats, Renew(a, i) PROVE b \in members'[k]
  <2>1. pc[b] \in Early /\ now' = now
    BY <1>4 DEF Renew
  <2>2. CASE b = a /\ k \in Renewed(a)
    BY <1>0, <1>4, <2>2 DEF Renew
  <2>3. CASE ~(b = a /\ k \in Renewed(a))
    <3>1. score'[k][b] = score[k][b]
      BY <1>0, <1>4, <2>3 DEF Renew, TypeOK
    <3> QED
      BY <1>0, <1>1, <1>4, <2>1, <3>1 DEF Renew
  <2> QED
    BY <2>2, <2>3
<1>5. ASSUME NEW a \in Activations, Release(a) PROVE b \in members'[k]
  <2>1. b # a /\ pc[b] \in Early /\ now' = now /\ score' = score
    BY <1>5 DEF Release, Over, TypeOK
  <2> QED
    BY <1>0, <1>1, <1>5, <2>1 DEF Release
<1>6. ASSUME NEW a \in Activations,
             \/ Ask(a) \/ GiveUp(a) \/ Beat(a) \/ Notice(a) \/ End(a) \/ Crash(a)
             \/ \E i \in 1..MaxBeats : Answer(a, i)
      PROVE  b \in members'[k]
  <2>1. now' = now /\ score' = score /\ members' = members
    BY <1>6 DEF Ask, GiveUp, Beat, Notice, End, Crash, Answer
  <2>2. pc[b] \in Early
    BY <1>6 DEF Ask, GiveUp, Beat, Notice, End, Crash, Answer, Over, TypeOK
  <2> QED
    BY <1>1, <2>1, <2>2
<1>7. CASE Tick
  <2>1. pc[b] \in Early /\ score[k][b] > now + 1 + MaxSkew
    BY <1>7 DEF Tick
  <2>2. now \in Int /\ score[k][b] \in Int /\ until[k] \in Int
    BY <1>0 DEF TypeOK
  <2>3. b \in members[k]
    BY <2>1, <2>2, PermitsAssumption DEF Counted, InForce
  <2>4. ~(until[k] <= now + 1)
    BY <1>0, <2>1, <2>2, <2>3, PermitsAssumption DEF Outlived
  <2> QED
    BY <1>0, <1>7, <2>3, <2>4 DEF Tick
<1>8. CASE UNCHANGED vars
  BY <1>8 DEF vars, Counted, InForce
<1> QED
  BY <1>3, <1>4, <1>5, <1>6, <1>7, <1>8 DEF Next

-----------------------------------------------------------------------------
LEMMA InductiveInit == Init => Inductive
<1> SUFFICES ASSUME Init PROVE Inductive
  OBVIOUS
<1>1. TypeOK
  BY TypeInit
<1>2. Sane
  BY PermitsAssumption DEF Init, Sane, LastAlive
<1>3. OneLease /\ Outlived /\ Counted
  BY KeysKnown, PermitsAssumption DEF Init, OneLease, Outlived, Counted, InForce
<1>4. WithinLimit
  BY FS_EmptySet, PermitsAssumption DEF Init, WithinLimit
<1> QED
  BY <1>1, <1>2, <1>3, <1>4 DEF Inductive

LEMMA InductiveStep == Inductive /\ [Next]_vars => Inductive'
<1> SUFFICES ASSUME Inductive, [Next]_vars PROVE Inductive'
  OBVIOUS
<1>1. TypeOK /\ Sane /\ OneLease /\ WithinLimit /\ Outlived /\ Counted
  BY DEF Inductive
<1>2. TypeOK'
  BY <1>1, TypeStep
<1>3. Sane'
  BY <1>1, <1>2, SaneStep
<1>4. OneLease' /\ WithinLimit'
  BY <1>1, OneLeaseStep, LimitStep
<1>5. Outlived' /\ Counted'
  BY <1>1, <1>2, <1>3, OutlivedStep, CountedStep
<1> QED
  BY <1>2, <1>3, <1>4, <1>5 DEF Inductive

(* The strengthening the theorems below rest on holds of every state the    *)
(* permits of generation-reliability.service.ts can get into.              *)
THEOREM PermitsInvariant == Spec => []Inductive
<1> QED
  BY InductiveInit, InductiveStep, PTL DEF Spec

(* However clocks differ and commands are delayed, the executors running    *)
(* with a lease are no more than a limit allows.                           *)
THEOREM LimitsHold == Spec => []NeverOvercommitted
<1>1. Inductive => NeverOvercommitted
  <2> SUFFICES ASSUME Inductive, NEW k \in Keys PROVE Cardinality(Holders(k)) <= Limit[k]
    BY DEF NeverOvercommitted
  <2>1. IsFiniteSet(members[k]) /\ Cardinality(members[k]) <= Limit[k] /\ Holders(k) \subseteq members[k]
    BY DEF Inductive, WithinLimit, Counted, Holders
  <2>2. IsFiniteSet(Holders(k)) /\ Cardinality(Holders(k)) <= Cardinality(members[k])
    BY <2>1, FS_Subset
  <2>3. Cardinality(Holders(k)) \in Nat /\ Cardinality(members[k]) \in Nat /\ Limit[k] \in Nat
    BY <2>1, <2>2, FS_CardinalityType, PermitsAssumption
  <2> QED
    BY <2>1, <2>2, <2>3
<1> QED
  BY <1>1, PermitsInvariant, PTL

(* Without a permit an executor has places in all of its sets or in none. *)
THEOREM PlacesAreWhole == Spec => []PlacesComeTogether
<1>1. Inductive => PlacesComeTogether
  BY KeysKnown DEF Inductive, OneLease, Counted, InForce, PlacesComeTogether
<1> QED
  BY <1>1, PermitsInvariant, PTL

(* A dead executor keeps its places no longer than one lease and the        *)
(* largest difference of clocks.                                           *)
THEOREM DeadIsBrief == Spec => []DeadHoldsBriefly
<1>1. Inductive => DeadHoldsBriefly
  BY DEF Inductive, Sane, LastAlive, DeadHoldsBriefly, TypeOK
<1> QED
  BY <1>1, PermitsInvariant, PTL
=============================================================================
