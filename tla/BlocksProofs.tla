----------------------------- MODULE BlocksProofs ---------------------------
(***************************************************************************)
(* What the stored message shows is what the page makes of the log, for any *)
(* numbers of rounds, calls and texts.                                     *)
(*                                                                         *)
(* An event does to the blocks what it does to the blocks of the page       *)
(* (SameBlocks), as nothing unfinished is there twice (StoredKeeps); texts   *)
(* may be joined before they are sent (JoinedTwice).  So one event leaves    *)
(* the two agreed (SentAgrees), and so do all the steps.                    *)
(***************************************************************************)
EXTENDS MCPages, SequenceTheorems, WellFoundedInduction, TLAPS

Words == Seq(Nat)   \* a text, by the numbers of its fragments
Contents == {"busy", "done", "adjust", "blocked", "running", "completed", "warning", "-"}
Singles == {"memory_notice", "sql", "chart", "analysis", "suggestions"}

BlockRecords ==
  {b \in [type : {"text", "log", "activity"} \cup Singles, id : Nat, content : Contents, text : Words] :
     b.type # "text" => b.text = <<>>}

EventRecords ==
  {e \in [type : {"text_chunk", "log", "log_update", "activity", "remove"} \cup Singles,
          id : Nat, content : Contents, text : Words] :
     /\ e.type = "text_chunk" <=> e.text # <<>>
     /\ e.type = "log_update" => e.content # "busy"}

Held == [blocks |-> blocks, pending |-> pending, queue |-> queue]

HeldRecords == [blocks : Seq(BlockRecords), pending : Words, queue : Seq(EventRecords)]

(* Blocks that an event may replace, and which ones it replaces: unfinished  *)
(* logs and activities.                                                     *)
Marked(b) == b.type = "activity" \/ (b.type = "log" /\ b.content = "busy")

Live(bs) == {b \in {bs[i] : i \in DOMAIN bs} : Marked(b)}

Replaces(e, b) ==
  /\ b.id = e.id
  /\ \/ b.type = "activity" /\ e.type \in {"activity", "remove"}
     \/ b.type = "log" /\ e.type = "log_update"

After(S, e) == {b \in S : ~Replaces(e, b)} \cup (IF Marked(e) THEN {e} ELSE {})

(* There is one of each, so that the first of them is the last. *)
Tidy(bs) ==
  \A i, j \in DOMAIN bs :
    Marked(bs[i]) /\ Marked(bs[j]) /\ bs[i].type = bs[j].type /\ bs[i].id = bs[j].id => i = j

(* What the worker holds is what the page makes of the events. *)
Agrees(m) ==
  /\ m \in HeldRecords
  /\ Tidy(m.blocks)
  /\ B!Replay(view, m.queue \o B!Waiting(m.pending)) = m.blocks

(* What may still be unfinished: logs of rounds, which not every round       *)
(* settles; the log of a statement that runs or ran last; activities of      *)
(* refused and finished calls, and that of the current call.                *)
MayLive(b) ==
  /\ b.type = "log" => b.id \in 1..round \/ (b.id = title /\ stage \in {"sql", "failing", "returned", "ended"})
  /\ b.type = "activity" => /\ b.id \in 1..called
                            /\ b.content = "running" => activity /\ b.id = called

LiveKept == \A b \in Live(blocks) : MayLive(b)

(* While a statement runs, its log and it are the last events, both in the   *)
(* blocks and, as far as they are not published, in the queue: what          *)
(* QueryFails changes in place is the same log in both.                      *)
EndsInQuery(s) ==
  /\ Len(s) >= 2 => s[Len(s) - 1] = B!QueryLog(title, "busy")
  /\ Len(s) >= 1 => s[Len(s)] = B!Other("sql")

QueryRuns ==
  /\ pending = <<>>
  /\ Len(blocks) >= 2 /\ EndsInQuery(blocks) /\ EndsInQuery(queue)

RunKept ==
  /\ stage \in {"asking", "round", "call", "sql", "called", "failing", "returned", "ended"}
  /\ round \in 0..MaxRounds /\ called \in Nat /\ said \in Nat /\ activity \in BOOLEAN /\ title \in Nat
  /\ stage \in {"asking", "round"} => ~activity
  /\ stage \in {"failing", "returned", "ended"} /\ ~stopped => ~activity
  /\ activity => called # 0

(* The log and the message agree because there is one unfinished log of a    *)
(* title and one activity of a call, so that the first and the last of them  *)
(* are the same.                                                            *)
BlocksKept ==
  /\ view \in Seq(BlockRecords) /\ Agrees(Held)
  /\ RunKept /\ LiveKept
  /\ stage = "sql" => QueryRuns

LEMMA LeastNumber ==
  ASSUME NEW V \in SUBSET Nat, V # {}
  PROVE  \E m \in V : \A n \in V : m <= n
<1>1. \E m \in V : \A n \in V : <<n, m>> \notin OpToRel(<, Nat)
  BY NatLessThanWellFounded, WFMin
<1>2. PICK m \in V : \A n \in V : <<n, m>> \notin OpToRel(<, Nat)
  BY <1>1
<1>3. \A n \in V : ~(n < m)
  BY <1>2 DEF OpToRel
<1> QED BY <1>3

(* What a recursive function is asked for exists, and is what the recursion  *)
(* says.                                                                    *)
LEMMA ReplayExists ==
  ASSUME NEW bs, NEW s, NEW N \in Nat
  PROVE  \E f : f = [n \in 0..N |-> IF n = 0 THEN bs ELSE B!ApplyBlock(f[n - 1], s[n])]
<1> DEFINE Has(k) == \E f : f = [n \in 0..k |-> IF n = 0 THEN bs ELSE B!ApplyBlock(f[n - 1], s[n])]
           W == {k \in Nat : ~Has(k)}
<1>1. SUFFICES ASSUME W # {} PROVE FALSE
  BY <1>1 DEF W
<1>2. PICK k \in W : \A j \in W : k <= j
  BY <1>1, LeastNumber
<1>3. k # 0
  <2>1. [n \in 0..0 |-> bs] = [n \in 0..0 |-> IF n = 0 THEN bs ELSE B!ApplyBlock([m \in 0..0 |-> bs][n - 1], s[n])]
    OBVIOUS
  <2> QED BY <1>2, <2>1
<1>4. Has(k - 1)
  <2>1. k - 1 \in Nat /\ ~(k <= k - 1)
    BY <1>2, <1>3
  <2> QED BY <1>2, <2>1
<1>5. PICK f : f = [n \in 0..(k - 1) |-> IF n = 0 THEN bs ELSE B!ApplyBlock(f[n - 1], s[n])]
  BY <1>4
<1> DEFINE g == [n \in 0..k |-> IF n = k THEN B!ApplyBlock(f[k - 1], s[k]) ELSE f[n]]
<1>6. ASSUME NEW n \in 0..k PROVE g[n] = IF n = 0 THEN bs ELSE B!ApplyBlock(g[n - 1], s[n])
  <2>1. CASE n = 0
    BY <1>2, <1>3, <1>5, <2>1
  <2>2. CASE n # 0 /\ n # k
    <3>1. n \in 0..(k - 1) /\ n - 1 \in 0..(k - 1) /\ n - 1 # k
      BY <1>2, <2>2
    <3>2. g[n] = f[n] /\ g[n - 1] = f[n - 1]
      BY <1>2, <2>2, <3>1
    <3> QED BY <1>5, <2>2, <3>1, <3>2
  <2>3. CASE n = k
    <3>1. k - 1 \in 0..k /\ k - 1 # k
      BY <1>2, <1>3
    <3> QED BY <1>3, <2>3, <3>1
  <2> QED BY <2>1, <2>2, <2>3
<1>7. g = [n \in 0..k |-> IF n = 0 THEN bs ELSE B!ApplyBlock(g[n - 1], s[n])]
  <2> DEFINE h == [n \in 0..k |-> IF n = 0 THEN bs ELSE B!ApplyBlock(g[n - 1], s[n])]
  <2>1. \A n \in 0..k : g[n] = h[n]
    <3> HIDE DEF g
    <3> QED BY <1>6
  <2>2. DOMAIN g = 0..k /\ DOMAIN h = 0..k /\ g = [n \in 0..k |-> g[n]] /\ h = [n \in 0..k |-> h[n]]
    OBVIOUS
  <2>3. g = h
    <3> HIDE DEF g, h
    <3> QED BY <2>1, <2>2
  <2> QED BY <2>3
<1>8. Has(k)
  <2> HIDE DEF g
  <2> QED BY <1>7
<1> QED BY <1>2, <1>8

Replays(bs, s, f) ==
  /\ f[0] = bs
  /\ \A n \in 1..Len(s) : f[n] = B!ApplyBlock(f[n - 1], s[n])
  /\ B!Replay(bs, s) = f[Len(s)]

LEMMA ReplayHas ==
  ASSUME NEW bs, NEW s, Len(s) \in Nat
  PROVE  \E f : Replays(bs, s, f)
<1> DEFINE Is(f) == f = [n \in 0..Len(s) |-> IF n = 0 THEN bs ELSE B!ApplyBlock(f[n - 1], s[n])]
           f == CHOOSE f : Is(f)
<1>1. Is(f)
  BY ReplayExists
<1>2. B!Replay(bs, s) = f[Len(s)]
  BY DEF B!Replay
<1> HIDE DEF f
<1>3. f[0] = bs
  BY <1>1
<1>4. ASSUME NEW n \in 1..Len(s) PROVE f[n] = B!ApplyBlock(f[n - 1], s[n])
  <2>1. n \in 0..Len(s) /\ n # 0
    OBVIOUS
  <2> QED BY <1>1, <2>1
<1> QED BY <1>2, <1>3, <1>4 DEF Replays

(* Any function that goes on as replaying does gives what it gives. *)
LEMMA ReplayIs ==
  ASSUME NEW bs, NEW s, Len(s) \in Nat, NEW g, g[0] = bs,
         \A n \in 1..Len(s) : g[n] = B!ApplyBlock(g[n - 1], s[n])
  PROVE  B!Replay(bs, s) = g[Len(s)]
<1>f. PICK f : Replays(bs, s, f)
  BY ReplayHas
<1>1. /\ f[0] = bs
      /\ \A n \in 1..Len(s) : f[n] = B!ApplyBlock(f[n - 1], s[n])
      /\ B!Replay(bs, s) = f[Len(s)]
  BY <1>f DEF Replays
<1> DEFINE W == {n \in 0..Len(s) : f[n] # g[n]}
<1>2. SUFFICES ASSUME W # {} PROVE FALSE
  <2>1. Len(s) \in 0..Len(s)
    OBVIOUS
  <2> QED BY <1>1, <1>2, <2>1
<1>3. W \in SUBSET Nat
  OBVIOUS
<1>4. PICK n \in W : \A k \in W : n <= k
  BY <1>2, <1>3, LeastNumber
<1>5. n # 0 /\ n \in 1..Len(s) /\ n - 1 \in 0..Len(s) /\ ~(n <= n - 1)
  BY <1>1, <1>4
<1>6. f[n - 1] = g[n - 1]
  BY <1>4, <1>5
<1>7. f[n] = g[n]
  BY <1>1, <1>5, <1>6
<1> QED BY <1>4, <1>7

LEMMA ReplayNone ==
  ASSUME NEW bs
  PROVE  B!Replay(bs, <<>>) = bs
<1>1. Len(<<>>) = 0
  OBVIOUS
<1> DEFINE g == [n \in {0} |-> bs]
<1>2. g[0] = bs /\ \A n \in 1..0 : g[n] = B!ApplyBlock(g[n - 1], <<>>[n])
  OBVIOUS
<1> HIDE DEF g
<1> QED BY <1>1, <1>2, ReplayIs

LEMMA ReplayMore ==
  ASSUME NEW bs, NEW s \in Seq(EventRecords), NEW e \in EventRecords
  PROVE  B!Replay(bs, Append(s, e)) = B!ApplyBlock(B!Replay(bs, s), e)
<1> DEFINE N == Len(s)
           t == Append(s, e)
<1>1. N \in Nat /\ Len(t) = N + 1 /\ (\A n \in 1..N : t[n] = s[n]) /\ t[N + 1] = e
  BY AppendProperties
<1>f. PICK f : Replays(bs, s, f)
  <2>1. Len(s) \in Nat
    BY <1>1
  <2> QED BY <2>1, ReplayHas
<1>2. /\ f[0] = bs
      /\ \A n \in 1..N : f[n] = B!ApplyBlock(f[n - 1], s[n])
      /\ B!Replay(bs, s) = f[N]
  BY <1>f DEF Replays
<1> DEFINE g == [n \in 0..(N + 1) |-> IF n = N + 1 THEN B!ApplyBlock(f[N], e) ELSE f[n]]
<1>3. g[0] = bs /\ g[N + 1] = B!ApplyBlock(f[N], e) /\ \A n \in 0..N : g[n] = f[n]
  <2>1. 0 \in 0..(N + 1) /\ N + 1 \in 0..(N + 1) /\ 0 # N + 1 /\ \A n \in 0..N : n \in 0..(N + 1) /\ n # N + 1
    BY <1>1
  <2> HIDE DEF N
  <2> QED BY <1>2, <2>1
<1> HIDE DEF g, t, N
<1>4. ASSUME NEW n \in 1..Len(t) PROVE g[n] = B!ApplyBlock(g[n - 1], t[n])
  <2>1. CASE n = N + 1
    <3>1. n - 1 = N /\ N \in 0..N
      BY <1>1, <2>1
    <3> QED BY <1>1, <1>3, <2>1, <3>1
  <2>2. CASE n # N + 1
    <3>1. n \in 1..N /\ n \in 0..N /\ n - 1 \in 0..N
      BY <1>1, <2>2
    <3> QED BY <1>1, <1>2, <1>3, <3>1
  <2> QED BY <2>1, <2>2
<1>5. B!Replay(bs, t) = g[Len(t)]
  BY <1>1, <1>3, <1>4, ReplayIs
<1> QED BY <1>1, <1>2, <1>3, <1>5 DEF t

LEMMA ReplayFirst ==
  ASSUME NEW bs, NEW s \in Seq(EventRecords), s # <<>>
  PROVE  B!Replay(B!ApplyBlock(bs, Head(s)), Tail(s)) = B!Replay(bs, s)
<1> DEFINE N == Len(s)
           t == Tail(s)
<1>1. N \in Nat \ {0} /\ Len(t) = N - 1 /\ Head(s) = s[1] /\ \A n \in 1..(N - 1) : t[n] = s[n + 1]
  BY EmptySeq, HeadTailProperties
<1>f. PICK f : Replays(bs, s, f)
  <2>1. Len(s) \in Nat
    BY <1>1
  <2> QED BY <2>1, ReplayHas
<1>2. /\ f[0] = bs
      /\ \A n \in 1..N : f[n] = B!ApplyBlock(f[n - 1], s[n])
      /\ B!Replay(bs, s) = f[N]
  BY <1>f DEF Replays
<1> HIDE DEF t, N
<1> DEFINE g == [n \in 0..(N - 1) |-> f[n + 1]]
<1>3. f[1] = B!ApplyBlock(bs, s[1])
  BY <1>1, <1>2
<1>4. g[0] = f[1] /\ g[N - 1] = f[N] /\ \A n \in 0..(N - 1) : g[n] = f[n + 1]
  BY <1>1
<1> HIDE DEF g
<1>5. ASSUME NEW n \in 1..Len(t) PROVE g[n] = B!ApplyBlock(g[n - 1], t[n])
  <2>1. n \in 1..(N - 1) /\ n \in 0..(N - 1) /\ n - 1 \in 0..(N - 1) /\ (n - 1) + 1 = n
        /\ n + 1 \in 1..N /\ (n + 1) - 1 = n
    BY <1>1
  <2>2. g[n] = f[n + 1] /\ g[n - 1] = f[n] /\ t[n] = s[n + 1]
    BY <1>1, <1>4, <2>1
  <2>3. f[n + 1] = B!ApplyBlock(f[n], s[n + 1])
    BY <1>2, <2>1
  <2> QED BY <2>2, <2>3
<1>6. B!Replay(f[1], t) = g[Len(t)]
  BY <1>1, <1>4, <1>5, ReplayIs
<1> QED BY <1>1, <1>2, <1>3, <1>4, <1>6 DEF t

LEMMA FirstOf ==
  ASSUME NEW V \in SUBSET Nat, V # {}
  PROVE  B!First(V) \in V /\ \A j \in V : B!First(V) <= j
BY LeastNumber DEF B!First

LEMMA FinalOf ==
  ASSUME NEW N \in Nat, NEW V \in SUBSET (1..N), V # {}
  PROVE  B!Final(V) \in V /\ \A j \in V : j <= B!Final(V)
<1> DEFINE Above == {n \in Nat : \A j \in V : j <= n}
<1>1. N \in Above /\ Above \in SUBSET Nat
  OBVIOUS
<1>2. PICK m \in Above : \A n \in Above : m <= n
  BY <1>1, LeastNumber
<1>3. m \in V
  <2>1. SUFFICES ASSUME m \notin V PROVE FALSE
    BY <2>1
  <2>2. \A j \in V : j \in Nat /\ j >= 1 /\ j <= m /\ j # m
    BY <1>2, <2>1
  <2>6. PICK i \in V : TRUE
    OBVIOUS
  <2>3. m \in Nat /\ m # 0
    BY <1>2, <2>2, <2>6
  <2>4. m - 1 \in Nat /\ \A j \in V : j <= m - 1
    BY <2>2, <2>3
  <2>5. ~(m <= m - 1)
    BY <2>3
  <2> QED BY <1>2, <2>4, <2>5
<1>4. \E i \in V : \A j \in V : j <= i
  BY <1>2, <1>3
<1> QED BY <1>4 DEF B!Final

LEMMA IndexOf ==
  ASSUME NEW bs \in Seq(BlockRecords), NEW type, NEW id
  PROVE  B!Indices(bs, type, id) \in SUBSET (1..Len(bs)) /\ Len(bs) \in Nat
BY DEF B!Indices

(* The texts that a block has, one after the other *)
LEMMA JoinedIs ==
  ASSUME NEW bs \in Seq(BlockRecords), NEW s \in Words
  PROVE  /\ B!Joined(bs, s) \in Seq(BlockRecords)
         /\ LET k == Len(bs)
                b == [type |-> "text", id |-> 0, content |-> "-", text |-> s]
            IN  \/ /\ k \in 1..Len(bs) /\ bs[k].type = "text"
                   /\ B!Joined(bs, s) = [bs EXCEPT ![k] = [bs[k] EXCEPT !.text = bs[k].text \o s]]
                   /\ [bs[k] EXCEPT !.text = bs[k].text \o s] \in BlockRecords
                \/ /\ bs = <<>> \/ bs[k].type # "text"
                   /\ b \in BlockRecords /\ B!Joined(bs, s) = Append(bs, b)
<1> DEFINE k == Len(bs)
           b == [type |-> "text", id |-> 0, content |-> "-", text |-> s]
           c == [bs[k] EXCEPT !.text = bs[k].text \o s]
<1>0. k \in Nat /\ (bs # <<>> => k \in 1..Len(bs))
  BY EmptySeq
<1>1. b \in BlockRecords
  BY DEF BlockRecords, Contents
<1>2. CASE bs # <<>> /\ bs[k].type = "text"
  <2>1. bs[k] \in BlockRecords
    BY <1>0, <1>2, ElementOfSeq
  <2>2. bs[k].text \o s \in Words
    BY <2>1, ConcatProperties DEF BlockRecords, Words
  <2>3. c \in BlockRecords
    BY <1>2, <2>1, <2>2 DEF BlockRecords
  <2>4. B!Joined(bs, s) = [bs EXCEPT ![k] = c]
    BY <1>2 DEF B!Joined, B!Last
  <2>5. [bs EXCEPT ![k] = c] \in Seq(BlockRecords)
    <3> HIDE DEF c, k
    <3> QED BY <1>0, <1>2, <2>3, ExceptSeq
  <2> QED BY <1>0, <1>2, <2>3, <2>4, <2>5
<1>3. CASE ~(bs # <<>> /\ bs[k].type = "text")
  <2>1. B!Joined(bs, s) = Append(bs, b)
    BY <1>3 DEF B!Joined, B!Last
  <2>2. Append(bs, b) \in Seq(BlockRecords)
    BY <1>1, AppendProperties
  <2> QED BY <1>1, <1>3, <2>1, <2>2
<1> QED BY <1>2, <1>3

LEMMA RemovedIs ==
  ASSUME NEW bs \in Seq(BlockRecords), NEW k \in 1..Len(bs)
  PROVE  /\ B!RemoveAt(bs, k) \in Seq(BlockRecords)
         /\ Len(B!RemoveAt(bs, k)) = Len(bs) - 1
         /\ \A i \in 1..(Len(bs) - 1) : B!RemoveAt(bs, k)[i] = IF i < k THEN bs[i] ELSE bs[i + 1]
<1> DEFINE N == Len(bs)
           s == SubSeq(bs, 1, k - 1)
           t == SubSeq(bs, k + 1, N)
<1>1. N \in Nat /\ k \in Int /\ k - 1 \in Int /\ k + 1 \in Int
  OBVIOUS
<1>2. \A i \in 1..N : bs[i] \in BlockRecords
  BY ElementOfSeq
<1>3. s \in Seq(BlockRecords) /\ Len(s) = k - 1 /\ \A i \in 1..(k - 1) : s[i] = bs[i]
  <2>1. \A i \in 1..(k - 1) : bs[i] \in BlockRecords
    BY <1>1, <1>2
  <2>2. /\ s \in Seq(BlockRecords)
        /\ Len(s) = IF 1 <= k - 1 THEN (k - 1) - 1 + 1 ELSE 0
        /\ \A i \in 1..((k - 1) - 1 + 1) : s[i] = bs[1 + i - 1]
    BY <1>1, <2>1, SubSeqProperties
  <2> HIDE DEF s
  <2> QED BY <1>1, <2>2
<1>4. t \in Seq(BlockRecords) /\ Len(t) = N - k /\ \A i \in 1..(N - k) : t[i] = bs[k + i]
  <2>1. \A i \in (k + 1)..N : bs[i] \in BlockRecords
    BY <1>1, <1>2
  <2>2. /\ t \in Seq(BlockRecords)
        /\ Len(t) = IF k + 1 <= N THEN N - (k + 1) + 1 ELSE 0
        /\ \A i \in 1..(N - (k + 1) + 1) : t[i] = bs[(k + 1) + i - 1]
    BY <1>1, <2>1, SubSeqProperties
  <2> HIDE DEF t
  <2> QED BY <1>1, <2>2
<1> HIDE DEF s, t
<1>5. /\ s \o t \in Seq(BlockRecords)
      /\ Len(s \o t) = Len(s) + Len(t)
      /\ \A i \in 1..(Len(s) + Len(t)) : (s \o t)[i] = IF i <= Len(s) THEN s[i] ELSE t[i - Len(s)]
  BY <1>3, <1>4, ConcatProperties
<1>6. B!RemoveAt(bs, k) = s \o t
  BY DEF B!RemoveAt, s, t
<1>7. ASSUME NEW i \in 1..(N - 1) PROVE (s \o t)[i] = IF i < k THEN bs[i] ELSE bs[i + 1]
  <2>1. i \in 1..(Len(s) + Len(t))
    BY <1>1, <1>3, <1>4
  <2>2. CASE i < k
    BY <1>1, <1>3, <1>5, <2>1, <2>2
  <2>3. CASE ~(i < k)
    <3>1. i - (k - 1) \in 1..(N - k) /\ k + (i - (k - 1)) = i + 1 /\ ~(i <= k - 1)
      BY <1>1, <2>3
    <3>2. (s \o t)[i] = t[i - (k - 1)]
      BY <1>3, <1>5, <2>1, <3>1
    <3> QED BY <1>4, <2>3, <3>1, <3>2
  <2> QED BY <2>2, <2>3
<1>8. Len(s \o t) = N - 1
  BY <1>1, <1>3, <1>4, <1>5
<1> QED BY <1>5, <1>6, <1>7, <1>8

-----------------------------------------------------------------------------
(* What becomes of marked blocks *)

Like(b, c) == b.type = c.type /\ b.id = c.id

LEMMA Lengthened ==
  ASSUME NEW bs \in Seq(BlockRecords), Tidy(bs), NEW b \in BlockRecords,
         Marked(b) => \A c \in Live(bs) : ~Like(c, b)
  PROVE  /\ Append(bs, b) \in Seq(BlockRecords) /\ Tidy(Append(bs, b))
         /\ Live(Append(bs, b)) \subseteq Live(bs) \cup (IF Marked(b) THEN {b} ELSE {})
<1> DEFINE N == Len(bs)
           t == Append(bs, b)
<1>1. /\ N \in Nat /\ t \in Seq(BlockRecords) /\ DOMAIN t = 1..(N + 1) /\ DOMAIN bs = 1..N
      /\ t[N + 1] = b /\ \A i \in 1..N : t[i] = bs[i]
  BY AppendProperties
<1> HIDE DEF t, N
<1>2. ASSUME NEW i \in 1..(N + 1), NEW j \in 1..(N + 1), Marked(t[i]), Marked(t[j]), Like(t[i], t[j])
      PROVE  i = j
  <2>1. CASE i \in 1..N /\ j \in 1..N
    BY <1>1, <1>2, <2>1 DEF Tidy, Like
  <2>2. CASE i = N + 1 /\ j \in 1..N
    BY <1>1, <1>2, <2>2 DEF Live, Like
  <2>3. CASE j = N + 1 /\ i \in 1..N
    BY <1>1, <1>2, <2>3 DEF Live, Like
  <2> QED BY <1>1, <2>1, <2>2, <2>3
<1>3. Tidy(t)
  BY <1>1, <1>2 DEF Tidy, Like
<1>4. ASSUME NEW c \in Live(t) PROVE c \in Live(bs) \cup (IF Marked(b) THEN {b} ELSE {})
  <2>1. PICK i \in 1..(N + 1) : c = t[i] /\ Marked(c)
    BY <1>1 DEF Live
  <2>2. CASE i = N + 1
    BY <1>1, <2>1, <2>2
  <2>3. CASE i \in 1..N
    BY <1>1, <2>1, <2>3 DEF Live
  <2> QED BY <1>1, <2>2, <2>3
<1> QED BY <1>1, <1>3, <1>4 DEF t

(* Without the marked block k, if it was one *)
Others(bs, k) == {c \in Live(bs) : ~(Marked(bs[k]) /\ Like(c, bs[k]))}

LEMMA Rewritten ==
  ASSUME NEW bs \in Seq(BlockRecords), Tidy(bs), NEW k \in 1..Len(bs), NEW b \in BlockRecords,
         Marked(b) => Marked(bs[k]) /\ Like(b, bs[k])
  PROVE  /\ [bs EXCEPT ![k] = b] \in Seq(BlockRecords) /\ Tidy([bs EXCEPT ![k] = b])
         /\ Live([bs EXCEPT ![k] = b]) \subseteq Others(bs, k) \cup (IF Marked(b) THEN {b} ELSE {})
<1> DEFINE N == Len(bs)
           t == [bs EXCEPT ![k] = b]
<1>1. /\ t \in Seq(BlockRecords) /\ DOMAIN t = 1..N /\ DOMAIN bs = 1..N
      /\ \A i \in 1..N : t[i] = IF i = k THEN b ELSE bs[i]
  BY ExceptSeq
<1> HIDE DEF t
<1>2. Tidy(t)
  BY <1>1 DEF Tidy, Like
<1>3. ASSUME NEW c \in Live(t) PROVE c \in Others(bs, k) \cup (IF Marked(b) THEN {b} ELSE {})
  <2>1. PICK i \in 1..N : c = t[i] /\ Marked(c)
    BY <1>1 DEF Live
  <2>2. CASE i = k
    BY <1>1, <2>1, <2>2
  <2>3. CASE i # k
    <3>1. c = bs[i] /\ c \in Live(bs)
      BY <1>1, <2>1, <2>3 DEF Live
    <3>2. ~(Marked(bs[k]) /\ Like(c, bs[k]))
      BY <1>1, <2>1, <2>3, <3>1 DEF Tidy, Like
    <3> QED BY <3>1, <3>2 DEF Others
  <2> QED BY <2>2, <2>3
<1> QED BY <1>1, <1>2, <1>3 DEF t

LEMMA Shortened ==
  ASSUME NEW bs \in Seq(BlockRecords), Tidy(bs), NEW k \in 1..Len(bs)
  PROVE  /\ B!RemoveAt(bs, k) \in Seq(BlockRecords) /\ Tidy(B!RemoveAt(bs, k))
         /\ Live(B!RemoveAt(bs, k)) \subseteq Others(bs, k)
<1> DEFINE N == Len(bs)
           t == B!RemoveAt(bs, k)
           at(i) == IF i < k THEN i ELSE i + 1
<1>0. /\ t \in Seq(BlockRecords) /\ Len(t) = N - 1
      /\ \A i \in 1..(N - 1) : t[i] = IF i < k THEN bs[i] ELSE bs[i + 1]
  BY RemovedIs
<1>1. /\ N \in Nat /\ DOMAIN t = 1..(N - 1) /\ DOMAIN bs = 1..N
      /\ \A i \in 1..(N - 1) : t[i] = bs[at(i)] /\ at(i) \in 1..N /\ at(i) # k
  <2> HIDE DEF t
  <2>1. N \in Nat /\ DOMAIN bs = 1..N /\ DOMAIN t = 1..(N - 1)
    BY <1>0
  <2> QED BY <1>0, <2>1
<1>2. \A i, j \in 1..(N - 1) : at(i) = at(j) => i = j
  OBVIOUS
<1> HIDE DEF t, at
<1>3. Tidy(t)
  <2>1. ASSUME NEW i \in 1..(N - 1), NEW j \in 1..(N - 1),
               Marked(t[i]), Marked(t[j]), t[i].type = t[j].type, t[i].id = t[j].id
        PROVE  i = j
    <3>1. at(i) \in DOMAIN bs /\ at(j) \in DOMAIN bs /\ t[i] = bs[at(i)] /\ t[j] = bs[at(j)]
      BY <1>1
    <3>2. at(i) = at(j)
      BY <2>1, <3>1 DEF Tidy
    <3> QED BY <1>2, <3>2
  <2> QED BY <1>1, <2>1 DEF Tidy
<1>4. ASSUME NEW c \in Live(t) PROVE c \in Others(bs, k)
  <2>1. PICK i \in 1..(N - 1) : c = t[i] /\ Marked(c)
    BY <1>1 DEF Live
  <2>2. c = bs[at(i)] /\ c \in Live(bs)
    BY <1>1, <2>1 DEF Live
  <2>3. ~(Marked(bs[k]) /\ Like(c, bs[k]))
    BY <1>1, <2>1, <2>2 DEF Tidy, Like
  <2> QED BY <2>2, <2>3 DEF Others
<1> QED BY <1>0, <1>3, <1>4 DEF t

(* emit keeps one of each. *)
LEMMA StoredKeeps ==
  ASSUME NEW bs \in Seq(BlockRecords), Tidy(bs), NEW e \in EventRecords,
         e.type = "log" /\ e.content = "busy" => e \notin Live(bs)
  PROVE  /\ B!Stored(bs, e) \in Seq(BlockRecords) /\ Tidy(B!Stored(bs, e))
         /\ Live(B!Stored(bs, e)) \subseteq After(Live(bs), e)
<1>0. Len(bs) \in Nat /\ DOMAIN bs = 1..Len(bs) /\ \A i \in 1..Len(bs) : bs[i] \in BlockRecords
  BY ElementOfSeq
<1>2. CASE e.type = "text_chunk"
  <2>1. B!Stored(bs, e) = B!Joined(bs, e.text) /\ e.text \in Words /\ ~Marked(e)
    BY <1>2 DEF B!Stored, EventRecords, Marked
  <2>2. After(Live(bs), e) = Live(bs)
    BY <1>2 DEF After, Replaces, Marked
  <2> DEFINE k == Len(bs)
             b == [type |-> "text", id |-> 0, content |-> "-", text |-> e.text]
             c == [bs[k] EXCEPT !.text = bs[k].text \o e.text]
  <2>3. CASE k \in 1..Len(bs) /\ bs[k].type = "text" /\ B!Joined(bs, e.text) = [bs EXCEPT ![k] = c] /\ c \in BlockRecords
    <3>1. ~Marked(c)
      BY <2>3 DEF Marked, BlockRecords
    <3> HIDE DEF c, k
    <3>2. Live([bs EXCEPT ![k] = c]) \subseteq Others(bs, k) /\ Others(bs, k) \subseteq Live(bs)
      BY <2>3, <3>1, Rewritten DEF Others
    <3>3. [bs EXCEPT ![k] = c] \in Seq(BlockRecords) /\ Tidy([bs EXCEPT ![k] = c])
      BY <2>3, <3>1, Rewritten
    <3> QED BY <2>1, <2>2, <2>3, <3>2, <3>3
  <2>4. CASE b \in BlockRecords /\ B!Joined(bs, e.text) = Append(bs, b)
    <3>1. ~Marked(b)
      BY DEF Marked
    <3> HIDE DEF b
    <3> QED BY <2>1, <2>2, <2>4, <3>1, Lengthened
  <2> QED BY <2>1, <2>3, <2>4, JoinedIs
<1>3. CASE e.type \in {"activity", "remove"}
  <2> DEFINE is == B!Indices(bs, "activity", e.id)
             k == B!First(is)
  <2>1. is \in SUBSET (1..Len(bs)) /\ is \in SUBSET Nat
    BY IndexOf
  <2>2. \A i \in 1..Len(bs) : i \in is <=> bs[i].type = "activity" /\ bs[i].id = e.id
    BY DEF B!Indices
  <2>3. \A c \in Live(bs) : Replaces(e, c) <=> c.type = "activity" /\ c.id = e.id
    BY <1>3 DEF Replaces
  <2>4. e.type = "activity" => e \in BlockRecords /\ Marked(e)
    BY DEF BlockRecords, EventRecords, Marked
  <2>5. CASE is = {}
    <3>1. ASSUME NEW c \in Live(bs) PROVE ~Replaces(e, c)
      BY <2>2, <2>3, <2>5 DEF Live
    <3>2. Live(bs) \subseteq After(Live(bs), e)
      BY <3>1 DEF After
    <3>3. e.type = "remove" => B!Stored(bs, e) = bs
      BY <2>5 DEF B!Stored, B!Dropped
    <3>4. e.type = "activity" => B!Stored(bs, e) = Append(bs, e)
      BY <2>5 DEF B!Stored, B!Replaced
    <3>5. e.type = "activity" => \A c \in Live(bs) : ~Like(c, e)
      BY <2>3, <3>1 DEF Like
    <3>6. e.type = "activity" => Live(Append(bs, e)) \subseteq Live(bs) \cup {e} /\ e \in After(Live(bs), e)
      BY <2>4, <3>5, Lengthened DEF After
    <3>7. e.type = "activity" => Append(bs, e) \in Seq(BlockRecords) /\ Tidy(Append(bs, e))
      BY <2>4, <3>5, Lengthened
    <3> QED BY <1>3, <3>2, <3>3, <3>4, <3>6, <3>7
  <2>6. CASE is # {}
    <3>1. k \in is /\ k \in 1..Len(bs)
      BY <2>1, <2>6, FirstOf
    <3>2. bs[k].type = "activity" /\ bs[k].id = e.id /\ Marked(bs[k])
      BY <2>2, <3>1 DEF Marked
    <3>3. e.type = "remove" => B!Stored(bs, e) = B!RemoveAt(bs, k)
      BY <2>6 DEF B!Stored, B!Dropped
    <3>4. e.type = "activity" => B!Stored(bs, e) = [bs EXCEPT ![k] = e]
      BY <2>6 DEF B!Stored, B!Replaced
    <3> HIDE DEF k, is
    <3>5. Others(bs, k) \subseteq After(Live(bs), e)
      BY <2>3, <3>2 DEF Others, After, Like
    <3>6. CASE e.type = "remove"
      BY <3>1, <3>3, <3>5, <3>6, Shortened
    <3>7. CASE e.type = "activity"
      <4>1. Like(e, bs[k]) /\ e \in After(Live(bs), e)
        BY <2>4, <3>2, <3>7 DEF Like, After
      <4>2. /\ [bs EXCEPT ![k] = e] \in Seq(BlockRecords) /\ Tidy([bs EXCEPT ![k] = e])
            /\ Live([bs EXCEPT ![k] = e]) \subseteq Others(bs, k) \cup {e}
        BY <2>4, <3>1, <3>2, <3>7, <4>1, Rewritten
      <4> QED BY <3>4, <3>5, <3>7, <4>1, <4>2
    <3> QED BY <1>3, <3>6, <3>7
  <2> QED BY <2>5, <2>6
<1>4. CASE e.type = "log_update"
  <2> DEFINE is == B!Unfinished(bs, e)
             k == B!First(is)
             b == B!Block("log", e.id, e.content)
  <2>1. is \in SUBSET (1..Len(bs)) /\ is \in SUBSET Nat
    BY IndexOf DEF B!Unfinished
  <2>2. \A i \in 1..Len(bs) : i \in is <=> bs[i].type = "log" /\ bs[i].id = e.id /\ bs[i].content = "busy"
    BY DEF B!Indices, B!Unfinished
  <2>3. \A c \in Live(bs) : Replaces(e, c) <=> c.type = "log" /\ c.id = e.id
    BY <1>4 DEF Replaces
  <2>4. b \in BlockRecords /\ ~Marked(b) /\ ~Marked(e)
    BY <1>4 DEF BlockRecords, EventRecords, Marked, B!Block, Words
  <2>5. CASE is = {}
    <3>1. ASSUME NEW c \in Live(bs) PROVE ~Replaces(e, c)
      BY <2>2, <2>3, <2>5 DEF Live, Marked
    <3>2. Live(bs) \subseteq After(Live(bs), e)
      BY <3>1 DEF After
    <3>3. B!Stored(bs, e) = bs
      BY <1>4, <2>5 DEF B!Stored
    <3> QED BY <3>2, <3>3
  <2>6. CASE is # {}
    <3>1. k \in is /\ k \in 1..Len(bs)
      BY <2>1, <2>6, FirstOf
    <3>2. bs[k].type = "log" /\ bs[k].id = e.id /\ Marked(bs[k])
      BY <2>2, <3>1 DEF Marked
    <3>3. B!Stored(bs, e) = [bs EXCEPT ![k] = b]
      BY <1>4, <2>6 DEF B!Stored
    <3> HIDE DEF k, is, b
    <3>4. Others(bs, k) \subseteq After(Live(bs), e)
      BY <2>3, <3>2 DEF Others, After, Like
    <3>5. /\ [bs EXCEPT ![k] = b] \in Seq(BlockRecords) /\ Tidy([bs EXCEPT ![k] = b])
          /\ Live([bs EXCEPT ![k] = b]) \subseteq Others(bs, k)
      BY <2>4, <3>1, <3>2, Rewritten
    <3> QED BY <3>3, <3>4, <3>5
  <2> QED BY <2>5, <2>6
<1>5. CASE e.type \notin {"text_chunk", "activity", "remove", "log_update"}
  <2>1. B!Stored(bs, e) = Append(bs, e) /\ e \in BlockRecords
    BY <1>5 DEF B!Stored, BlockRecords, EventRecords
  <2>2. After(Live(bs), e) = Live(bs) \cup (IF Marked(e) THEN {e} ELSE {})
    BY <1>5 DEF After, Replaces
  <2>3. Marked(e) => \A c \in Live(bs) : ~Like(c, e)
    <3>1. SUFFICES ASSUME Marked(e), NEW c \in Live(bs), Like(c, e) PROVE FALSE
      OBVIOUS
    <3>2. e.type = "log" /\ e.content = "busy" /\ e.text = <<>>
      BY <1>5, <3>1 DEF Marked, EventRecords
    <3>3. c \in BlockRecords /\ c.type = "log" /\ c.id = e.id /\ c.content = "busy"
      BY <1>0, <3>1, <3>2 DEF Live, Marked, Like
    <3>4. c = e
      BY <2>1, <3>2, <3>3 DEF BlockRecords
    <3> QED BY <3>1, <3>2, <3>4
  <2> QED BY <2>1, <2>2, <2>3, Lengthened
<1> QED BY <1>2, <1>3, <1>4, <1>5

(* Where there is one of each, the page does what emit does. *)
LEMMA SameBlocks ==
  ASSUME NEW bs \in Seq(BlockRecords), Tidy(bs), NEW e \in EventRecords
  PROVE  B!ApplyBlock(bs, e) = B!Stored(bs, e)
<1>1. CASE e.type # "log_update"
  BY <1>1 DEF B!ApplyBlock, B!Stored
<1>2. CASE e.type = "log_update"
  <2> DEFINE is == B!Unfinished(bs, e)
  <2>0. Len(bs) \in Nat /\ DOMAIN bs = 1..Len(bs) /\ \A i \in 1..Len(bs) : bs[i] \in BlockRecords
    BY ElementOfSeq
  <2>1. is \in SUBSET (1..Len(bs)) /\ is \in SUBSET Nat
    BY IndexOf DEF B!Unfinished
  <2>2. \A i \in is : bs[i].type = "log" /\ bs[i].id = e.id /\ bs[i].content = "busy"
    BY DEF B!Indices, B!Unfinished
  <2>3. CASE is = {}
    BY <1>2, <2>3 DEF B!ApplyBlock, B!Stored
  <2>4. CASE is # {}
    <3>1. \A i, j \in is : i = j
      BY <2>0, <2>1, <2>2 DEF Tidy, Marked
    <3>2. PICK k \in is : k = B!First(is) /\ k = B!Final(is)
      <4> HIDE DEF is
      <4> QED BY <2>0, <2>1, <2>4, <3>1, FirstOf, FinalOf
    <3>3. [bs[k] EXCEPT !.content = e.content] = B!Block("log", e.id, e.content)
      BY <2>0, <2>1, <2>2 DEF BlockRecords, B!Block
    <3>4. B!Stored(bs, e) = [bs EXCEPT ![k] = B!Block("log", e.id, e.content)]
      BY <1>2, <2>4, <3>2 DEF B!Stored
    <3>5. B!ApplyBlock(bs, e) = [bs EXCEPT ![k] = [bs[k] EXCEPT !.content = e.content]]
      BY <1>2, <2>4, <3>2 DEF B!ApplyBlock
    <3> QED BY <3>3, <3>4, <3>5
  <2> QED BY <2>3, <2>4
<1> QED BY <1>1, <1>2

LEMMA AppliedTyped ==
  ASSUME NEW bs \in Seq(BlockRecords), NEW e \in EventRecords
  PROVE  B!ApplyBlock(bs, e) \in Seq(BlockRecords)
<1>0. Len(bs) \in Nat /\ \A i \in 1..Len(bs) : bs[i] \in BlockRecords
  BY ElementOfSeq
<1>1. CASE e.type = "text_chunk"
  <2>1. e.text \in Words
    BY DEF EventRecords
  <2> QED BY <1>1, <2>1, JoinedIs DEF B!ApplyBlock
<1>2. CASE e.type \in {"activity", "remove"}
  <2> DEFINE is == B!Indices(bs, "activity", e.id)
             k == B!First(is)
  <2>1. is \in SUBSET (1..Len(bs)) /\ is \in SUBSET Nat
    BY IndexOf
  <2>2. is # {} => k \in 1..Len(bs)
    <3> HIDE DEF is
    <3> QED BY <2>1, FirstOf
  <2>3. e.type = "activity" => e \in BlockRecords
    BY DEF BlockRecords, EventRecords
  <2>4. e.type = "remove" => B!ApplyBlock(bs, e) = IF is = {} THEN bs ELSE B!RemoveAt(bs, k)
    BY DEF B!ApplyBlock, B!Dropped
  <2>5. e.type = "activity" => B!ApplyBlock(bs, e) = IF is = {} THEN Append(bs, e) ELSE [bs EXCEPT ![k] = e]
    BY DEF B!ApplyBlock, B!Replaced
  <2> HIDE DEF is, k
  <2>6. e.type = "activity" => Append(bs, e) \in Seq(BlockRecords)
    BY <2>3, AppendProperties
  <2>7. is # {} => B!RemoveAt(bs, k) \in Seq(BlockRecords)
    BY <2>2, RemovedIs
  <2>8. is # {} /\ e.type = "activity" => [bs EXCEPT ![k] = e] \in Seq(BlockRecords)
    BY <2>2, <2>3, ExceptSeq
  <2> QED BY <1>2, <2>4, <2>5, <2>6, <2>7, <2>8
<1>3. CASE e.type = "log_update"
  <2> DEFINE is == B!Unfinished(bs, e)
             k == B!Final(is)
             b == [bs[k] EXCEPT !.content = e.content]
  <2>1. is \in SUBSET (1..Len(bs))
    BY IndexOf DEF B!Unfinished
  <2>2. is # {} => k \in 1..Len(bs)
    <3> HIDE DEF is
    <3> QED BY <1>0, <2>1, FinalOf
  <2>3. B!ApplyBlock(bs, e) = IF is = {} THEN bs ELSE [bs EXCEPT ![k] = b]
    BY <1>3 DEF B!ApplyBlock
  <2> HIDE DEF is, k
  <2>4. is # {} => b \in BlockRecords
    BY <1>0, <2>2 DEF BlockRecords, EventRecords
  <2> HIDE DEF b
  <2> QED BY <2>2, <2>3, <2>4, ExceptSeq
<1>4. CASE e.type \notin {"text_chunk", "activity", "remove", "log_update"}
  <2>1. B!ApplyBlock(bs, e) = Append(bs, e) /\ e \in BlockRecords
    BY <1>4 DEF B!ApplyBlock, BlockRecords, EventRecords
  <2> QED BY <2>1, AppendProperties
<1> QED BY <1>1, <1>2, <1>3, <1>4

LEMMA ReplayTyped ==
  ASSUME NEW bs \in Seq(BlockRecords), NEW s \in Seq(EventRecords)
  PROVE  B!Replay(bs, s) \in Seq(BlockRecords)
<1>0. Len(s) \in Nat /\ \A n \in 1..Len(s) : s[n] \in EventRecords
  BY ElementOfSeq
<1>f. PICK f : Replays(bs, s, f)
  BY <1>0, ReplayHas
<1>1. /\ f[0] = bs
      /\ \A n \in 1..Len(s) : f[n] = B!ApplyBlock(f[n - 1], s[n])
      /\ B!Replay(bs, s) = f[Len(s)]
  BY <1>f DEF Replays
<1> DEFINE W == {n \in 0..Len(s) : f[n] \notin Seq(BlockRecords)}
<1>2. SUFFICES ASSUME W # {} PROVE FALSE
  <2>1. Len(s) \in 0..Len(s)
    BY <1>0
  <2> QED BY <1>1, <1>2, <2>1
<1>3. W \in SUBSET Nat
  OBVIOUS
<1>4. PICK n \in W : \A k \in W : n <= k
  BY <1>2, <1>3, LeastNumber
<1>5. n # 0 /\ n \in 1..Len(s) /\ n - 1 \in 0..Len(s) /\ ~(n <= n - 1)
  BY <1>1, <1>4
<1>6. f[n - 1] \in Seq(BlockRecords)
  BY <1>4, <1>5
<1>7. f[n] \in Seq(BlockRecords)
  BY <1>0, <1>1, <1>5, <1>6, AppliedTyped
<1> QED BY <1>4, <1>7

LEMMA WordsJoin ==
  ASSUME NEW p \in Words, NEW q \in Words, NEW r \in Words
  PROVE  (p \o q) \o r = p \o (q \o r)
<1>1. PICK S : S = Nat
  OBVIOUS
<1>2. p \in Seq(S) /\ q \in Seq(S) /\ r \in Seq(S)
  BY <1>1 DEF Words
<1> QED BY <1>2, ConcatAssociative

(* Texts may be joined before they are joined to the blocks. *)
LEMMA JoinedTwice ==
  ASSUME NEW bs \in Seq(BlockRecords), NEW p \in Words, NEW s \in Words
  PROVE  B!Joined(B!Joined(bs, p), s) = B!Joined(bs, p \o s)
<1> DEFINE k == Len(bs)
           once == B!Joined(bs, p)
<1>0. k \in Nat /\ (bs # <<>> => k \in 1..k) /\ \A i \in 1..k : bs[i] \in BlockRecords
  BY EmptySeq, ElementOfSeq
<1>1. CASE bs # <<>> /\ bs[k].type = "text"
  <2> DEFINE c == [bs[k] EXCEPT !.text = bs[k].text \o p]
  <2>1. once = [bs EXCEPT ![k] = c] /\ B!Joined(bs, p \o s) = [bs EXCEPT ![k] = [bs[k] EXCEPT !.text = bs[k].text \o (p \o s)]]
    BY <1>1 DEF B!Joined, B!Last
  <2>2. bs[k] \in BlockRecords /\ bs[k].text \in Seq(Nat)
    BY <1>0, <1>1 DEF BlockRecords, Words
  <2>3. c.type = "text" /\ c.text = bs[k].text \o p
    BY <1>1, <2>2 DEF BlockRecords
  <2>4. c \in BlockRecords
    <3>1. bs[k].text \o p \in Seq(Nat)
      BY <2>2, ConcatProperties DEF Words
    <3> QED BY <1>1, <2>2, <3>1 DEF BlockRecords, Words
  <2> DEFINE t == [bs EXCEPT ![k] = c]
  <2>5. Len(t) = k /\ t[k] = c /\ t # <<>>
    <3>1. t \in Seq(BlockRecords) /\ Len(t) = k /\ \A i \in 1..k : t[i] = IF i = k THEN c ELSE bs[i]
      <4> HIDE DEF c
      <4> QED BY <1>0, <1>1, <2>4, ExceptSeq
    <3>2. k # 0 /\ t[k] = c
      BY <1>0, <1>1, <3>1
    <3>3. Len(<<>>) = 0
      OBVIOUS
    <3> HIDE DEF t
    <3> QED BY <3>1, <3>2, <3>3
  <2>6. B!Joined(t, s) = [t EXCEPT ![k] = [c EXCEPT !.text = c.text \o s]]
    <3> HIDE DEF t, c
    <3> QED BY <2>3, <2>5 DEF B!Joined, B!Last
  <2>7. c.text \o s = bs[k].text \o (p \o s)
    <3>1. PICK w \in Words : w = bs[k].text
      BY <2>2 DEF Words
    <3>2. (w \o p) \o s = w \o (p \o s)
      BY WordsJoin
    <3> QED BY <2>3, <3>1, <3>2
  <2>8. [c EXCEPT !.text = bs[k].text \o (p \o s)] = [bs[k] EXCEPT !.text = bs[k].text \o (p \o s)]
    BY <2>2 DEF BlockRecords
  <2>9. \A x : [t EXCEPT ![k] = x] = [bs EXCEPT ![k] = x]
    BY <1>0
  <2> HIDE DEF t, c
  <2> QED BY <2>1, <2>6, <2>7, <2>8, <2>9 DEF t
<1>2. CASE ~(bs # <<>> /\ bs[k].type = "text")
  <2> DEFINE b == [type |-> "text", id |-> 0, content |-> "-", text |-> p]
             t == Append(bs, b)
  <2>1. once = t /\ B!Joined(bs, p \o s) = Append(bs, [b EXCEPT !.text = p \o s])
    <3>1. ASSUME NEW x PROVE B!Joined(bs, x) = Append(bs, [b EXCEPT !.text = x])
      <4>1. [b EXCEPT !.text = x] = [type |-> "text", id |-> 0, content |-> "-", text |-> x]
        OBVIOUS
      <4> HIDE DEF b
      <4> QED BY <1>2, <4>1 DEF B!Joined, B!Last
    <3>2. [b EXCEPT !.text = p] = b
      OBVIOUS
    <3> HIDE DEF b
    <3> QED BY <3>1, <3>2
  <2>2. b \in BlockRecords /\ b.type = "text" /\ b.text = p
    BY DEF BlockRecords, Contents
  <2>3. t \in Seq(BlockRecords) /\ Len(t) = k + 1 /\ t[k + 1] = b /\ t # <<>>
    <3> HIDE DEF b
    <3> QED BY <2>2, AppendProperties
  <2>4. B!Joined(t, s) = [t EXCEPT ![k + 1] = [b EXCEPT !.text = p \o s]]
    <3> HIDE DEF t, b
    <3> QED BY <2>2, <2>3 DEF B!Joined, B!Last
  <2>5. ASSUME NEW x PROVE [t EXCEPT ![k + 1] = x] = Append(bs, x)
    <3>1. PICK S : S = BlockRecords \cup {x}
      OBVIOUS
    <3> HIDE DEF b
    <3>2. bs \in Seq(S) /\ b \in S /\ x \in S
      BY <2>2, <3>1, SeqMonotonic
    <3>3. t \in Seq(S) /\ Append(bs, x) \in Seq(S) /\ Len(Append(bs, x)) = k + 1 /\ k + 1 \in 1..Len(t)
          /\ (\A i \in 1..k : t[i] = bs[i] /\ Append(bs, x)[i] = bs[i]) /\ Append(bs, x)[k + 1] = x
      BY <2>3, <3>2, AppendProperties
    <3> HIDE DEF t
    <3>4. [t EXCEPT ![k + 1] = x] \in Seq(S) /\ Len([t EXCEPT ![k + 1] = x]) = k + 1
          /\ \A i \in 1..(k + 1) : [t EXCEPT ![k + 1] = x][i] = IF i = k + 1 THEN x ELSE t[i]
      BY <2>3, <3>2, <3>3, ExceptSeq
    <3> HIDE DEF k
    <3>5. \A i \in 1..(k + 1) : [t EXCEPT ![k + 1] = x][i] = Append(bs, x)[i]
      BY <1>0, <3>3, <3>4
    <3> QED BY <3>3, <3>4, <3>5, SeqEqual
  <2> HIDE DEF t, b
  <2> QED BY <2>1, <2>4, <2>5
<1> QED BY <1>1, <1>2

(* The same of emit *)
LEMMA EmittedExists ==
  ASSUME NEW m, NEW s, NEW N \in Nat
  PROVE  \E f : f = [n \in 0..N |-> IF n = 0 THEN m ELSE B!Sent(f[n - 1], s[n])]
<1> DEFINE Has(k) == \E f : f = [n \in 0..k |-> IF n = 0 THEN m ELSE B!Sent(f[n - 1], s[n])]
           W == {k \in Nat : ~Has(k)}
<1>1. SUFFICES ASSUME W # {} PROVE FALSE
  BY <1>1 DEF W
<1>2. PICK k \in W : \A j \in W : k <= j
  BY <1>1, LeastNumber
<1>3. k # 0
  <2>1. [n \in 0..0 |-> m] = [n \in 0..0 |-> IF n = 0 THEN m ELSE B!Sent([i \in 0..0 |-> m][n - 1], s[n])]
    OBVIOUS
  <2> QED BY <1>2, <2>1
<1>4. Has(k - 1)
  <2>1. k - 1 \in Nat /\ ~(k <= k - 1)
    BY <1>2, <1>3
  <2> QED BY <1>2, <2>1
<1>5. PICK f : f = [n \in 0..(k - 1) |-> IF n = 0 THEN m ELSE B!Sent(f[n - 1], s[n])]
  BY <1>4
<1> DEFINE g == [n \in 0..k |-> IF n = k THEN B!Sent(f[k - 1], s[k]) ELSE f[n]]
<1>6. ASSUME NEW n \in 0..k PROVE g[n] = IF n = 0 THEN m ELSE B!Sent(g[n - 1], s[n])
  <2>1. CASE n = 0
    BY <1>2, <1>3, <1>5, <2>1
  <2>2. CASE n # 0 /\ n # k
    <3>1. n \in 0..(k - 1) /\ n - 1 \in 0..(k - 1) /\ n - 1 # k
      BY <1>2, <2>2
    <3>2. g[n] = f[n] /\ g[n - 1] = f[n - 1]
      BY <1>2, <2>2, <3>1
    <3> QED BY <1>5, <2>2, <3>1, <3>2
  <2>3. CASE n = k
    <3>1. k - 1 \in 0..k /\ k - 1 # k
      BY <1>2, <1>3
    <3> QED BY <1>3, <2>3, <3>1
  <2> QED BY <2>1, <2>2, <2>3
<1>7. g = [n \in 0..k |-> IF n = 0 THEN m ELSE B!Sent(g[n - 1], s[n])]
  <2> DEFINE h == [n \in 0..k |-> IF n = 0 THEN m ELSE B!Sent(g[n - 1], s[n])]
  <2>1. \A n \in 0..k : g[n] = h[n]
    <3> HIDE DEF g
    <3> QED BY <1>6
  <2>2. DOMAIN g = 0..k /\ DOMAIN h = 0..k /\ g = [n \in 0..k |-> g[n]] /\ h = [n \in 0..k |-> h[n]]
    OBVIOUS
  <2>3. g = h
    <3> HIDE DEF g, h
    <3> QED BY <2>1, <2>2
  <2> QED BY <2>3
<1>8. Has(k)
  <2> HIDE DEF g
  <2> QED BY <1>7
<1> QED BY <1>2, <1>8

Emits(m, s, f) ==
  /\ f[0] = m
  /\ \A n \in 1..Len(s) : f[n] = B!Sent(f[n - 1], s[n])
  /\ B!Emitted(m, s) = f[Len(s)]

LEMMA EmittedHas ==
  ASSUME NEW m, NEW s, Len(s) \in Nat
  PROVE  \E f : Emits(m, s, f)
<1> DEFINE Is(f) == f = [n \in 0..Len(s) |-> IF n = 0 THEN m ELSE B!Sent(f[n - 1], s[n])]
           f == CHOOSE f : Is(f)
<1>1. Is(f)
  BY EmittedExists
<1>2. B!Emitted(m, s) = f[Len(s)]
  BY DEF B!Emitted
<1> HIDE DEF f
<1>3. f[0] = m
  BY <1>1
<1>4. ASSUME NEW n \in 1..Len(s) PROVE f[n] = B!Sent(f[n - 1], s[n])
  <2>1. n \in 0..Len(s) /\ n # 0
    OBVIOUS
  <2> QED BY <1>1, <2>1
<1> QED BY <1>2, <1>3, <1>4 DEF Emits

LEMMA EmittedIs ==
  ASSUME NEW m, NEW s, Len(s) \in Nat, NEW g, g[0] = m,
         \A n \in 1..Len(s) : g[n] = B!Sent(g[n - 1], s[n])
  PROVE  B!Emitted(m, s) = g[Len(s)]
<1>f. PICK f : Emits(m, s, f)
  BY EmittedHas
<1>1. /\ f[0] = m
      /\ \A n \in 1..Len(s) : f[n] = B!Sent(f[n - 1], s[n])
      /\ B!Emitted(m, s) = f[Len(s)]
  BY <1>f DEF Emits
<1> DEFINE W == {n \in 0..Len(s) : f[n] # g[n]}
<1>2. SUFFICES ASSUME W # {} PROVE FALSE
  <2>1. Len(s) \in 0..Len(s)
    OBVIOUS
  <2> QED BY <1>1, <1>2, <2>1
<1>3. W \in SUBSET Nat
  OBVIOUS
<1>4. PICK n \in W : \A k \in W : n <= k
  BY <1>2, <1>3, LeastNumber
<1>5. n # 0 /\ n \in 1..Len(s) /\ n - 1 \in 0..Len(s) /\ ~(n <= n - 1)
  BY <1>1, <1>4
<1>6. f[n - 1] = g[n - 1]
  BY <1>4, <1>5
<1>7. f[n] = g[n]
  BY <1>1, <1>5, <1>6
<1> QED BY <1>4, <1>7

LEMMA EmittedNone ==
  ASSUME NEW m
  PROVE  B!Emitted(m, <<>>) = m
<1>1. Len(<<>>) = 0
  OBVIOUS
<1> DEFINE g == [n \in {0} |-> m]
<1>2. g[0] = m /\ \A n \in 1..0 : g[n] = B!Sent(g[n - 1], <<>>[n])
  OBVIOUS
<1> HIDE DEF g
<1> QED BY <1>1, <1>2, EmittedIs

LEMMA EmittedMore ==
  ASSUME NEW m, NEW s \in Seq(EventRecords), NEW e \in EventRecords
  PROVE  B!Emitted(m, Append(s, e)) = B!Sent(B!Emitted(m, s), e)
<1> DEFINE N == Len(s)
           t == Append(s, e)
<1>1. N \in Nat /\ Len(t) = N + 1 /\ (\A n \in 1..N : t[n] = s[n]) /\ t[N + 1] = e
  BY AppendProperties
<1>f. PICK f : Emits(m, s, f)
  <2>1. Len(s) \in Nat
    BY <1>1
  <2> QED BY <2>1, EmittedHas
<1>2. /\ f[0] = m
      /\ \A n \in 1..N : f[n] = B!Sent(f[n - 1], s[n])
      /\ B!Emitted(m, s) = f[N]
  BY <1>f DEF Emits
<1> DEFINE g == [n \in 0..(N + 1) |-> IF n = N + 1 THEN B!Sent(f[N], e) ELSE f[n]]
<1>3. g[0] = m /\ g[N + 1] = B!Sent(f[N], e) /\ \A n \in 0..N : g[n] = f[n]
  <2>1. 0 \in 0..(N + 1) /\ N + 1 \in 0..(N + 1) /\ 0 # N + 1 /\ \A n \in 0..N : n \in 0..(N + 1) /\ n # N + 1
    BY <1>1
  <2> HIDE DEF N
  <2> QED BY <1>2, <2>1
<1> HIDE DEF g, t, N
<1>4. ASSUME NEW n \in 1..Len(t) PROVE g[n] = B!Sent(g[n - 1], t[n])
  <2>1. CASE n = N + 1
    <3>1. n - 1 = N /\ N \in 0..N
      BY <1>1, <2>1
    <3> QED BY <1>1, <1>3, <2>1, <3>1
  <2>2. CASE n # N + 1
    <3>1. n \in 1..N /\ n \in 0..N /\ n - 1 \in 0..N
      BY <1>1, <2>2
    <3> QED BY <1>1, <1>2, <1>3, <3>1
  <2> QED BY <2>1, <2>2
<1>5. B!Emitted(m, t) = g[Len(t)]
  BY <1>1, <1>3, <1>4, EmittedIs
<1> QED BY <1>1, <1>2, <1>3, <1>5 DEF t

-----------------------------------------------------------------------------
(* What an event does *)

LEMMA NothingWaits == B!Waiting(<<>>) = <<>>
BY DEF B!Waiting

LEMMA WaitingTyped ==
  ASSUME NEW p \in Words
  PROVE  B!Waiting(p) \in Seq(EventRecords) /\ (p # <<>> => B!Waiting(p) = <<B!Text(p)>> /\ B!Text(p) \in EventRecords)
<1>1. CASE p = <<>>
  BY <1>1 DEF B!Waiting
<1>2. CASE p # <<>>
  <2>1. B!Text(p) \in EventRecords
    BY <1>2 DEF B!Text, EventRecords, Contents
  <2> QED BY <1>2, <2>1 DEF B!Waiting
<1> QED BY <1>1, <1>2

LEMMA OneMore ==
  ASSUME NEW S, NEW s \in Seq(S), NEW e \in S
  PROVE  s \o <<e>> = Append(s, e) /\ s \o <<e>> \in Seq(S)
<1>1. <<e>> \in Seq(S) /\ Len(<<e>>) = 1 /\ <<e>>[1] = e
  OBVIOUS
<1>2. /\ s \o <<e>> \in Seq(S) /\ Len(s \o <<e>>) = Len(s) + 1
      /\ \A i \in 1..(Len(s) + 1) : (s \o <<e>>)[i] = IF i <= Len(s) THEN s[i] ELSE <<e>>[i - Len(s)]
  <2>1. PICK t : t = <<e>>
    OBVIOUS
  <2>2. t \in Seq(S) /\ Len(t) = 1
    BY <1>1, <2>1
  <2>3. /\ s \o t \in Seq(S) /\ Len(s \o t) = Len(s) + Len(t)
        /\ \A i \in 1..(Len(s) + Len(t)) : (s \o t)[i] = IF i <= Len(s) THEN s[i] ELSE t[i - Len(s)]
    BY <2>2, ConcatProperties
  <2> QED BY <2>1, <2>2, <2>3
<1>3. /\ Append(s, e) \in Seq(S) /\ Len(Append(s, e)) = Len(s) + 1
      /\ \A i \in 1..Len(s) : Append(s, e)[i] = s[i]
      /\ Append(s, e)[Len(s) + 1] = e
  BY AppendProperties
<1>4. Len(s) \in Nat
  OBVIOUS
<1>5. \A i \in 1..(Len(s) + 1) : (s \o <<e>>)[i] = Append(s, e)[i]
  <2>1. ASSUME NEW i \in 1..(Len(s) + 1) PROVE (s \o <<e>>)[i] = Append(s, e)[i]
    <3>1. CASE i \in 1..Len(s)
      BY <1>2, <1>3, <1>4, <3>1
    <3>2. CASE i = Len(s) + 1
      BY <1>1, <1>2, <1>3, <1>4, <3>2
    <3> QED BY <1>4, <3>1, <3>2
  <2> QED BY <2>1
<1> QED BY <1>2, <1>3, <1>5, SeqEqual

LEMMA SentIs ==
  ASSUME NEW m \in HeldRecords, NEW e
  PROVE  /\ B!Sent(m, e) = [blocks |-> B!Sent(m, e).blocks, pending |-> B!Sent(m, e).pending, queue |-> B!Sent(m, e).queue]
         /\ B!Sent(m, e).blocks = B!Stored(m.blocks, e)
         /\ e.type = "text_chunk" => B!Sent(m, e).pending = m.pending \o e.text /\ B!Sent(m, e).queue = m.queue
         /\ e.type # "text_chunk" =>
              B!Sent(m, e).pending = <<>> /\ B!Sent(m, e).queue = m.queue \o B!Waiting(m.pending) \o <<e>>
<1>1. m = [blocks |-> m.blocks, pending |-> m.pending, queue |-> m.queue]
  BY DEF HeldRecords
<1> QED BY <1>1 DEF B!Sent, B!Buffered

(* An event that is stored and held back or queued leaves the worker and the *)
(* page agreed.                                                             *)
LEMMA SentAgrees ==
  ASSUME view \in Seq(BlockRecords), NEW m, Agrees(m), NEW e \in EventRecords,
         e.type = "log" /\ e.content = "busy" => e \notin Live(m.blocks)
  PROVE  Agrees(B!Sent(m, e)) /\ Live(B!Sent(m, e).blocks) \subseteq After(Live(m.blocks), e)
<1> DEFINE bs == m.blocks
           p == m.pending
           q == m.queue
           n == B!Sent(m, e)
<1>0. m \in HeldRecords /\ bs \in Seq(BlockRecords) /\ p \in Words /\ q \in Seq(EventRecords) /\ Tidy(bs)
      /\ B!Replay(view, q \o B!Waiting(p)) = bs
  BY DEF Agrees, HeldRecords
<1>1. /\ n = [blocks |-> n.blocks, pending |-> n.pending, queue |-> n.queue]
      /\ n.blocks = B!Stored(bs, e)
      /\ e.type = "text_chunk" => n.pending = p \o e.text /\ n.queue = q
      /\ e.type # "text_chunk" => n.pending = <<>> /\ n.queue = q \o B!Waiting(p) \o <<e>>
  BY <1>0, SentIs
<1> HIDE DEF n, bs, p, q
<1>2. /\ n.blocks \in Seq(BlockRecords) /\ Tidy(n.blocks)
      /\ Live(n.blocks) \subseteq After(Live(bs), e)
  BY <1>0, <1>1, StoredKeeps DEF bs
<1>3. B!ApplyBlock(bs, e) = B!Stored(bs, e)
  BY <1>0, SameBlocks
<1>4. q \o B!Waiting(p) \in Seq(EventRecords)
  BY <1>0, WaitingTyped, ConcatProperties
<1>5. n.pending \in Words /\ n.queue \in Seq(EventRecords) /\ B!Replay(view, n.queue \o B!Waiting(n.pending)) = n.blocks
  <2>1. CASE e.type # "text_chunk"
    <3>1. n.queue = Append(q \o B!Waiting(p), e) /\ n.queue \in Seq(EventRecords)
      BY <1>1, <1>4, <2>1, OneMore
    <3>2. n.queue \o B!Waiting(n.pending) = n.queue
      BY <1>1, <2>1, <3>1, NothingWaits, ConcatEmptySeq
    <3>3. B!Replay(view, n.queue) = B!ApplyBlock(bs, e)
      BY <1>0, <1>4, <3>1, ReplayMore
    <3>4. n.pending \in Words
      <4>1. <<>> \in Words
        BY DEF Words
      <4>2. n.pending = <<>>
        BY <1>1, <2>1
      <4> QED BY <4>1, <4>2
    <3>5. n.blocks = B!ApplyBlock(bs, e)
      BY <1>1, <1>3
    <3>6. B!Replay(view, n.queue \o B!Waiting(n.pending)) = n.blocks
      BY <3>2, <3>3, <3>5
    <3> QED BY <3>1, <3>4, <3>6
  <2>2. CASE e.type = "text_chunk"
    <3>1. e.text \in Words /\ e.text # <<>> /\ B!Stored(bs, e) = B!Joined(bs, e.text)
      BY <2>2 DEF EventRecords, B!Stored
    <3> DEFINE x == B!Replay(view, q)
               w == p \o e.text
    <3>2. x \in Seq(BlockRecords)
      BY <1>0, ReplayTyped
    <3>3. w \in Words /\ w # <<>>
      BY <1>0, <3>1, ConcatProperties, ConcatEqualIffEmpty DEF Words
    <3>4. B!Text(w) \in EventRecords /\ B!Waiting(w) = <<B!Text(w)>>
      BY <3>3, WaitingTyped
    <3> HIDE DEF w
    <3>5. q \o B!Waiting(w) = Append(q, B!Text(w))
      BY <1>0, <3>4, OneMore
    <3>6. B!Replay(view, q \o B!Waiting(w)) = B!ApplyBlock(x, B!Text(w))
      BY <1>0, <3>4, <3>5, ReplayMore
    <3>7. \A t : B!ApplyBlock(x, B!Text(t)) = B!Joined(x, t)
      BY DEF B!ApplyBlock, B!Text
    <3> HIDE DEF x
    <3>8. B!Joined(x, w) = B!Joined(bs, e.text)
      <4>1. CASE p = <<>>
        <5>1. w = e.text
          BY <3>1, <4>1, ConcatEmptySeq DEF w, Words
        <5>2. q \o B!Waiting(p) = q
          BY <1>0, <4>1, NothingWaits, ConcatEmptySeq
        <5> QED BY <1>0, <5>1, <5>2 DEF x
      <4>2. CASE p # <<>>
        <5>1. B!Text(p) \in EventRecords /\ q \o B!Waiting(p) = Append(q, B!Text(p))
          BY <1>0, <4>2, WaitingTyped, OneMore
        <5>2. bs = B!ApplyBlock(x, B!Text(p))
          BY <1>0, <5>1, ReplayMore DEF x
        <5>3. bs = B!Joined(x, p)
          BY <3>7, <5>2
        <5> QED BY <1>0, <3>1, <3>2, <5>3, JoinedTwice DEF w
      <4> QED BY <4>1, <4>2
    <3> QED BY <1>0, <1>1, <2>2, <3>1, <3>3, <3>6, <3>7, <3>8 DEF w
  <2> QED BY <2>1, <2>2
<1>6. n \in HeldRecords
  BY <1>1, <1>2, <1>5 DEF HeldRecords
<1> QED BY <1>2, <1>5, <1>6 DEF Agrees, n, bs

(* How far the worker is after some events, and what may be unfinished then *)
Reached(m, es, S) == Agrees(B!Emitted(m, es)) /\ Live(B!Emitted(m, es).blocks) \subseteq S

LEMMA ReachedFirst ==
  ASSUME NEW m, Agrees(m)
  PROVE  Reached(m, <<>>, Live(m.blocks))
BY EmittedNone DEF Reached

LEMMA ReachedNext ==
  ASSUME view \in Seq(BlockRecords), NEW m, NEW es \in Seq(EventRecords), NEW S, Reached(m, es, S),
         NEW e \in EventRecords, e.type = "log" /\ e.content = "busy" => e \notin S
  PROVE  Reached(m, es \o <<e>>, After(S, e)) /\ es \o <<e>> \in Seq(EventRecords)
<1> DEFINE n == B!Emitted(m, es)
<1>1. es \o <<e>> = Append(es, e) /\ es \o <<e>> \in Seq(EventRecords)
  BY OneMore
<1>2. B!Emitted(m, es \o <<e>>) = B!Sent(n, e)
  BY <1>1, EmittedMore
<1>3. Agrees(n) /\ Live(n.blocks) \subseteq S
  BY DEF Reached
<1> HIDE DEF n
<1>4. Agrees(B!Sent(n, e)) /\ Live(B!Sent(n, e).blocks) \subseteq After(Live(n.blocks), e)
  BY <1>3, SentAgrees
<1>5. After(Live(n.blocks), e) \subseteq After(S, e)
  BY <1>3 DEF After
<1> QED BY <1>1, <1>2, <1>4, <1>5 DEF Reached

-----------------------------------------------------------------------------
(* The steps *)

LEMMA EventIs ==
  ASSUME NEW type \in {"log", "log_update", "activity", "remove"} \cup Singles, NEW id \in Nat,
         NEW content \in Contents, type = "log_update" => content # "busy"
  PROVE  /\ B!Block(type, id, content) \in EventRecords
         /\ B!Block(type, id, content).type = type /\ B!Block(type, id, content).id = id
         /\ B!Block(type, id, content).content = content
<1>1. <<>> \in Words
  BY DEF Words
<1> QED BY <1>1 DEF B!Block, EventRecords, Singles

LEMMA TextIs ==
  ASSUME NEW n \in Nat
  PROVE  B!Text(<<n>>) \in EventRecords /\ B!Text(<<n>>).type = "text_chunk"
<1>1. <<n>> \in Words /\ <<n>> # <<>>
  BY DEF Words
<1> QED BY <1>1, WaitingTyped DEF B!Text

LEMMA EmitsFrom ==
  ASSUME NEW bs, NEW q, NEW es, NEW S, B!EmitFrom(bs, q, es),
         Reached([blocks |-> bs, pending |-> pending, queue |-> q], es, S)
  PROVE  Agrees(Held)' /\ Live(blocks') \subseteq S /\ view' = view /\ stopped' = stopped /\ ~stopped
<1> DEFINE m == B!Emitted([blocks |-> bs, pending |-> pending, queue |-> q], es)
<1>1. /\ blocks' = m.blocks /\ pending' = m.pending /\ queue' = m.queue
      /\ view' = view /\ stopped' = stopped /\ ~stopped
  BY DEF B!EmitFrom
<1>2. Agrees(m) /\ Live(m.blocks) \subseteq S
  BY DEF Reached
<1> HIDE DEF m
<1>3. m = [blocks |-> m.blocks, pending |-> m.pending, queue |-> m.queue]
  BY <1>2 DEF Agrees, HeldRecords
<1>4. Held' = m
  BY <1>1, <1>3 DEF Held
<1>5. Agrees(Held)'
  BY <1>1, <1>2, <1>4 DEF Agrees
<1> QED BY <1>1, <1>2, <1>5

LEMMA ReachedOne ==
  ASSUME view \in Seq(BlockRecords), NEW m, Agrees(m), NEW e \in EventRecords,
         e.type = "log" /\ e.content = "busy" => e \notin Live(m.blocks)
  PROVE  Reached(m, <<e>>, After(Live(m.blocks), e)) /\ <<e>> \in Seq(EventRecords)
<1>1. <<>> \in Seq(EventRecords) /\ <<>> \o <<e>> = <<e>>
  OBVIOUS
<1>2. Reached(m, <<>>, Live(m.blocks))
  BY ReachedFirst
<1>3. Reached(m, <<>> \o <<e>>, After(Live(m.blocks), e))
  BY <1>1, <1>2, ReachedNext
<1> QED BY <1>1, <1>3

LEMMA AppendIs ==
  ASSUME NEW S, NEW s \in Seq(S), NEW e \in S
  PROVE  /\ Append(s, e) \in Seq(S) /\ Len(Append(s, e)) = Len(s) + 1
         /\ \A i \in 1..Len(s) : Append(s, e)[i] = s[i]
         /\ Append(s, e)[Len(s) + 1] = e
BY AppendProperties

LEMMA AppendOne ==
  ASSUME NEW S, NEW s \in Seq(S), Len(s) = 1, NEW e \in S
  PROVE  /\ Append(s, e) \in Seq(S) /\ Len(Append(s, e)) = 2
         /\ Append(s, e)[1] = s[1] /\ Append(s, e)[2] = e
<1>1. /\ Append(s, e) \in Seq(S) /\ Len(Append(s, e)) = Len(s) + 1
      /\ \A i \in 1..Len(s) : Append(s, e)[i] = s[i]
      /\ Append(s, e)[Len(s) + 1] = e
  BY AppendIs, Zenon
<1>2. Len(s) + 1 = 2 /\ 1 \in 1..Len(s)
  OBVIOUS
<1> QED BY <1>1, <1>2

LEMMA TwoEvents ==
  ASSUME NEW d \in EventRecords, NEW e \in EventRecords
  PROVE  <<d>> \o <<e>> = <<d, e>> /\ <<d>> \in Seq(EventRecords) /\ <<e>> \in Seq(EventRecords)
<1>1. <<e>> \in Seq(EventRecords) /\ <<d, e>> \in Seq(EventRecords) /\ Len(<<d, e>>) = 2
      /\ <<d, e>>[1] = d /\ <<d, e>>[2] = e /\ Len(<<d>>) = 1 /\ <<d>>[1] = d /\ <<d>> \in Seq(EventRecords)
  OBVIOUS
<1>2. PICK one : one = <<d>>
  OBVIOUS
<1>3. one \in Seq(EventRecords) /\ Len(one) = 1 /\ one[1] = d
  BY <1>1, <1>2
<1>4. /\ Append(one, e) \in Seq(EventRecords) /\ Len(Append(one, e)) = 2
      /\ Append(one, e)[1] = d /\ Append(one, e)[2] = e
  BY <1>3, AppendOne
<1>5. PICK two : two = <<d, e>>
  OBVIOUS
<1>6. two \in Seq(EventRecords) /\ Len(two) = 2 /\ two[1] = d /\ two[2] = e
  BY <1>1, <1>5
<1>7. PICK app : app = Append(one, e)
  OBVIOUS
<1>8. app \in Seq(EventRecords) /\ Len(app) = 2 /\ app[1] = d /\ app[2] = e
  BY <1>4, <1>7
<1>9. \A i \in 1..2 : app[i] = two[i]
  <2>1. \A i \in 1..2 : i = 1 \/ i = 2
    OBVIOUS
  <2> QED BY <1>6, <1>8, <2>1
<1>10. app = two
  BY <1>6, <1>8, <1>9, SeqEqual
<1>11. <<d>> \o <<e>> = Append(<<d>>, e)
  BY <1>1, OneMore
<1> QED BY <1>1, <1>2, <1>5, <1>7, <1>10, <1>11

(* What a sequence is whose next to last element may change *)
Ends(S, s, r, a, b) ==
  s = Append(Append(r, a), b) /\ \A x \in S : [s EXCEPT ![Len(s) - 1] = x] = Append(Append(r, x), b)

LEMMA NextToLast ==
  ASSUME NEW S, NEW s \in Seq(S), Len(s) >= 2, NEW a, NEW b, s[Len(s) - 1] = a, s[Len(s)] = b
  PROVE  \E r \in Seq(S) : Ends(S, s, r, a, b)
<1> DEFINE N == Len(s)
           r == SubSeq(s, 1, N - 2)
<1>0. N \in Nat /\ N - 1 \in 1..N /\ N \in 1..N /\ \A i \in 1..N : s[i] \in S
  BY ElementOfSeq
<1>1. a \in S /\ b \in S
  BY <1>0
<1>2. r \in Seq(S) /\ Len(r) = N - 2 /\ \A i \in 1..(N - 2) : r[i] = s[i]
  <2>1. \A i \in 1..(N - 2) : s[i] \in S
    BY <1>0
  <2>2. /\ r \in Seq(S)
        /\ Len(r) = IF 1 <= N - 2 THEN (N - 2) - 1 + 1 ELSE 0
        /\ \A i \in 1..((N - 2) - 1 + 1) : r[i] = s[1 + i - 1]
    BY <1>0, <2>1, SubSeqProperties
  <2> HIDE DEF r
  <2>3. N \in Nat /\ N >= 2
    BY <1>0
  <2> HIDE DEF N
  <2>4. (N - 2) - 1 + 1 = N - 2 /\ (1 <= N - 2 \/ N - 2 = 0) /\ \A i \in 1..(N - 2) : 1 + i - 1 = i
    BY <2>3
  <2>5. Len(r) = N - 2
    BY <2>2, <2>4
  <2>6. ASSUME NEW i \in 1..(N - 2) PROVE r[i] = s[i]
    <3>1. i \in 1..((N - 2) - 1 + 1)
      BY <2>4
    <3>2. r[i] = s[1 + i - 1]
      BY <2>2, <3>1
    <3> QED BY <2>4, <3>2
  <2> QED BY <2>2, <2>5, <2>6
<1> HIDE DEF r
<1>3. ASSUME NEW x \in S PROVE [s EXCEPT ![N - 1] = x] = Append(Append(r, x), b)
  <2> DEFINE t == Append(r, x)
             u == [s EXCEPT ![N - 1] = x]
  <2>1. t \in Seq(S) /\ Len(t) = N - 1 /\ (\A i \in 1..(N - 2) : t[i] = s[i]) /\ t[N - 1] = x
    BY <1>0, <1>2, AppendProperties
  <2> HIDE DEF t
  <2>2. /\ Append(t, b) \in Seq(S) /\ Len(Append(t, b)) = N
        /\ (\A i \in 1..(N - 1) : Append(t, b)[i] = t[i]) /\ Append(t, b)[N] = b
    BY <1>0, <1>1, <2>1, AppendProperties
  <2>3. u \in Seq(S) /\ Len(u) = N /\ \A i \in 1..N : u[i] = IF i = N - 1 THEN x ELSE s[i]
    BY <1>0, ExceptSeq
  <2>7. s[N] = b /\ N >= 2
    OBVIOUS
  <2> HIDE DEF u, N
  <2>4. ASSUME NEW i \in 1..N PROVE u[i] = Append(t, b)[i]
    <3>1. CASE i = N
      <4>1. u[i] = s[N] /\ s[N] = b
        BY <1>0, <2>3, <3>1, <2>7
      <4> QED BY <2>2, <3>1, <4>1
    <3>2. CASE i = N - 1
      <4>1. u[i] = x /\ i \in 1..(N - 1)
        BY <1>0, <2>3, <2>7, <3>2
      <4>2. Append(t, b)[i] = t[i]
        BY <2>2, <4>1
      <4> QED BY <2>1, <3>2, <4>1, <4>2
    <3>3. CASE i \in 1..(N - 2)
      <4>1. i \in 1..(N - 1) /\ i # N - 1
        BY <1>0, <3>3
      <4>2. i \in 1..N
        BY <1>0, <3>3
      <4>3. u[i] = s[i]
        BY <2>3, <4>1, <4>2
      <4>4. Append(t, b)[i] = t[i] /\ t[i] = s[i]
        BY <2>1, <2>2, <3>3, <4>1
      <4> QED BY <4>3, <4>4
    <3>4. N \in Nat /\ N - 1 \in 1..N
      BY <1>0
    <3>5. i = N \/ i = N - 1 \/ i \in 1..(N - 2)
      BY <3>4
    <3> QED BY <3>1, <3>2, <3>3, <3>5
  <2>5. u = Append(t, b)
    BY <2>2, <2>3, <2>4, SeqEqual
  <2> QED BY <2>5 DEF t, u
<1>4. [s EXCEPT ![N - 1] = a] = s
  OBVIOUS
<1>5. s = Append(Append(r, a), b)
  BY <1>1, <1>3, <1>4
<1> QED BY <1>1, <1>2, <1>3, <1>5 DEF Ends

LEMMA LiveIs ==
  ASSUME NEW bs \in Seq(BlockRecords), NEW b \in Live(bs)
  PROVE  /\ b \in BlockRecords /\ Marked(b) /\ b.id \in Nat
         /\ b.type = "activity" \/ (b.type = "log" /\ b.content = "busy")
<1>1. b \in BlockRecords
  BY DEF Live
<1> QED BY <1>1 DEF Live, Marked, BlockRecords

LEMMA BlocksAre ==
  ASSUME BlocksKept
  PROVE  /\ view \in Seq(BlockRecords) /\ Agrees(Held) /\ blocks \in Seq(BlockRecords)
         /\ pending \in Words /\ queue \in Seq(EventRecords)
         /\ RunKept /\ LiveKept /\ Held.blocks = blocks
<1>1. Held.blocks = blocks /\ Held.pending = pending /\ Held.queue = queue
  BY DEF Held
<1>2. Held \in HeldRecords /\ view \in Seq(BlockRecords) /\ Agrees(Held) /\ RunKept /\ LiveKept
  BY DEF BlocksKept, Agrees
<1>3. blocks \in Seq(BlockRecords) /\ pending \in Words /\ queue \in Seq(EventRecords)
  BY <1>1, <1>2 DEF HeldRecords
<1> QED BY <1>1, <1>2, <1>3

LEMMA SomeKeep ==
  ASSUME BlocksKept, NEW bs, NEW q, NEW es, NEW S, B!EmitFrom(bs, q, es),
         Reached([blocks |-> bs, pending |-> pending, queue |-> q], es, S),
         RunKept', stage' # "sql", \A b \in S : b \in Live(blocks') => MayLive(b)'
  PROVE  BlocksKept'
<1>1. Agrees(Held)' /\ Live(blocks') \subseteq S /\ view' = view
  BY EmitsFrom
<1>2. view' \in Seq(BlockRecords)
  BY <1>1, BlocksAre
<1>3. LiveKept'
  BY <1>1 DEF LiveKept
<1> QED BY <1>1, <1>2, <1>3 DEF BlocksKept

LEMMA NoneKeep ==
  ASSUME BlocksKept, B!Emit(<<>>), RunKept', stage' # "sql", \A b \in Live(blocks) : MayLive(b)'
  PROVE  BlocksKept'
<1>1. Reached(Held, <<>>, Live(blocks))
  BY BlocksAre, ReachedFirst
<1> QED BY <1>1, SomeKeep DEF B!Emit, Held

LEMMA OneKeeps ==
  ASSUME BlocksKept, NEW e \in EventRecords, B!Emit(<<e>>), e.type = "log" /\ e.content = "busy" => e \notin Live(blocks),
         RunKept', stage' # "sql", \A b \in After(Live(blocks), e) : MayLive(b)'
  PROVE  BlocksKept'
<1>1. Reached(Held, <<e>>, After(Live(blocks), e))
  BY BlocksAre, ReachedOne
<1> QED BY <1>1, SomeKeep DEF B!Emit, Held

(* An event that is not to be finished *)
LEMMA AfterQuiet ==
  ASSUME NEW S, NEW e, ~Marked(e)
  PROVE  \A b \in After(S, e) : b \in S /\ ~Replaces(e, b)
BY DEF After

LEMMA AfterAny ==
  ASSUME NEW S, NEW e
  PROVE  \A b \in After(S, e) : b = e \/ (b \in S /\ ~Replaces(e, b))
BY DEF After

LEMMA NoticeKeeps ==
  ASSUME BlocksKept, B!MemoryNotice PROVE BlocksKept'
<1>1. PICK e : e = B!Other("memory_notice")
  OBVIOUS
<1>2. e \in EventRecords /\ e.type = "memory_notice"
  BY <1>1, EventIs DEF B!Other, Singles, Contents
<1>3. B!Emit(<<e>>) /\ UNCHANGED <<stage, round, called, said, activity, title>> /\ stage = "asking" /\ stopped' = stopped
  BY <1>1 DEF B!MemoryNotice, B!titles, B!Emit, B!EmitFrom
<1>4. RunKept' /\ stage' # "sql"
  BY <1>3, BlocksAre DEF RunKept
<1>5. ASSUME NEW b \in After(Live(blocks), e) PROVE MayLive(b)'
  <2>1. b \in Live(blocks)
    BY <1>2, AfterQuiet DEF Marked
  <2>2. MayLive(b)
    BY <2>1, BlocksAre DEF LiveKept
  <2> QED BY <1>3, <2>2 DEF MayLive
<1> QED BY <1>2, <1>3, <1>4, <1>5, OneKeeps

LEMMA RoundKeeps ==
  ASSUME MaxRounds \in Nat, BlocksKept, B!Round PROVE BlocksKept'
<1>0. round \in Nat /\ round + 1 <= MaxRounds /\ round' = round + 1 /\ stage = "asking" /\ stage' = "round"
      /\ called' = called /\ said' = said /\ activity' = activity /\ ~activity /\ title' = title
  BY BlocksAre DEF B!Round, B!titles, RunKept
<1>1. PICK n \in Nat : n = round + 1
  BY <1>0
<1>2. PICK e : e = B!Block("log", n, "busy")
  OBVIOUS
<1>3. e \in EventRecords /\ e.type = "log" /\ e.id = n /\ e.content = "busy"
  BY <1>2, EventIs DEF Contents
<1>4. B!Emit(<<e>>) /\ stopped' = stopped
  BY <1>0, <1>1, <1>2 DEF B!Round, B!titles, B!Emit, B!EmitFrom, B!RoundLog
<1>5. RunKept' /\ stage' # "sql"
  BY <1>0, <1>1, BlocksAre DEF RunKept
<1>6. ASSUME NEW b \in Live(blocks) PROVE MayLive(b) /\ b # e /\ MayLive(b)'
  <2>1. MayLive(b) /\ b \in BlockRecords
    BY BlocksAre, LiveIs DEF LiveKept
  <2>2. b.type = "log" => b.id \in 1..round
    BY <1>0, <2>1 DEF MayLive
  <2> QED BY <1>0, <1>1, <1>3, <2>1, <2>2 DEF MayLive
<1>7. ASSUME NEW b \in After(Live(blocks), e) PROVE MayLive(b)'
  <2>1. n \in 1..round'
    BY <1>0, <1>1
  <2>2. MayLive(e)'
    BY <1>3, <2>1 DEF MayLive
  <2> QED BY <1>6, <2>2, AfterAny
<1> QED BY <1>3, <1>4, <1>5, <1>6, <1>7, OneKeeps

LEMMA SayKeeps ==
  ASSUME BlocksKept, B!Say PROVE BlocksKept'
<1>0. said \in Nat /\ said' = said + 1 /\ UNCHANGED <<stage, round, called, activity, title>> /\ stage = "round"
  BY BlocksAre DEF B!Say, B!titles, RunKept
<1>1. PICK n \in Nat : n = said + 1
  BY <1>0
<1>2. PICK e : e = B!Text(<<n>>)
  OBVIOUS
<1>3. e \in EventRecords /\ e.type = "text_chunk"
  BY <1>2, TextIs
<1>4. B!Emit(<<e>>) /\ stopped' = stopped
  BY <1>0, <1>1, <1>2 DEF B!Say, B!titles, B!Emit, B!EmitFrom
<1>5. RunKept' /\ stage' # "sql"
  BY <1>0, <1>1, <1>4, BlocksAre DEF RunKept
<1>6. ASSUME NEW b \in After(Live(blocks), e) PROVE MayLive(b)'
  <2>1. b \in Live(blocks)
    BY <1>3, AfterQuiet DEF Marked
  <2>2. MayLive(b)
    BY <2>1, BlocksAre DEF LiveKept
  <2> QED BY <1>0, <2>2 DEF MayLive
<1> QED BY <1>3, <1>4, <1>5, <1>6, OneKeeps

LEMMA EndOfRoundKeeps ==
  ASSUME BlocksKept, B!Shorten \/ B!EndRound PROVE BlocksKept'
<1>1. PICK content \in {"done", "adjust"} : B!Emit(<<B!RoundUpdate(content)>>)
  BY DEF B!Shorten, B!EndRound, B!titles
<1>2. UNCHANGED <<round, called, said, activity, title>> /\ stage = "round" /\ stage' = "asking"
  BY DEF B!Shorten, B!EndRound, B!titles
<1>3. PICK n : n = round'
  OBVIOUS
<1>4. PICK e : e = B!Block("log_update", n, content)
  OBVIOUS
<1>5. e \in EventRecords /\ e.type = "log_update"
  <2>1. n \in Nat
    BY <1>2, <1>3, BlocksAre DEF RunKept
  <2> QED BY <1>4, <2>1, EventIs DEF Contents
<1>6. B!Emit(<<e>>) /\ stopped' = stopped
  BY <1>1, <1>3, <1>4 DEF B!RoundUpdate, B!Emit, B!EmitFrom
<1>7. RunKept' /\ stage' # "sql"
  BY <1>2, <1>6, BlocksAre DEF RunKept
<1>8. ASSUME NEW b \in After(Live(blocks), e) PROVE MayLive(b)'
  <2>1. b \in Live(blocks)
    BY <1>5, AfterQuiet DEF Marked
  <2>2. MayLive(b)
    BY <2>1, BlocksAre DEF LiveKept
  <2> QED BY <1>2, <2>2 DEF MayLive
<1> QED BY <1>5, <1>6, <1>7, <1>8, OneKeeps

LEMMA AskAgainKeeps ==
  ASSUME BlocksKept, B!AskAgain PROVE BlocksKept'
<1>1. UNCHANGED <<round, called, said, activity, title>> /\ stage = "round" /\ stage' = "asking"
      /\ B!Emit(<<>>) /\ stopped' = stopped
  BY DEF B!AskAgain, B!titles, B!Emit, B!EmitFrom
<1>2. RunKept' /\ stage' # "sql"
  BY <1>1, BlocksAre DEF RunKept
<1>3. ASSUME NEW b \in Live(blocks) PROVE MayLive(b)'
  <2>1. MayLive(b)
    BY BlocksAre DEF LiveKept
  <2> QED BY <1>1, <2>1 DEF MayLive
<1> QED BY <1>1, <1>2, <1>3, NoneKeep

(* A call that is shown, or is not *)
LEMMA NewCallKeeps ==
  ASSUME BlocksKept, B!Refuse \/ B!StartCall PROVE BlocksKept'
<1>1. /\ stage = "round" /\ stage' \in {"round", "call"} /\ UNCHANGED <<round, said, title>>
      /\ called' = called + 1 /\ called \in Nat /\ activity = FALSE
      /\ activity' \in BOOLEAN /\ (stage' = "round" => activity' = FALSE)
  BY BlocksAre DEF B!Refuse, B!StartCall, B!titles, RunKept
<1>2. PICK n \in Nat : n = called + 1
  BY <1>1
<1>3. B!Emit(<<>>) \/ \E status \in {"running", "warning"} :
        B!Emit(<<B!Activity(status)>>) /\ (status = "running" => activity' = TRUE)
  BY DEF B!Refuse, B!StartCall, B!titles
<1>4. RunKept' /\ stage' # "sql"
  <2>1. stopped' = stopped
    BY DEF B!Refuse, B!StartCall, B!titles, B!Emit, B!EmitFrom
  <2> QED BY <1>1, <1>2, <2>1, BlocksAre DEF RunKept
<1>5. ASSUME NEW b \in Live(blocks) PROVE MayLive(b)'
  <2>1. MayLive(b) /\ b.id \in Nat
    BY BlocksAre, LiveIs DEF LiveKept
  <2> QED BY <1>1, <1>2, <2>1 DEF MayLive
<1>6. CASE B!Emit(<<>>)
  BY <1>4, <1>5, <1>6, NoneKeep
<1>7. CASE ~B!Emit(<<>>)
  <2>1. PICK status \in {"running", "warning"} : B!Emit(<<B!Activity(status)>>) /\ (status = "running" => activity' = TRUE)
    BY <1>3, <1>7
  <2>2. PICK e : e = B!Block("activity", n, status)
    OBVIOUS
  <2>3. e \in EventRecords /\ e.type = "activity" /\ e.id = n /\ e.content = status
    BY <2>2, EventIs DEF Contents
  <2>4. B!Emit(<<e>>)
    BY <1>1, <1>2, <2>1, <2>2 DEF B!Activity
  <2>5. MayLive(e)'
    BY <1>1, <1>2, <2>1, <2>3 DEF MayLive
  <2>6. \A b \in After(Live(blocks), e) : MayLive(b)'
    BY <1>5, <2>5, AfterAny
  <2> QED BY <1>4, <2>3, <2>4, <2>6, OneKeeps
<1> QED BY <1>6, <1>7

LEMMA QueryDoneKeeps ==
  ASSUME MaxRounds \in Nat, BlocksKept, B!QueryDone PROVE BlocksKept'
<1>1. UNCHANGED <<round, called, said, activity, title>> /\ stage = "sql" /\ stage' = "called"
      /\ B!Emit(<<B!QueryUpdate("done")>>) /\ stopped' = stopped
  BY DEF B!QueryDone, B!titles, B!Emit, B!EmitFrom
<1>2. PICK e : e = B!QueryUpdate("done")
  OBVIOUS
<1>3. e \in EventRecords /\ e.type = "log_update" /\ e.id = title
  <2>1. title \in Nat
    BY BlocksAre DEF RunKept
  <2> QED BY <1>2, <2>1, EventIs DEF B!QueryUpdate, Contents
<1>4. RunKept' /\ stage' # "sql"
  BY <1>1, BlocksAre DEF RunKept
<1>5. ASSUME NEW b \in After(Live(blocks), e) PROVE MayLive(b)'
  <2>1. b \in Live(blocks) /\ ~Replaces(e, b)
    BY <1>3, AfterQuiet DEF Marked
  <2>2. MayLive(b)
    BY <2>1, BlocksAre DEF LiveKept
  <2>3. b.type = "log" => b.id # title
    BY <1>3, <2>1 DEF Replaces
  <2> QED BY <1>1, <2>2, <2>3 DEF MayLive
<1> QED BY <1>1, <1>2, <1>3, <1>4, <1>5, OneKeeps

LEMMA ShowKeeps ==
  ASSUME BlocksKept, B!Show PROVE BlocksKept'
<1>1. UNCHANGED <<round, called, said, activity, title>> /\ stage = "call" /\ stage' = "called"
      /\ B!Emit(<<B!Other("chart")>>) /\ stopped' = stopped
  BY DEF B!Show, B!titles, B!Emit, B!EmitFrom
<1>2. PICK e : e = B!Other("chart")
  OBVIOUS
<1>3. e \in EventRecords /\ e.type = "chart"
  BY <1>2, EventIs DEF B!Other, Singles, Contents
<1>4. RunKept' /\ stage' # "sql"
  BY <1>1, BlocksAre DEF RunKept
<1>5. ASSUME NEW b \in After(Live(blocks), e) PROVE MayLive(b)'
  <2>1. b \in Live(blocks)
    BY <1>3, AfterQuiet DEF Marked
  <2>2. MayLive(b)
    BY <2>1, BlocksAre DEF LiveKept
  <2> QED BY <1>1, <2>2 DEF MayLive
<1> QED BY <1>1, <1>2, <1>3, <1>4, <1>5, OneKeeps

(* The call is over, and its activity has a result. *)
LEMMA EndOfCallKeeps ==
  ASSUME BlocksKept, B!Complete \/ B!Correct PROVE BlocksKept'
<1>1. UNCHANGED <<round, called, said, title>> /\ stage \in {"call", "called"} /\ stage' = "round" /\ activity' = FALSE
  BY DEF B!Complete, B!Correct, B!titles
<1>2. activity \in BOOLEAN /\ called \in Nat
  BY BlocksAre DEF RunKept
<1>3. PICK status \in {"completed", "warning"} : B!Emit(IF activity THEN <<B!Activity(status)>> ELSE <<>>)
  BY DEF B!Complete, B!Correct, B!titles, B!ReportFailure
<1>4. RunKept' /\ stage' # "sql"
  <2>1. stopped' = stopped
    BY <1>3 DEF B!Emit, B!EmitFrom
  <2> QED BY <1>1, <2>1, BlocksAre DEF RunKept
<1>5. ASSUME NEW b \in Live(blocks) PROVE MayLive(b) /\ (b.type = "log" => MayLive(b)')
  <2>1. MayLive(b)
    BY BlocksAre DEF LiveKept
  <2> QED BY <1>1, <2>1 DEF MayLive
<1>6. CASE ~activity
  <2>1. B!Emit(<<>>)
    BY <1>3, <1>6
  <2>2. \A b \in Live(blocks) : MayLive(b)'
    BY <1>1, <1>5, <1>6 DEF MayLive
  <2> QED BY <1>4, <2>1, <2>2, NoneKeep
<1>7. CASE activity
  <2>1. PICK e : e = B!Block("activity", called, status)
    OBVIOUS
  <2>2. e \in EventRecords /\ e.type = "activity" /\ e.id = called /\ e.content = status
    BY <1>2, <2>1, EventIs DEF Contents
  <2>3. B!Emit(<<e>>)
    BY <1>1, <1>3, <1>7, <2>1 DEF B!Activity
  <2>4. ASSUME NEW b \in After(Live(blocks), e) PROVE MayLive(b)'
    <3>1. CASE b \in Live(blocks) /\ ~Replaces(e, b)
      <4>1. b.type = "activity" => b.id # called
        BY <2>2, <3>1 DEF Replaces
      <4> QED BY <1>1, <1>5, <3>1, <4>1 DEF MayLive
    <3>2. CASE b = e
      <4>1. b.type = "activity" /\ b.content # "running" /\ b.id = called
        BY <2>2, <3>2
      <4>2. called \in 1..called
        <5>1. called # 0
          BY <1>7, BlocksAre DEF RunKept
        <5> QED BY <1>2, <5>1
      <4> QED BY <1>1, <4>1, <4>2 DEF MayLive
    <3> QED BY <3>1, <3>2, AfterAny
  <2> QED BY <1>4, <2>2, <2>3, <2>4, OneKeeps
<1> QED BY <1>6, <1>7

LEMMA StopKeeps ==
  ASSUME BlocksKept, B!Stop PROVE BlocksKept'
<1>1. stopped' = TRUE /\ stage' = "failing" /\ UNCHANGED <<blocks, pending, queue, view, round, called, said, activity, title>>
  BY DEF B!Stop, B!titles
<1>2. Held' = Held /\ Agrees(Held)'
  <2>1. Held' = Held
    BY <1>1 DEF Held
  <2> QED BY <1>1, <2>1, BlocksAre DEF Agrees
<1>3. RunKept'
  BY <1>1, BlocksAre DEF RunKept
<1>4. LiveKept'
  <2>1. ASSUME NEW b \in Live(blocks) PROVE MayLive(b)'
    <3>1. MayLive(b)
      BY BlocksAre DEF LiveKept
    <3> QED BY <1>1, <3>1 DEF MayLive
  <2>2. Live(blocks') = Live(blocks)
    BY <1>1
  <2> QED BY <2>1, <2>2 DEF LiveKept
<1> QED BY <1>1, <1>2, <1>3, <1>4, BlocksAre DEF BlocksKept

(* The first of the events that wait is the first of the queue. *)
LEMMA FirstOfQueue ==
  ASSUME NEW s \in Seq(EventRecords), s # <<>>, NEW t \in Seq(EventRecords)
  PROVE  /\ s \o t \in Seq(EventRecords) /\ s \o t # <<>>
         /\ Head(s \o t) = Head(s) /\ Tail(s \o t) = Tail(s) \o t
         /\ Head(s) \in EventRecords /\ Tail(s) \in Seq(EventRecords)
         /\ Len(Tail(s)) = Len(s) - 1 /\ \A i \in 1..(Len(s) - 1) : Tail(s)[i] = s[i + 1]
<1>1. Len(s) \in Nat \ {0} /\ Len(t) \in Nat
  BY EmptySeq
<1>2. /\ Head(s) \in EventRecords /\ Tail(s) \in Seq(EventRecords) /\ Head(s) = s[1]
      /\ Len(Tail(s)) = Len(s) - 1 /\ \A i \in 1..(Len(s) - 1) : Tail(s)[i] = s[i + 1]
  BY <1>1, HeadTailProperties
<1>3. PICK c : c = s \o t
  OBVIOUS
<1>4. /\ c \in Seq(EventRecords) /\ Len(c) = Len(s) + Len(t)
      /\ \A i \in 1..(Len(s) + Len(t)) : c[i] = IF i <= Len(s) THEN s[i] ELSE t[i - Len(s)]
  BY <1>3, ConcatProperties
<1>5. c # <<>>
  BY <1>1, <1>4, EmptySeq
<1>6. /\ Tail(c) \in Seq(EventRecords) /\ Head(c) = c[1] /\ Len(Tail(c)) = Len(c) - 1
      /\ \A i \in 1..(Len(c) - 1) : Tail(c)[i] = c[i + 1]
  BY <1>1, <1>4, <1>5, HeadTailProperties
<1>7. PICK u : u = Tail(s)
  OBVIOUS
<1>8. PICK d : d = u \o t
  OBVIOUS
<1>9. /\ d \in Seq(EventRecords) /\ Len(d) = Len(u) + Len(t)
      /\ \A i \in 1..(Len(u) + Len(t)) : d[i] = IF i <= Len(u) THEN u[i] ELSE t[i - Len(u)]
  BY <1>2, <1>7, <1>8, ConcatProperties
<1>10. Len(u) = Len(s) - 1 /\ \A i \in 1..(Len(s) - 1) : u[i] = s[i + 1]
  BY <1>2, <1>7
<1>11. PICK v : v = Tail(c)
  OBVIOUS
<1>12. Len(v) = Len(s) + Len(t) - 1 /\ \A i \in 1..(Len(s) + Len(t) - 1) : v[i] = c[i + 1]
  BY <1>1, <1>4, <1>6, <1>11
<1>13. ASSUME NEW i \in 1..(Len(s) + Len(t) - 1) PROVE v[i] = d[i]
  <2>1. i + 1 \in 1..(Len(s) + Len(t)) /\ i \in 1..(Len(u) + Len(t)) /\ v[i] = c[i + 1]
    BY <1>1, <1>10, <1>12
  <2>2. CASE i <= Len(s) - 1
    <3>1. i \in 1..(Len(s) - 1) /\ i + 1 <= Len(s) /\ i <= Len(u)
      BY <1>1, <1>10, <2>2
    <3>2. c[i + 1] = s[i + 1]
      BY <1>4, <2>1, <3>1
    <3>3. d[i] = u[i] /\ u[i] = s[i + 1]
      BY <1>9, <1>10, <2>1, <3>1
    <3> QED BY <2>1, <3>2, <3>3
  <2>3. CASE ~(i <= Len(s) - 1)
    <3>1. ~(i + 1 <= Len(s)) /\ ~(i <= Len(u)) /\ i - Len(u) = (i + 1) - Len(s)
      BY <1>1, <1>10, <2>3
    <3>2. c[i + 1] = t[(i + 1) - Len(s)]
      BY <1>4, <2>1, <3>1
    <3>3. d[i] = t[i - Len(u)]
      BY <1>9, <2>1, <3>1
    <3> QED BY <2>1, <3>1, <3>2, <3>3
  <2> QED BY <2>2, <2>3
<1>14. v = d
  <2>1. v \in Seq(EventRecords) /\ Len(v) = Len(d) /\ Len(v) = Len(s) + Len(t) - 1
    <3>1. v \in Seq(EventRecords) /\ Len(v) = Len(s) + Len(t) - 1
      BY <1>6, <1>11, <1>12
    <3>2. Len(d) = (Len(s) - 1) + Len(t)
      BY <1>9, <1>10
    <3>3. (Len(s) - 1) + Len(t) = Len(s) + Len(t) - 1
      BY <1>1
    <3> QED BY <3>1, <3>2, <3>3
  <2> QED BY <1>9, <1>13, <2>1, SeqEqual
<1>15. Head(c) = Head(s)
  BY <1>1, <1>2, <1>4, <1>6
<1> QED BY <1>2, <1>3, <1>4, <1>5, <1>7, <1>8, <1>11, <1>14, <1>15

(* Publishing, and sending off the text, change nothing of what is to come. *)
LEMMA PublishSame ==
  ASSUME view \in Seq(BlockRecords), queue \in Seq(EventRecords), pending \in Words, B!Publish
  PROVE  /\ view' \in Seq(BlockRecords) /\ queue' \in Seq(EventRecords) /\ pending' \in Words
         /\ B!Replay(view', queue' \o B!Waiting(pending')) = B!Replay(view, queue \o B!Waiting(pending))
<1>1. queue # <<>> /\ view' = B!ApplyBlock(view, Head(queue)) /\ queue' = Tail(queue) /\ pending' = pending
  BY DEF B!Publish
<1>2. PICK w : w = B!Waiting(pending)
  OBVIOUS
<1>3. w \in Seq(EventRecords)
  BY <1>2, WaitingTyped
<1>4. /\ queue \o w \in Seq(EventRecords) /\ queue \o w # <<>>
      /\ Head(queue \o w) = Head(queue) /\ Tail(queue \o w) = Tail(queue) \o w
      /\ Head(queue) \in EventRecords /\ Tail(queue) \in Seq(EventRecords)
  BY <1>1, <1>3, FirstOfQueue
<1>5. view' \in Seq(BlockRecords)
  BY <1>1, <1>4, AppliedTyped
<1>6. B!Replay(view', queue' \o w) = B!Replay(view, queue \o w)
  BY <1>1, <1>4, ReplayFirst
<1> QED BY <1>1, <1>2, <1>4, <1>5, <1>6

LEMMA FlushSame ==
  ASSUME view \in Seq(BlockRecords), queue \in Seq(EventRecords), pending \in Words, B!Flush
  PROVE  /\ view' = view /\ queue' \in Seq(EventRecords) /\ pending' = <<>> /\ pending' \in Words
         /\ queue' \o B!Waiting(pending') = queue \o B!Waiting(pending)
<1>1. queue' = queue \o B!Waiting(pending) /\ pending' = <<>> /\ view' = view
  BY DEF B!Flush
<1>2. queue' \in Seq(EventRecords)
  <2>1. B!Waiting(pending) \in Seq(EventRecords)
    BY WaitingTyped
  <2> QED BY <1>1, <2>1, ConcatProperties
<1>3. queue' \o B!Waiting(pending') = queue'
  BY <1>1, <1>2, NothingWaits, ConcatEmptySeq
<1> QED BY <1>1, <1>2, <1>3 DEF Words

LEMMA PublishKeeps ==
  ASSUME BlocksKept, B!Publish PROVE BlocksKept'
<1>1. /\ queue # <<>> /\ view' = B!ApplyBlock(view, Head(queue)) /\ queue' = Tail(queue)
      /\ UNCHANGED <<blocks, pending, stage, round, called, said, activity, stopped, title>>
  BY DEF B!Publish, B!titles
<1>2. /\ view \in Seq(BlockRecords) /\ queue \in Seq(EventRecords) /\ pending \in Words /\ Agrees(Held)
      /\ blocks \in Seq(BlockRecords) /\ RunKept /\ LiveKept /\ Held.blocks = blocks
  BY BlocksAre
<1>3. PICK w : w = B!Waiting(pending)
  OBVIOUS
<1>4. w \in Seq(EventRecords)
  BY <1>2, <1>3, WaitingTyped
<1>5. /\ queue \o w \in Seq(EventRecords) /\ queue \o w # <<>>
      /\ Head(queue \o w) = Head(queue) /\ Tail(queue \o w) = Tail(queue) \o w
      /\ Head(queue) \in EventRecords /\ Tail(queue) \in Seq(EventRecords)
      /\ Len(Tail(queue)) = Len(queue) - 1 /\ \A i \in 1..(Len(queue) - 1) : Tail(queue)[i] = queue[i + 1]
  BY <1>1, <1>2, <1>4, FirstOfQueue
<1>6. view' \in Seq(BlockRecords)
  BY <1>2, PublishSame
<1>7. B!Replay(view', queue' \o w) = B!Replay(view, queue \o w)
  BY <1>1, <1>2, <1>3, PublishSame
<1>8. B!Replay(view, queue \o w) = blocks
  BY <1>2, <1>3 DEF Agrees, Held
<1>9. Agrees(Held)'
  <2>1. Held' = [blocks |-> blocks, pending |-> pending, queue |-> queue']
    BY <1>1 DEF Held
  <2>2. Held' \in HeldRecords
    BY <1>1, <1>2, <1>5, <2>1 DEF HeldRecords
  <2>3. Held'.blocks = blocks /\ Held'.pending = pending /\ Held'.queue = queue'
    BY <2>1
  <2>4. Tidy(blocks)
    BY <1>2 DEF Agrees
  <2>5. B!Replay(view', Held'.queue \o B!Waiting(Held'.pending)) = Held'.blocks
    BY <1>3, <1>7, <1>8, <2>3
  <2> QED BY <2>2, <2>3, <2>4, <2>5 DEF Agrees
<1>10. RunKept' /\ LiveKept'
  BY <1>1, <1>2 DEF RunKept, LiveKept, MayLive, Live
<1>11. ASSUME stage' = "sql" PROVE QueryRuns'
  <2>1. QueryRuns
    BY <1>1, <1>11 DEF BlocksKept
  <2>2. PICK n : n = Len(queue)
    OBVIOUS
  <2>3. n \in Nat \ {0}
    BY <1>1, <1>2, <2>2, EmptySeq
  <2>4. Len(queue') = n - 1 /\ \A i \in 1..(n - 1) : queue'[i] = queue[i + 1]
    BY <1>1, <1>5, <2>2
  <2>5. (n >= 2 => queue[n - 1] = B!QueryLog(title, "busy")) /\ (n >= 1 => queue[n] = B!Other("sql"))
    BY <2>1, <2>2 DEF QueryRuns, EndsInQuery
  <2>6. n - 1 >= 1 => queue'[n - 1] = B!Other("sql")
    <3>1. n - 1 >= 1 => n - 1 \in 1..(n - 1) /\ (n - 1) + 1 = n /\ n >= 1
      BY <2>3
    <3> QED BY <2>4, <2>5, <3>1
  <2>7. n - 1 >= 2 => queue'[(n - 1) - 1] = B!QueryLog(title, "busy")
    <3>1. n - 1 >= 2 => (n - 1) - 1 \in 1..(n - 1) /\ ((n - 1) - 1) + 1 = n - 1 /\ n >= 2
      BY <2>3
    <3> QED BY <2>4, <2>5, <3>1
  <2>8. EndsInQuery(queue')
    BY <2>4, <2>6, <2>7 DEF EndsInQuery
  <2> QED BY <1>1, <2>1, <2>8 DEF QueryRuns, EndsInQuery, B!QueryLog, B!Other, B!Block
<1> QED BY <1>6, <1>9, <1>10, <1>11 DEF BlocksKept

LEMMA FlushKeeps ==
  ASSUME BlocksKept, B!Flush PROVE BlocksKept'
<1>1. /\ pending # <<>> /\ queue' = queue \o B!Waiting(pending) /\ pending' = <<>>
      /\ UNCHANGED <<blocks, view, stage, round, called, said, activity, stopped, title>>
  BY DEF B!Flush, B!titles
<1>2. /\ view \in Seq(BlockRecords) /\ queue \in Seq(EventRecords) /\ pending \in Words /\ Agrees(Held)
      /\ blocks \in Seq(BlockRecords) /\ RunKept /\ LiveKept /\ Held.blocks = blocks
  BY BlocksAre
<1>3. queue' \in Seq(EventRecords)
  BY <1>2, FlushSame
<1>4. queue' \o B!Waiting(pending') = queue'
  BY <1>1, <1>2, FlushSame
<1>5. B!Replay(view, queue') = blocks /\ Tidy(blocks)
  BY <1>1, <1>2 DEF Agrees, Held
<1>6. Agrees(Held)'
  <2>1. Held' = [blocks |-> blocks, pending |-> <<>>, queue |-> queue']
    BY <1>1 DEF Held
  <2>2. <<>> \in Words
    BY DEF Words
  <2>3. Held' \in HeldRecords
    BY <1>2, <1>3, <2>1, <2>2 DEF HeldRecords
  <2>4. Held'.blocks = blocks /\ Held'.pending = pending' /\ Held'.queue = queue'
    BY <1>1, <2>1
  <2>5. B!Replay(view', Held'.queue \o B!Waiting(Held'.pending)) = Held'.blocks
    BY <1>1, <1>4, <1>5, <2>4
  <2> QED BY <1>5, <2>3, <2>4, <2>5 DEF Agrees
<1>7. RunKept' /\ LiveKept'
  BY <1>1, <1>2 DEF RunKept, LiveKept, MayLive, Live
<1>8. stage' # "sql"
  BY <1>1 DEF BlocksKept, QueryRuns
<1> QED BY <1>1, <1>2, <1>6, <1>7, <1>8 DEF BlocksKept

(* Nothing unfinished comes or goes with what is not to be finished. *)
LEMMA ReachedQuiet ==
  ASSUME view \in Seq(BlockRecords), NEW m, NEW es \in Seq(EventRecords), NEW S, Reached(m, es, S),
         NEW e \in EventRecords, ~Marked(e)
  PROVE  Reached(m, es \o <<e>>, S) /\ es \o <<e>> \in Seq(EventRecords)
<1>1. e.type = "log" /\ e.content = "busy" => e \notin S
  BY DEF Marked
<1>2. Reached(m, es \o <<e>>, After(S, e)) /\ es \o <<e>> \in Seq(EventRecords)
  BY <1>1, ReachedNext
<1>3. After(S, e) \subseteq S
  BY AfterQuiet
<1> QED BY <1>2, <1>3 DEF Reached

LEMMA EndsTwo ==
  ASSUME NEW S, NEW s \in Seq(S), NEW a \in S, NEW b \in S, NEW t, t = Append(Append(s, a), b)
  PROVE  /\ t \in Seq(S) /\ Len(t) = Len(s) + 2 /\ Len(t) >= 2
         /\ t[Len(t) - 1] = a /\ t[Len(t)] = b
<1>1. PICK u : u = Append(s, a)
  OBVIOUS
<1>2. u \in Seq(S) /\ Len(u) = Len(s) + 1 /\ u[Len(s) + 1] = a
  BY <1>1, AppendProperties
<1>3. t = Append(u, b)
  BY <1>1
<1>4. /\ Append(u, b) \in Seq(S) /\ Len(Append(u, b)) = Len(u) + 1
      /\ (\A i \in 1..Len(u) : Append(u, b)[i] = u[i]) /\ Append(u, b)[Len(u) + 1] = b
  BY <1>2, AppendIs
<1>5. t \in Seq(S) /\ Len(t) = Len(u) + 1 /\ (\A i \in 1..Len(u) : t[i] = u[i]) /\ t[Len(u) + 1] = b
  BY <1>3, <1>4
<1>6. Len(s) \in Nat
  OBVIOUS
<1>7. Len(t) = Len(s) + 2 /\ Len(t) >= 2 /\ Len(t) - 1 = Len(s) + 1 /\ Len(s) + 1 \in 1..Len(u) /\ Len(u) + 1 = Len(t)
  BY <1>2, <1>5, <1>6
<1>8. t[Len(s) + 1] = a
  BY <1>2, <1>5, <1>7
<1> QED BY <1>5, <1>7, <1>8

LEMMA QueryStartKeeps ==
  ASSUME MaxRounds \in Nat, BlocksKept, B!QueryStart, clashed' # TRUE PROVE BlocksKept'
<1>1. /\ stage = "call" /\ stage' = "sql" /\ UNCHANGED <<round, called, said, activity>>
      /\ B!Emit(<<B!QueryLog(title', "busy"), B!Other("sql")>>)
      /\ title' \in 1..(MaxRounds + 1) /\ ~B!Taken(title')
  BY DEF B!QueryStart, B!Titles
<1>2. PICK d : d = B!QueryLog(title', "busy")
  OBVIOUS
<1>3. PICK e : e = B!Other("sql")
  OBVIOUS
<1>4. /\ d \in EventRecords /\ d.type = "log" /\ d.id = title' /\ d.content = "busy"
      /\ d = [type |-> "log", id |-> title', content |-> "busy", text |-> <<>>]
  <2>1. title' \in Nat
    BY <1>1
  <2>2. d = B!Block("log", title', "busy")
    BY <1>2 DEF B!QueryLog
  <2>3. d \in EventRecords /\ d.type = "log" /\ d.id = title' /\ d.content = "busy"
    BY <2>1, <2>2, EventIs DEF Contents
  <2> QED BY <2>2, <2>3 DEF B!Block
<1>5. e \in EventRecords /\ e.type = "sql" /\ e = [type |-> "sql", id |-> 0, content |-> "-", text |-> <<>>]
  BY <1>3, EventIs DEF B!Other, B!Block, Contents, Singles
<1>6. /\ view \in Seq(BlockRecords) /\ queue \in Seq(EventRecords) /\ pending \in Words /\ Agrees(Held)
      /\ blocks \in Seq(BlockRecords) /\ RunKept /\ LiveKept /\ Held.blocks = blocks
      /\ Held.queue = queue /\ Held.pending = pending /\ Held \in HeldRecords
  BY BlocksAre DEF Held, Agrees
<1>7. \A b \in Live(blocks) : MayLive(b) /\ b # d /\ MayLive(b)'
  <2>1. ASSUME NEW b \in Live(blocks) PROVE MayLive(b) /\ b # d /\ MayLive(b)'
    <3>1. MayLive(b)
      BY <1>6 DEF LiveKept
    <3>2. b.type = "log" => b.id \in 1..round
      BY <1>1, <3>1 DEF MayLive
    <3>3. b # d
      <4>1. SUFFICES ASSUME d \in Live(blocks) PROVE FALSE
        BY <4>1
      <4>2. PICK i \in DOMAIN blocks : blocks[i] = d
        BY <4>1 DEF Live
      <4>3. i \in B!Unfinished(blocks, d)
        BY <1>4, <4>2 DEF B!Unfinished, B!Indices
      <4> QED BY <1>1, <1>2, <4>3 DEF B!Taken
    <3> QED BY <1>1, <3>1, <3>2, <3>3 DEF MayLive
  <2> QED BY <2>1
<1>8. Reached(Held, <<d>>, After(Live(blocks), d)) /\ <<d>> \in Seq(EventRecords)
  BY <1>4, <1>6, <1>7, ReachedOne
<1>9. Reached(Held, <<d, e>>, After(Live(blocks), d))
  <2>1. Reached(Held, <<d>> \o <<e>>, After(Live(blocks), d))
    BY <1>5, <1>6, <1>8, ReachedQuiet DEF Marked
  <2> QED BY <1>4, <1>5, <2>1, TwoEvents
<1>10. B!EmitFrom(blocks, queue, <<d, e>>)
  BY <1>1, <1>2, <1>3 DEF B!Emit
<1>11. Agrees(Held)' /\ Live(blocks') \subseteq After(Live(blocks), d) /\ view' = view /\ stopped' = stopped
  BY <1>9, <1>10, EmitsFrom DEF Held
<1>12. PICK n : n = B!Emitted(Held, <<d>>)
  OBVIOUS
<1>13. n = B!Sent(Held, d) /\ n \in HeldRecords
  <2>1. B!Emitted(Held, Append(<<>>, d)) = B!Sent(B!Emitted(Held, <<>>), d)
    <3>1. <<>> \in Seq(EventRecords)
      OBVIOUS
    <3> QED BY <1>4, <3>1, EmittedMore
  <2>2. Append(<<>>, d) = <<d>>
    OBVIOUS
  <2>3. n \in HeldRecords
    BY <1>8, <1>12 DEF Reached, Agrees
  <2> QED BY <1>12, <2>1, <2>2, <2>3, EmittedNone
<1>14. B!Emitted(Held, <<d, e>>) = B!Sent(n, e)
  <2>1. <<d, e>> = Append(<<d>>, e)
    BY <1>4, <1>5, TwoEvents, OneMore
  <2> QED BY <1>5, <1>8, <1>12, <2>1, EmittedMore
<1>15. n.blocks = Append(blocks, d) /\ n.pending = <<>> /\ n.queue = queue \o B!Waiting(pending) \o <<d>>
  <2>1. B!Stored(blocks, d) = Append(blocks, d)
    BY <1>4 DEF B!Stored
  <2> QED BY <1>4, <1>6, <1>13, <2>1, SentIs
<1>16. PICK q : q = queue \o B!Waiting(pending)
  OBVIOUS
<1>17. q \in Seq(EventRecords)
  BY <1>6, <1>16, WaitingTyped, ConcatProperties
<1>18. n.queue = Append(q, d) /\ n.queue \in Seq(EventRecords) /\ n.blocks \in Seq(BlockRecords)
  <2>1. n.queue = Append(q, d)
    BY <1>4, <1>15, <1>16, <1>17, OneMore
  <2> QED BY <1>13, <2>1 DEF HeldRecords
<1>19. blocks' = Append(Append(blocks, d), e) /\ pending' = <<>> /\ queue' = Append(Append(q, d), e)
  <2>1. B!Stored(n.blocks, e) = Append(n.blocks, e)
    BY <1>5 DEF B!Stored
  <2>2. blocks' = B!Sent(n, e).blocks /\ pending' = B!Sent(n, e).pending /\ queue' = B!Sent(n, e).queue
    BY <1>10, <1>14 DEF B!EmitFrom, Held
  <2>3. /\ B!Sent(n, e).blocks = B!Stored(n.blocks, e) /\ B!Sent(n, e).pending = <<>>
        /\ B!Sent(n, e).queue = n.queue \o B!Waiting(n.pending) \o <<e>>
    BY <1>5, <1>13, SentIs
  <2>4. n.queue \o B!Waiting(n.pending) = n.queue
    BY <1>15, <1>18, NothingWaits, ConcatEmptySeq
  <2>5. B!Sent(n, e).queue = Append(n.queue, e)
    BY <1>5, <1>18, <2>3, <2>4, OneMore
  <2> QED BY <1>15, <1>18, <2>1, <2>2, <2>3, <2>5
<1>20. d \in BlockRecords /\ e \in BlockRecords
  BY <1>4, <1>5 DEF EventRecords, BlockRecords, Singles
<1>21. /\ Len(blocks') >= 2 /\ blocks'[Len(blocks') - 1] = d /\ blocks'[Len(blocks')] = e
       /\ Len(queue') >= 2 /\ queue'[Len(queue') - 1] = d /\ queue'[Len(queue')] = e
  <2>1. Len(blocks') >= 2 /\ blocks'[Len(blocks') - 1] = d /\ blocks'[Len(blocks')] = e
    BY <1>6, <1>19, <1>20, EndsTwo
  <2>2. Len(queue') >= 2 /\ queue'[Len(queue') - 1] = d /\ queue'[Len(queue')] = e
    BY <1>4, <1>5, <1>17, <1>19, EndsTwo
  <2> QED BY <2>1, <2>2
<1>22. QueryRuns'
  BY <1>2, <1>3, <1>19, <1>21 DEF QueryRuns, EndsInQuery, B!QueryLog, B!Other, B!Block
<1>23. RunKept'
  <2>1. title' \in Nat
    BY <1>1
  <2> QED BY <1>1, <1>6, <1>11, <2>1 DEF RunKept
<1>24. LiveKept'
  <2>1. MayLive(d)'
    BY <1>1, <1>4 DEF MayLive
  <2>2. \A b \in After(Live(blocks), d) : MayLive(b)'
    BY <1>7, <2>1, AfterAny
  <2> QED BY <1>11, <2>2 DEF LiveKept
<1> QED BY <1>6, <1>11, <1>22, <1>23, <1>24 DEF BlocksKept

LEMMA ThrowKeeps ==
  ASSUME MaxRounds \in Nat, BlocksKept, B!ToolThrows PROVE BlocksKept'
<1>1. /\ stage \in {"call", "sql", "called"} /\ stage' = "failing" /\ activity' = FALSE
      /\ UNCHANGED <<round, called, said, title>>
      /\ B!Emit(IF activity THEN <<B!Removed>> ELSE <<>>)
  BY DEF B!ToolThrows, B!titles, B!RemoveActivity
<1>2. RunKept /\ activity \in BOOLEAN /\ called \in Nat /\ LiveKept
  BY BlocksAre DEF RunKept
<1>3. RunKept' /\ stage' # "sql"
  BY <1>1, <1>2 DEF RunKept
<1>4. ASSUME NEW b \in Live(blocks) PROVE MayLive(b) /\ (b.type = "log" => MayLive(b)')
  <2>1. MayLive(b)
    BY <1>2 DEF LiveKept
  <2> QED BY <1>1, <2>1 DEF MayLive
<1>5. CASE ~activity
  <2>1. B!Emit(<<>>)
    BY <1>1, <1>5
  <2>2. \A b \in Live(blocks) : MayLive(b)'
    BY <1>1, <1>4, <1>5 DEF MayLive
  <2> QED BY <1>3, <2>1, <2>2, NoneKeep
<1>6. CASE activity
  <2>1. PICK e : e = B!Block("remove", called, "-")
    OBVIOUS
  <2>2. e \in EventRecords /\ e.type = "remove" /\ e.id = called
    BY <1>2, <2>1, EventIs DEF Contents
  <2>3. B!Emit(<<e>>)
    BY <1>1, <1>6, <2>1 DEF B!Removed
  <2>4. ASSUME NEW b \in After(Live(blocks), e) PROVE MayLive(b)'
    <3>1. b \in Live(blocks) /\ ~Replaces(e, b)
      BY <2>2, AfterQuiet DEF Marked
    <3>2. b.type = "activity" => b.id # called
      BY <2>2, <3>1 DEF Replaces
    <3> QED BY <1>1, <1>4, <3>1, <3>2 DEF MayLive
  <2> QED BY <1>3, <2>2, <2>3, <2>4, OneKeeps
<1> QED BY <1>2, <1>5, <1>6

LEMMA CloseKeeps ==
  ASSUME BlocksKept, B!Close PROVE BlocksKept'
<1>1. stage = "asking" /\ stage' = "returned" /\ UNCHANGED <<round, called, said, activity, title>>
  BY DEF B!Close, B!titles
<1>2. PICK more \in {<<>>, <<B!Other("suggestions")>>} : B!Emit(<<B!Other("analysis")>> \o more)
  BY DEF B!Close, B!titles
<1>3. PICK d : d = B!Other("analysis")
  OBVIOUS
<1>4. PICK e : e = B!Other("suggestions")
  OBVIOUS
<1>5. d \in EventRecords /\ d.type = "analysis" /\ e \in EventRecords /\ e.type = "suggestions"
  BY <1>3, <1>4, EventIs DEF B!Other, Contents, Singles
<1>6. RunKept' /\ stage' # "sql"
  BY <1>1, BlocksAre DEF RunKept
<1>7. ASSUME NEW b \in Live(blocks) PROVE MayLive(b)'
  <2>1. MayLive(b)
    BY BlocksAre DEF LiveKept
  <2> QED BY <1>1, <2>1 DEF MayLive
<1>8. Reached(Held, <<>>, Live(blocks)) /\ view \in Seq(BlockRecords)
  BY BlocksAre, ReachedFirst
<1>9. Reached(Held, <<d>>, Live(blocks)) /\ <<d>> \in Seq(EventRecords)
  <2>1. <<>> \in Seq(EventRecords) /\ <<>> \o <<d>> = <<d>>
    BY <1>5
  <2>2. Reached(Held, <<>> \o <<d>>, Live(blocks))
    BY <1>5, <1>8, <2>1, ReachedQuiet DEF Marked
  <2> QED BY <1>5, <2>1, <2>2
<1>10. Reached(Held, <<d>> \o more, Live(blocks))
  <2>1. CASE more = <<>>
    <3>1. <<d>> \o <<>> = <<d>>
      OBVIOUS
    <3> QED BY <1>9, <2>1, <3>1
  <2>2. CASE more = <<e>>
    BY <1>5, <1>8, <1>9, <2>2, ReachedQuiet DEF Marked
  <2> QED BY <1>2, <1>4, <2>1, <2>2
<1>11. B!EmitFrom(blocks, queue, <<d>> \o more)
  BY <1>2, <1>3 DEF B!Emit
<1> QED BY <1>6, <1>7, <1>10, <1>11, SomeKeep DEF Held

(* What the end of a call takes off the screen *)
LEMMA ReachedOff ==
  ASSUME view \in Seq(BlockRecords), NEW m, NEW es \in Seq(EventRecords), NEW S, Reached(m, es, S), called' \in Nat
  PROVE  \E T \in SUBSET S :
           /\ Reached(m, es \o B!RemoveActivity, T) /\ es \o B!RemoveActivity \in Seq(EventRecords)
           /\ \A b \in T : ~(activity /\ b.type = "activity" /\ b.id = called')
<1>1. CASE ~activity
  <2>1. es \o <<>> = es
    BY ConcatEmptySeq
  <2> QED BY <1>1, <2>1 DEF B!RemoveActivity
<1>2. CASE activity
  <2>1. PICK id \in Nat : id = called'
    OBVIOUS
  <2>2. PICK e : e = B!Block("remove", id, "-")
    OBVIOUS
  <2>3. e \in EventRecords /\ e.type = "remove" /\ e.id = id /\ ~Marked(e)
    BY <2>2, EventIs DEF Contents, Marked
  <2>4. B!RemoveActivity = <<e>>
    BY <1>2, <2>1, <2>2 DEF B!RemoveActivity, B!Removed
  <2>5. e.type = "log" /\ e.content = "busy" => e \notin S
    BY <2>3
  <2>6. Reached(m, es \o <<e>>, After(S, e)) /\ es \o <<e>> \in Seq(EventRecords)
    BY <2>3, <2>5, ReachedNext
  <2>7. After(S, e) \in SUBSET S /\ \A b \in After(S, e) : ~(b.type = "activity" /\ b.id = id)
    <3>1. \A b \in After(S, e) : b \in S /\ ~Replaces(e, b)
      BY <2>3, AfterQuiet
    <3> QED BY <2>3, <3>1 DEF Replaces
  <2> QED BY <2>1, <2>4, <2>6, <2>7
<1> QED BY <1>1, <1>2

LEMMA SecurityKeeps ==
  ASSUME MaxRounds \in Nat, BlocksKept, B!SecurityStop PROVE BlocksKept'
<1>1. /\ stage \in {"call", "sql", "called"} /\ stage' = "returned" /\ activity' = FALSE /\ said' = said + 1
      /\ UNCHANGED <<round, called, title>>
      /\ B!Emit((IF stage = "sql" THEN <<B!QueryUpdate("blocked")>> ELSE <<>>)
                \o B!RemoveActivity \o <<B!RoundUpdate("blocked"), B!Text(<<said'>>)>>)
  BY DEF B!SecurityStop, B!titles
<1>2. RunKept /\ activity \in BOOLEAN /\ called \in Nat /\ LiveKept /\ view \in Seq(BlockRecords) /\ round \in Nat
      /\ said' \in Nat
  BY <1>1, BlocksAre DEF RunKept
<1>3. RunKept' /\ stage' # "sql"
  BY <1>1, <1>2 DEF RunKept
<1>4. PICK A : A = IF stage = "sql" THEN <<B!QueryUpdate("blocked")>> ELSE <<>>
  OBVIOUS
<1>5. Reached(Held, A, Live(blocks)) /\ A \in Seq(EventRecords)
  <2>1. Reached(Held, <<>>, Live(blocks)) /\ <<>> \in Seq(EventRecords)
    BY BlocksAre, ReachedFirst
  <2>2. PICK e : e = B!QueryUpdate("blocked")
    OBVIOUS
  <2>3. e \in EventRecords /\ e.type = "log_update"
    <3>1. title \in Nat
      BY <1>2 DEF RunKept
    <3> QED BY <2>2, <3>1, EventIs DEF B!QueryUpdate, Contents
  <2>4. <<>> \o <<e>> = <<e>>
    BY <2>3
  <2>5. Reached(Held, <<>> \o <<e>>, Live(blocks)) /\ <<>> \o <<e>> \in Seq(EventRecords)
    BY <1>2, <2>1, <2>3, ReachedQuiet DEF Marked
  <2> QED BY <1>4, <2>1, <2>2, <2>4, <2>5
<1>6. PICK R : R = A \o B!RemoveActivity
  OBVIOUS
<1>7. PICK T \in SUBSET Live(blocks) : /\ Reached(Held, R, T) /\ R \in Seq(EventRecords)
                                       /\ \A b \in T : ~(activity /\ b.type = "activity" /\ b.id = called')
  <2>1. called' \in Nat
    BY <1>1, <1>2
  <2> QED BY <1>2, <1>5, <1>6, <2>1, ReachedOff
<1>8. PICK u : u = B!RoundUpdate("blocked")
  OBVIOUS
<1>9. u \in EventRecords /\ u.type = "log_update"
  BY <1>1, <1>2, <1>8, EventIs DEF B!RoundUpdate, Contents
<1>10. PICK w : w = B!Text(<<said'>>)
  OBVIOUS
<1>11. w \in EventRecords /\ w.type = "text_chunk"
  BY <1>2, <1>10, TextIs
<1>12. Reached(Held, R \o <<u>>, T) /\ R \o <<u>> \in Seq(EventRecords)
  BY <1>2, <1>7, <1>9, ReachedQuiet DEF Marked
<1>13. Reached(Held, (R \o <<u>>) \o <<w>>, T)
  BY <1>2, <1>11, <1>12, ReachedQuiet DEF Marked
<1>14. (R \o <<u>>) \o <<w>> = R \o <<u, w>>
  <2>1. <<u>> \o <<w>> = <<u, w>> /\ <<u>> \in Seq(EventRecords) /\ <<w>> \in Seq(EventRecords)
    BY <1>9, <1>11, TwoEvents
  <2> QED BY <1>7, <2>1, ConcatAssociative
<1>15. B!EmitFrom(blocks, queue, R \o <<u, w>>)
  BY <1>1, <1>4, <1>6, <1>8, <1>10 DEF B!Emit
<1>16. ASSUME NEW b \in T PROVE MayLive(b)'
  <2>1. MayLive(b)
    BY <1>2, <1>7 DEF LiveKept
  <2>2. ~(activity /\ b.type = "activity" /\ b.id = called)
    BY <1>1, <1>7
  <2> QED BY <1>1, <2>1, <2>2 DEF MayLive
<1>17. Reached(Held, R \o <<u, w>>, T)
  BY <1>13, <1>14
<1> QED BY <1>3, <1>15, <1>16, <1>17, SomeKeep DEF Held

-----------------------------------------------------------------------------
(* A statement that fails *)

LEMMA QueryEvents ==
  ASSUME title \in Nat
  PROVE  /\ \A content \in Contents : /\ B!QueryLog(title, content) \in EventRecords /\ B!QueryLog(title, content) \in BlockRecords
                                      /\ B!QueryLog(title, content) = B!Block("log", title, content)
                                      /\ B!QueryLog(title, content).type = "log" /\ B!QueryLog(title, content).id = title
                                      /\ B!QueryLog(title, content).content = content
         /\ B!Other("sql") \in EventRecords /\ B!Other("sql") \in BlockRecords /\ B!Other("sql").type = "sql"
         /\ B!QueryUpdate("adjust") \in EventRecords /\ B!QueryUpdate("adjust").type = "log_update"
         /\ B!QueryUpdate("adjust").id = title /\ B!QueryUpdate("adjust").content = "adjust"
<1>2. ASSUME NEW content \in Contents
      PROVE  /\ B!QueryLog(title, content) \in EventRecords /\ B!QueryLog(title, content) \in BlockRecords
             /\ B!QueryLog(title, content) = B!Block("log", title, content)
             /\ B!QueryLog(title, content).type = "log" /\ B!QueryLog(title, content).id = title
             /\ B!QueryLog(title, content).content = content
  <2>1. B!QueryLog(title, content) = B!Block("log", title, content)
    BY DEF B!QueryLog
  <2>2. PICK b : b = B!Block("log", title, content)
    OBVIOUS
  <2>3. b \in EventRecords /\ b.type = "log" /\ b.id = title /\ b.content = content
    BY <2>2, EventIs
  <2>4. b \in BlockRecords
    BY <2>2, <2>3 DEF EventRecords, BlockRecords, B!Block
  <2> QED BY <2>1, <2>2, <2>3, <2>4
<1>3. B!Other("sql") \in EventRecords /\ B!Other("sql") \in BlockRecords /\ B!Other("sql").type = "sql"
  <2>1. PICK b : b = B!Block("sql", 0, "-")
    OBVIOUS
  <2>2. b \in EventRecords /\ b.type = "sql"
    BY <2>1, EventIs DEF Singles, Contents
  <2>3. b \in BlockRecords
    BY <2>1, <2>2 DEF EventRecords, BlockRecords, Singles, B!Block
  <2> QED BY <2>1, <2>2, <2>3 DEF B!Other
<1>4. /\ B!QueryUpdate("adjust") \in EventRecords /\ B!QueryUpdate("adjust").type = "log_update"
      /\ B!QueryUpdate("adjust").id = title /\ B!QueryUpdate("adjust").content = "adjust"
  BY EventIs DEF B!QueryUpdate, Contents
<1> QED BY <1>2, <1>3, <1>4

(* The log that is changed in place is the last but one. *)
LEMMA AdjustedIs ==
  ASSUME title \in Nat, NEW S, NEW s \in Seq(S), EndsInQuery(s)
  PROVE  B!Adjusted(s) = IF Len(s) >= 2 THEN [s EXCEPT ![Len(s) - 1] = B!QueryLog(title, "adjust")] ELSE s
<1> DEFINE is == {i \in DOMAIN s : s[i] = B!QueryLog(title, "busy")}
<1>1. PICK n \in Nat : n = Len(s)
  OBVIOUS
<1>2. DOMAIN s = 1..n
  BY <1>1
<1>3. B!QueryLog(title, "busy") # B!Other("sql")
  BY QueryEvents DEF Contents
<1>4. n >= 1 => s[n] # B!QueryLog(title, "busy")
  BY <1>1, <1>3 DEF EndsInQuery
<1>5. is \in SUBSET (1..n) /\ \A j \in is : j \in 1..(n - 1)
  <2>1. \A j \in is : j \in 1..n /\ j # n
    BY <1>1, <1>2, <1>4
  <2> QED BY <1>1, <2>1
<1>6. CASE n < 2
  <2>1. is = {}
    <3>1. 1..(n - 1) = {}
      BY <1>1, <1>6
    <3> QED BY <1>5, <3>1
  <2> QED BY <1>1, <1>6, <2>1 DEF B!Adjusted
<1>7. CASE n >= 2
  <2>1. n - 1 \in is
    BY <1>1, <1>2, <1>7 DEF EndsInQuery
  <2>2. B!Final(is) \in is /\ \A j \in is : j <= B!Final(is)
    <3>1. is # {}
      BY <2>1
    <3> HIDE DEF is
    <3> QED BY <1>1, <1>5, <3>1, FinalOf
  <2>3. B!Final(is) = n - 1
    <3>1. B!Final(is) \in 1..(n - 1) /\ n - 1 <= B!Final(is)
      <4> HIDE DEF is
      <4> QED BY <1>5, <2>1, <2>2
    <3>2. PICK k : k = B!Final(is)
      OBVIOUS
    <3> HIDE DEF is
    <3> QED BY <1>1, <3>1, <3>2
  <2> QED BY <1>1, <1>7, <2>1, <2>3 DEF B!Adjusted
<1> QED BY <1>1, <1>6, <1>7

LEMMA SameBefore ==
  ASSUME NEW s \in Seq(BlockRecords), NEW t \in Seq(BlockRecords), NEW b \in BlockRecords, Append(s, b) = Append(t, b)
  PROVE  s = t
BY AppendInjective

LEMMA QueryFailsKeeps ==
  ASSUME MaxRounds \in Nat, BlocksKept, B!QueryFails PROVE BlocksKept'
<1>1. /\ stage = "sql" /\ stage' = "round" /\ activity' = FALSE /\ UNCHANGED <<round, called, said, title>>
      /\ B!EmitFrom(B!Adjusted(blocks), B!Adjusted(queue), <<B!QueryUpdate("adjust")>> \o B!ReportFailure)
  BY DEF B!QueryFails, B!titles
<1>2. PICK d : d = B!QueryLog(title, "busy")
  OBVIOUS
<1>3. PICK a : a = B!QueryLog(title, "adjust")
  OBVIOUS
<1>4. PICK e : e = B!Other("sql")
  OBVIOUS
<1>5. PICK u : u = B!QueryUpdate("adjust")
  OBVIOUS
<1>6. /\ d \in EventRecords /\ d \in BlockRecords /\ d.type = "log" /\ d.id = title /\ d.content = "busy"
      /\ a \in EventRecords /\ a \in BlockRecords /\ a.type = "log" /\ a.id = title /\ a.content = "adjust"
      /\ a = B!Block("log", title, "adjust")
      /\ e \in EventRecords /\ e \in BlockRecords /\ e.type = "sql"
      /\ u \in EventRecords /\ u.type = "log_update" /\ u.id = title /\ u.content = "adjust"
      /\ title \in Nat
  <2>1. "busy" \in Contents /\ "adjust" \in Contents /\ title \in Nat
    BY BlocksAre DEF Contents, RunKept
  <2> QED BY <1>2, <1>3, <1>4, <1>5, <2>1, QueryEvents
<1>7. /\ view \in Seq(BlockRecords) /\ queue \in Seq(EventRecords) /\ Agrees(Held) /\ Tidy(blocks)
      /\ blocks \in Seq(BlockRecords) /\ RunKept /\ LiveKept /\ pending = <<>>
      /\ Len(blocks) >= 2 /\ EndsInQuery(blocks) /\ EndsInQuery(queue)
  BY <1>1, BlocksAre DEF BlocksKept, QueryRuns, Agrees
<1>8. PICK N \in Nat : N = Len(blocks)
  BY <1>7
<1>9. N >= 2 /\ N - 1 \in 1..N /\ blocks[N - 1] = d /\ blocks[N] = e /\ DOMAIN blocks = 1..N
  BY <1>2, <1>4, <1>7, <1>8 DEF EndsInQuery
<1>10. PICK bs : bs = B!Adjusted(blocks)
  OBVIOUS
<1>11. PICK q : q = B!Adjusted(queue)
  OBVIOUS
<1>12. bs = [blocks EXCEPT ![N - 1] = a]
  BY <1>3, <1>6, <1>7, <1>8, <1>9, <1>10, AdjustedIs
<1>13. /\ bs \in Seq(BlockRecords) /\ Tidy(bs)
       /\ \A b \in Live(bs) : b \in Live(blocks) /\ ~(b.type = "log" /\ b.id = title)
  <2>1. ~Marked(a) /\ Marked(d)
    BY <1>6 DEF Marked
  <2>2. bs \in Seq(BlockRecords) /\ Tidy(bs) /\ Live(bs) \subseteq Others(blocks, N - 1) \cup {}
    BY <1>6, <1>7, <1>8, <1>9, <1>12, <2>1, Rewritten
  <2>3. \A b \in Others(blocks, N - 1) : b \in Live(blocks) /\ ~(b.type = "log" /\ b.id = title)
    BY <1>6, <1>9, <2>1 DEF Others, Like
  <2> QED BY <2>2, <2>3
<1>14. B!Replay(view, queue) = blocks
  <2>1. Held.blocks = blocks /\ Held.queue = queue /\ Held.pending = <<>>
    BY <1>7 DEF Held
  <2>2. B!Replay(view, queue \o B!Waiting(<<>>)) = blocks
    BY <1>7, <2>1 DEF Agrees
  <2>3. queue \o B!Waiting(<<>>) = queue
    BY <1>7, NothingWaits, ConcatEmptySeq
  <2> QED BY <2>2, <2>3
<1>15. PICK m : m = [blocks |-> bs, pending |-> <<>>, queue |-> q]
  OBVIOUS
<1>16. m.blocks = bs /\ m.pending = <<>> /\ m.queue = q
  BY <1>15
<1>17. <<>> \in Words /\ <<>> \in Seq(EventRecords)
  BY DEF Words
(* What was waiting to be serialised has changed with the block. *)
<1>18. ASSUME Len(queue) >= 2 PROVE Reached(m, <<u>>, Live(bs))
  <2>1. q = [queue EXCEPT ![Len(queue) - 1] = a]
    BY <1>3, <1>6, <1>7, <1>11, <1>18, AdjustedIs
  <2>2. queue[Len(queue) - 1] = d /\ queue[Len(queue)] = e
    BY <1>2, <1>4, <1>7, <1>18 DEF EndsInQuery
  <2>3. PICK r \in Seq(EventRecords) : Ends(EventRecords, queue, r, d, e)
    BY <1>7, <1>18, <2>2, NextToLast
  <2>4. q = Append(Append(r, a), e)
    BY <1>6, <2>1, <2>3 DEF Ends
  <2>5. PICK p \in Seq(BlockRecords) : Ends(BlockRecords, blocks, p, d, e)
    <3>1. Len(blocks) >= 2 /\ blocks[Len(blocks) - 1] = d /\ blocks[Len(blocks)] = e
      BY <1>8, <1>9
    <3> QED BY <1>7, <3>1, NextToLast
  <2>6. bs = Append(Append(p, a), e)
    BY <1>6, <1>8, <1>12, <2>5 DEF Ends
  <2>7. PICK x : x = B!Replay(view, r)
    OBVIOUS
  <2>8. x \in Seq(BlockRecords)
    BY <1>7, <2>7, ReplayTyped
  <2>9. \A bb, c : c.type \in {"log", "sql"} => B!ApplyBlock(bb, c) = Append(bb, c)
    BY DEF B!ApplyBlock
  <2>10. /\ Append(r, d) \in Seq(EventRecords) /\ Append(r, a) \in Seq(EventRecords)
         /\ Append(x, d) \in Seq(BlockRecords) /\ Append(p, d) \in Seq(BlockRecords)
         /\ q \in Seq(EventRecords)
    BY <1>6, <2>4, <2>8, AppendProperties
  <2>11. B!Replay(view, queue) = Append(Append(x, d), e)
    <3>1. B!Replay(view, Append(r, d)) = Append(x, d)
      BY <1>6, <2>7, <2>9, ReplayMore
    <3>2. B!Replay(view, Append(Append(r, d), e)) = B!ApplyBlock(B!Replay(view, Append(r, d)), e)
      BY <1>6, <2>10, ReplayMore
    <3>3. B!ApplyBlock(Append(x, d), e) = Append(Append(x, d), e)
      BY <1>6 DEF B!ApplyBlock
    <3>4. queue = Append(Append(r, d), e)
      BY <2>3 DEF Ends
    <3> QED BY <3>1, <3>2, <3>3, <3>4
  <2>12. x = p
    <3>1. Append(Append(x, d), e) = Append(Append(p, d), e)
      BY <1>14, <2>5, <2>11 DEF Ends
    <3>2. Append(x, d) = Append(p, d)
      BY <1>6, <2>10, <3>1, SameBefore
    <3> QED BY <1>6, <2>8, <3>2, SameBefore
  <2>13. B!Replay(view, q) = bs
    <3>1. B!Replay(view, Append(r, a)) = Append(x, a)
      BY <1>6, <2>7, <2>9, ReplayMore
    <3>2. B!Replay(view, q) = Append(Append(x, a), e)
      <4>1. B!Replay(view, Append(Append(r, a), e)) = B!ApplyBlock(B!Replay(view, Append(r, a)), e)
        BY <1>6, <2>10, ReplayMore
      <4> QED BY <1>6, <2>4, <2>9, <3>1, <4>1
    <3> QED BY <2>6, <2>12, <3>2
  <2>14. Agrees(m)
    <3>1. m \in HeldRecords
      BY <1>13, <1>15, <1>17, <2>10 DEF HeldRecords
    <3>2. q \o B!Waiting(<<>>) = q
      BY <2>10, NothingWaits, ConcatEmptySeq
    <3> QED BY <1>13, <1>16, <2>13, <3>1, <3>2 DEF Agrees
  <2>15. Reached(m, <<>>, Live(bs))
    BY <1>16, <2>14, ReachedFirst
  <2>16. <<>> \o <<u>> = <<u>>
    BY <1>6
  <2>17. Reached(m, <<>> \o <<u>>, Live(bs))
    BY <1>6, <1>7, <1>17, <2>15, ReachedQuiet DEF Marked
  <2> QED BY <2>16, <2>17
(* The log is published as it was, and the update settles it. *)
<1>19. ASSUME ~(Len(queue) >= 2) PROVE Reached(m, <<u>>, Live(bs))
  <2>1. q = queue
    BY <1>6, <1>7, <1>11, <1>19, AdjustedIs
  <2>2. m \in HeldRecords
    BY <1>7, <1>13, <1>15, <1>17, <2>1 DEF HeldRecords
  <2>3. B!Emitted(m, <<u>>) = B!Sent(m, u)
    <3>1. B!Emitted(m, Append(<<>>, u)) = B!Sent(B!Emitted(m, <<>>), u)
      BY <1>6, <1>17, EmittedMore
    <3>2. Append(<<>>, u) = <<u>>
      OBVIOUS
    <3> QED BY <3>1, <3>2, EmittedNone
  <2>4. PICK n : n = B!Sent(m, u)
    OBVIOUS
  <2>5. /\ n = [blocks |-> n.blocks, pending |-> n.pending, queue |-> n.queue]
        /\ n.blocks = B!Stored(bs, u) /\ n.pending = <<>> /\ n.queue = queue \o B!Waiting(<<>>) \o <<u>>
    <3>1. /\ n = [blocks |-> n.blocks, pending |-> n.pending, queue |-> n.queue]
          /\ n.blocks = B!Stored(m.blocks, u) /\ n.pending = <<>>
          /\ n.queue = m.queue \o B!Waiting(m.pending) \o <<u>>
      <4>1. u.type # "text_chunk"
        BY <1>6
      <4> QED BY <2>2, <2>4, <4>1, SentIs
    <3> QED BY <1>16, <2>1, <3>1
  <2>6. n.queue = Append(queue, u) /\ n.queue \in Seq(EventRecords)
    <3>1. queue \o B!Waiting(<<>>) = queue
      BY <1>7, NothingWaits, ConcatEmptySeq
    <3> QED BY <1>6, <1>7, <2>5, <3>1, OneMore
  <2>7. B!Stored(bs, u) = bs
    <3>1. B!Unfinished(bs, u) = {}
      <4>1. SUFFICES ASSUME NEW i \in DOMAIN bs, bs[i].type = "log", bs[i].id = u.id, bs[i].content = "busy"
                     PROVE  FALSE
        BY DEF B!Unfinished, B!Indices
      <4>2. bs[i] \in Live(bs)
        BY <4>1 DEF Live, Marked
      <4> QED BY <1>6, <1>13, <4>1, <4>2
    <3> QED BY <1>6, <3>1 DEF B!Stored
  <2>8. B!ApplyBlock(blocks, u) = bs
    <3> DEFINE is == B!Unfinished(blocks, u)
    <3>1. N - 1 \in is /\ is \in SUBSET (1..N)
      BY <1>6, <1>9 DEF B!Unfinished, B!Indices
    <3>2. \A i \in is : i = N - 1
      <4>1. \A i \in is : i \in DOMAIN blocks /\ blocks[i].type = "log" /\ blocks[i].id = title /\ blocks[i].content = "busy"
        BY <1>6 DEF B!Unfinished, B!Indices
      <4> QED BY <1>6, <1>7, <1>9, <3>1, <4>1 DEF Tidy, Marked
    <3>3. B!First(is) = N - 1
      <4>1. is \in SUBSET Nat /\ is # {}
        BY <3>1
      <4> HIDE DEF is
      <4>2. B!First(is) \in is
        BY <4>1, FirstOf
      <4> QED BY <3>2, <4>2
    <3>4. B!Stored(blocks, u) = [blocks EXCEPT ![N - 1] = a]
      BY <1>6, <3>1, <3>3 DEF B!Stored
    <3> QED BY <1>6, <1>7, <1>12, <3>4, SameBlocks
  <2>9. B!Replay(view, n.queue) = bs
    BY <1>6, <1>7, <1>14, <2>6, <2>8, ReplayMore
  <2>10. Agrees(n)
    <3>1. n \in HeldRecords
      BY <1>13, <1>17, <2>5, <2>6, <2>7 DEF HeldRecords
    <3>2. n.queue \o B!Waiting(n.pending) = n.queue
      BY <2>5, <2>6, NothingWaits, ConcatEmptySeq
    <3> QED BY <1>13, <2>5, <2>7, <2>9, <3>1, <3>2 DEF Agrees
  <2> QED BY <2>3, <2>4, <2>5, <2>7, <2>10 DEF Reached
<1>20. Reached(m, <<u>>, Live(bs)) /\ <<u>> \in Seq(EventRecords)
  BY <1>6, <1>18, <1>19
<1>21. RunKept' /\ stage' # "sql"
  <2>1. stopped' = stopped
    BY <1>1 DEF B!EmitFrom
  <2> QED BY <1>1, <1>7, <2>1 DEF RunKept
<1>22. ASSUME NEW b \in Live(bs)
       PROVE  MayLive(b) /\ (b.type = "log" => MayLive(b)') /\ (~(activity /\ b.id = called) => MayLive(b)')
  <2>1. MayLive(b) /\ ~(b.type = "log" /\ b.id = title)
    BY <1>7, <1>13 DEF LiveKept
  <2> QED BY <1>1, <2>1 DEF MayLive
<1>23. B!EmitFrom(bs, q, <<u>> \o B!ReportFailure) /\ m = [blocks |-> bs, pending |-> pending, queue |-> q]
  BY <1>1, <1>5, <1>7, <1>10, <1>11, <1>15
<1>24. CASE ~activity
  <2>1. <<u>> \o B!ReportFailure = <<u>>
    BY <1>20, <1>24, ConcatEmptySeq DEF B!ReportFailure
  <2> QED BY <1>20, <1>21, <1>22, <1>23, <1>24, <2>1, SomeKeep
<1>25. CASE activity
  <2>1. called \in Nat /\ called # 0
    BY <1>7, <1>25 DEF RunKept
  <2>2. PICK w : w = B!Block("activity", called, "warning")
    OBVIOUS
  <2>3. w \in EventRecords /\ w.type = "activity" /\ w.id = called /\ w.content = "warning"
    BY <2>1, <2>2, EventIs DEF Contents
  <2>4. B!ReportFailure = <<w>>
    BY <1>1, <1>25, <2>2 DEF B!ReportFailure, B!Activity
  <2>5. Reached(m, <<u>> \o <<w>>, After(Live(bs), w))
    BY <1>7, <1>20, <2>3, ReachedNext
  <2>6. ASSUME NEW b \in After(Live(bs), w) PROVE MayLive(b)'
    <3>1. CASE b \in Live(bs) /\ ~Replaces(w, b)
      <4>1. b.type = "log" \/ ~(b.id = called)
        <5>1. b.type = "activity" \/ b.type = "log"
          BY <1>13, <3>1, LiveIs
        <5> QED BY <2>3, <3>1, <5>1 DEF Replaces
      <4> QED BY <1>22, <3>1, <4>1
    <3>2. CASE b = w
      <4>1. called \in 1..called
        BY <2>1
      <4> QED BY <1>1, <2>3, <3>2, <4>1 DEF MayLive
    <3> QED BY <3>1, <3>2, AfterAny
  <2> QED BY <1>21, <1>23, <2>4, <2>5, <2>6, SomeKeep
<1>26. activity \in BOOLEAN
  BY <1>7 DEF RunKept
<1> QED BY <1>24, <1>25, <1>26

-----------------------------------------------------------------------------
LEMMA BlocksInit ==
  ASSUME B!Init
  PROVE  BlocksKept
<1>1. /\ blocks = <<>> /\ pending = <<>> /\ queue = <<>> /\ view = <<>>
      /\ stage = "asking" /\ round = 0 /\ called = 0 /\ said = 0 /\ activity = FALSE
      /\ title = MaxRounds + 1
  BY DEF B!Init
<1>2. <<>> \in Words /\ <<>> \in Seq(BlockRecords) /\ <<>> \in Seq(EventRecords)
  BY DEF Words
<1>3. Live(<<>>) = {} /\ Tidy(<<>>)
  BY DEF Live, Tidy
<1>4. Agrees(Held)
  <2>1. Held = [blocks |-> <<>>, pending |-> <<>>, queue |-> <<>>]
    BY <1>1 DEF Held
  <2>2. Held \in HeldRecords
    BY <1>2, <2>1 DEF HeldRecords
  <2>3. Held.blocks = <<>> /\ Held.pending = <<>> /\ Held.queue = <<>>
    BY <2>1
  <2>4. <<>> \o <<>> = <<>>
    BY <1>2, ConcatEmptySeq
  <2>5. B!Replay(view, Held.queue \o B!Waiting(Held.pending)) = Held.blocks
    BY <1>1, <2>3, <2>4, NothingWaits, ReplayNone
  <2> QED BY <1>3, <2>2, <2>3, <2>5 DEF Agrees
<1>5. LiveKept
  BY <1>1, <1>3 DEF LiveKept
<1>6. RunKept
  <2>1. MaxRounds \in Nat
    BY PagesAssumption
  <2>2. round \in 0..MaxRounds /\ called \in Nat /\ said \in Nat /\ title \in Nat
    BY <1>1, <2>1
  <2>3. ~activity /\ activity \in BOOLEAN /\ stage = "asking"
    BY <1>1
  <2> QED BY <2>2, <2>3 DEF RunKept
<1> QED BY <1>1, <1>2, <1>4, <1>5, <1>6 DEF BlocksKept

-----------------------------------------------------------------------------
(* The error behind the blocks *)

(* What an answer that failed holds: an error behind what the events make of *)
(* the page, of which they say nothing.                                     *)
FailedAfter(bs) ==
  /\ bs \in Seq(BlockRecords) /\ blocks = Append(bs, B!Error)
  /\ B!Replay(view, queue \o B!Waiting(pending)) = bs
  /\ \A i \in DOMAIN bs :
       bs[i].type = "activity" /\ bs[i].content = "running" => activity /\ bs[i].id = called /\ stopped

EndKept ==
  /\ stage = "ended"
  /\ view \in Seq(BlockRecords) /\ queue \in Seq(EventRecords) /\ pending \in Words
  /\ \E bs : FailedAfter(bs)

(* A title taken twice is the reader's to bear: worker and page settle      *)
(* different logs.  Until then they agree, up to the error.                 *)
AnswerKept == clashed = TRUE \/ BlocksKept \/ EndKept

LEMMA RunningIs ==
  ASSUME BlocksKept, NEW i \in DOMAIN blocks, blocks[i].type = "activity", blocks[i].content = "running"
  PROVE  activity /\ blocks[i].id = called /\ (stage \in {"failing", "returned", "ended"} => stopped)
<1>1. blocks[i] \in Live(blocks)
  BY DEF Live, Marked
<1>2. MayLive(blocks[i])
  BY <1>1, BlocksAre DEF LiveKept
<1> QED BY <1>2, BlocksAre DEF MayLive, RunKept

LEMMA EndOfRunKeeps ==
  ASSUME BlocksKept, B!Fail \/ B!Finalize
  PROVE  BlocksKept' \/ EndKept'
<1>1. /\ stage \in {"failing", "returned"} /\ stage' = "ended"
      /\ UNCHANGED <<pending, queue, view, round, called, said, activity, title, stopped>>
      /\ blocks' = blocks \/ blocks' = Append(blocks, B!Error)
  BY DEF B!Fail, B!Finalize, B!titles
<1>2. CASE blocks' = blocks
  <2>1. Held' = Held /\ Agrees(Held)'
    <3>1. Held' = Held
      BY <1>1, <1>2 DEF Held
    <3> QED BY <1>1, <3>1, BlocksAre DEF Agrees
  <2>2. RunKept'
    BY <1>1, BlocksAre DEF RunKept
  <2>3. LiveKept'
    <3>1. ASSUME NEW b \in Live(blocks) PROVE MayLive(b)'
      <4>1. MayLive(b)
        BY BlocksAre DEF LiveKept
      <4> QED BY <1>1, <4>1 DEF MayLive
    <3>2. Live(blocks') = Live(blocks)
      BY <1>2
    <3> QED BY <3>1, <3>2 DEF LiveKept
  <2> QED BY <1>1, <2>1, <2>2, <2>3, BlocksAre DEF BlocksKept
<1>3. CASE blocks' = Append(blocks, B!Error)
  <2>1. PICK bs : bs = blocks
    OBVIOUS
  <2>2. B!Replay(view, queue \o B!Waiting(pending)) = bs /\ bs \in Seq(BlockRecords)
    BY <2>1, BlocksAre DEF Agrees, Held
  <2>3. \A i \in DOMAIN bs :
          bs[i].type = "activity" /\ bs[i].content = "running" => activity /\ bs[i].id = called /\ stopped
    BY <1>1, <2>1, RunningIs
  <2>4. FailedAfter(bs)'
    BY <1>1, <1>3, <2>1, <2>2, <2>3 DEF FailedAfter
  <2>5. view' \in Seq(BlockRecords) /\ queue' \in Seq(EventRecords) /\ pending' \in Words
    BY <1>1, BlocksAre
  <2> QED BY <1>1, <2>4, <2>5 DEF EndKept
<1> QED BY <1>1, <1>2, <1>3

LEMMA EndStays ==
  ASSUME EndKept, B!Next \/ UNCHANGED answer
  PROVE  EndKept'
<1>1. /\ stage = "ended" /\ view \in Seq(BlockRecords) /\ queue \in Seq(EventRecords) /\ pending \in Words
  BY DEF EndKept
<1>2. PICK bs : FailedAfter(bs)
  BY DEF EndKept
<1>3. B!Flush \/ B!Publish \/ UNCHANGED answer
  BY <1>1 DEF B!Next, B!MemoryNotice, B!Round, B!Say, B!Shorten, B!AskAgain, B!Refuse, B!StartCall, B!QueryStart,
              B!QueryDone, B!QueryFails, B!Show, B!Complete, B!Correct, B!ToolThrows, B!SecurityStop, B!EndRound,
              B!Close, B!Stop, B!Fail, B!Finalize
<1>4. UNCHANGED <<blocks, stage, called, activity, stopped>>
  BY <1>3 DEF B!Flush, B!Publish, answer
<1>5. /\ view' \in Seq(BlockRecords) /\ queue' \in Seq(EventRecords) /\ pending' \in Words
      /\ B!Replay(view', queue' \o B!Waiting(pending')) = B!Replay(view, queue \o B!Waiting(pending))
  <2>1. CASE B!Flush
    BY <1>1, <2>1, FlushSame
  <2>2. CASE B!Publish
    BY <1>1, <2>2, PublishSame
  <2>3. CASE UNCHANGED answer
    BY <1>1, <2>3 DEF answer
  <2> QED BY <1>3, <2>1, <2>2, <2>3
<1>6. FailedAfter(bs)'
  BY <1>2, <1>4, <1>5 DEF FailedAfter
<1> QED BY <1>1, <1>4, <1>5, <1>6 DEF EndKept

LEMMA BlocksStep ==
  ASSUME BlocksKept, B!Next, clashed' # TRUE
  PROVE  BlocksKept' \/ EndKept'
<1>1. MaxRounds \in Nat
  BY PagesAssumption
<1> QED BY <1>1, FlushKeeps, PublishKeeps, NoticeKeeps, RoundKeeps, SayKeeps, EndOfRoundKeeps, AskAgainKeeps,
           NewCallKeeps, QueryStartKeeps, QueryDoneKeeps, QueryFailsKeeps, ShowKeeps, EndOfCallKeeps, ThrowKeeps,
           SecurityKeeps, CloseKeeps, StopKeeps, EndOfRunKeeps DEF B!Next

LEMMA BlocksStutter ==
  ASSUME BlocksKept, UNCHANGED answer
  PROVE  BlocksKept'
<1>1. UNCHANGED <<blocks, pending, queue, view, stage, round, called, said, activity, stopped, title>>
  BY DEF answer
<1>2. Agrees(Held)'
  <2>1. Held' = Held
    BY <1>1 DEF Held
  <2> QED BY <1>1, <2>1, BlocksAre DEF Agrees
<1>3. LiveKept' /\ RunKept'
  BY <1>1, BlocksAre DEF LiveKept, RunKept, MayLive
<1>4. stage' = "sql" => QueryRuns'
  BY <1>1 DEF BlocksKept, QueryRuns, EndsInQuery, B!QueryLog, B!Other, B!Block
<1> QED BY <1>1, <1>2, <1>3, <1>4, BlocksAre DEF BlocksKept

(* A clash is not undone. *)
LEMMA ClashedStays ==
  ASSUME clashed = TRUE, B!Next \/ UNCHANGED answer
  PROVE  clashed' = TRUE
<1>1. CASE B!QueryStart
  BY <1>1 DEF B!QueryStart
<1>2. CASE UNCHANGED answer
  BY <1>2 DEF answer
<1>3. CASE ~B!QueryStart /\ B!Next
  <2>1. clashed' = clashed
    BY <1>3 DEF B!Next, B!titles, B!Flush, B!Publish, B!MemoryNotice, B!Round, B!Say, B!Shorten, B!AskAgain, B!Refuse,
                B!StartCall, B!QueryDone, B!QueryFails, B!Show, B!Complete, B!Correct, B!ToolThrows, B!SecurityStop,
                B!EndRound, B!Close, B!Stop, B!Fail, B!Finalize
  <2> QED BY <2>1
<1> QED BY <1>1, <1>2, <1>3

LEMMA AnswerStep ==
  ASSUME AnswerKept, B!Next \/ UNCHANGED answer
  PROVE  AnswerKept'
<1>1. CASE clashed = TRUE \/ clashed' = TRUE
  BY <1>1, ClashedStays DEF AnswerKept
<1>2. CASE clashed' # TRUE /\ BlocksKept
  BY <1>2, BlocksStep, BlocksStutter DEF AnswerKept
<1>3. CASE EndKept
  BY <1>3, EndStays DEF AnswerKept
<1> QED BY <1>1, <1>2, <1>3 DEF AnswerKept

LEMMA BlocksShow ==
  ASSUME BlocksKept
  PROVE  B!ReplayGivesBlocks /\ B!ActivitiesSettle
<1>1. B!ReplayGivesBlocks
  <2>1. PICK s : s = B!Replay(view, queue \o B!Waiting(pending))
    OBVIOUS
  <2>2. s = blocks /\ s \in Seq(BlockRecords)
    BY <2>1, BlocksAre DEF Agrees, Held
  <2>3. s \o <<>> = s
    BY <2>2, ConcatEmptySeq
  <2> QED BY <2>1, <2>2, <2>3 DEF B!ReplayGivesBlocks
<1> QED BY <1>1, RunningIs DEF B!ActivitiesSettle

LEMMA EndShows ==
  ASSUME EndKept
  PROVE  B!ReplayGivesBlocks /\ B!ActivitiesSettle
<1>1. PICK bs : FailedAfter(bs)
  BY DEF EndKept
<1>2. PICK V : V = BlockRecords \cup {B!Error}
  OBVIOUS
<1>3. bs \in Seq(V) /\ B!Error \in V /\ blocks = Append(bs, B!Error)
  BY <1>1, <1>2 DEF FailedAfter
<1>4. bs \o <<B!Error>> = blocks
  BY <1>3, OneMore
<1>5. B!ReplayGivesBlocks
  <2>1. PICK s : s = B!Replay(view, queue \o B!Waiting(pending))
    OBVIOUS
  <2>2. s \o <<B!Error>> = blocks
    BY <1>1, <1>4, <2>1 DEF FailedAfter
  <2> QED BY <2>1, <2>2 DEF B!ReplayGivesBlocks, EndKept
<1>6. ASSUME NEW i \in DOMAIN blocks, blocks[i].type = "activity", blocks[i].content = "running"
      PROVE  activity /\ blocks[i].id = called /\ stopped
  <2>1. /\ Len(blocks) = Len(bs) + 1 /\ blocks \in Seq(V) /\ blocks[Len(bs) + 1] = B!Error
        /\ \A j \in 1..Len(bs) : blocks[j] = bs[j]
    BY <1>3, AppendIs
  <2>2. B!Error.type # "activity"
    BY DEF B!Error, B!Other, B!Block
  <2>3. i \in 1..(Len(bs) + 1) /\ Len(bs) \in Nat /\ DOMAIN bs = 1..Len(bs)
    BY <1>3, <2>1
  <2>4. i # Len(bs) + 1
    BY <1>6, <2>1, <2>2
  <2>5. i \in DOMAIN bs /\ blocks[i] = bs[i]
    BY <2>1, <2>3, <2>4
  <2> QED BY <1>1, <1>6, <2>5 DEF FailedAfter
<1> QED BY <1>5, <1>6 DEF B!ActivitiesSettle

(* The stored message and the page's replay of the log agree whatever the    *)
(* timer, the queue and the calls of the agent did, for any number of        *)
(* rounds, calls and texts, up to the error of an answer that failed; and no *)
(* activity is left running.  This is for answers in which no query takes    *)
(* the title of a log that waits for its end.                               *)
THEOREM BlocksAgree == AllSpec => [](clashed # TRUE => BlocksReplay)
<1>1. AllInit => (part = "blocks" => AnswerKept)
  BY BlocksInit DEF AllInit, AnswerKept
<1>2. (part = "blocks" => AnswerKept) /\ [AllNext]_all => (part = "blocks" => AnswerKept)'
  <2>1. [AllNext]_all => UNCHANGED part /\ (part = "blocks" => B!Next \/ UNCHANGED answer)
    BY DEF AllNext, Only, all
  <2> QED BY <2>1, AnswerStep
<1>3. (part = "blocks" => AnswerKept) => (clashed # TRUE => BlocksReplay)
  BY BlocksShow, EndShows DEF BlocksReplay, AnswerKept
<1> QED BY <1>1, <1>2, <1>3, PTL DEF AllSpec
=============================================================================
