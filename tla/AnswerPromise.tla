--------------------------- MODULE AnswerPromise ----------------------------
(***************************************************************************)
(* What the system promises about an answer, as the API and the readers of *)
(* its event log may rely on it, without workers, tokens, timers or queues. *)
(***************************************************************************)
EXTENDS Naturals, Sequences

CONSTANTS Generations, Conversations, None

VARIABLES
  phase,      \* of each generation
  log,        \* the events of each generation in order of sequence
  place,      \* its conversation
  committed   \* revision of each conversation's analysis state, 0 if none

promise == <<phase, log, place, committed>>

Outcome    == {"completed", "failed", "cancelled"}
Unfinished == {"open", "cancelling"}

Init ==
  /\ phase = [g \in Generations |-> "none"]
  /\ log = [g \in Generations |-> <<>>]
  /\ place = [g \in Generations |-> None]
  /\ committed = [c \in Conversations |-> 0]

(* A question is accepted where no other answer is unfinished. *)
Ask(g, c) ==
  /\ phase[g] = "none"
  /\ \A h \in Generations : place[h] = c => phase[h] \notin Unfinished
  /\ phase' = [phase EXCEPT ![g] = "open"]
  /\ place' = [place EXCEPT ![g] = c]
  /\ UNCHANGED <<log, committed>>

(* A piece of the answer; none once a cancel has been accepted. *)
Tell(g) ==
  /\ phase[g] = "open"
  /\ log' = [log EXCEPT ![g] = Append(@, "content")]
  /\ UNCHANGED <<phase, place, committed>>

RequestCancel(g) ==
  /\ phase[g] = "open"
  /\ phase' = [phase EXCEPT ![g] = "cancelling"]
  /\ UNCHANGED <<log, place, committed>>

(* The outcome and the done event that says so appear together. *)
Close(S, verdict) ==
  /\ phase' = [g \in Generations |-> IF g \in S THEN verdict[g] ELSE phase[g]]
  /\ log' = [g \in Generations |-> IF g \in S THEN Append(log[g], verdict[g]) ELSE log[g]]
  /\ UNCHANGED place

(* An answer that is complete also moves the analysis state on; nobody who *)
(* asked for a cancel gets one.                                            *)
Complete(g) ==
  /\ phase[g] = "open"
  /\ Close({g}, [h \in {g} |-> "completed"])
  /\ committed' = [committed EXCEPT ![place[g]] = committed'[place[g]]]
  /\ committed'[place[g]] > committed[place[g]]

(* Otherwise it is given up, alone or together with others, and is called  *)
(* cancelled only if a cancel was asked for.                               *)
GiveUp(S) ==
  /\ \A g \in S : phase[g] \in Unfinished
  /\ \E verdict \in [S -> {"failed", "cancelled"}] :
       /\ \A g \in S : verdict[g] = "cancelled" => phase[g] = "cancelling"
       /\ Close(S, verdict)
  /\ UNCHANGED committed

(* Deleting a conversation forgets its answers. *)
Forget(c) ==
  /\ phase' = [g \in Generations |-> IF place[g] = c THEN "gone" ELSE phase[g]]
  /\ log' = [g \in Generations |-> IF place[g] = c THEN <<>> ELSE log[g]]
  /\ committed' = [committed EXCEPT ![c] = 0]
  /\ UNCHANGED place

Next ==
  \/ \E g \in Generations, c \in Conversations : Ask(g, c)
  \/ \E g \in Generations : Tell(g) \/ RequestCancel(g) \/ Complete(g)
  \/ \E S \in SUBSET Generations : GiveUp(S)
  \/ \E c \in Conversations : Forget(c)

Spec == Init /\ [][Next]_promise
=============================================================================
