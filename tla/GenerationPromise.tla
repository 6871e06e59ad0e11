-------------------------- MODULE GenerationPromise -------------------------
(***************************************************************************)
(* Generation implements AnswerPromise: an answer is open from its row's   *)
(* insertion to its terminal status, and its log is generation_event read  *)
(* in order of sequence.                                                   *)
(***************************************************************************)
EXTENDS GenerationInvariants

PhaseOf(g) ==
  CASE status[g] \in {"pending", "starting", "running"} -> "open"
    [] status[g] = "cancel_requested" -> "cancelling"
    [] status[g] = "absent" -> IF conversation[g] = None THEN "none" ELSE "gone"
    [] OTHER -> status[g]

KindAt(g, n) == (CHOOSE e \in events[g] : e.sequence = n).kind

Phases    == [g \in Generations |-> PhaseOf(g)]
Logs      == [g \in Generations |-> [n \in 1..lastSequence[g] |-> KindAt(g, n)]]
Committed == [c \in Conversations |-> analysis[c].revision]

Promised == INSTANCE AnswerPromise WITH
  phase <- Phases, log <- Logs, place <- conversation, committed <- Committed

(* The workers, tokens, monitors and retries of Generation keep what       *)
(* AnswerPromise promises to the API and to the readers of the log.        *)
KeepsPromise == Promised!Spec
=============================================================================
