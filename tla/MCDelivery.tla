----------------------------- MODULE MCDelivery -----------------------------
(***************************************************************************)
(* What must happen in the end on the server, in one run: an answer is     *)
(* settled, and the relay delivers what is written.  The relay's writers   *)
(* are its own and do not wait for it, so neither part waits for the other *)
(* and a behaviour is one of the relay or one of the answer; the part that *)
(* does not run stays as it begins, where none of its fair actions is      *)
(* enabled.                                                                *)
(***************************************************************************)
EXTENDS Outbox

CONSTANT g1

(* The first event of g1 cannot be delivered. *)
FirstInvalid == {<<g1, 1>>}

CONSTANTS Conversations, Executors, UserLimit, MaxAttempts, MaxBlocks, MaxUpdates

VARIABLES
  part,
  status, writer, overdue, lastSequence, events, turn, attempts, message, draft,
  analysis, conversation, live, failures, stage, job, abort, blocks, queue,
  broken, session, outcome

answer ==
  <<status, writer, overdue, lastSequence, events, turn, attempts, message, draft,
    analysis, conversation, live, failures, stage, job, abort, blocks, queue,
    broken, session, outcome>>

G == INSTANCE Generation WITH pc <- stage

-----------------------------------------------------------------------------
BothInit == part \in {"relay", "answer"} /\ Init /\ G!Init

BothNext ==
  /\ UNCHANGED part
  /\ \/ part = "relay" /\ Next /\ UNCHANGED answer
     \/ part = "answer" /\ G!Next /\ UNCHANGED vars

both == <<part, vars, answer>>

BothSpec == BothInit /\ [][BothNext]_both /\ Fairness /\ G!Fairness

-----------------------------------------------------------------------------
(* Every answer asked for ends, or is deleted with its conversation. *)
EventuallySettled == G!EventuallySettled
=============================================================================
