--------------------------- MODULE AgentLoopProofs --------------------------
(***************************************************************************)
(* The safety of AgentLoop, for any queries, artifacts, error codes, length *)
(* of batches and number of responses.                                     *)
(***************************************************************************)
EXTENDS AgentLoop, SequenceTheorems, TLAPS

-----------------------------------------------------------------------------
(* The inductive invariant. *)

TypeOK ==
  /\ pc \in {"round", "streaming", "batch", "executing", "saved", "stopping", "ended"}
  /\ round \in Nat
  /\ batch \in Seq(Calls)
  /\ observed \subseteq Artifacts
  /\ basis \subseteq observed
  /\ seenIn \in [Artifacts -> Nat]
  /\ charts \subseteq Artifacts \X Nat
  /\ waiting \in Int

(* While a batch is dealt with, its remaining calls are the ones that wait  *)
(* for a result; between two batches none does.                            *)
Paired ==
  /\ HistoryIsPaired
  /\ pc \in {"batch", "executing"} => waiting = Len(batch)
  /\ pc \in {"round", "streaming", "saved"} => waiting = 0
  /\ pc = "executing" => batch # <<>>

(* What was observed came in a response so far, and what a batch may draw   *)
(* came before its own response.                                           *)
Seen ==
  /\ pc \in {"streaming", "batch", "executing"} => round > 0
  /\ \A a \in Artifacts : seenIn[a] <= round
  /\ \A a \in observed : seenIn[a] \in 1..round
  /\ pc = "streaming" => \A a \in observed : seenIn[a] < round
  /\ pc \in {"batch", "executing"} => \A a \in basis : seenIn[a] < round
  /\ pc = "executing" /\ Current.name = "chart" => Current.arg \in basis
  /\ ChartsOfSeenEvidence

(* What counts as an answer was shown, and a finish is accepted only of     *)
(* what was answered or delivered.                                         *)
Earned ==
  /\ answered => shown
  /\ final => shown \/ (visualOnly /\ delivered)
  /\ FinishedIsDelivered

Inductive == TypeOK /\ Paired /\ Seen /\ Earned

-----------------------------------------------------------------------------
(* A batch is a sequence of calls. *)
LEMMA BatchIsSeq ==
  ASSUME NEW b \in Batches
  PROVE  b \in Seq(Calls)
<1>1. PICK n \in 0..MaxBatch : b \in [1..n -> Calls]
  BY DEF Batches
<1>2. n \in Nat
  BY AgentAssumption
<1> QED BY <1>1, <1>2

(* The result of a call: one call less waits, of a batch one shorter, unless *)
(* the run ends.                                                           *)
LEMMA ToldLess ==
  ASSUME TypeOK, Paired, pc \in {"batch", "executing"}, batch # <<>>,
         NEW asks, Told(asks)
  PROVE  /\ pc' \in {"batch", "ended"}
         /\ batch' \in Seq(Calls)
         /\ waiting' \in Int
         /\ pc' = "batch" => waiting' = Len(batch')
         /\ pc' = "ended" => outcome' = "threw"
         /\ pc' = "batch" => outcome' = outcome
<1>1. batch' = Tail(batch) /\ Tail(batch) \in Seq(Calls) /\ Len(Tail(batch)) = Len(batch) - 1
  BY HeadTailProperties DEF Told, TypeOK
<1>2. Len(batch) \in Nat /\ waiting = Len(batch)
  BY LenProperties DEF TypeOK, Paired
<1>3. waiting' = waiting - 1
  BY DEF Told
<1>4. pc' \in {"batch", "ended"} /\ (pc' = "ended" => outcome' = "threw") /\ (pc' = "batch" => outcome' = outcome)
  BY DEF Told, Throws
<1> QED BY <1>1, <1>2, <1>3, <1>4

LEMMA InitInductive ==
  ASSUME Init
  PROVE  Inductive
<1>1. TypeOK
  BY DEF Init, TypeOK
<1>2. Paired /\ Seen /\ Earned
  BY DEF Init, Paired, Seen, Earned, HistoryIsPaired, ChartsOfSeenEvidence, FinishedIsDelivered
<1> QED BY <1>1, <1>2 DEF Inductive

LEMMA TypeStep ==
  ASSUME Inductive, [Next]_vars
  PROVE  TypeOK'
<1> USE DEF Inductive
<1>1. CASE Abort \/ CheckThrows \/ AskFails \/ Shorten \/ StreamFails \/ Execute \/ Stopped \/ ToolThrows
           \/ Continue \/ UNCHANGED vars
  BY <1>1 DEF Abort, CheckThrows, AskFails, Shorten, StreamFails, Execute, Stopped, ToolThrows, Continue, Throws,
              TypeOK, vars, response, evidence, history
<1>2. CASE Ask
  BY <1>2 DEF Ask, TypeOK, response, evidence, history
<1>3. ASSUME NEW c, NEW b \in Batches, Respond(c, b) PROVE TypeOK'
  <2>1. CASE AskAgain(c, b)
    BY <2>1 DEF AskAgain, Throws, TypeOK, response, evidence, history
  <2>2. CASE Remind(Text(c))
    BY <2>2 DEF Remind, Throws, Save, TypeOK, response, evidence
  <2>3. CASE Accept(Text(c), b)
    <3>1. b \in Seq(Calls) /\ Len(b) \in Nat
      BY BatchIsSeq, LenProperties
    <3> QED BY <2>3, <3>1 DEF Accept, TypeOK, evidence
  <2> QED BY <1>3, <2>1, <2>2, <2>3 DEF Respond
<1>4. ASSUME NEW asks, Told(asks), pc \in {"batch", "executing"}, batch # <<>>,
             UNCHANGED <<round, basis, evidence>>
      PROVE  TypeOK'
  BY <1>4, ToldLess DEF TypeOK, evidence
<1>5. CASE Finish \/ FinishTooEarly \/ Refuse
  BY <1>5, <1>4 DEF Finish, FinishTooEarly, Refuse, AtCall
<1>6. ASSUME Returned, NEW found \in Found, Succeed(found) PROVE TypeOK'
  <2>1. found \subseteq Artifacts
    BY <1>6 DEF Found, Artifacts, TypeOK
  <2>2. pc = "executing" /\ batch # <<>>
    BY <1>6 DEF Returned, Paired
  <2>3. pc' \in {"batch", "ended"} /\ batch' \in Seq(Calls) /\ waiting' \in Int
    BY <1>6, <2>2, ToldLess DEF Succeed
  <2>4. Current.name = "chart" => Current.arg \in Artifacts
    BY <2>2 DEF Seen, TypeOK
  <2>5. charts' \subseteq Artifacts \X Nat
    BY <1>6, <2>4 DEF Succeed, TypeOK
  <2>6. seenIn' \in [Artifacts -> Nat]
    BY <1>6 DEF Succeed, TypeOK
  <2> QED BY <1>6, <2>1, <2>3, <2>5, <2>6 DEF Succeed, TypeOK
<1>7. ASSUME NEW code \in Codes, FailSoftly(code) PROVE TypeOK'
  BY <1>4, <1>7 DEF FailSoftly, Returned, Paired
<1>8. CASE SecurityStop
  <2>1. waiting' \in Int
    BY <1>8, LenProperties DEF SecurityStop, Skipped, TypeOK
  <2> QED BY <1>8, <2>1 DEF SecurityStop, TypeOK, evidence
<1>9. CASE Checkpoint
  BY <1>9 DEF Checkpoint, Save, TypeOK, response, evidence
<1> QED BY <1>1, <1>2, <1>3, <1>5, <1>6, <1>7, <1>8, <1>9 DEF Next

LEMMA PairedStep ==
  ASSUME Inductive, [Next]_vars
  PROVE  Paired'
<1> USE DEF Inductive
<1>1. CASE Abort \/ CheckThrows \/ AskFails \/ Shorten \/ StreamFails \/ Execute \/ Stopped \/ ToolThrows
           \/ Continue \/ UNCHANGED vars
  BY <1>1 DEF Abort, CheckThrows, AskFails, Shorten, StreamFails, Execute, AtCall, Stopped, ToolThrows, Continue, Throws,
              Paired, HistoryIsPaired, vars, response, history
<1>2. CASE Ask
  BY <1>2 DEF Ask, Paired, HistoryIsPaired, response, history
<1>3. ASSUME NEW c, NEW b \in Batches, Respond(c, b) PROVE Paired'
  <2>1. CASE AskAgain(c, b)
    BY <1>3, <2>1 DEF Respond, AskAgain, Throws, Paired, HistoryIsPaired, response, history
  <2>2. CASE Remind(Text(c))
    BY <1>3, <2>2 DEF Respond, Remind, Throws, Save, Paired, HistoryIsPaired, response
  <2>3. CASE Accept(Text(c), b)
    <3>1. Len(b) \in Nat
      BY BatchIsSeq, LenProperties
    <3> QED BY <1>3, <2>3, <3>1 DEF Respond, Accept, Paired, HistoryIsPaired
  <2> QED BY <1>3, <2>1, <2>2, <2>3 DEF Respond
<1>4. ASSUME NEW asks, Told(asks), pc \in {"batch", "executing"}, batch # <<>>, UNCHANGED saved
      PROVE  Paired'
  BY <1>4, ToldLess DEF Paired, HistoryIsPaired
<1>5. CASE Finish \/ FinishTooEarly \/ Refuse
  BY <1>5, <1>4 DEF Finish, FinishTooEarly, Refuse, AtCall
<1>6. ASSUME Returned, NEW found \in Found, Succeed(found) PROVE Paired'
  BY <1>4, <1>6 DEF Succeed, Returned, Paired
<1>7. ASSUME NEW code \in Codes, FailSoftly(code) PROVE Paired'
  BY <1>4, <1>7 DEF FailSoftly, Returned, Paired
<1>8. CASE SecurityStop
  <2>1. Len(batch) \in Nat
    BY LenProperties DEF TypeOK
  <2> QED BY <1>8, <2>1 DEF SecurityStop, Skipped, Returned, Paired, HistoryIsPaired
<1>9. CASE Checkpoint
  <2>1. Len(<<>>) = 0
    OBVIOUS
  <2> QED BY <1>9, <2>1 DEF Checkpoint, Save, Paired, HistoryIsPaired, response
<1> QED BY <1>1, <1>2, <1>3, <1>5, <1>6, <1>7, <1>8, <1>9 DEF Next

LEMMA SeenStep ==
  ASSUME Inductive, [Next]_vars
  PROVE  Seen'
<1> USE DEF Inductive
<1>1. CASE Abort \/ CheckThrows \/ AskFails \/ Shorten \/ StreamFails \/ Stopped \/ ToolThrows \/ Continue
           \/ UNCHANGED vars
  BY <1>1 DEF Abort, CheckThrows, AskFails, Shorten, StreamFails, Stopped, ToolThrows, Continue, Throws,
              Seen, ChartsOfSeenEvidence, Current, vars, response, evidence
<1>2. CASE Ask
  <2>1. \A a \in observed : seenIn[a] \in Nat
    BY DEF TypeOK
  <2> QED BY <1>2, <2>1 DEF Ask, Seen, ChartsOfSeenEvidence, response, evidence, TypeOK
<1>3. CASE Execute
  BY <1>3 DEF Execute, AtCall, Refused, BaseOfChart, Seen, ChartsOfSeenEvidence, Current, response, evidence
<1>4. ASSUME NEW c, NEW b \in Batches, Respond(c, b) PROVE Seen'
  <2>1. CASE AskAgain(c, b)
    BY <2>1 DEF AskAgain, Throws, Seen, ChartsOfSeenEvidence, response, evidence
  <2>2. CASE Remind(Text(c))
    BY <2>2 DEF Remind, Throws, Seen, ChartsOfSeenEvidence, response, evidence
  <2>3. CASE Accept(Text(c), b)
    BY <1>4, <2>3 DEF Respond, Accept, Seen, ChartsOfSeenEvidence, evidence
  <2> QED BY <1>4, <2>1, <2>2, <2>3 DEF Respond
<1>5. ASSUME NEW asks, Told(asks), pc \in {"batch", "executing"}, batch # <<>>,
             UNCHANGED <<round, basis, evidence>>
      PROVE  Seen'
  BY <1>5, ToldLess DEF Seen, ChartsOfSeenEvidence, evidence
<1>6. CASE Finish \/ FinishTooEarly \/ Refuse
  BY <1>6, <1>5 DEF Finish, FinishTooEarly, Refuse, AtCall
<1>7. ASSUME Returned, NEW found \in Found, Succeed(found) PROVE Seen'
  <2>1. found \subseteq Artifacts /\ pc = "executing" /\ batch # <<>>
    BY <1>7 DEF Found, Artifacts, TypeOK, Returned, Paired
  <2>2. pc' \in {"batch", "ended"}
    BY <1>7, <2>1, ToldLess DEF Succeed
  <2>3. /\ round' = round /\ basis' = basis /\ observed' = observed \cup found
        /\ seenIn' = [a \in Artifacts |-> IF a \in found /\ seenIn[a] = 0 THEN round ELSE seenIn[a]]
        /\ charts' = IF Current.name = "chart" THEN charts \cup {<<Current.arg, round>>} ELSE charts
    BY <1>7 DEF Succeed
  <2>4. \A a \in Artifacts : seenIn[a] > 0 => seenIn'[a] = seenIn[a]
    BY <2>3 DEF TypeOK
  <2>5. \A a \in observed : a \in Artifacts /\ seenIn[a] \in 1..round /\ seenIn[a] > 0
    BY DEF TypeOK, Seen
  <2>6. round > 0 /\ round \in Nat
    BY <2>1 DEF Seen, TypeOK
  <2>7. \A a \in Artifacts : seenIn'[a] <= round /\ (a \in found => seenIn'[a] \in 1..round)
    BY <2>3, <2>6 DEF Seen, TypeOK
  <2>8. \A a \in observed' : seenIn'[a] \in 1..round'
    BY <2>1, <2>3, <2>4, <2>5, <2>7
  <2>9. \A a \in basis' : seenIn'[a] < round'
    BY <2>1, <2>3, <2>4, <2>5 DEF Seen, TypeOK
  <2>10. ASSUME NEW chart \in charts' PROVE seenIn'[chart[1]] \in 1..(chart[2] - 1)
    <3>1. CASE chart \in charts
      <4>1. chart[1] \in Artifacts /\ chart[2] \in Nat /\ seenIn[chart[1]] \in 1..(chart[2] - 1)
        BY <3>1 DEF Seen, ChartsOfSeenEvidence, TypeOK
      <4> QED BY <2>4, <4>1
    <3>2. CASE chart \notin charts
      <4>1. Current.name = "chart" /\ chart = <<Current.arg, round>>
        BY <2>3, <3>2
      <4>2. Current.arg \in basis /\ seenIn[Current.arg] < round
        BY <2>1, <4>1 DEF Seen
      <4>3. Current.arg \in Artifacts /\ seenIn[Current.arg] \in 1..round
        BY <2>5, <4>2 DEF TypeOK
      <4>4. seenIn'[Current.arg] = seenIn[Current.arg]
        BY <2>4, <4>3, <2>6
      <4>5. chart[1] = Current.arg /\ chart[2] = round
        BY <4>1
      <4> HIDE DEF Current
      <4> QED BY <2>6, <4>2, <4>3, <4>4, <4>5
    <3> QED BY <3>1, <3>2
  <2>11. ChartsOfSeenEvidence'
    BY <2>10 DEF ChartsOfSeenEvidence
  <2> QED BY <2>2, <2>3, <2>6, <2>7, <2>8, <2>9, <2>11 DEF Seen
<1>8. ASSUME NEW code \in Codes, FailSoftly(code) PROVE Seen'
  BY <1>5, <1>8 DEF FailSoftly, Returned, Paired
<1>9. CASE SecurityStop
  BY <1>9 DEF SecurityStop, Seen, ChartsOfSeenEvidence, evidence
<1>10. CASE Checkpoint
  BY <1>10 DEF Checkpoint, Seen, ChartsOfSeenEvidence, response, evidence
<1> QED BY <1>1, <1>2, <1>3, <1>4, <1>6, <1>7, <1>8, <1>9, <1>10 DEF Next

LEMMA EarnedStep ==
  ASSUME Inductive, [Next]_vars
  PROVE  Earned'
<1> USE DEF Inductive
<1>1. CASE Abort \/ CheckThrows \/ Ask \/ AskFails \/ Shorten \/ StreamFails \/ Execute \/ Stopped \/ ToolThrows
           \/ Continue \/ UNCHANGED vars
  BY <1>1 DEF Abort, CheckThrows, Ask, AskFails, Shorten, StreamFails, Execute, Stopped, ToolThrows, Continue, Throws,
              Earned, FinishedIsDelivered, vars, flags, phase
<1>2. ASSUME NEW c, NEW b \in Batches, Respond(c, b) PROVE Earned'
  <2>1. CASE AskAgain(c, b)
    BY <2>1 DEF AskAgain, Throws, Earned, FinishedIsDelivered, flags, phase
  <2>2. CASE Remind(Text(c))
    BY <2>2 DEF Remind, Answers, Publishes, Throws, Earned, FinishedIsDelivered, flags
  <2>3. CASE Accept(Text(c), b)
    BY <2>3 DEF Accept, Answers, Publishes, Earned, FinishedIsDelivered, flags
  <2> QED BY <1>2, <2>1, <2>2, <2>3 DEF Respond
<1>3. ASSUME NEW asks, Told(asks) PROVE outcome' \in {outcome, "threw"}
  BY <1>3 DEF Told, Throws
<1>4. CASE Finish \/ FinishTooEarly \/ Refuse
  <2>1. outcome' \in {outcome, "threw"} /\ UNCHANGED <<shown, answered, delivered, visualOnly>>
    BY <1>3, <1>4 DEF Finish, FinishTooEarly, Refuse, flags, phase
  <2>2. final' => shown \/ (visualOnly /\ delivered)
    BY <1>4 DEF Finish, FinishTooEarly, Refuse, Undelivered, Earned
  <2> QED BY <2>1, <2>2 DEF Earned, FinishedIsDelivered
<1>5. ASSUME NEW found, Succeed(found) PROVE Earned'
  BY <1>3, <1>5 DEF Succeed, Earned, FinishedIsDelivered, flags
<1>6. ASSUME NEW code, FailSoftly(code) PROVE Earned'
  BY <1>3, <1>6 DEF FailSoftly, Earned, FinishedIsDelivered, flags, phase
<1>7. CASE SecurityStop \/ Checkpoint
  BY <1>7 DEF SecurityStop, Checkpoint, Earned, FinishedIsDelivered, flags, phase
<1> QED BY <1>1, <1>2, <1>4, <1>5, <1>6, <1>7 DEF Next

-----------------------------------------------------------------------------
(* The theorems. *)

(* The invariant behind the properties of the loop: what waits for a result, *)
(* when evidence was seen, and what a finish rests on.                      *)
THEOREM LoopInvariant == Spec => []Inductive
<1>1. Init => Inductive
  BY InitInductive
<1>2. Inductive /\ [Next]_vars => Inductive'
  BY TypeStep, PairedStep, SeenStep, EarnedStep DEF Inductive
<1> QED BY <1>1, <1>2, PTL DEF Spec

(* Whatever a batch holds and wherever it stops, no checkpoint has a call   *)
(* without a result or a result without its call.                           *)
THEOREM HistoryPaired == Spec => []HistoryIsPaired
<1>1. Inductive => HistoryIsPaired
  BY DEF Inductive, Paired
<1> QED BY <1>1, LoopInvariant, PTL

(* Whatever the model asks for, a chart is drawn of what it had seen.       *)
THEOREM ChartsSeen == Spec => []ChartsOfSeenEvidence
<1>1. Inductive => ChartsOfSeenEvidence
  BY DEF Inductive, Seen
<1> QED BY <1>1, LoopInvariant, PTL

(* However the model arrives at an accepted finish, the user has an answer  *)
(* or what he asked to see.                                                 *)
THEOREM FinishDelivered == Spec => []FinishedIsDelivered
<1>1. Inductive => FinishedIsDelivered
  BY DEF Inductive, Earned
<1> QED BY <1>1, LoopInvariant, PTL

(* After an abort, or once the row is another writer's, only the exception   *)
(* is left, or the end of a security stop whose checkpoint was begun.       *)
THEOREM AbortObeyed == Spec => AbortStops
<1> DEFINE Stops == signal => /\ pc' = "executing" => pc = "executing"
                              /\ saves' = saves
                              /\ \/ outcome' \in {outcome, "threw"}
                                 \/ pc = "stopping" /\ outcome' = "unable"
<1>1. ASSUME [Next]_vars, signal PROVE Stops
  <2>1. CASE CheckThrows
    BY <2>1 DEF CheckThrows, Throws, history
  <2>2. CASE UNCHANGED vars
    BY <2>2 DEF vars, history
  <2> QED BY <1>1, <2>1, <2>2
      DEF Next, Abort, Ask, AskFails, Shorten, StreamFails, Respond, Finish, FinishTooEarly, Refuse, Execute,
          AtCall, Returned, FailSoftly, SecurityStop, Stopped, ToolThrows, Checkpoint, Continue, history
<1>2. [Next]_vars => [Stops]_vars
  BY <1>1
<1> QED BY <1>2, PTL DEF Spec, AbortStops
=============================================================================
