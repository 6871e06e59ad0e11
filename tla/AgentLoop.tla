------------------------------ MODULE AgentLoop -----------------------------
(***************************************************************************)
(* AnalysisAgent.run: the decision loop of one answer.  The model is asked, *)
(* streams text and tool calls, the calls are executed one by one, their    *)
(* results go into the history, the history is checkpointed, and the model  *)
(* is asked again, until it has recorded how the analysis ended by a call   *)
(* of finish_analysis that the loop accepts.                               *)
(*                                                                         *)
(* The model may say anything: every response is a choice of a text and a   *)
(* batch of calls.  Definitions marked "Faulty" are plausible bugs in the   *)
(* definition after them and not part of the specification.                *)
(***************************************************************************)
EXTENDS Integers, Sequences

CONSTANTS
  Queries,     \* SQL texts
  Codes,       \* error codes of a query that was executed and failed
  Earlier,     \* artifacts of earlier turns, which read_query_artifact may find
  Fresh,       \* artifacts the queries of this run may create
  MaxBatch,    \* bound: calls in a response
  MaxRounds    \* bound: responses of the model

ASSUME AgentAssumption == MaxBatch \in Nat /\ MaxRounds \in Nat

VARIABLES
  pc,                 \* "round", "streaming", "batch", "executing", "saved", "stopping", "ended"
  signal,             \* the run is aborted or the row has another writer: check() throws
  round,              \* modelCalls
  chinese, visualOnly,            \* what the question asks for
  closingOnly, awaitingConclusion, answered, delivered,
  reminders, languageRetries, contextRetried,
  content,            \* the text of the response that counts: "none" or "fine"
  batch, mixed,       \* its calls not executed yet; several with finish or state among them
  final,              \* a finish was accepted
  observed, basis,    \* observed, previouslyObserved
  failures, blocked,  \* failedQueries, blockedQueries
  last, repeats,      \* repeatedAction, repeatedActionCount
  waiting,            \* calls in turnMessages that have no result there yet
  saved, saves,       \* waiting as of the last checkpoint, how many there were
  urged,              \* the last result in the history asks for an answer first
  shown,              \* the text of a response without analysis calls went to the user
  seenIn, charts,     \* the round an artifact's result came in; the charts drawn, with their round
  outcome             \* "none", "finished", "unable" or "threw"

flags == <<chinese, visualOnly>>
phase == <<closingOnly, awaitingConclusion, answered, delivered>>
tries == <<reminders, languageRetries, contextRetried>>
response == <<content, batch, mixed, basis>>
evidence == <<observed, seenIn, charts>>
progress == <<failures, blocked, last, repeats>>
history == <<waiting, saved, saves, urged>>

vars == <<pc, signal, round, flags, phase, tries, response, final, evidence, progress, history,
          shown, outcome>>

Artifacts == Earlier \cup Fresh

Call(name, arg) == [name |-> name, arg |-> arg]

FinishOK == Call("finish", "valid")

(* What a response may call, by how the loop treats it. *)
Calls ==
  {FinishOK, Call("finish", "invalid"), Call("state", "-"), Call("table", "-"), Call("other", "-")}
  \cup {Call("sql", q) : q \in Queries}
  \cup {Call(n, a) : n \in {"read", "chart"}, a \in Artifacts}

Batches == UNION {[1..n -> Calls] : n \in 0..MaxBatch}

Names(b) == {b[i].name : i \in DOMAIN b}

Init ==
  /\ pc = "round" /\ signal = FALSE /\ round = 0 /\ outcome = "none"
  /\ chinese \in BOOLEAN /\ visualOnly \in BOOLEAN
  /\ closingOnly = FALSE /\ awaitingConclusion = FALSE /\ answered = FALSE /\ delivered = FALSE
  /\ reminders = 0 /\ languageRetries = 0 /\ contextRetried = FALSE
  /\ content = "none" /\ batch = <<>> /\ mixed = FALSE /\ basis = {}
  /\ final = FALSE /\ shown = FALSE
  /\ observed = {} /\ seenIn = [a \in Artifacts |-> 0] /\ charts = {}
  /\ failures = [f \in Queries \X Codes |-> 0] /\ blocked = {}
  /\ last = Call("none", "-") /\ repeats = 0
  /\ waiting = 0 /\ saved = 0 /\ saves = 0 /\ urged = FALSE

-----------------------------------------------------------------------------
(* Ends and checks *)

Throws ==
  /\ pc' = "ended"
  /\ outcome' = "threw"

(* The shell's AbortController, or a claim by another writer. *)
Abort ==
  /\ pc # "ended" /\ ~signal
  /\ signal' = TRUE
  /\ UNCHANGED <<pc, round, flags, phase, tries, response, final, evidence, progress, history, shown,
                 outcome>>

(* Every step of the loop begins with check(), or with the test of the      *)
(* signal between two chunks; a checkpoint refuses what another writer has.  *)
CheckThrows ==
  /\ signal /\ pc # "ended"
  /\ Throws
  /\ UNCHANGED <<signal, round, flags, phase, tries, response, final, evidence, progress, history,
                 shown>>

-----------------------------------------------------------------------------
(* A request to the model *)

Ask ==
  /\ pc = "round" /\ ~signal /\ round < MaxRounds
  /\ round' = round + 1
  /\ pc' = "streaming"
  /\ UNCHANGED <<signal, flags, phase, tries, response, final, evidence, progress, history, shown,
                 outcome>>

(* CONTEXT_BUDGET_EXCEEDED, or a broken call before the request. *)
AskFails ==
  /\ pc = "round" /\ ~signal
  /\ Throws
  /\ UNCHANGED <<signal, round, flags, phase, tries, response, final, evidence, progress, history,
                 shown>>

(* The provider rejects the prompt as too long before any output. *)
Shorten ==
  /\ pc = "streaming" /\ ~signal /\ ~contextRetried
  /\ contextRetried' = TRUE
  /\ pc' = "round"
  /\ UNCHANGED <<signal, round, flags, phase, reminders, languageRetries, response, final, evidence,
                 progress, history, shown, outcome>>

(* LLM_REQUEST_FAILED, or the response breaks the protocol: a tool index    *)
(* out of range, too much output, a call without an id or with a used one.  *)
StreamFails ==
  /\ pc = "streaming" /\ ~signal
  /\ Throws
  /\ UNCHANGED <<signal, round, flags, phase, tries, response, final, evidence, progress, history,
                 shown>>

-----------------------------------------------------------------------------
(* A response *)

(* An English text where Chinese was asked for was withheld by the stream. *)
WrongLanguage(c) == ~closingOnly /\ chinese /\ c = "english"

(* Asked once to say it again in Chinese. *)
AskAgain(c, b) ==
  /\ WrongLanguage(c) /\ Names(b) \subseteq {"finish"}
  /\ languageRetries' = languageRetries + 1
  /\ IF languageRetries = 0 THEN pc' = "round" /\ outcome' = outcome ELSE Throws
  /\ UNCHANGED <<signal, round, flags, phase, reminders, contextRetried, response, final, evidence,
                 progress, history, shown>>

(* The text that counts: a withheld preamble of tool calls is dropped. *)
Text(c) == IF c = "none" \/ WrongLanguage(c) THEN "none" ELSE "fine"

(* Faulty: text that is not published any more counts as an answer. *)
AnswersEver(t, b) == t # "none" /\ Names(b) \subseteq {"finish"}

Answers(t, b) == t # "none" /\ ~closingOnly /\ Names(b) \subseteq {"finish"}

(* publishText: nothing more is published in the closing phase. *)
Publishes(t) == t # "none" /\ ~closingOnly

Save ==
  /\ saved' = waiting
  /\ saves' = saves + 1

(* No call: the text is kept, and the model is reminded once to finish. *)
Remind(t) ==
  /\ answered' = (answered \/ Answers(t, <<>>))
  /\ shown' = (shown \/ Publishes(t))
  /\ Save
  /\ closingOnly' = TRUE
  /\ reminders' = reminders + 1
  /\ IF reminders = 0 THEN pc' = "round" /\ outcome' = outcome ELSE Throws
  /\ urged' = FALSE
  /\ UNCHANGED <<signal, round, flags, awaitingConclusion, delivered, languageRetries, contextRetried,
                 response, final, evidence, progress, waiting>>

(* The assistant message with its calls enters the history. *)
Accept(t, b) ==
  /\ answered' = (answered \/ Answers(t, b))
  /\ shown' = (shown \/ (Publishes(t) /\ Names(b) \subseteq {"finish"}))
  /\ content' = t
  /\ batch' = b
  /\ mixed' = (Len(b) > 1 /\ Names(b) \cap {"finish", "state"} # {})
  /\ basis' = observed
  /\ waiting' = waiting + Len(b)
  /\ final' = FALSE
  /\ pc' = "batch"
  /\ UNCHANGED <<signal, round, flags, closingOnly, awaitingConclusion, delivered, tries, evidence,
                 progress, saved, saves, urged, outcome>>

Respond(c, b) ==
  /\ pc = "streaming" /\ ~signal
  /\ \/ AskAgain(c, b)
     \/ /\ ~(WrongLanguage(c) /\ Names(b) \subseteq {"finish"})
        /\ IF b = <<>> THEN Remind(Text(c)) ELSE Accept(Text(c), b)

-----------------------------------------------------------------------------
(* The calls of a batch *)

Current == Head(batch)

(* The result of the current call enters the history; the same action three *)
(* times in a row ends the run.                                            *)
Told(asks) ==
  /\ waiting' = waiting - 1
  /\ urged' = asks
  /\ batch' = Tail(batch)
  /\ last' = Current
  /\ repeats' = IF Current = last THEN repeats + 1 ELSE 1
  /\ IF repeats' = 3 THEN Throws ELSE pc' = "batch" /\ outcome' = outcome

AtCall == pc = "batch" /\ ~signal /\ batch # <<>>

(* Neither the answer nor what the question wanted to see is there. *)
Undelivered == ~answered /\ ~(delivered /\ visualOnly)

(* A finish that is alone and comes after what it closes. *)
Finish ==
  /\ AtCall /\ ~mixed /\ Current.name = "finish" /\ ~Undelivered
  /\ closingOnly' = TRUE
  /\ final' = (Current.arg = "valid")
  /\ Told(FALSE)
  /\ UNCHANGED <<signal, round, flags, awaitingConclusion, answered, delivered, tries, content, mixed,
                 basis, evidence, failures, blocked, saved, saves, shown>>

FinishTooEarly ==
  /\ AtCall /\ ~mixed /\ Current.name = "finish" /\ Undelivered
  /\ awaitingConclusion' = (awaitingConclusion \/ delivered)
  /\ final' = FALSE
  /\ Told(TRUE)
  /\ UNCHANGED <<signal, round, flags, closingOnly, answered, delivered, tries, content, mixed, basis,
                 evidence, failures, blocked, saved, saves, shown>>

(* Faulty: what an earlier call of the same batch found may be drawn. *)
BaseOfChartNow == observed

(* The artifacts a chart may refer to. *)
BaseOfChart == basis

(* What is answered with an error without being executed. *)
Refused ==
  \/ mixed
  \/ /\ Current.name # "finish"
     /\ \/ closingOnly \/ awaitingConclusion
        \/ Current.name = "chart" /\ Current.arg \notin BaseOfChart
        \/ Current.name = "sql" /\ Current.arg \in blocked

(* An unknown tool and malformed arguments may come with any call. *)
Refuse ==
  /\ AtCall /\ (Refused \/ Current.name # "finish")
  /\ final' = FALSE
  /\ Told(FALSE)
  /\ UNCHANGED <<signal, round, flags, phase, tries, content, mixed, basis, evidence, failures, blocked,
                 saved, saves, shown>>

(* tool.execute is called. *)
Execute ==
  /\ AtCall /\ ~Refused /\ Current.name # "finish"
  /\ pc' = "executing"
  /\ UNCHANGED <<signal, round, flags, phase, tries, response, final, evidence, progress, history, shown,
                 outcome>>

-----------------------------------------------------------------------------
(* What comes of a call *)

(* Faulty: no check after the tool has returned. *)
ReturnedUnchecked == pc = "executing"

(* The tool has returned, and the check after it passes. *)
Returned == pc = "executing" /\ ~signal

(* The artifacts a successful call shows the model. *)
Found ==
  CASE Current.name = "sql" -> {{a} : a \in Fresh \ observed}
    [] Current.name = "read" -> {{Current.arg} \cap (Earlier \cup observed)} \ {{}}
    [] OTHER -> {{}}

Succeed(found) ==
  /\ delivered' = (delivered \/ Current.name \in {"table", "chart"})
  /\ observed' = observed \cup found
  /\ seenIn' = [a \in Artifacts |-> IF a \in found /\ seenIn[a] = 0 THEN round ELSE seenIn[a]]
  /\ charts' = IF Current.name = "chart" THEN charts \cup {<<Current.arg, round>>} ELSE charts
  /\ Told(FALSE)
  /\ UNCHANGED <<signal, round, flags, closingOnly, awaitingConclusion, answered, tries, content, mixed,
                 basis, final, failures, blocked, saved, saves, shown>>

(* succeeded = false: the second failure of a kind blocks the query. *)
FailSoftly(code) ==
  /\ Returned
  /\ IF Current.name = "sql"
     THEN LET f == <<Current.arg, code>> IN
          /\ failures' = [failures EXCEPT ![f] = @ + 1]
          /\ blocked' = IF failures[f] >= 1 THEN blocked \cup {Current.arg} ELSE blocked
     ELSE UNCHANGED <<failures, blocked>>
  /\ Told(FALSE)
  /\ UNCHANGED <<signal, round, flags, phase, tries, content, mixed, basis, final, evidence, saved, saves,
                 shown>>

(* Faulty: the calls that are skipped get no result. *)
SkippedUntold == waiting - 1

(* The current call and the skipped ones all get a result. *)
Skipped == waiting - Len(batch)

(* SQL_SECURITY_REJECTED or DATASOURCE_ACCESS_CHANGED: the rest of the      *)
(* batch is skipped, and the history is checkpointed.                       *)
SecurityStop ==
  /\ Returned /\ Current.name \in {"sql", "read", "chart", "table", "state", "other"}
  /\ waiting' = Skipped
  /\ saved' = waiting'
  /\ saves' = saves + 1
  /\ urged' = FALSE
  /\ batch' = <<>>
  /\ pc' = "stopping"
  /\ UNCHANGED <<signal, round, flags, phase, tries, content, mixed, basis, final, evidence, progress,
                 shown, outcome>>

(* Back from that checkpoint, the analysis ends as not possible; the signal  *)
(* is not looked at again.                                                  *)
Stopped ==
  /\ pc = "stopping"
  /\ pc' = "ended"
  /\ outcome' = "unable"
  /\ UNCHANGED <<signal, round, flags, phase, tries, response, final, evidence, progress, history, shown>>

(* Any other exception of a tool: TOOL_EXECUTION_FAILED or its own code. *)
ToolThrows ==
  /\ Returned
  /\ Throws
  /\ UNCHANGED <<signal, round, flags, phase, tries, response, final, evidence, progress, history, shown>>

(* The batch is done: checkpoint. *)
Checkpoint ==
  /\ pc = "batch" /\ ~signal /\ batch = <<>>
  /\ Save
  /\ pc' = "saved"
  /\ UNCHANGED <<signal, round, flags, phase, tries, response, final, evidence, progress, waiting, urged,
                 shown, outcome>>

(* Back from the checkpoint: return what was finished, or the next round. *)
Continue ==
  /\ pc = "saved" /\ ~signal
  /\ IF final THEN pc' = "ended" /\ outcome' = "finished" ELSE pc' = "round" /\ outcome' = outcome
  /\ UNCHANGED <<signal, round, flags, phase, tries, response, final, evidence, progress, history, shown>>

Next ==
  \/ Abort \/ CheckThrows
  \/ Ask \/ AskFails \/ Shorten \/ StreamFails
  \/ \E c \in {"none", "fine", "english"}, b \in Batches : Respond(c, b)
  \/ Finish \/ FinishTooEarly \/ Refuse \/ Execute
  \/ Returned /\ \E found \in Found : Succeed(found)
  \/ \E code \in Codes : FailSoftly(code)
  \/ SecurityStop \/ Stopped \/ ToolThrows
  \/ Checkpoint \/ Continue

Spec == Init /\ [][Next]_vars

-----------------------------------------------------------------------------
(* Properties *)

(* Every history that is checkpointed pairs each tool call with one result:  *)
(* a provider rejects a prompt with an orphan of either kind, whatever was   *)
(* skipped, refused or stopped in the middle of a batch.                    *)
HistoryIsPaired == saved = 0

(* A chart is drawn only of evidence whose result the model had in its       *)
(* history when it asked for the chart, not of one the same batch found.     *)
ChartsOfSeenEvidence ==
  \A chart \in charts : seenIn[chart[1]] \in 1..(chart[2] - 1)

(* A recorded finish means the user has something to read: the text of a     *)
(* response that was meant as the answer, or, where the question asks for a  *)
(* chart or table only, a chart or table.                                  *)
FinishedIsDelivered ==
  outcome = "finished" => shown \/ (visualOnly /\ delivered)

(* After an abort, or once another writer has the row, no tool is started,   *)
(* no checkpoint begun and no outcome returned, but for one: an abort during *)
(* the checkpoint of a security stop is not looked for, and the analysis     *)
(* still ends as not possible (what becomes of that is Generation's).        *)
AbortStops ==
  [][signal => /\ pc' = "executing" => pc = "executing"
               /\ saves' = saves
               /\ \/ outcome' \in {outcome, "threw"}
                  \/ pc = "stopping" /\ outcome' = "unable"]_vars

(* docs/guides/agent-loop.md:161 says of a finish before anything was         *)
(* delivered that the error it gets can be corrected: an answer is asked for. *)
(* A model that then answers and finishes in one response has answered.       *)
AnswerIsHeard ==
  pc = "batch" /\ urged /\ content # "none" /\ batch = <<FinishOK>> => answered

=============================================================================
