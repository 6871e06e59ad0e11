----------------------------- MODULE Generation -----------------------------
(***************************************************************************)
(* The life of a generation: one asynchronous answer to one question.      *)
(*                                                                         *)
(* The API inserts a pending row, executors (one BullMQ job activation     *)
(* each, in any worker process) claim it, stream events, keep a draft of   *)
(* the analysis state and settle it; the zombie monitor of any worker      *)
(* settles what nobody renews; the user cancels; the conversation may be   *)
(* deleted at any moment.  All of them meet only in PostgreSQL, so every   *)
(* action below is one statement or one transaction of the code, and       *)
(* everything between two of them may be interleaved with the rest.        *)
(*                                                                         *)
(* Definitions marked "Faulty" are not part of the specification: each is  *)
(* a plausible bug in the definition after it, and PROJECT.json names the  *)
(* property that finds it.                                                 *)
(***************************************************************************)
EXTENDS Naturals, Sequences, FiniteSets

CONSTANTS
  Generations,    \* ids of generations (randomUUID, never reused)
  Conversations,  \* conversations of the one user modelled
  Executors,      \* job activations; an executor's name is its writerToken
  None,           \* NULL
  UserLimit,      \* USER_GENERATION_CONCURRENCY_LIMIT
  MaxAttempts,    \* attempts of a BullMQ job (5 in the code)
  MaxBlocks,      \* bound: events an execution emits
  MaxUpdates      \* bound: draft saves of an execution before the final one

ASSUME GenerationAssumption ==
  /\ None \notin Generations \cup Conversations \cup Executors
  /\ UserLimit \in Nat \ {0}
  /\ MaxAttempts \in Nat \ {0}
  /\ MaxBlocks \in Nat
  /\ MaxUpdates \in Nat

-----------------------------------------------------------------------------
(* Rows of PostgreSQL, one entry per generation or conversation. *)
VARIABLES
  status,        \* generation.status; "absent" before INSERT and after DELETE
  writer,        \* generation.writer_token
  overdue,       \* the timestamp the monitor judges this row by is too old
  lastSequence,  \* generation.last_sequence
  events,        \* rows of generation_event
  turn,          \* conversation_turn.status
  attempts,      \* generation_attempt.status in order of attempt
  message,       \* how many emitted events message.blocks reflects
  draft,         \* row of analysis_state_draft, NoDraft if absent
  analysis,      \* row of analysis_state of a conversation, NoAnalysis if absent
  conversation,  \* generation.conversation_id, None before creation
  live,          \* conversations that exist
  failures       \* attemptsMade of the generation's job that threw

(* Memory of an executor. *)
VARIABLES
  pc,       \* where executeGeneration stands
  job,      \* the generation its job names
  abort,    \* what signal.reason will end the run as, "none" while not aborted
  blocks,   \* emitted events
  queue,    \* events emitted and not yet published, in order
  broken,   \* a publish of the chain was rejected
  session,  \* session.state.revision, 0 before begin
  outcome   \* finalStatus

row      == <<status, writer, overdue>>
log      == <<lastSequence, events>>
records  == <<turn, attempts, message>>
drafts   == <<draft, analysis>>
topology == <<conversation, live>>
database == <<row, log, records, drafts, topology, failures>>
memory   == <<abort, blocks, queue, broken, session, outcome>>
vars     == <<database, pc, job, memory>>

-----------------------------------------------------------------------------
TerminalStatus == {"completed", "failed", "cancelled"}
ActiveStatus   == {"pending", "starting", "running", "cancel_requested"}
WriterStatus   == {"starting", "running"}

NoDraft    == [base |-> 0, revision |-> 0, final |-> FALSE]
NoAnalysis == [revision |-> 0, generation |-> None]

(* An event of the log is content or the done event with its status. *)
Event == [sequence : Nat \ {0}, kind : {"content"} \cup TerminalStatus]
Draft == [base : Nat, revision : Nat, final : BOOLEAN]

Located == {"candidate", "cancelRequested", "claim", "attempt", "starting", "request",
            "run", "wrapup", "drain", "finalize", "recheck", "failQueued"}
PC      == {"idle", "done"} \cup Located
(* Between setInterval and the finally block of executeGeneration. *)
Beating == {"request", "run", "wrapup", "drain", "finalize", "recheck"}
Running == {"run", "wrapup"}
(* A rejected call here leaves executeGeneration by an exception. *)
Throwing == {"candidate", "cancelRequested", "claim", "attempt", "starting", "request",
             "finalize", "recheck"}

Exists(g)   == status[g] # "absent"
Active(g)   == status[g] \in ActiveStatus
Terminal(g) == status[g] \in TerminalStatus
Members(c)  == {g \in Generations : conversation[g] = c}

(* The WHERE clause of publish, checkpointMessage, assertWritable and of   *)
(* AnalysisStateRepository.owned.                                          *)
Owned(x, g) == writer[g] = x /\ status[g] \in WriterStatus

DatabaseTypeOK ==
  /\ status \in [Generations -> {"absent"} \cup ActiveStatus \cup TerminalStatus]
  /\ writer \in [Generations -> Executors \cup {None}]
  /\ overdue \in [Generations -> BOOLEAN]
  /\ lastSequence \in [Generations -> Nat]
  /\ events \in [Generations -> SUBSET Event]
  /\ turn \in [Generations -> {"absent", "pending"} \cup TerminalStatus]
  /\ attempts \in [Generations -> Seq({"running"} \cup TerminalStatus)]
  /\ message \in [Generations -> Nat]
  /\ draft \in [Generations -> Draft]
  /\ analysis \in [Conversations -> [revision : Nat, generation : Generations \cup {None}]]
  /\ conversation \in [Generations -> Conversations \cup {None}]
  /\ live \in SUBSET Conversations
  /\ failures \in [Generations -> 0..MaxAttempts]

MemoryTypeOK ==
  /\ pc \in [Executors -> PC]
  /\ job \in [Executors -> Generations \cup {None}]
  /\ abort \in [Executors -> {"none", "failed", "cancelled"}]
  /\ blocks \in [Executors -> Nat]
  /\ queue \in [Executors -> Nat]
  /\ broken \in [Executors -> BOOLEAN]
  /\ session \in [Executors -> Nat]
  /\ outcome \in [Executors -> {"none"} \cup TerminalStatus]

TypeOK == DatabaseTypeOK /\ MemoryTypeOK

Init ==
  /\ status = [g \in Generations |-> "absent"]
  /\ writer = [g \in Generations |-> None]
  /\ overdue = [g \in Generations |-> FALSE]
  /\ lastSequence = [g \in Generations |-> 0]
  /\ events = [g \in Generations |-> {}]
  /\ turn = [g \in Generations |-> "absent"]
  /\ attempts = [g \in Generations |-> <<>>]
  /\ message = [g \in Generations |-> 0]
  /\ draft = [g \in Generations |-> NoDraft]
  /\ analysis = [c \in Conversations |-> NoAnalysis]
  /\ conversation = [g \in Generations |-> None]
  /\ live = Conversations
  /\ failures = [g \in Generations |-> 0]
  /\ pc = [x \in Executors |-> "idle"]
  /\ job = [x \in Executors |-> None]
  /\ abort = [x \in Executors |-> "none"]
  /\ blocks = [x \in Executors |-> 0]
  /\ queue = [x \in Executors |-> 0]
  /\ broken = [x \in Executors |-> FALSE]
  /\ session = [x \in Executors |-> 0]
  /\ outcome = [x \in Executors |-> "none"]

-----------------------------------------------------------------------------
(* Conditions and writes shared by several handlers. *)

(* Faulty: the status test is missing. *)
ClaimableUnwritten(g) == Exists(g) /\ writer[g] = None
(* WHERE of claim and of failQueued. *)
Claimable(g) == status[g] = "pending" /\ writer[g] = None

(* enqueueGenerationEvent: the next sequence and the event, in the caller's *)
(* transaction and under the row lock its UPDATE takes.                     *)
AppendEvent(S, kind) ==
  /\ lastSequence' = [g \in Generations |-> lastSequence[g] + (IF g \in S THEN 1 ELSE 0)]
  /\ events' = [g \in Generations |->
       events[g] \cup (IF g \in S THEN {[sequence |-> lastSequence[g] + 1, kind |-> kind[g]]} ELSE {})]

(* The terminal status of the rows of S, the turns still pending and the   *)
(* done event: what finalize, failQueued and failStale have in common.     *)
Settle(S, verdict) ==
  /\ status' = [g \in Generations |-> IF g \in S THEN verdict[g] ELSE status[g]]
  /\ turn' = [g \in Generations |-> IF g \in S /\ turn[g] = "pending" THEN verdict[g] ELSE turn[g]]
  /\ AppendEvent(S, verdict)

(* finalize and failStale also give up the writer token and close the      *)
(* attempts that are still open.                                           *)
CloseAttempts(S, verdict) ==
  attempts' = [g \in Generations |->
    IF g \in S
    THEN [i \in DOMAIN attempts[g] |-> IF attempts[g][i] = "running" THEN verdict[g] ELSE attempts[g][i]]
    ELSE attempts[g]]

DropWriter(S) == writer' = [g \in Generations |-> IF g \in S THEN None ELSE writer[g]]

Goto(x, place) == pc' = [pc EXCEPT ![x] = place]

(* The executor's stack unwinds (or its process dies): its memory is gone. *)
Leave(x, place) ==
  /\ Goto(x, place)
  /\ abort' = [abort EXCEPT ![x] = "none"]
  /\ blocks' = [blocks EXCEPT ![x] = 0]
  /\ queue' = [queue EXCEPT ![x] = 0]
  /\ broken' = [broken EXCEPT ![x] = FALSE]
  /\ session' = [session EXCEPT ![x] = 0]
  /\ outcome' = [outcome EXCEPT ![x] = "none"]
  /\ job' = [job EXCEPT ![x] = IF place = "done" THEN None ELSE @]

-----------------------------------------------------------------------------
(* The API. *)

(* Faulty: forgets the generations nobody has claimed. *)
ConversationBusyExecuting(c) == \E g \in Members(c) : status[g] \in WriterStatus

(* CONVERSATION_GENERATION_ACTIVE *)
ConversationBusy(c) == \E g \in Members(c) : Active(g)

(* createTurn, past its idempotency lookup: one transaction under the      *)
(* advisory locks of the user and of the conversation.                     *)
Create(g, c) ==
  /\ conversation[g] = None
  /\ c \in live
  /\ ~ConversationBusy(c)
  /\ Cardinality({h \in Generations : Active(h)}) < UserLimit
  /\ conversation' = [conversation EXCEPT ![g] = c]
  /\ status' = [status EXCEPT ![g] = "pending"]
  /\ turn' = [turn EXCEPT ![g] = "pending"]
  /\ UNCHANGED <<writer, overdue, log, attempts, message, drafts, live, failures, pc, job, memory>>

(* cancel: any active row.  cancel_requested_at is set once (COALESCE), and *)
(* only a row without a writer is judged by it.                             *)
Cancel(g) ==
  /\ Active(g)
  /\ status' = [status EXCEPT ![g] = "cancel_requested"]
  /\ overdue' = [overdue EXCEPT ![g] = @ /\ status[g] # "pending"]
  /\ UNCHANGED <<writer, log, records, drafts, topology, failures, pc, job, memory>>

(* ConversationService.remove: everything the conversation owns cascades.  *)
DeleteConversation(c) ==
  /\ c \in live
  /\ live' = live \ {c}
  /\ status' = [g \in Generations |-> IF conversation[g] = c THEN "absent" ELSE status[g]]
  /\ DropWriter(Members(c))
  /\ overdue' = [g \in Generations |-> conversation[g] # c /\ overdue[g]]
  /\ lastSequence' = [g \in Generations |-> IF conversation[g] = c THEN 0 ELSE lastSequence[g]]
  /\ events' = [g \in Generations |-> IF conversation[g] = c THEN {} ELSE events[g]]
  /\ turn' = [g \in Generations |-> IF conversation[g] = c THEN "absent" ELSE turn[g]]
  /\ attempts' = [g \in Generations |-> IF conversation[g] = c THEN <<>> ELSE attempts[g]]
  /\ message' = [g \in Generations |-> IF conversation[g] = c THEN 0 ELSE message[g]]
  /\ draft' = [g \in Generations |-> IF conversation[g] = c THEN NoDraft ELSE draft[g]]
  /\ analysis' = [analysis EXCEPT ![c] = NoAnalysis]
  /\ UNCHANGED <<conversation, failures, pc, job, memory>>

-----------------------------------------------------------------------------
(* Time and the monitor. *)

(* The timestamp that failStale compares passes its threshold.             *)
Age(g) ==
  /\ Active(g)
  /\ ~overdue[g]
  /\ overdue' = [overdue EXCEPT ![g] = TRUE]
  /\ UNCHANGED <<status, writer, log, records, drafts, topology, failures, pc, job, memory>>

(* Faulty: rows without a writer are not looked at. *)
StaleWriterOnly(g) == overdue[g] /\ Active(g) /\ writer[g] # None

(* WHERE of failStale: a writer that stopped renewing, or a row without a  *)
(* writer that waits since created_at or cancel_requested_at.              *)
Stale(g) ==
  /\ overdue[g]
  /\ \/ status[g] \in {"starting", "running", "cancel_requested"} /\ writer[g] # None
     \/ status[g] \in {"pending", "cancel_requested"} /\ writer[g] = None

(* failStale, run by the zombie monitor of any worker process. *)
FailStale ==
  LET S == {g \in Generations : Stale(g)}
      verdict == [g \in S |-> IF status[g] = "cancel_requested" THEN "cancelled" ELSE "failed"]
  IN /\ S # {}
     /\ Settle(S, verdict)
     /\ CloseAttempts(S, verdict)
     /\ DropWriter(S)
     /\ overdue' = [g \in Generations |-> g \notin S /\ overdue[g]]
     /\ UNCHANGED <<message, drafts, topology, failures, pc, job, memory>>

-----------------------------------------------------------------------------
(* An executor: ChatService.executeGeneration. *)

(* BullMQ hands the job to an executor: at least once, since a retry, a     *)
(* stalled job or a relay that redelivers may hand it over again.           *)
StartJob(x, g) ==
  /\ pc[x] = "idle"
  /\ conversation[g] # None
  /\ job' = [job EXCEPT ![x] = g]
  /\ Goto(x, "candidate")
  /\ UNCHANGED <<database, memory>>

(* A job activation ends by an exception; once the attempts are exhausted  *)
(* the worker's 'failed' handler calls failQueued.                         *)
Throw(x) ==
  LET g == job[x] IN
  /\ failures' = [failures EXCEPT ![g] = IF @ < MaxAttempts THEN @ + 1 ELSE @]
  /\ Leave(x, IF failures[g] + 1 >= MaxAttempts THEN "failQueued" ELSE "done")
  /\ UNCHANGED <<row, log, records, drafts, topology>>

(* No permit, or a call to PostgreSQL or Redis is rejected; or ownership   *)
(* was lost while the request message was read.                            *)
CallFails(x) == pc[x] \in Throwing /\ Throw(x)

(* The worker process dies: nothing more of this executor happens. *)
Crash(x) ==
  /\ pc[x] \in Located
  /\ Leave(x, "done")
  /\ UNCHANGED database

(* candidate and the early returns on its status.  A pending row is claimed *)
(* once a capacity permit is granted; its refusal is one of CallFails.      *)
Candidate(x) ==
  LET seen == status[job[x]] IN
  /\ pc[x] = "candidate"
  /\ \/ seen = "pending" /\ Goto(x, "claim") /\ UNCHANGED <<job, memory>>
     \/ seen = "cancel_requested" /\ Goto(x, "cancelRequested") /\ UNCHANGED <<job, memory>>
     \/ seen \notin {"pending", "cancel_requested"} /\ Leave(x, "done")
  /\ UNCHANGED database

(* finalize with writerToken '': only a row nobody claimed. *)
FinalizeUnclaimed(x) ==
  LET g == job[x]
      S == IF writer[g] = None /\ status[g] = "cancel_requested" THEN {g} ELSE {}
      verdict == [h \in S |-> "cancelled"]
  IN /\ pc[x] = "cancelRequested"
     /\ Settle(S, verdict)
     /\ CloseAttempts(S, verdict)
     /\ DropWriter(S)
     /\ overdue' = [h \in Generations |-> h \notin S /\ overdue[h]]
     /\ Leave(x, "done")
     /\ UNCHANGED <<message, drafts, topology, failures>>

(* claim, first statement: the row becomes this executor's, or it returns. *)
Claim(x) ==
  LET g == job[x] IN
  /\ pc[x] = "claim"
  /\ IF Claimable(g)
     THEN /\ status' = [status EXCEPT ![g] = "starting"]
          /\ writer' = [writer EXCEPT ![g] = x]
          /\ overdue' = [overdue EXCEPT ![g] = FALSE]
          /\ Goto(x, "attempt")
          /\ UNCHANGED <<job, memory>>
     ELSE UNCHANGED row /\ Leave(x, "done")
  /\ UNCHANGED <<log, records, drafts, topology, failures>>

(* claim, second statement.  The foreign key rejects it once the row is gone. *)
InsertAttempt(x) ==
  LET g == job[x] IN
  /\ pc[x] = "attempt"
  /\ Exists(g)
  /\ attempts' = [attempts EXCEPT ![g] = Append(@, "running")]
  /\ Goto(x, "starting")
  /\ UNCHANGED <<row, log, turn, message, drafts, topology, failures, job, memory>>

(* claim, third statement: no row is changed if the user cancelled first. *)
MarkRunning(x) ==
  LET g == job[x] IN
  /\ pc[x] = "starting"
  /\ status' = [status EXCEPT ![g] = IF writer[g] = x /\ @ = "starting" THEN "running" ELSE @]
  /\ Goto(x, "request")
  /\ UNCHANGED <<writer, overdue, log, records, drafts, topology, failures, job, memory>>

(* heartbeat, every heartbeatIntervalMs while the row is still its own.     *)
(* Whether ownershipLost is set when it is read depends on these calls and  *)
(* on the permit's renewal; the model leaves it open at every read.         *)
Heartbeat(x) ==
  LET g == job[x] IN
  /\ pc[x] \in Beating
  /\ writer[g] = x
  /\ status[g] \in WriterStatus \cup {"cancel_requested"}
  /\ overdue' = [overdue EXCEPT ![g] = FALSE]
  /\ UNCHANGED <<status, writer, log, records, drafts, topology, failures, pc, job, memory>>

(* getMessage, then runGeneration unless ownership was lost meanwhile. *)
ReadRequest(x) ==
  /\ pc[x] = "request"
  /\ Goto(x, "run")
  /\ UNCHANGED <<database, job, memory>>

-----------------------------------------------------------------------------
(* AnalysisRuntimeAdapter.run, as far as the shell can see it. *)

(* The controller aborts once; later reasons are ignored.  Of the reason    *)
(* only CANCELLED ends the run as cancelled.                                *)
AbortAs(x, verdict) ==
  /\ pc[x] \in Running
  /\ abort[x] = "none"
  /\ abort' = [abort EXCEPT ![x] = verdict]
  /\ UNCHANGED <<database, pc, job, blocks, queue, broken, session, outcome>>

(* isCancelRequested, also true of a row that is gone. *)
CancelRequested(g) == status[g] \in {"absent", "cancel_requested", "cancelled"}

(* The 500 ms poll: WRITER_OWNERSHIP_LOST if ownership is lost or the query *)
(* is rejected, otherwise CANCELLED if the row says so.                     *)
CancelPoll(x) ==
  \/ AbortAs(x, "failed")
  \/ AbortAs(x, "cancelled") /\ CancelRequested(job[x])

(* The 120 s timer of runGeneration. *)
Timeout(x) == AbortAs(x, "failed")

(* emit: refused once aborted; the event joins the publish chain and the   *)
(* display blocks.                                                         *)
Emit(x) ==
  /\ pc[x] \in Running
  /\ abort[x] = "none"
  /\ blocks[x] < MaxBlocks
  /\ blocks' = [blocks EXCEPT ![x] = @ + 1]
  /\ queue' = [queue EXCEPT ![x] = IF broken[x] THEN 0 ELSE @ + 1]
  /\ UNCHANGED <<database, pc, job, abort, broken, session, outcome>>

(* publish, the head of the chain: the event is logged under the row lock   *)
(* if the row is still owned and active.                                    *)
Publish(x) ==
  LET g == job[x] IN
  /\ pc[x] \in Running \cup {"drain"}
  /\ queue[x] > 0
  /\ Owned(x, g)
  /\ queue' = [queue EXCEPT ![x] = @ - 1]
  /\ AppendEvent({g}, [h \in {g} |-> "content"])
  /\ UNCHANGED <<row, records, drafts, topology, failures, pc, job, abort, blocks, broken, session, outcome>>

(* Not owned, or the transaction is rejected: the chain stays rejected and *)
(* every event behind this one is dropped.                                 *)
PublishFails(x) ==
  /\ pc[x] \in Running \cup {"drain"}
  /\ queue[x] > 0
  /\ queue' = [queue EXCEPT ![x] = 0]
  /\ broken' = [broken EXCEPT ![x] = TRUE]
  /\ UNCHANGED <<database, pc, job, abort, blocks, session, outcome>>

(* checkpointMessage: the display blocks so far, if still the writer.  The *)
(* refused case throws, which is RunFails.                                 *)
Checkpoint(x) ==
  LET g == job[x] IN
  /\ pc[x] \in Running
  /\ Owned(x, g)
  /\ message' = [message EXCEPT ![g] = blocks[x]]
  /\ UNCHANGED <<row, log, turn, attempts, drafts, topology, failures, pc, job, memory>>

(* AnalysisStateRepository.begin: a draft one above the committed state, or *)
(* the draft this generation already has.                                   *)
BeginDraft(x) ==
  LET g == job[x]
      base == analysis[conversation[g]].revision
      begun == IF draft[g] # NoDraft THEN draft[g]
               ELSE [base |-> base, revision |-> base + 1, final |-> FALSE]
  IN /\ pc[x] = "run"
     /\ session[x] = 0
     /\ Owned(x, g)
     /\ draft' = [draft EXCEPT ![g] = begun]
     /\ session' = [session EXCEPT ![x] = begun.revision]
     /\ UNCHANGED <<row, log, records, analysis, topology, failures, pc, job,
                    abort, blocks, queue, broken, outcome>>

(* AnalysisStateRepository.save: compare and swap on the revision, by      *)
(* update_analysis_state during the run (up to the bound) and once more    *)
(* with the outcome when the agent has finished.                           *)
Save(x, final) ==
  LET g == job[x] IN
  /\ pc[x] = "run"
  /\ final \/ session[x] <= draft[g].base + MaxUpdates
  /\ session[x] # 0
  /\ Owned(x, g)
  /\ draft[g].revision = session[x]
  /\ draft' = [draft EXCEPT ![g] = [@ EXCEPT !.revision = session[x] + 1, !.final = final]]
  /\ session' = [session EXCEPT ![x] = @ + 1]
  /\ Goto(x, IF final THEN "wrapup" ELSE "run")
  /\ UNCHANGED <<row, log, records, analysis, topology, failures, job, abort, blocks, queue, broken, outcome>>

(* The catch block of runGeneration: the abort reason wins over the error   *)
(* thrown; only CANCELLED ends as cancelled.  It adds an error block.       *)
EndRun(x, verdict) ==
  /\ outcome' = [outcome EXCEPT ![x] = verdict]
  /\ blocks' = [blocks EXCEPT ![x] = IF verdict = "completed" THEN @ ELSE @ + 1]
  /\ Goto(x, "drain")
  /\ UNCHANGED <<database, job, abort, queue, broken, session>>

(* The runtime returns and nothing has aborted it. *)
RunReturns(x) ==
  /\ pc[x] = "wrapup"
  /\ abort[x] = "none"
  /\ EndRun(x, "completed")

(* The runtime stops because of the abort, or returns in spite of it. *)
RunAborted(x) ==
  /\ pc[x] \in Running
  /\ abort[x] # "none"
  /\ EndRun(x, abort[x])

(* Any error of the model, a tool, a guard or the database. *)
RunFails(x) ==
  /\ pc[x] \in Running
  /\ abort[x] = "none"
  /\ EndRun(x, "failed")

-----------------------------------------------------------------------------
(* The end of runGeneration. *)

(* Faulty: a rejected publish does not stop a completion. *)
DrainIgnoringErrors(x) ==
  /\ pc[x] = "drain"
  /\ queue[x] = 0
  /\ Goto(x, "finalize")
  /\ UNCHANGED <<database, job, memory>>

(* drain: waits for the chain; its rejection matters only to a completion. *)
Drain(x) ==
  /\ pc[x] = "drain"
  /\ queue[x] = 0
  /\ broken[x] => outcome[x] # "completed"
  /\ Goto(x, "finalize")
  /\ UNCHANGED <<database, job, memory>>

DrainThrows(x) ==
  /\ pc[x] = "drain"
  /\ queue[x] = 0
  /\ broken[x] /\ outcome[x] = "completed"
  /\ Throw(x)

(* Faulty: a completion may override a cancel request. *)
CanFinalizeCancelled(x, g, verdict) ==
  writer[g] = x /\ status[g] \in WriterStatus \cup {"cancel_requested"}

(* WHERE of finalize for an executor with a token. *)
CanFinalize(x, g, verdict) ==
  /\ writer[g] = x
  /\ status[g] \in WriterStatus \cup {"cancel_requested"}
  /\ verdict = "completed" => status[g] # "cancel_requested"

(* promoteAnalysisDraft throws ANALYSIS_DRAFT_MISSING or _STATE_CONFLICT. *)
DraftRejected(g) ==
  \/ draft[g] = NoDraft
  \/ analysis[conversation[g]].revision # draft[g].base

(* Faulty: the draft is committed whatever the outcome. *)
PromoteAlways(g, verdict) ==
  analysis' = [analysis EXCEPT ![conversation[g]] = [revision |-> draft[g].revision, generation |-> g]]

(* The draft becomes the committed state, of a completion only. *)
Promote(g, verdict) ==
  IF verdict = "completed"
  THEN analysis' = [analysis EXCEPT ![conversation[g]] = [revision |-> draft[g].revision, generation |-> g]]
  ELSE UNCHANGED analysis

(* finalize commits: status, draft, message, turn, attempts and done event. *)
Finalize(x) ==
  LET g == job[x]
      verdict == [h \in {g} |-> outcome[x]]
  IN /\ pc[x] = "finalize"
     /\ CanFinalize(x, g, outcome[x])
     /\ outcome[x] = "completed" => ~DraftRejected(g)
     /\ Promote(g, outcome[x])
     /\ Settle({g}, verdict)
     /\ CloseAttempts({g}, verdict)
     /\ DropWriter({g})
     /\ overdue' = [overdue EXCEPT ![g] = FALSE]
     /\ message' = [message EXCEPT ![g] = blocks[x]]
     /\ Leave(x, "done")
     /\ UNCHANGED <<draft, topology, failures>>

(* finalize changes nothing: a completion looks for a cancel request, and  *)
(* one whose draft is rejected (rolled back) is finalized as failed.       *)
FinalizeRefused(x) ==
  LET g == job[x] IN
  /\ pc[x] = "finalize"
  /\ IF ~CanFinalize(x, g, outcome[x])
     THEN IF outcome[x] = "completed"
          THEN Goto(x, "recheck") /\ UNCHANGED <<job, memory>>
          ELSE Leave(x, "done")
     ELSE /\ outcome[x] = "completed"
          /\ DraftRejected(g)
          /\ outcome' = [outcome EXCEPT ![x] = "failed"]
          /\ blocks' = [blocks EXCEPT ![x] = @ + 1]
          /\ UNCHANGED <<pc, job, abort, queue, broken, session>>
  /\ UNCHANGED database

(* isCancelRequested after a refused completion: finalize once more. *)
Recheck(x) ==
  /\ pc[x] = "recheck"
  /\ IF CancelRequested(job[x])
     THEN /\ outcome' = [outcome EXCEPT ![x] = "cancelled"]
          /\ Goto(x, "finalize")
          /\ UNCHANGED <<job, abort, blocks, queue, broken, session>>
     ELSE Leave(x, "done")
  /\ UNCHANGED database

(* failQueued, of the 'failed' handler: only a job nobody claimed. *)
FailQueued(x) ==
  LET g == job[x]
      S == IF Claimable(g) THEN {g} ELSE {}
      verdict == [h \in S |-> "failed"]
  IN /\ pc[x] = "failQueued"
     /\ Settle(S, verdict)
     /\ overdue' = [h \in Generations |-> h \notin S /\ overdue[h]]
     /\ Leave(x, "done")
     /\ UNCHANGED <<writer, attempts, message, drafts, topology, failures>>

-----------------------------------------------------------------------------
Api ==
  \/ \E g \in Generations, c \in Conversations : Create(g, c)
  \/ \E g \in Generations : Cancel(g)
  \/ \E c \in Conversations : DeleteConversation(c)

(* What executeGeneration does by itself, outside the runtime. *)
Shell(x) ==
  \/ Candidate(x)
  \/ FinalizeUnclaimed(x)
  \/ Claim(x)
  \/ InsertAttempt(x)
  \/ MarkRunning(x)
  \/ ReadRequest(x)
  \/ CallFails(x)
  \/ RunAborted(x)
  \/ Drain(x)
  \/ DrainThrows(x)
  \/ Finalize(x)
  \/ FinalizeRefused(x)
  \/ Recheck(x)
  \/ FailQueued(x)

(* The publish chain makes progress by itself. *)
Chain(x) == Publish(x) \/ PublishFails(x)

(* What the runtime and the outside world choose. *)
Runtime(x) ==
  \/ Emit(x)
  \/ Checkpoint(x)
  \/ BeginDraft(x)
  \/ \E final \in BOOLEAN : Save(x, final)
  \/ RunReturns(x)
  \/ RunFails(x)

Next ==
  \/ Api
  \/ FailStale
  \/ \E g \in Generations : Age(g)
  \/ \E x \in Executors, g \in Generations : StartJob(x, g)
  \/ \E x \in Executors :
       \/ Shell(x)
       \/ Chain(x)
       \/ Runtime(x)
       \/ Heartbeat(x)
       \/ CancelPoll(x)
       \/ Timeout(x)
       \/ Crash(x)

Spec == Init /\ [][Next]_vars

(* Timers fire, a monitor runs in some worker, calls return, and a runtime *)
(* whose signal is aborted unwinds.  Nothing is assumed of users, of the    *)
(* queue, of heartbeats or of what the model and the tools do.              *)
Fairness ==
  /\ WF_vars(FailStale)
  /\ \A g \in Generations : WF_vars(Age(g))
  /\ \A x \in Executors : WF_vars(Shell(x)) /\ WF_vars(Chain(x)) /\ WF_vars(Timeout(x))

FairSpec == Spec /\ Fairness

-----------------------------------------------------------------------------
(* Safety. *)

(* The events of a generation are numbered 1, 2, 3, ... *)
Numbered(g) ==
  /\ {e.sequence : e \in events[g]} = 1..lastSequence[g]
  /\ \A d, e \in events[g] : d.sequence = e.sequence => d = e

(* Content only while the row is active; then one done event, the last. *)
Closed(g) ==
  /\ \A e \in events[g] :
       e.kind = IF Terminal(g) /\ e.sequence = lastSequence[g] THEN status[g] ELSE "content"
  /\ Terminal(g) => lastSequence[g] > 0

(* The log of a generation has no gap and no duplicate number, and it holds *)
(* one done event exactly when the row is terminal: it is the last event    *)
(* and carries the row's status.  Three handlers settle a row (finalize,    *)
(* failQueued, failStale) while a writer still publishes.                   *)
DoneClosesLog == \A g \in Generations : Numbered(g) /\ Closed(g)

(* A turn is pending exactly while its generation is active and ends as it *)
(* did.                                                                    *)
TurnAgrees == \A g \in Generations : turn[g] = IF Active(g) THEN "pending" ELSE status[g]

(* Only a row that was claimed and has not ended has a writer. *)
WriterAgrees ==
  \A g \in Generations : writer[g] # None => status[g] \in WriterStatus \cup {"cancel_requested"}

(* However often its job is delivered. *)
AttemptedOnce == \A g \in Generations : Len(attempts[g]) <= 1

(* The other tables agree with the row: the turn has its outcome, a        *)
(* terminal row has no writer left that could write to it, and a generation *)
(* is executed at most once.                                               *)
RecordsAgree == TurnAgrees /\ WriterAgrees /\ AttemptedOnce

(* The user's conversation never has two unfinished answers. *)
OneActive ==
  \A g, h \in Generations :
    Active(g) /\ Active(h) /\ conversation[g] = conversation[h] => g = h

(* The blocks stored with a completed answer hold exactly the events of the *)
(* log before done: a reader who replays the log and one who reads the     *)
(* message see the same answer, whatever publishes failed or raced.        *)
SnapshotMatchesLog ==
  \A g \in Generations : status[g] = "completed" => lastSequence[g] = message[g] + 1

(* A writer that may still complete promotes: its draft is finished and is  *)
(* based on the committed revision, so that neither ANALYSIS_DRAFT_MISSING  *)
(* nor ANALYSIS_STATE_CONFLICT is ever thrown at the end of a good run.     *)
DraftStaysFresh ==
  \A x \in Executors :
    LET g == job[x] IN
    /\ pc[x] \in Running \cup {"drain", "finalize"} /\ session[x] # 0 /\ writer[g] = x =>
         /\ draft[g].base = analysis[conversation[g]].revision
         /\ draft[g].revision = session[x]
    /\ pc[x] = "finalize" /\ CanFinalize(x, g, "completed") /\ outcome[x] = "completed" =>
         draft[g].final /\ ~DraftRejected(g)

(* Once settled, nothing a late writer, a second delivery, a cancel or the *)
(* monitor does changes the row, its log, turn or message, until the       *)
(* conversation is deleted.                                                *)
TerminalIsFrozen ==
  [][\A g \in Generations :
       Terminal(g) /\ status'[g] # "absent" =>
         UNCHANGED <<status[g], writer[g], lastSequence[g], events[g], turn[g], message[g]>>]_vars

(* A cancel request is never answered by a completion. *)
CancelIsHonoured ==
  [][\A g \in Generations : status[g] = "cancel_requested" => status'[g] # "completed"]_vars

(* Write access is granted once: a token is never replaced by another, and *)
(* a generation that was claimed is never pending again.                   *)
WriterIsUnique ==
  [][\A g \in Generations :
       /\ writer[g] # None => writer'[g] \in {writer[g], None}
       /\ writer'[g] # writer[g] /\ writer'[g] # None => status[g] = "pending"
       /\ status'[g] = "pending" => status[g] \in {"absent", "pending"}]_vars

(* The committed analysis state of a conversation moves only together with *)
(* the completion of one of its generations, to that generation's finished *)
(* draft and to a higher revision (or it goes away with the conversation). *)
CommitsOnlyCompletions ==
  [][\A c \in Conversations :
       analysis'[c] # analysis[c] /\ c \in live' =>
         \E g \in Members(c) :
           /\ status[g] # "completed" /\ status'[g] = "completed"
           /\ analysis'[c] = [revision |-> draft[g].revision, generation |-> g]
           /\ draft[g].final
           /\ analysis'[c].revision > analysis[c].revision]_vars

-----------------------------------------------------------------------------
(* Liveness. *)

(* Every answer asked for is settled or deleted, whatever crashes: a row   *)
(* nobody claims, a row whose writer died between two statements of claim, *)
(* a completion whose last publish failed.                                 *)
EventuallySettled ==
  \A g \in Generations : Active(g) ~> ~Active(g)
=============================================================================
