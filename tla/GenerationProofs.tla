-------------------------- MODULE GenerationProofs --------------------------
(***************************************************************************)
(* What holds of Generation for any number of generations, conversations,  *)
(* executors, attempts, events and draft updates, and that it implements   *)
(* AnswerPromise.                                                          *)
(***************************************************************************)
EXTENDS GenerationPromise, SequenceTheorems, TLAPS

-----------------------------------------------------------------------------
(* Typing. *)

(* What AppendEvent adds is an event with the next number. *)
LEMMA AppendType ==
  ASSUME DatabaseTypeOK, NEW S \in SUBSET Generations, NEW kind,
         \A g \in S : kind[g] \in {"content"} \cup TerminalStatus,
         AppendEvent(S, kind)
  PROVE  /\ lastSequence' \in [Generations -> Nat]
         /\ events' \in [Generations -> SUBSET Event]
  BY DEF DatabaseTypeOK, AppendEvent, Event

(* Closing attempts keeps their number, and an empty list empty. *)
LEMMA CloseType ==
  ASSUME DatabaseTypeOK, NEW S \in SUBSET Generations, NEW verdict,
         \A g \in S : verdict[g] \in TerminalStatus,
         CloseAttempts(S, verdict)
  PROVE  /\ attempts' \in [Generations -> Seq({"running"} \cup TerminalStatus)]
         /\ \A g \in Generations : Len(attempts'[g]) = Len(attempts[g])
<1> DEFINE closed(g) ==
             [i \in DOMAIN attempts[g] |-> IF attempts[g][i] = "running" THEN verdict[g] ELSE attempts[g][i]]
<1>1. ASSUME NEW g \in S
      PROVE  closed(g) \in Seq({"running"} \cup TerminalStatus) /\ Len(closed(g)) = Len(attempts[g])
  <2>1. attempts[g] \in Seq({"running"} \cup TerminalStatus)
    BY DEF DatabaseTypeOK
  <2>2. /\ Len(attempts[g]) \in Nat
        /\ DOMAIN attempts[g] = 1..Len(attempts[g])
        /\ \A i \in 1..Len(attempts[g]) : attempts[g][i] \in {"running"} \cup TerminalStatus
    BY <2>1
  <2>3. closed(g) \in [1..Len(attempts[g]) -> {"running"} \cup TerminalStatus]
    BY <2>2
  <2> HIDE DEF closed
  <2> QED BY <2>2, <2>3
<1>2. attempts' = [g \in Generations |-> IF g \in S THEN closed(g) ELSE attempts[g]]
  BY DEF CloseAttempts
<1> HIDE DEF closed
<1> QED BY <1>1, <1>2 DEF DatabaseTypeOK

(* Settling rows writes only terminal statuses. *)
LEMMA SettleType ==
  ASSUME DatabaseTypeOK, NEW S \in SUBSET Generations, NEW verdict,
         \A g \in S : verdict[g] \in TerminalStatus,
         Settle(S, verdict)
  PROVE  /\ status' \in [Generations -> {"absent"} \cup ActiveStatus \cup TerminalStatus]
         /\ turn' \in [Generations -> {"absent", "pending"} \cup TerminalStatus]
         /\ lastSequence' \in [Generations -> Nat]
         /\ events' \in [Generations -> SUBSET Event]
<1>1. AppendEvent(S, verdict)
  BY DEF Settle
<1>2. \A g \in S : verdict[g] \in {"content"} \cup TerminalStatus
  OBVIOUS
<1>3. lastSequence' \in [Generations -> Nat] /\ events' \in [Generations -> SUBSET Event]
  BY <1>1, <1>2, AppendType
<1> QED BY <1>3 DEF Settle, DatabaseTypeOK

LEMMA LeaveType ==
  ASSUME MemoryTypeOK, NEW x \in Executors, NEW place \in PC, Leave(x, place)
  PROVE  MemoryTypeOK'
  BY DEF MemoryTypeOK, Leave, Goto, TerminalStatus

LEMMA GotoType ==
  ASSUME MemoryTypeOK, NEW x \in Executors, NEW place \in PC, Goto(x, place)
  PROVE  pc' \in [Executors -> PC]
  BY DEF MemoryTypeOK, Goto

(* The actions that leave one side alone keep it typed. *)
LEMMA DatabaseFrame == DatabaseTypeOK /\ UNCHANGED database => DatabaseTypeOK'
  BY DEF DatabaseTypeOK, database, row, log, records, drafts, topology

LEMMA MemoryFrame == MemoryTypeOK /\ UNCHANGED <<pc, job, memory>> => MemoryTypeOK'
  BY DEF MemoryTypeOK, memory

-----------------------------------------------------------------------------
LEMMA TypeStep == TypeOK /\ JobKnown /\ Decided /\ [Next]_vars => TypeOK'
<1> SUFFICES ASSUME TypeOK, JobKnown, Decided, [Next]_vars PROVE DatabaseTypeOK' /\ MemoryTypeOK'
  BY DEF TypeOK
<1>0. DatabaseTypeOK /\ MemoryTypeOK
  BY DEF TypeOK
<1> USE <1>0 DEF row, log, records, drafts, topology, memory, TerminalStatus, ActiveStatus
<1>1. ASSUME NEW g \in Generations, NEW c \in Conversations, Create(g, c)
      PROVE  DatabaseTypeOK' /\ MemoryTypeOK'
  BY <1>1, MemoryFrame DEF Create, DatabaseTypeOK
<1>2. ASSUME NEW g \in Generations, Cancel(g)
      PROVE  DatabaseTypeOK' /\ MemoryTypeOK'
  BY <1>2, MemoryFrame DEF Cancel, DatabaseTypeOK
<1>3. ASSUME NEW c \in Conversations, DeleteConversation(c)
      PROVE  DatabaseTypeOK' /\ MemoryTypeOK'
  <2>1. MemoryTypeOK'
    BY <1>3, MemoryFrame DEF DeleteConversation
  <2>2. NoDraft \in Draft /\ NoAnalysis \in [revision : Nat, generation : Generations \cup {None}]
    BY DEF NoDraft, NoAnalysis, Draft
  <2>3. draft' \in [Generations -> Draft] /\ analysis' \in [Conversations -> [revision : Nat, generation : Generations \cup {None}]]
    BY <1>3, <2>2 DEF DeleteConversation, DatabaseTypeOK
  <2>4. attempts' \in [Generations -> Seq({"running"} \cup TerminalStatus)]
    BY <1>3 DEF DeleteConversation, DatabaseTypeOK
  <2>5. events' \in [Generations -> SUBSET Event]
    BY <1>3 DEF DeleteConversation, DatabaseTypeOK
  <2> QED BY <1>3, <2>1, <2>3, <2>4, <2>5 DEF DeleteConversation, DropWriter, DatabaseTypeOK
<1>4. ASSUME FailStale
      PROVE  DatabaseTypeOK' /\ MemoryTypeOK'
  <2> DEFINE S == {g \in Generations : Stale(g)}
             verdict == [g \in S |-> IF status[g] = "cancel_requested" THEN "cancelled" ELSE "failed"]
  <2>1. S \in SUBSET Generations /\ \A g \in S : verdict[g] \in TerminalStatus
    OBVIOUS
  <2>2. /\ Settle(S, verdict) /\ CloseAttempts(S, verdict) /\ DropWriter(S)
        /\ overdue' = [g \in Generations |-> g \notin S /\ overdue[g]]
        /\ UNCHANGED <<message, drafts, topology, failures, pc, job, memory>>
    BY <1>4 DEF FailStale
  <2> HIDE DEF S, verdict
  <2> QED BY <2>1, <2>2, SettleType, CloseType, MemoryFrame DEF DropWriter, DatabaseTypeOK
<1>5. ASSUME NEW g \in Generations, Age(g)
      PROVE  DatabaseTypeOK' /\ MemoryTypeOK'
  BY <1>5, MemoryFrame DEF Age, DatabaseTypeOK
<1>6. ASSUME NEW x \in Executors, NEW g \in Generations, StartJob(x, g)
      PROVE  DatabaseTypeOK' /\ MemoryTypeOK'
  BY <1>6, DatabaseFrame DEF StartJob, Goto, MemoryTypeOK, PC, Located
<1>7. ASSUME NEW x \in Executors, pc[x] \in Located
      PROVE  job[x] \in Generations /\ job[x] \in DOMAIN conversation
  BY <1>7 DEF JobKnown, DatabaseTypeOK
<1>8. ASSUME NEW x \in Executors, Candidate(x)
      PROVE  DatabaseTypeOK' /\ MemoryTypeOK'
  BY <1>8, DatabaseFrame, LeaveType DEF Candidate, Goto, MemoryTypeOK, PC, Located
<1>9. ASSUME NEW x \in Executors, FinalizeUnclaimed(x)
      PROVE  DatabaseTypeOK' /\ MemoryTypeOK'
  <2> DEFINE S == IF writer[job[x]] = None /\ status[job[x]] = "cancel_requested" THEN {job[x]} ELSE {}
             verdict == [h \in S |-> "cancelled"]
  <2>1. S \in SUBSET Generations /\ \A g \in S : verdict[g] \in TerminalStatus
    BY <1>7, <1>9 DEF FinalizeUnclaimed, Located
  <2>2. /\ Settle(S, verdict) /\ CloseAttempts(S, verdict) /\ DropWriter(S)
        /\ overdue' = [g \in Generations |-> g \notin S /\ overdue[g]]
        /\ UNCHANGED <<message, drafts, topology, failures>>
        /\ Leave(x, "done")
    BY <1>9 DEF FinalizeUnclaimed
  <2>3. MemoryTypeOK'
    BY <2>2, LeaveType DEF PC
  <2> HIDE DEF S, verdict
  <2> QED BY <2>1, <2>2, <2>3, SettleType, CloseType DEF DropWriter, DatabaseTypeOK
<1>10. ASSUME NEW x \in Executors, Claim(x)
      PROVE  DatabaseTypeOK' /\ MemoryTypeOK'
  <2>1. MemoryTypeOK'
    BY <1>10, LeaveType DEF Claim, Goto, MemoryTypeOK, PC, Located
  <2>2. DatabaseTypeOK'
    BY <1>10 DEF Claim, DatabaseTypeOK
  <2> QED BY <2>1, <2>2
<1>11. ASSUME NEW x \in Executors, InsertAttempt(x)
      PROVE  DatabaseTypeOK' /\ MemoryTypeOK'
  <2>1. MemoryTypeOK'
    BY <1>11 DEF InsertAttempt, Goto, MemoryTypeOK, PC, Located
  <2>2. attempts[job[x]] \in Seq({"running"} \cup TerminalStatus)
    BY <1>7, <1>11 DEF InsertAttempt, Located, DatabaseTypeOK
  <2>3. Append(attempts[job[x]], "running") \in Seq({"running"} \cup TerminalStatus)
    BY <2>2
  <2>4. attempts' \in [Generations -> Seq({"running"} \cup TerminalStatus)]
    BY <1>11, <2>3 DEF InsertAttempt, DatabaseTypeOK
  <2> QED BY <1>11, <2>1, <2>4 DEF InsertAttempt, DatabaseTypeOK
<1>12. ASSUME NEW x \in Executors, MarkRunning(x)
      PROVE  DatabaseTypeOK' /\ MemoryTypeOK'
  <2>1. MemoryTypeOK'
    BY <1>12 DEF MarkRunning, Goto, MemoryTypeOK, PC, Located
  <2> QED BY <1>12, <2>1 DEF MarkRunning, DatabaseTypeOK
<1>13. ASSUME NEW x \in Executors, ReadRequest(x)
      PROVE  DatabaseTypeOK' /\ MemoryTypeOK'
  BY <1>13, DatabaseFrame DEF ReadRequest, Goto, MemoryTypeOK, PC, Located
<1>14. ASSUME NEW x \in Executors, Throw(x)
      PROVE  DatabaseTypeOK' /\ MemoryTypeOK'
  <2>1. MemoryTypeOK'
    BY <1>14, LeaveType DEF Throw, PC, Located
  <2>2. \A n \in 0..MaxAttempts : (IF n < MaxAttempts THEN n + 1 ELSE n) \in 0..MaxAttempts
    BY GenerationAssumption
  <2>3. failures' = [failures EXCEPT ![job[x]] = IF @ < MaxAttempts THEN @ + 1 ELSE @]
    BY <1>14 DEF Throw
  <2>4. failures' \in [Generations -> 0..MaxAttempts]
    BY <2>2, <2>3 DEF DatabaseTypeOK
  <2> QED BY <1>14, <2>1, <2>4 DEF Throw, DatabaseTypeOK
<1>15. ASSUME NEW x \in Executors, NEW verdict \in TerminalStatus, EndRun(x, verdict)
      PROVE  DatabaseTypeOK' /\ MemoryTypeOK'
  BY <1>15, DatabaseFrame DEF EndRun, Goto, MemoryTypeOK, PC, Located
<1>16. ASSUME NEW x \in Executors, Drain(x)
      PROVE  DatabaseTypeOK' /\ MemoryTypeOK'
  BY <1>16, DatabaseFrame DEF Drain, Goto, MemoryTypeOK, PC, Located
<1>17. ASSUME NEW x \in Executors, Finalize(x)
      PROVE  DatabaseTypeOK' /\ MemoryTypeOK'
  <2> DEFINE verdict == [h \in {job[x]} |-> outcome[x]]
  <2>1. job[x] \in Generations /\ outcome[x] \in {"none"} \cup TerminalStatus
    BY <1>7, <1>17 DEF Finalize, Located, MemoryTypeOK
  <2>2. /\ CanFinalize(x, job[x], outcome[x])
        /\ outcome[x] = "completed" => ~DraftRejected(job[x])
        /\ Promote(job[x], outcome[x])
        /\ Settle({job[x]}, verdict) /\ CloseAttempts({job[x]}, verdict) /\ DropWriter({job[x]})
        /\ overdue' = [overdue EXCEPT ![job[x]] = FALSE]
        /\ message' = [message EXCEPT ![job[x]] = blocks[x]]
        /\ Leave(x, "done")
        /\ UNCHANGED <<draft, topology, failures>>
    BY <1>17 DEF Finalize
  <2>3. MemoryTypeOK'
    BY <2>2, LeaveType DEF PC
  <2>4. outcome[x] \in TerminalStatus
    BY <1>17, <2>1 DEF Finalize, Decided
  <2>5. analysis' \in [Conversations -> [revision : Nat, generation : Generations \cup {None}]]
    BY <2>1, <2>2 DEF Promote, DatabaseTypeOK, Draft
  <2>6. blocks[x] \in Nat
    BY DEF MemoryTypeOK
  <2>7. \A g \in {job[x]} : verdict[g] \in TerminalStatus
    BY <2>4
  <2> HIDE DEF verdict
  <2> QED BY <2>1, <2>2, <2>3, <2>5, <2>6, <2>7, SettleType, CloseType DEF DropWriter, DatabaseTypeOK
<1>18. ASSUME NEW x \in Executors, FinalizeRefused(x)
      PROVE  DatabaseTypeOK' /\ MemoryTypeOK'
  BY <1>18, DatabaseFrame, LeaveType DEF FinalizeRefused, Goto, MemoryTypeOK, PC, Located
<1>19. ASSUME NEW x \in Executors, Recheck(x)
      PROVE  DatabaseTypeOK' /\ MemoryTypeOK'
  BY <1>19, DatabaseFrame, LeaveType DEF Recheck, Goto, MemoryTypeOK, PC, Located
<1>20. ASSUME NEW x \in Executors, FailQueued(x)
      PROVE  DatabaseTypeOK' /\ MemoryTypeOK'
  <2> DEFINE S == IF Claimable(job[x]) THEN {job[x]} ELSE {}
             verdict == [h \in S |-> "failed"]
  <2>1. S \in SUBSET Generations /\ \A g \in S : verdict[g] \in TerminalStatus
    BY <1>7, <1>20 DEF FailQueued, Located
  <2>2. /\ Settle(S, verdict)
        /\ overdue' = [g \in Generations |-> g \notin S /\ overdue[g]]
        /\ UNCHANGED <<writer, attempts, message, drafts, topology, failures>>
        /\ Leave(x, "done")
    BY <1>20 DEF FailQueued
  <2>3. MemoryTypeOK'
    BY <2>2, LeaveType DEF PC
  <2> HIDE DEF S, verdict
  <2> QED BY <2>1, <2>2, <2>3, SettleType DEF DatabaseTypeOK
<1>21. ASSUME NEW x \in Executors, Publish(x)
      PROVE  DatabaseTypeOK' /\ MemoryTypeOK'
  <2> DEFINE kind == [h \in {job[x]} |-> "content"]
  <2>1. {job[x]} \in SUBSET Generations /\ \A g \in {job[x]} : kind[g] \in {"content"} \cup TerminalStatus
    BY <1>7, <1>21 DEF Publish, Located, Running
  <2>2. AppendEvent({job[x]}, kind)
    BY <1>21 DEF Publish
  <2>3. lastSequence' \in [Generations -> Nat] /\ events' \in [Generations -> SUBSET Event]
    BY <2>1, <2>2, AppendType
  <2>4. MemoryTypeOK'
    BY <1>21 DEF Publish, MemoryTypeOK
  <2> QED BY <1>21, <2>3, <2>4 DEF Publish, DatabaseTypeOK
<1>22. ASSUME NEW x \in Executors, PublishFails(x)
      PROVE  DatabaseTypeOK' /\ MemoryTypeOK'
  BY <1>22, DatabaseFrame DEF PublishFails, MemoryTypeOK
<1>23. ASSUME NEW x \in Executors, Emit(x)
      PROVE  DatabaseTypeOK' /\ MemoryTypeOK'
  BY <1>23, DatabaseFrame DEF Emit, MemoryTypeOK
<1>24. ASSUME NEW x \in Executors, Checkpoint(x)
      PROVE  DatabaseTypeOK' /\ MemoryTypeOK'
  <2>1. MemoryTypeOK'
    BY <1>24, MemoryFrame DEF Checkpoint
  <2>2. blocks[x] \in Nat
    BY DEF MemoryTypeOK
  <2> QED BY <1>24, <2>1, <2>2 DEF Checkpoint, DatabaseTypeOK
<1>25. ASSUME NEW x \in Executors, BeginDraft(x)
      PROVE  DatabaseTypeOK' /\ MemoryTypeOK'
  <2> DEFINE base == analysis[conversation[job[x]]].revision
             begun == IF draft[job[x]] # NoDraft THEN draft[job[x]]
                      ELSE [base |-> base, revision |-> base + 1, final |-> FALSE]
  <2>1. job[x] \in Generations /\ conversation[job[x]] \in Conversations
    BY <1>25 DEF BeginDraft, JobKnown, Located, DatabaseTypeOK
  <2>2. base \in Nat /\ begun \in Draft
    BY <2>1 DEF DatabaseTypeOK, Draft
  <2>3. begun.revision \in Nat
    BY <2>2 DEF Draft
  <2>4. /\ draft' = [draft EXCEPT ![job[x]] = begun]
        /\ session' = [session EXCEPT ![x] = begun.revision]
        /\ UNCHANGED <<row, log, records, analysis, topology, failures, pc, job,
                       abort, blocks, queue, broken, outcome>>
    BY <1>25 DEF BeginDraft
  <2> HIDE DEF begun, base
  <2>5. MemoryTypeOK'
    BY <2>3, <2>4 DEF MemoryTypeOK
  <2> QED BY <2>1, <2>2, <2>4, <2>5 DEF DatabaseTypeOK
<1>26. ASSUME NEW x \in Executors, NEW final \in BOOLEAN, Save(x, final)
      PROVE  DatabaseTypeOK' /\ MemoryTypeOK'
  <2>1. MemoryTypeOK'
    BY <1>26 DEF Save, Goto, MemoryTypeOK, PC, Located
  <2>2. session[x] + 1 \in Nat
    BY DEF MemoryTypeOK
  <2>3. draft' = [draft EXCEPT ![job[x]] = [@ EXCEPT !.revision = session[x] + 1, !.final = final]]
    BY <1>26 DEF Save
  <2>4. \A d \in Draft : [d EXCEPT !.revision = session[x] + 1, !.final = final] \in Draft
    BY <2>2 DEF Draft
  <2>5. draft' \in [Generations -> Draft]
    BY <2>3, <2>4 DEF DatabaseTypeOK
  <2> QED BY <1>26, <2>1, <2>5 DEF Save, DatabaseTypeOK
<1>27. ASSUME NEW x \in Executors, NEW verdict \in {"failed", "cancelled"}, AbortAs(x, verdict)
      PROVE  DatabaseTypeOK' /\ MemoryTypeOK'
  BY <1>27, DatabaseFrame DEF AbortAs, MemoryTypeOK
<1>28. ASSUME NEW x \in Executors, Heartbeat(x)
      PROVE  DatabaseTypeOK' /\ MemoryTypeOK'
  BY <1>28, MemoryFrame DEF Heartbeat, DatabaseTypeOK
<1>29. ASSUME NEW x \in Executors, Crash(x)
      PROVE  DatabaseTypeOK' /\ MemoryTypeOK'
  BY <1>29, DatabaseFrame, LeaveType DEF Crash, PC
<1>30. CASE UNCHANGED vars
  BY <1>30, DatabaseFrame, MemoryFrame DEF vars
<1>31. ASSUME NEW x \in Executors, RunAborted(x)
      PROVE  EndRun(x, abort[x]) /\ abort[x] \in TerminalStatus
  BY <1>31 DEF RunAborted, MemoryTypeOK
<1>32. ASSUME NEW x \in Executors, Shell(x)
      PROVE  DatabaseTypeOK' /\ MemoryTypeOK'
  BY <1>32, <1>8, <1>9, <1>10, <1>11, <1>12, <1>13, <1>14, <1>15, <1>16, <1>17, <1>18, <1>19, <1>20, <1>31
     DEF Shell, CallFails, DrainThrows
<1>33. ASSUME NEW x \in Executors, Runtime(x)
      PROVE  DatabaseTypeOK' /\ MemoryTypeOK'
  BY <1>33, <1>15, <1>23, <1>24, <1>25, <1>26 DEF Runtime, RunReturns, RunFails
<1>34. ASSUME NEW x \in Executors, CancelPoll(x) \/ Timeout(x)
      PROVE  DatabaseTypeOK' /\ MemoryTypeOK'
  BY <1>34, <1>27 DEF CancelPoll, Timeout
<1> HIDE DEF row, log, records, drafts, topology, memory, TerminalStatus, ActiveStatus
<1> QED
  BY <1>1, <1>2, <1>3, <1>4, <1>5, <1>6, <1>21, <1>22, <1>28, <1>29, <1>30, <1>32, <1>33, <1>34
  DEF Next, Api, Chain

(* A job's row was inserted before the job, and conversation_id is never   *)
(* rewritten.                                                              *)
LEMMA MemoryStep == TypeOK /\ JobKnown /\ Decided /\ [Next]_vars => JobKnown' /\ Decided'
<1> SUFFICES ASSUME TypeOK, JobKnown, Decided, [Next]_vars PROVE JobKnown' /\ Decided'
  OBVIOUS
<1>0. MemoryTypeOK
  BY DEF TypeOK
<1> USE <1>0 DEF MemoryTypeOK, JobKnown, Decided, Located, database, memory, topology
<1>1. ASSUME NEW g \in Generations, NEW c \in Conversations, Create(g, c)
      PROVE  JobKnown' /\ Decided'
  <2>1. /\ conversation[g] = None /\ conversation' = [conversation EXCEPT ![g] = c]
        /\ UNCHANGED <<pc, job, outcome>>
    BY <1>1 DEF Create
  <2> QED BY <2>1
<1>2. ASSUME UNCHANGED <<pc, job, outcome, conversation>>
      PROVE  JobKnown' /\ Decided'
  BY <1>2
<1>3. CASE \E g \in Generations : Cancel(g)
  BY <1>2, <1>3 DEF Cancel
<1>4. CASE \E c \in Conversations : DeleteConversation(c)
  BY <1>2, <1>4 DEF DeleteConversation
<1>5. CASE FailStale
  BY <1>2, <1>5 DEF FailStale
<1>6. CASE \E g \in Generations : Age(g)
  BY <1>2, <1>6 DEF Age
<1>7. ASSUME NEW x \in Executors, NEW g \in Generations, StartJob(x, g)
      PROVE  JobKnown' /\ Decided'
  BY <1>7 DEF StartJob, Goto
<1>8. ASSUME NEW x \in Executors, NEW place \in {"done", "failQueued"}, pc[x] \in Located,
             Leave(x, place), UNCHANGED conversation
      PROVE  JobKnown' /\ Decided'
  BY <1>8 DEF Leave, Goto
<1>9. ASSUME NEW x \in Executors, NEW place \in Located, pc[x] \in Located, Goto(x, place),
             place \in {"drain", "finalize", "recheck"} <=> outcome'[x] # "none",
             \A y \in Executors : y # x => outcome'[y] = outcome[y],
             UNCHANGED <<job, conversation>>
      PROVE  JobKnown' /\ Decided'
  BY <1>9 DEF Goto
<1>10. ASSUME NEW x \in Executors, Candidate(x)
      PROVE  JobKnown' /\ Decided'
  <2>1. UNCHANGED conversation /\ pc[x] \in Located /\ outcome[x] = "none"
    BY <1>10 DEF Candidate
  <2>2. CASE Leave(x, "done")
    BY <1>8, <2>1, <2>2
  <2>3. CASE Goto(x, "claim") /\ UNCHANGED <<job, memory>>
    BY <1>9, <2>1, <2>3
  <2>4. CASE Goto(x, "cancelRequested") /\ UNCHANGED <<job, memory>>
    BY <1>9, <2>1, <2>4
  <2> QED BY <1>10, <2>2, <2>3, <2>4 DEF Candidate
<1>11. ASSUME NEW x \in Executors, FinalizeUnclaimed(x)
      PROVE  JobKnown' /\ Decided'
  BY <1>8, <1>11 DEF FinalizeUnclaimed
<1>12. ASSUME NEW x \in Executors, Claim(x)
      PROVE  JobKnown' /\ Decided'
  <2>1. UNCHANGED conversation /\ pc[x] \in Located /\ outcome[x] = "none"
    BY <1>12 DEF Claim
  <2>2. CASE Leave(x, "done")
    BY <1>8, <2>1, <2>2
  <2>3. CASE Goto(x, "attempt") /\ UNCHANGED <<job, memory>>
    BY <1>9, <2>1, <2>3
  <2> QED BY <1>12, <2>2, <2>3 DEF Claim
<1>13. ASSUME NEW x \in Executors, InsertAttempt(x) \/ MarkRunning(x) \/ ReadRequest(x) \/ Drain(x)
      PROVE  JobKnown' /\ Decided'
  BY <1>13 DEF InsertAttempt, MarkRunning, ReadRequest, Drain, Goto
<1>14. ASSUME NEW x \in Executors, Throw(x), pc[x] \in Located
      PROVE  JobKnown' /\ Decided'
  BY <1>8, <1>14 DEF Throw
<1>15. ASSUME NEW x \in Executors, NEW verdict \in TerminalStatus, pc[x] \in Running, EndRun(x, verdict)
      PROVE  JobKnown' /\ Decided'
  BY <1>15 DEF EndRun, Goto, Running, TerminalStatus
<1>16. ASSUME NEW x \in Executors, Finalize(x)
      PROVE  JobKnown' /\ Decided'
  BY <1>8, <1>16 DEF Finalize
<1>17. ASSUME NEW x \in Executors, FinalizeRefused(x)
      PROVE  JobKnown' /\ Decided'
  <2>1. UNCHANGED conversation /\ pc[x] \in Located /\ outcome[x] # "none"
    BY <1>17 DEF FinalizeRefused
  <2>2. CASE Leave(x, "done")
    BY <1>8, <2>1, <2>2
  <2>3. CASE Goto(x, "recheck") /\ UNCHANGED <<job, memory>>
    BY <1>9, <2>1, <2>3
  <2>4. CASE outcome' = [outcome EXCEPT ![x] = "failed"] /\ UNCHANGED <<pc, job>>
    BY <1>17, <2>1, <2>4
  <2> QED BY <1>17, <2>2, <2>3, <2>4 DEF FinalizeRefused
<1>18. ASSUME NEW x \in Executors, Recheck(x)
      PROVE  JobKnown' /\ Decided'
  <2>1. UNCHANGED conversation /\ pc[x] \in Located
    BY <1>18 DEF Recheck
  <2>2. CASE Leave(x, "done")
    BY <1>8, <2>1, <2>2
  <2>3. CASE outcome' = [outcome EXCEPT ![x] = "cancelled"] /\ Goto(x, "finalize") /\ UNCHANGED job
    BY <1>9, <2>1, <2>3
  <2> QED BY <1>18, <2>2, <2>3 DEF Recheck
<1>19. ASSUME NEW x \in Executors, FailQueued(x)
      PROVE  JobKnown' /\ Decided'
  BY <1>8, <1>19 DEF FailQueued
<1>20. CASE \E x \in Executors :
              \/ Publish(x) \/ PublishFails(x) \/ Emit(x) \/ Checkpoint(x) \/ BeginDraft(x)
              \/ CancelPoll(x) \/ Timeout(x) \/ Heartbeat(x)
  BY <1>2, <1>20 DEF Publish, PublishFails, Emit, Checkpoint, BeginDraft, CancelPoll, Timeout, AbortAs, Heartbeat
<1>21. ASSUME NEW x \in Executors, NEW final \in BOOLEAN, Save(x, final)
      PROVE  JobKnown' /\ Decided'
  BY <1>21 DEF Save, Goto
<1>22. ASSUME NEW x \in Executors, Crash(x)
      PROVE  JobKnown' /\ Decided'
  BY <1>8, <1>22 DEF Crash
<1>23. CASE UNCHANGED vars
  BY <1>2, <1>23 DEF vars
<1>24. ASSUME NEW x \in Executors, Shell(x)
      PROVE  JobKnown' /\ Decided'
  <2>1. ASSUME RunAborted(x) PROVE EndRun(x, abort[x]) /\ abort[x] \in TerminalStatus /\ pc[x] \in Running
    BY <2>1 DEF RunAborted, TerminalStatus
  <2>2. ASSUME CallFails(x) \/ DrainThrows(x) PROVE Throw(x) /\ pc[x] \in Located
    BY <2>2 DEF CallFails, DrainThrows, Throwing
  <2> QED BY <1>24, <2>1, <2>2, <1>10, <1>11, <1>12, <1>13, <1>14, <1>15, <1>16, <1>17, <1>18, <1>19 DEF Shell
<1>25. ASSUME NEW x \in Executors, (\E final \in BOOLEAN : Save(x, final)) \/ RunReturns(x) \/ RunFails(x)
      PROVE  JobKnown' /\ Decided'
  BY <1>25, <1>15, <1>21 DEF RunReturns, RunFails, Running, TerminalStatus
<1> HIDE <1>0 DEF MemoryTypeOK, JobKnown, Decided, Located, database, memory, topology
<1> QED
  BY <1>1, <1>3, <1>4, <1>5, <1>6, <1>7, <1>20, <1>22, <1>23, <1>24, <1>25 DEF Next, Api, Chain, Runtime

(* Rows, events and what executors remember stay in their domains: the      *)
(* reads and writes of the code never meet a row or a job of another kind.  *)
THEOREM TypeCorrect == Spec => [](TypeOK /\ JobKnown /\ Decided)
<1>1. Init => TypeOK
  BY GenerationAssumption
  DEF Init, TypeOK, DatabaseTypeOK, MemoryTypeOK, PC, NoDraft, NoAnalysis, Draft
<1>2. Init => JobKnown /\ Decided
  BY DEF Init, JobKnown, Decided, Located
<1> QED BY <1>1, <1>2, TypeStep, MemoryStep, PTL DEF Spec

-----------------------------------------------------------------------------
(* Rows. *)

RowsAgree == Blank /\ TurnAgrees /\ WriterAgrees /\ OneActive

LEMMA SettleRows ==
  ASSUME TypeOK, TurnAgrees, NEW S, S \subseteq {g \in Generations : Active(g)},
         NEW verdict, \A g \in S : verdict[g] \in TerminalStatus, Settle(S, verdict)
  PROVE  /\ \A g \in Generations : status'[g] = IF g \in S THEN verdict[g] ELSE status[g]
         /\ TurnAgrees'
         /\ \A g \in Generations : Active(g)' <=> Active(g) /\ g \notin S
         /\ \A g \in Generations : g \notin S => UNCHANGED <<turn[g], lastSequence[g], events[g]>>
<1>1. \A g \in Generations : status'[g] = IF g \in S THEN verdict[g] ELSE status[g]
  BY DEF Settle
<1>2. \A g \in Generations : turn'[g] = IF g \in S /\ turn[g] = "pending" THEN verdict[g] ELSE turn[g]
  BY DEF Settle
<1>3. \A g \in Generations : Active(g)' <=> Active(g) /\ g \notin S
  BY <1>1 DEF Active, ActiveStatus, TerminalStatus
<1>4. TurnAgrees'
  BY <1>1, <1>2, <1>3 DEF TurnAgrees
<1>5. \A g \in Generations : g \notin S => UNCHANGED <<lastSequence[g], events[g]>>
  BY DEF Settle, AppendEvent, TypeOK, DatabaseTypeOK
<1> QED BY <1>1, <1>2, <1>3, <1>4, <1>5

LEMMA RowsStep == TypeOK /\ JobKnown /\ Decided /\ RowsAgree /\ [Next]_vars => RowsAgree'
<1> SUFFICES ASSUME TypeOK, JobKnown, Decided, RowsAgree, [Next]_vars PROVE RowsAgree'
  OBVIOUS
<1>0. DatabaseTypeOK /\ MemoryTypeOK
  BY DEF TypeOK
<1>1. ASSUME NEW g \in Generations, NEW c \in Conversations, Create(g, c) PROVE RowsAgree'
  <2>1. status[g] = "absent" /\ \A h \in Generations : Active(h) => conversation[h] # c
    BY <1>1 DEF Create, ConversationBusy, Members, RowsAgree, Blank
  <2>2. /\ status' = [status EXCEPT ![g] = "pending"]
        /\ turn' = [turn EXCEPT ![g] = "pending"]
        /\ conversation' = [conversation EXCEPT ![g] = c]
        /\ UNCHANGED <<writer, log, attempts, message, draft>>
    BY <1>1 DEF Create, drafts
  <2>3. /\ \A h \in Generations : Active(h)' <=> Active(h) \/ h = g
        /\ c # None
    BY <1>0, <1>1, <2>2, GenerationAssumption DEF Active, ActiveStatus, DatabaseTypeOK
  <2>4. OneActive'
    BY <1>0, <2>1, <2>2, <2>3 DEF RowsAgree, OneActive, DatabaseTypeOK
  <2>5. TurnAgrees'
    BY <1>0, <2>2, <2>3 DEF RowsAgree, TurnAgrees, DatabaseTypeOK, Active, ActiveStatus
  <2>6. Blank'
    BY <1>0, <2>1, <2>2, <2>3 DEF RowsAgree, Blank, DatabaseTypeOK, log
  <2>7. WriterAgrees'
    BY <1>0, <2>1, <2>2 DEF RowsAgree, Blank, WriterAgrees, DatabaseTypeOK
  <2> QED BY <2>4, <2>5, <2>6, <2>7 DEF RowsAgree
<1>2. ASSUME NEW g \in Generations, Cancel(g) PROVE RowsAgree'
  BY <1>0, <1>2 DEF Cancel, RowsAgree, Blank, TurnAgrees, WriterAgrees, OneActive, DatabaseTypeOK,
     log, records, drafts, topology, Active, ActiveStatus, WriterStatus
<1>3. ASSUME NEW c \in Conversations, DeleteConversation(c) PROVE RowsAgree'
  BY <1>0, <1>3 DEF DeleteConversation, DropWriter, Members, RowsAgree, Blank, TurnAgrees, WriterAgrees,
     OneActive, DatabaseTypeOK, Active, ActiveStatus, WriterStatus
<1>4. ASSUME UNCHANGED <<status, writer, log, records, drafts, topology>> PROVE RowsAgree'
  BY <1>4 DEF RowsAgree, Blank, TurnAgrees, WriterAgrees, OneActive, Active, log, records, drafts, topology
<1>5. ASSUME NEW S, S \subseteq {g \in Generations : Active(g)}, NEW verdict,
             \A g \in S : verdict[g] \in TerminalStatus, Settle(S, verdict),
             CloseAttempts(S, verdict) \/ UNCHANGED attempts,
             DropWriter(S) \/ (UNCHANGED writer /\ \A g \in S : writer[g] = None),
             \A g \in Generations : status[g] = "absent" => UNCHANGED <<message[g], draft[g]>>,
             UNCHANGED conversation
      PROVE  RowsAgree'
  <2>1. /\ \A g \in Generations : status'[g] = IF g \in S THEN verdict[g] ELSE status[g]
        /\ TurnAgrees'
        /\ \A g \in Generations : Active(g)' <=> Active(g) /\ g \notin S
        /\ \A g \in Generations : g \notin S => UNCHANGED <<lastSequence[g], events[g]>>
    BY <1>5, SettleRows DEF RowsAgree
  <2>2. OneActive'
    BY <1>5, <2>1 DEF RowsAgree, OneActive
  <2>3. \A g \in Generations : g \notin S => attempts'[g] = attempts[g]
    BY <1>5 DEF CloseAttempts
  <2>4. \A g \in Generations : writer'[g] = IF g \in S THEN None ELSE writer[g]
    BY <1>5 DEF DropWriter
  <2>5. WriterAgrees'
    BY <2>1, <2>4 DEF WriterAgrees, RowsAgree
  <2>6. \A g \in S : status'[g] # "absent" /\ status[g] # "absent"
    BY <1>5, <2>1 DEF TerminalStatus, Active, ActiveStatus
  <2>7. Blank'
    BY <1>5, <2>1, <2>3, <2>4, <2>6 DEF RowsAgree, Blank
  <2> QED BY <2>1, <2>2, <2>5, <2>7 DEF RowsAgree
<1>6. CASE FailStale
  <2> DEFINE S == {g \in Generations : Stale(g)}
             verdict == [g \in S |-> IF status[g] = "cancel_requested" THEN "cancelled" ELSE "failed"]
  <2>1. S \subseteq {g \in Generations : Active(g)} /\ \A g \in S : verdict[g] \in TerminalStatus
    BY DEF Stale, Active, ActiveStatus, TerminalStatus
  <2>2. /\ Settle(S, verdict) /\ CloseAttempts(S, verdict) /\ DropWriter(S)
        /\ UNCHANGED <<message, draft, conversation>>
    BY <1>6 DEF FailStale, drafts, topology
  <2> HIDE DEF S, verdict
  <2> QED BY <1>5, <2>1, <2>2
<1>7. ASSUME NEW x \in Executors, FinalizeUnclaimed(x) PROVE RowsAgree'
  <2> DEFINE S == IF writer[job[x]] = None /\ status[job[x]] = "cancel_requested" THEN {job[x]} ELSE {}
             verdict == [h \in S |-> "cancelled"]
  <2>1. S \subseteq {g \in Generations : Active(g)} /\ \A g \in S : verdict[g] \in TerminalStatus
    BY <1>7 DEF FinalizeUnclaimed, JobKnown, Located, Active, ActiveStatus, TerminalStatus
  <2>2. /\ Settle(S, verdict) /\ CloseAttempts(S, verdict) /\ DropWriter(S)
        /\ UNCHANGED <<message, draft, conversation>>
    BY <1>7 DEF FinalizeUnclaimed, drafts, topology
  <2> HIDE DEF S, verdict
  <2> QED BY <1>5, <2>1, <2>2
<1>8. ASSUME NEW x \in Executors, Claim(x) PROVE RowsAgree'
  <2>1. job[x] \in Generations /\ UNCHANGED <<log, records, drafts, topology>>
    BY <1>8 DEF Claim, JobKnown, Located
  <2>2. CASE UNCHANGED row
    BY <1>4, <2>1, <2>2 DEF row
  <2>3. CASE /\ status[job[x]] = "pending"
             /\ status' = [status EXCEPT ![job[x]] = "starting"]
             /\ writer' = [writer EXCEPT ![job[x]] = x]
    BY <1>0, <2>1, <2>3 DEF RowsAgree, Blank, TurnAgrees, WriterAgrees, OneActive, DatabaseTypeOK,
       log, records, drafts, topology, Active, ActiveStatus, WriterStatus
  <2> QED BY <1>8, <2>2, <2>3 DEF Claim, Claimable
<1>9. ASSUME NEW x \in Executors, InsertAttempt(x) PROVE RowsAgree'
  BY <1>0, <1>9 DEF InsertAttempt, Exists, RowsAgree, Blank, TurnAgrees, WriterAgrees, OneActive, DatabaseTypeOK,
     row, log, drafts, topology, Active
<1>10. ASSUME NEW x \in Executors, MarkRunning(x) PROVE RowsAgree'
  BY <1>0, <1>10 DEF MarkRunning, RowsAgree, Blank, TurnAgrees, WriterAgrees, OneActive, DatabaseTypeOK,
     log, records, drafts, topology, Active, ActiveStatus, WriterStatus
<1>11. ASSUME NEW x \in Executors, Finalize(x) PROVE RowsAgree'
  <2> DEFINE verdict == [h \in {job[x]} |-> outcome[x]]
  <2>1. {job[x]} \subseteq {g \in Generations : Active(g)} /\ status[job[x]] # "absent"
    BY <1>11 DEF Finalize, CanFinalize, WriterStatus, JobKnown, Located, Active, ActiveStatus
  <2>2. outcome[x] \in TerminalStatus
    BY <1>0, <1>11 DEF Finalize, Decided, MemoryTypeOK
  <2>3. /\ Settle({job[x]}, verdict) /\ CloseAttempts({job[x]}, verdict) /\ DropWriter({job[x]})
        /\ message' = [message EXCEPT ![job[x]] = blocks[x]]
        /\ UNCHANGED <<draft, conversation>>
    BY <1>11 DEF Finalize, topology
  <2>4. \A g \in {job[x]} : verdict[g] \in TerminalStatus
    BY <2>2
  <2>5. \A g \in Generations : status[g] = "absent" => UNCHANGED <<message[g], draft[g]>>
    BY <1>0, <2>1, <2>3 DEF DatabaseTypeOK
  <2> HIDE DEF verdict
  <2> QED BY <1>5, <2>1, <2>3, <2>4, <2>5
<1>12. ASSUME NEW x \in Executors, FailQueued(x) PROVE RowsAgree'
  <2> DEFINE S == IF Claimable(job[x]) THEN {job[x]} ELSE {}
             verdict == [h \in S |-> "failed"]
  <2>1. S \subseteq {g \in Generations : Active(g)} /\ \A g \in S : verdict[g] \in TerminalStatus /\ writer[g] = None
    BY <1>12 DEF FailQueued, Claimable, JobKnown, Located, Active, ActiveStatus, TerminalStatus
  <2>2. Settle(S, verdict) /\ UNCHANGED <<attempts, writer, message, draft, conversation>>
    BY <1>12 DEF FailQueued, drafts, topology
  <2> HIDE DEF S, verdict
  <2> QED BY <1>5, <2>1, <2>2
<1>13. ASSUME NEW x \in Executors, Publish(x) PROVE RowsAgree'
  <2>1. Active(job[x])
    BY <1>13 DEF Publish, Owned, WriterStatus, Active, ActiveStatus
  <2>2. /\ AppendEvent({job[x]}, [h \in {job[x]} |-> "content"])
        /\ UNCHANGED <<row, records, drafts, topology>>
    BY <1>13 DEF Publish
  <2>3. \A g \in Generations : ~Active(g) => UNCHANGED <<lastSequence[g], events[g]>>
    BY <1>0, <2>1, <2>2 DEF AppendEvent, DatabaseTypeOK
  <2>4. \A g \in Generations : status[g] = "absent" => ~Active(g)
    BY DEF Active, ActiveStatus
  <2> QED BY <2>2, <2>3, <2>4 DEF RowsAgree, Blank, TurnAgrees, WriterAgrees, OneActive, Active, row, records, drafts, topology
<1>14. ASSUME NEW x \in Executors, Checkpoint(x) PROVE RowsAgree'
  BY <1>0, <1>14 DEF Checkpoint, Owned, RowsAgree, Blank, TurnAgrees, WriterAgrees, OneActive, DatabaseTypeOK,
     row, log, drafts, topology, Active, ActiveStatus, WriterStatus
<1>15. ASSUME NEW x \in Executors, BeginDraft(x) PROVE RowsAgree'
  <2>1. /\ status[job[x]] # "absent"
        /\ \A g \in Generations : g # job[x] => draft'[g] = draft[g]
        /\ UNCHANGED <<row, log, records, topology>>
    BY <1>0, <1>15 DEF BeginDraft, Owned, WriterStatus, DatabaseTypeOK
  <2> QED BY <2>1 DEF RowsAgree, Blank, TurnAgrees, WriterAgrees, OneActive, Active, row, log, records, topology
<1>16. ASSUME NEW x \in Executors, NEW final \in BOOLEAN, Save(x, final) PROVE RowsAgree'
  <2>1. /\ status[job[x]] # "absent"
        /\ \A g \in Generations : g # job[x] => draft'[g] = draft[g]
        /\ UNCHANGED <<row, log, records, topology>>
    BY <1>0, <1>16 DEF Save, Owned, WriterStatus, DatabaseTypeOK
  <2> QED BY <2>1 DEF RowsAgree, Blank, TurnAgrees, WriterAgrees, OneActive, Active, row, log, records, topology
<1>17. ASSUME NEW x \in Executors, UNCHANGED database PROVE RowsAgree'
  BY <1>4, <1>17 DEF database, row
<1>18. ASSUME NEW x \in Executors, Throw(x) PROVE RowsAgree'
  BY <1>4, <1>18 DEF Throw, row
<1>19. ASSUME NEW x \in Executors, Shell(x) PROVE RowsAgree'
  BY <1>19, <1>7, <1>8, <1>9, <1>10, <1>11, <1>12, <1>17, <1>18
  DEF Shell, Candidate, ReadRequest, CallFails, RunAborted, EndRun, Drain, DrainThrows, FinalizeRefused, Recheck
<1>20. ASSUME NEW x \in Executors, Runtime(x) \/ Chain(x) PROVE RowsAgree'
  BY <1>20, <1>13, <1>14, <1>15, <1>16, <1>17
  DEF Runtime, Chain, PublishFails, Emit, RunReturns, RunFails, EndRun
<1>21. ASSUME NEW x \in Executors, Heartbeat(x) \/ CancelPoll(x) \/ Timeout(x) \/ Crash(x) PROVE RowsAgree'
  BY <1>21, <1>4, <1>17 DEF Heartbeat, CancelPoll, Timeout, AbortAs, Crash
<1>22. CASE \E g \in Generations : Age(g)
  BY <1>4, <1>22 DEF Age
<1>23. CASE \E x \in Executors, g \in Generations : StartJob(x, g)
  BY <1>17, <1>23 DEF StartJob
<1>24. CASE UNCHANGED vars
  BY <1>4, <1>24 DEF vars, database, row
<1> QED BY <1>1, <1>2, <1>3, <1>6, <1>19, <1>20, <1>21, <1>22, <1>23, <1>24 DEF Next, Api

-----------------------------------------------------------------------------
(* Executions. *)

Executions == Fresh /\ Exclusive /\ Unattempted /\ AttemptedOnce

(* Rows that are not made pending, executors that do not claim and attempts *)
(* that are not added change nothing.                                      *)
LEMMA ExecutionsFrame ==
  ASSUME Executions, JobKnown,
         \A g \in Generations : status'[g] = "pending" =>
           status[g] = "pending" /\ UNCHANGED <<writer[g], lastSequence[g], attempts[g], draft[g]>>,
         \A x \in Executors : pc'[x] \in Claimed => pc[x] \in Claimed /\ job'[x] = job[x],
         \A x \in Executors : pc'[x] = "attempt" => pc[x] = "attempt",
         \A g \in Generations : attempts[g] = <<>> => attempts'[g] = <<>>,
         \A g \in Generations : Len(attempts[g]) <= 1 => Len(attempts'[g]) <= 1
  PROVE  Executions'
<1>1. Fresh'
  BY DEF Executions, Fresh
<1>2. Exclusive'
  BY DEF Executions, Exclusive
<1>3. Unattempted'
  BY DEF Executions, Unattempted, JobKnown, Claimed, Located
<1>4. AttemptedOnce'
  BY DEF Executions, AttemptedOnce
<1> QED BY <1>1, <1>2, <1>3, <1>4 DEF Executions

LEMMA NoAttempt ==
  ASSUME NEW X, NEW s \in Seq(X), NEW t \in Seq(X), Len(t) = Len(s)
  PROVE  s = <<>> => t = <<>>
  OBVIOUS

(* What a step may do to pc and job: Claim alone enters the claimed places. *)
LEMMA LeaveUnclaims ==
  ASSUME MemoryTypeOK, NEW x \in Executors, NEW place \in {"done", "failQueued"}, Leave(x, place)
  PROVE  \A y \in Executors : pc'[y] \in Claimed => y # x /\ pc'[y] = pc[y] /\ job'[y] = job[y]
  BY DEF MemoryTypeOK, Leave, Goto, Claimed, Running

LEMMA ExecutionsStep ==
  TypeOK /\ TypeOK' /\ JobKnown /\ Decided /\ RowsAgree /\ Executions /\ [Next]_vars => Executions'
<1> SUFFICES ASSUME TypeOK, TypeOK', JobKnown, Decided, RowsAgree, Executions, [Next]_vars PROVE Executions'
  OBVIOUS
<1>0. DatabaseTypeOK /\ DatabaseTypeOK' /\ MemoryTypeOK
  BY DEF TypeOK
<1> DEFINE RowsKept == \A g \in Generations : status'[g] = "pending" =>
             status[g] = "pending" /\ UNCHANGED <<writer[g], lastSequence[g], attempts[g], draft[g]>>
           PlacesKept == /\ \A y \in Executors : pc'[y] \in Claimed => pc[y] \in Claimed /\ job'[y] = job[y]
                         /\ \A y \in Executors : pc'[y] = "attempt" => pc[y] = "attempt"
           AttemptsKept == /\ \A g \in Generations : attempts[g] = <<>> => attempts'[g] = <<>>
                           /\ \A g \in Generations : Len(attempts[g]) <= 1 => Len(attempts'[g]) <= 1
<1>1. ASSUME RowsKept, PlacesKept, AttemptsKept PROVE Executions'
  BY <1>1, ExecutionsFrame
<1>2. ASSUME UNCHANGED <<pc, job>> PROVE PlacesKept
  BY <1>2
<1>3. ASSUME UNCHANGED attempts PROVE AttemptsKept
  BY <1>3
<1>4. ASSUME UNCHANGED <<status, writer, lastSequence, attempts, draft>> PROVE RowsKept /\ AttemptsKept
  BY <1>4
<1>5. ASSUME NEW x \in Executors, NEW place \in {"done", "failQueued"}, Leave(x, place) PROVE PlacesKept
  BY <1>0, <1>5, LeaveUnclaims DEF Claimed
<1>6. ASSUME NEW x \in Executors, NEW place \in PC \ {"attempt"}, pc[x] \in Claimed \/ place \notin Claimed,
             Goto(x, place), UNCHANGED job
      PROVE  PlacesKept
  BY <1>0, <1>6 DEF Goto, MemoryTypeOK
<1>7. ASSUME NEW S \in SUBSET Generations, NEW verdict, \A g \in S : verdict[g] \in TerminalStatus, CloseAttempts(S, verdict)
      PROVE  AttemptsKept
  <2>1. \A g \in Generations : Len(attempts'[g]) = Len(attempts[g])
    BY <1>0, <1>7, CloseType
  <2>2. \A g \in Generations : /\ attempts[g] \in Seq({"running"} \cup TerminalStatus)
                               /\ attempts'[g] \in Seq({"running"} \cup TerminalStatus)
    BY <1>0 DEF DatabaseTypeOK
  <2> QED BY <2>1, <2>2, NoAttempt
<1>8. ASSUME NEW S \in SUBSET Generations, NEW verdict, \A g \in S : verdict[g] \in TerminalStatus,
             Settle(S, verdict), DropWriter(S) \/ UNCHANGED writer,
             CloseAttempts(S, verdict) \/ UNCHANGED attempts, UNCHANGED draft
      PROVE  RowsKept /\ AttemptsKept
  <2>1. AttemptsKept
    BY <1>3, <1>7, <1>8
  <2>2. \A g \in Generations : status'[g] = "pending" => g \notin S /\ status[g] = "pending"
    BY <1>8 DEF Settle, TerminalStatus
  <2>3. ASSUME NEW g \in Generations, g \notin S PROVE UNCHANGED <<writer[g], lastSequence[g], attempts[g], draft[g]>>
    <3>1. UNCHANGED lastSequence[g]
      BY <1>0, <1>8, <2>3 DEF Settle, AppendEvent, DatabaseTypeOK
    <3>2. UNCHANGED writer[g]
      BY <1>8, <2>3 DEF DropWriter
    <3>3. UNCHANGED attempts[g]
      BY <1>8, <2>3 DEF CloseAttempts
    <3> QED BY <1>8, <3>1, <3>2, <3>3
  <2> QED BY <2>1, <2>2, <2>3
<1> HIDE DEF RowsKept, PlacesKept, AttemptsKept
<1>9. ASSUME NEW g \in Generations, NEW c \in Conversations, Create(g, c) PROVE Executions'
  <2>1. /\ writer[g] = None /\ lastSequence[g] = 0 /\ attempts[g] = <<>> /\ draft[g] = NoDraft
        /\ \A x \in Executors : pc[x] \in Claimed => job[x] # g
    BY <1>9 DEF Create, RowsAgree, Blank, JobKnown, Claimed, Running, Located
  <2>2. /\ status' = [status EXCEPT ![g] = "pending"]
        /\ UNCHANGED <<writer, lastSequence, attempts, draft, pc, job>>
    BY <1>9 DEF Create, log, drafts
  <2> QED BY <1>0, <2>1, <2>2 DEF Executions, Fresh, Exclusive, Unattempted, AttemptedOnce, DatabaseTypeOK
<1>10. ASSUME NEW g \in Generations, Cancel(g) PROVE Executions'
  <2>1. RowsKept
    BY <1>0, <1>10 DEF Cancel, RowsKept, DatabaseTypeOK, log, records, drafts
  <2> QED BY <1>1, <1>2, <1>3, <1>10, <2>1 DEF Cancel, records
<1>11. ASSUME NEW c \in Conversations, DeleteConversation(c) PROVE Executions'
  <2>1. RowsKept
    BY <1>0, <1>11 DEF DeleteConversation, DropWriter, Members, RowsKept, DatabaseTypeOK
  <2>2. AttemptsKept
    BY <1>0, <1>11 DEF DeleteConversation, AttemptsKept, DatabaseTypeOK
  <2> QED BY <1>1, <1>2, <1>11, <2>1, <2>2 DEF DeleteConversation
<1>12. CASE FailStale
  <2> DEFINE S == {g \in Generations : Stale(g)}
             verdict == [g \in S |-> IF status[g] = "cancel_requested" THEN "cancelled" ELSE "failed"]
  <2>1. S \in SUBSET Generations /\ \A g \in S : verdict[g] \in TerminalStatus
    BY DEF TerminalStatus
  <2>2. /\ Settle(S, verdict) /\ CloseAttempts(S, verdict) /\ DropWriter(S)
        /\ UNCHANGED <<draft, pc, job>>
    BY <1>12 DEF FailStale, drafts
  <2> HIDE DEF S, verdict
  <2> QED BY <1>1, <1>2, <1>8, <2>1, <2>2
<1>13. ASSUME NEW x \in Executors, FinalizeUnclaimed(x) PROVE Executions'
  <2> DEFINE S == IF writer[job[x]] = None /\ status[job[x]] = "cancel_requested" THEN {job[x]} ELSE {}
             verdict == [h \in S |-> "cancelled"]
  <2>1. S \in SUBSET Generations /\ \A g \in S : verdict[g] \in TerminalStatus
    BY <1>13 DEF FinalizeUnclaimed, JobKnown, Located, TerminalStatus
  <2>2. /\ Settle(S, verdict) /\ CloseAttempts(S, verdict) /\ DropWriter(S)
        /\ UNCHANGED draft /\ Leave(x, "done")
    BY <1>13 DEF FinalizeUnclaimed, drafts
  <2> HIDE DEF S, verdict
  <2> QED BY <1>1, <1>5, <1>8, <2>1, <2>2
<1>14. ASSUME NEW x \in Executors, Claim(x) PROVE Executions'
  <2>1. job[x] \in Generations /\ UNCHANGED <<lastSequence, attempts, draft>>
    BY <1>14 DEF Claim, JobKnown, Located, log, records, drafts
  <2>2. CASE UNCHANGED row /\ Leave(x, "done")
    BY <1>1, <1>4, <1>5, <2>1, <2>2 DEF row
  <2>3. CASE /\ status[job[x]] = "pending"
             /\ status' = [status EXCEPT ![job[x]] = "starting"]
             /\ writer' = [writer EXCEPT ![job[x]] = x]
             /\ Goto(x, "attempt")
             /\ UNCHANGED job
    <3>1. attempts[job[x]] = <<>> /\ \A y \in Executors : pc[y] \in Claimed => job[y] # job[x]
      BY <2>1, <2>3 DEF Executions, Fresh
    <3>2. pc' = [pc EXCEPT ![x] = "attempt"]
      BY <2>3 DEF Goto
    <3>3. \A y \in Executors : pc'[y] = IF y = x THEN "attempt" ELSE pc[y]
      BY <1>0, <3>2 DEF MemoryTypeOK
    <3>4. \A g \in Generations : status'[g] = "pending" => g # job[x] /\ status[g] = "pending" /\ UNCHANGED writer[g]
      BY <1>0, <2>1, <2>3 DEF DatabaseTypeOK
    <3>5. Exclusive'
      BY <2>3, <3>1, <3>3 DEF Executions, Exclusive
    <3>6. Fresh'
      BY <2>1, <2>3, <3>3, <3>4 DEF Executions, Fresh
    <3> QED BY <2>1, <2>3, <3>1, <3>3, <3>5, <3>6 DEF Executions, Unattempted, AttemptedOnce
  <2> QED BY <1>14, <2>2, <2>3 DEF Claim, Claimable
<1>15. ASSUME NEW x \in Executors, InsertAttempt(x) PROVE Executions'
  <2>1. /\ job[x] \in Generations /\ attempts[job[x]] = <<>> /\ pc[x] = "attempt"
        /\ attempts' = [attempts EXCEPT ![job[x]] = Append(@, "running")]
        /\ pc' = [pc EXCEPT ![x] = "starting"]
        /\ UNCHANGED <<status, writer, lastSequence, draft, job>>
    BY <1>15 DEF InsertAttempt, Goto, JobKnown, Located, Executions, Unattempted, row, log, drafts
  <2>2. status[job[x]] # "pending" /\ \A y \in Executors : pc[y] \in Claimed /\ y # x => job[y] # job[x]
    BY <2>1 DEF Executions, Fresh, Exclusive, Claimed
  <2>3. \A g \in Generations : attempts'[g] = IF g = job[x] THEN <<"running">> ELSE attempts[g]
    BY <1>0, <2>1 DEF DatabaseTypeOK
  <2>4. \A y \in Executors : pc'[y] = IF y = x THEN "starting" ELSE pc[y]
    BY <1>0, <2>1 DEF MemoryTypeOK
  <2>5. Fresh'
    BY <2>1, <2>2, <2>3, <2>4 DEF Executions, Fresh, Claimed
  <2>6. Exclusive'
    BY <2>1, <2>4 DEF Executions, Exclusive, Claimed
  <2>7. Unattempted'
    BY <2>1, <2>2, <2>3, <2>4 DEF Executions, Unattempted, Claimed, JobKnown, Located
  <2>8. AttemptedOnce'
    <3>1. Len(<<"running">>) = 1
      OBVIOUS
    <3>2. \A g \in Generations : Len(attempts[g]) <= 1
      BY DEF Executions, AttemptedOnce
    <3>3. \A g \in Generations : Len(attempts'[g]) <= 1
      <4> SUFFICES ASSUME NEW g \in Generations PROVE Len(attempts'[g]) <= 1
        OBVIOUS
      <4>1. CASE g = job[x]
        <5>1. attempts'[g] = <<"running">>
          BY <2>3, <4>1
        <5> QED BY <3>1, <5>1
      <4>2. CASE g # job[x]
        BY <2>3, <3>2, <4>2
      <4> QED BY <4>1, <4>2
    <3> QED BY <3>3 DEF AttemptedOnce
  <2> QED BY <2>5, <2>6, <2>7, <2>8 DEF Executions
<1>16. ASSUME NEW x \in Executors, MarkRunning(x) PROVE Executions'
  <2>1. RowsKept
    BY <1>0, <1>16 DEF MarkRunning, RowsKept, DatabaseTypeOK, log, records, drafts
  <2> QED BY <1>1, <1>3, <1>6, <1>16, <2>1 DEF MarkRunning, records, Claimed, PC, Located
<1>17. ASSUME NEW x \in Executors, Finalize(x) PROVE Executions'
  <2> DEFINE verdict == [h \in {job[x]} |-> outcome[x]]
  <2>1. {job[x]} \in SUBSET Generations /\ outcome[x] \in TerminalStatus
    BY <1>0, <1>17 DEF Finalize, JobKnown, Located, Decided, MemoryTypeOK
  <2>2. \A g \in {job[x]} : verdict[g] \in TerminalStatus
    BY <2>1
  <2>3. /\ Settle({job[x]}, verdict) /\ CloseAttempts({job[x]}, verdict) /\ DropWriter({job[x]})
        /\ UNCHANGED draft /\ Leave(x, "done")
    BY <1>17 DEF Finalize
  <2> HIDE DEF verdict
  <2> QED BY <1>1, <1>5, <1>8, <2>1, <2>2, <2>3
<1>18. ASSUME NEW x \in Executors, FailQueued(x) PROVE Executions'
  <2> DEFINE S == IF Claimable(job[x]) THEN {job[x]} ELSE {}
             verdict == [h \in S |-> "failed"]
  <2>1. S \in SUBSET Generations /\ \A g \in S : verdict[g] \in TerminalStatus
    BY <1>18 DEF FailQueued, JobKnown, Located, TerminalStatus
  <2>2. Settle(S, verdict) /\ UNCHANGED <<attempts, writer, draft>> /\ Leave(x, "done")
    BY <1>18 DEF FailQueued, drafts
  <2> HIDE DEF S, verdict
  <2> QED BY <1>1, <1>5, <1>8, <2>1, <2>2
<1>19. ASSUME NEW x \in Executors, UNCHANGED <<status, writer, lastSequence, attempts, draft>>, PlacesKept PROVE Executions'
  BY <1>1, <1>4, <1>19
<1>20. ASSUME NEW x \in Executors, Candidate(x) PROVE PlacesKept
  <2>1. CASE Leave(x, "done")
    BY <1>5, <2>1
  <2>2. CASE (Goto(x, "claim") \/ Goto(x, "cancelRequested")) /\ UNCHANGED job
    BY <1>6, <2>2 DEF PC, Located, Claimed, Running
  <2> QED BY <1>20, <2>1, <2>2 DEF Candidate
<1>21. ASSUME NEW x \in Executors, NEW g \in Generations, StartJob(x, g) PROVE PlacesKept
  BY <1>0, <1>21 DEF StartJob, Goto, MemoryTypeOK, PlacesKept, Claimed, Running
<1>22. ASSUME NEW x \in Executors, FinalizeRefused(x) PROVE PlacesKept
  BY <1>2, <1>5, <1>6, <1>22 DEF FinalizeRefused, PC, Located, Claimed
<1>23. ASSUME NEW x \in Executors, Recheck(x) PROVE PlacesKept
  BY <1>5, <1>6, <1>23 DEF Recheck, PC, Located, Claimed
<1>24. ASSUME NEW x \in Executors, ReadRequest(x) \/ Drain(x) PROVE PlacesKept
  BY <1>6, <1>24 DEF ReadRequest, Drain, PC, Located, Claimed
<1>25. ASSUME NEW x \in Executors, Throw(x) \/ Crash(x) PROVE PlacesKept
  BY <1>5, <1>25 DEF Throw, Crash
<1>26. ASSUME NEW x \in Executors, NEW verdict, pc[x] \in Running, EndRun(x, verdict) PROVE PlacesKept
  BY <1>6, <1>26 DEF EndRun, PC, Located, Claimed
<1>27. ASSUME NEW x \in Executors, UNCHANGED database, PlacesKept PROVE Executions'
  BY <1>19, <1>27 DEF database, row, log, records, drafts
<1>28. ASSUME NEW x \in Executors, Shell(x) PROVE Executions'
  <2>1. CASE Candidate(x) \/ FinalizeRefused(x) \/ Recheck(x) \/ ReadRequest(x) \/ Drain(x)
    BY <1>20, <1>22, <1>23, <1>24, <1>27, <2>1 DEF Candidate, FinalizeRefused, Recheck, ReadRequest, Drain
  <2>2. CASE CallFails(x) \/ DrainThrows(x)
    BY <1>19, <1>25, <2>2 DEF CallFails, DrainThrows, Throw, row, log, records, drafts
  <2>3. CASE RunAborted(x)
    BY <1>26, <1>27, <2>3 DEF RunAborted, EndRun
  <2> QED BY <1>13, <1>14, <1>15, <1>16, <1>17, <1>18, <1>28, <2>1, <2>2, <2>3 DEF Shell
<1>29. ASSUME NEW x \in Executors, UNCHANGED <<row, attempts, pc, job>>, UNCHANGED lastSequence \/ Owned(x, job[x]),
              \A g \in Generations : g # job[x] => UNCHANGED lastSequence[g],
              UNCHANGED draft \/ Owned(x, job[x]),
              \A g \in Generations : g # job[x] => UNCHANGED draft[g]
       PROVE  Executions'
  <2>1. \A g \in Generations : status[g] = "pending" => UNCHANGED <<lastSequence[g], draft[g]>>
    BY <1>29 DEF Owned, WriterStatus
  <2>2. RowsKept
    BY <1>29, <2>1 DEF RowsKept, row
  <2> QED BY <1>1, <1>2, <1>3, <1>29, <2>2
<1>30. ASSUME NEW x \in Executors, Publish(x) PROVE Executions'
  <2>1. \A g \in Generations : g # job[x] => UNCHANGED lastSequence[g]
    BY <1>0, <1>30 DEF Publish, AppendEvent, DatabaseTypeOK
  <2> QED BY <1>29, <1>30, <2>1 DEF Publish, records, drafts
<1>31. ASSUME NEW x \in Executors, BeginDraft(x) PROVE Executions'
  <2>1. \A g \in Generations : g # job[x] => UNCHANGED draft[g]
    BY <1>0, <1>31 DEF BeginDraft, DatabaseTypeOK
  <2>2. Owned(x, job[x]) /\ UNCHANGED <<row, lastSequence, attempts, pc, job>>
    BY <1>31 DEF BeginDraft, log, records
  <2> QED BY <1>29, <2>1, <2>2
<1>32. ASSUME NEW x \in Executors, NEW final \in BOOLEAN, Save(x, final) PROVE Executions'
  <2>1. \A g \in Generations : g # job[x] => UNCHANGED draft[g]
    BY <1>0, <1>32 DEF Save, DatabaseTypeOK
  <2>2. Owned(x, job[x]) /\ UNCHANGED <<row, lastSequence, attempts>>
    BY <1>32 DEF Save, log, records
  <2>3. PlacesKept
    BY <1>6, <1>32 DEF Save, PC, Located, Claimed, Running
  <2>4. RowsKept
    BY <2>1, <2>2 DEF RowsKept, row, Owned, WriterStatus
  <2> QED BY <1>1, <1>3, <2>2, <2>3, <2>4
<1>33. ASSUME NEW x \in Executors, Checkpoint(x) \/ Heartbeat(x) PROVE Executions'
  BY <1>2, <1>19, <1>33 DEF Checkpoint, Heartbeat, row, log, records, drafts
<1>34. ASSUME NEW x \in Executors, PublishFails(x) \/ Emit(x) \/ CancelPoll(x) \/ Timeout(x) PROVE Executions'
  BY <1>2, <1>27, <1>34 DEF PublishFails, Emit, CancelPoll, Timeout, AbortAs
<1>35. ASSUME NEW x \in Executors, Runtime(x) \/ Chain(x) PROVE Executions'
  <2>1. CASE RunReturns(x) \/ RunFails(x)
    BY <1>26, <1>27, <2>1 DEF RunReturns, RunFails, EndRun, Running
  <2> QED BY <1>35, <1>30, <1>31, <1>32, <1>33, <1>34, <2>1 DEF Runtime, Chain
<1>36. CASE \E g \in Generations : Age(g)
  BY <1>1, <1>2, <1>4, <1>36 DEF Age, log, records, drafts
<1>37. CASE \E x \in Executors, g \in Generations : StartJob(x, g)
  BY <1>27, <1>21, <1>37 DEF StartJob
<1>38. ASSUME NEW x \in Executors, Crash(x) PROVE Executions'
  BY <1>25, <1>27, <1>38 DEF Crash
<1>39. CASE UNCHANGED vars
  BY <1>1, <1>2, <1>4, <1>39 DEF vars, database, row, log, records, drafts
<1> QED
  BY <1>9, <1>10, <1>11, <1>12, <1>28, <1>33, <1>34, <1>35, <1>36, <1>37, <1>38, <1>39 DEF Next, Api

-----------------------------------------------------------------------------
(* The log. *)

LEMMA AppendLog ==
  ASSUME TypeOK, DoneClosesLog, NEW S \in SUBSET Generations, NEW kind,
         \A g \in S : ~Terminal(g), AppendEvent(S, kind)
  PROVE  /\ \A g \in Generations : g \notin S => UNCHANGED <<lastSequence[g], events[g]>>
         /\ \A g \in S :
              /\ Numbered(g)'
              /\ lastSequence'[g] > 0
              /\ \A e \in events'[g] : e.kind = IF e.sequence = lastSequence'[g] THEN kind[g] ELSE "content"
<1>1. \A g \in Generations : g \notin S => UNCHANGED <<lastSequence[g], events[g]>>
  BY DEF AppendEvent, TypeOK, DatabaseTypeOK
<1>2. ASSUME NEW g \in S
      PROVE  /\ Numbered(g)'
             /\ lastSequence'[g] > 0
             /\ \A e \in events'[g] : e.kind = IF e.sequence = lastSequence'[g] THEN kind[g] ELSE "content"
  <2> DEFINE n == lastSequence[g]
             new == [sequence |-> n + 1, kind |-> kind[g]]
  <2>1. n \in Nat /\ lastSequence'[g] = n + 1 /\ events'[g] = events[g] \cup {new}
    BY DEF AppendEvent, TypeOK, DatabaseTypeOK
  <2>2. {e.sequence : e \in events[g]} = 1..n
    BY DEF DoneClosesLog, Numbered
  <2>3. \A e \in events[g] : e.sequence \in 1..n /\ e.kind = "content"
    BY <2>2 DEF DoneClosesLog, Closed
  <2>4. new.sequence = n + 1 /\ new.kind = kind[g]
    OBVIOUS
  <2> HIDE DEF n, new
  <2>5. {e.sequence : e \in events'[g]} = {e.sequence : e \in events[g]} \cup {new.sequence}
    BY <2>1
  <2>6. (1..n) \cup {n + 1} = 1..(n + 1)
    BY <2>1
  <2>7. {e.sequence : e \in events'[g]} = 1..lastSequence'[g]
    BY <2>1, <2>2, <2>4, <2>5, <2>6
  <2>8. \A d, e \in events'[g] : d.sequence = e.sequence => d = e
    BY <2>1, <2>3, <2>4 DEF DoneClosesLog, Numbered
  <2>9. \A e \in events'[g] : e.kind = IF e.sequence = lastSequence'[g] THEN kind[g] ELSE "content"
    BY <2>1, <2>3, <2>4
  <2> QED BY <2>1, <2>7, <2>8, <2>9 DEF Numbered
<1> QED BY <1>1, <1>2

(* Rows that keep their log keep it well formed, unless they become or     *)
(* cease to be terminal.                                                   *)
LEMMA LogFrame ==
  ASSUME DoneClosesLog, NEW g \in Generations, UNCHANGED <<lastSequence[g], events[g]>>,
         Terminal(g)' = Terminal(g), Terminal(g) => UNCHANGED status[g]
  PROVE  Numbered(g)' /\ Closed(g)'
  BY DEF DoneClosesLog, Numbered, Closed

LEMMA LogStep == TypeOK /\ JobKnown /\ Decided /\ RowsAgree /\ DoneClosesLog /\ [Next]_vars => DoneClosesLog'
<1> SUFFICES ASSUME TypeOK, JobKnown, Decided, RowsAgree, DoneClosesLog, [Next]_vars PROVE DoneClosesLog'
  OBVIOUS
<1>0. DatabaseTypeOK /\ MemoryTypeOK
  BY DEF TypeOK
<1>1. ASSUME UNCHANGED log,
             \A g \in Generations : (~Terminal(g) /\ ~Terminal(g)') \/ UNCHANGED status[g]
      PROVE  DoneClosesLog'
  <2>1. ASSUME NEW g \in Generations PROVE Numbered(g)' /\ Closed(g)'
    <3>1. UNCHANGED <<lastSequence[g], events[g]>> /\ Terminal(g)' = Terminal(g) /\ (Terminal(g) => UNCHANGED status[g])
      BY <1>1 DEF Terminal, log
    <3> QED BY <3>1, LogFrame
  <2> QED BY <2>1 DEF DoneClosesLog
<1>2. ASSUME NEW S, S \subseteq {g \in Generations : Active(g)}, NEW verdict,
             \A g \in S : verdict[g] \in TerminalStatus, Settle(S, verdict)
      PROVE  DoneClosesLog'
  <2>1. S \in SUBSET Generations /\ AppendEvent(S, verdict)
    BY <1>2 DEF Settle
  <2>2. \A g \in S : ~Terminal(g)
    BY <1>2 DEF Active, ActiveStatus, Terminal, TerminalStatus
  <2>3. \A g \in Generations : status'[g] = IF g \in S THEN verdict[g] ELSE status[g]
    BY <1>2 DEF Settle
  <2>4. ASSUME NEW g \in S PROVE Numbered(g)' /\ Closed(g)'
    <3>1. /\ Numbered(g)' /\ lastSequence'[g] > 0
          /\ \A e \in events'[g] : e.kind = IF e.sequence = lastSequence'[g] THEN verdict[g] ELSE "content"
      BY <2>1, <2>2, AppendLog
    <3>2. g \in Generations /\ status'[g] = verdict[g] /\ Terminal(g)'
      BY <1>2, <2>3 DEF Terminal
    <3> QED BY <3>1, <3>2 DEF Closed
  <2>5. ASSUME NEW g \in Generations, g \notin S PROVE Numbered(g)' /\ Closed(g)'
    <3>1. UNCHANGED <<lastSequence[g], events[g]>>
      BY <2>1, <2>2, <2>5, AppendLog
    <3>2. UNCHANGED status[g]
      BY <2>3, <2>5
    <3> QED BY <3>1, <3>2, LogFrame DEF Terminal
  <2> QED BY <2>4, <2>5 DEF DoneClosesLog
<1>3. ASSUME NEW g \in Generations, NEW c \in Conversations, Create(g, c) PROVE DoneClosesLog'
  <2>1. UNCHANGED log /\ status[g] = "absent" /\ \A h \in Generations : status'[h] = IF h = g THEN "pending" ELSE status[h]
    BY <1>0, <1>3 DEF Create, RowsAgree, Blank, DatabaseTypeOK
  <2> QED BY <1>1, <2>1 DEF Terminal, TerminalStatus
<1>4. ASSUME NEW g \in Generations, Cancel(g) PROVE DoneClosesLog'
  BY <1>0, <1>1, <1>4 DEF Cancel, Active, ActiveStatus, Terminal, TerminalStatus, DatabaseTypeOK
<1>5. ASSUME NEW c \in Conversations, DeleteConversation(c) PROVE DoneClosesLog'
  <2>1. ASSUME NEW g \in Generations, conversation[g] = c PROVE Numbered(g)' /\ Closed(g)'
    <3>1. lastSequence'[g] = 0 /\ events'[g] = {} /\ status'[g] = "absent"
      BY <1>5, <2>1 DEF DeleteConversation
    <3>2. 1..0 = {}
      OBVIOUS
    <3> QED BY <3>1, <3>2 DEF Numbered, Closed, Terminal, TerminalStatus
  <2>2. ASSUME NEW g \in Generations, conversation[g] # c PROVE Numbered(g)' /\ Closed(g)'
    <3>1. UNCHANGED <<lastSequence[g], events[g], status[g]>>
      BY <1>5, <2>2 DEF DeleteConversation
    <3> QED BY <3>1, LogFrame DEF Terminal
  <2> QED BY <2>1, <2>2 DEF DoneClosesLog
<1>6. CASE FailStale
  <2> DEFINE S == {g \in Generations : Stale(g)}
             verdict == [g \in S |-> IF status[g] = "cancel_requested" THEN "cancelled" ELSE "failed"]
  <2>1. S \subseteq {g \in Generations : Active(g)} /\ \A g \in S : verdict[g] \in TerminalStatus
    BY DEF Stale, Active, ActiveStatus, TerminalStatus
  <2>2. Settle(S, verdict)
    BY <1>6 DEF FailStale
  <2> HIDE DEF S, verdict
  <2> QED BY <1>2, <2>1, <2>2
<1>7. ASSUME NEW x \in Executors, FinalizeUnclaimed(x) PROVE DoneClosesLog'
  <2> DEFINE S == IF writer[job[x]] = None /\ status[job[x]] = "cancel_requested" THEN {job[x]} ELSE {}
             verdict == [h \in S |-> "cancelled"]
  <2>1. S \subseteq {g \in Generations : Active(g)} /\ \A g \in S : verdict[g] \in TerminalStatus
    BY <1>7 DEF FinalizeUnclaimed, JobKnown, Located, Active, ActiveStatus, TerminalStatus
  <2>2. Settle(S, verdict)
    BY <1>7 DEF FinalizeUnclaimed
  <2> HIDE DEF S, verdict
  <2> QED BY <1>2, <2>1, <2>2
<1>8. ASSUME NEW x \in Executors, Claim(x) \/ MarkRunning(x) PROVE DoneClosesLog'
  BY <1>0, <1>1, <1>8 DEF Claim, Claimable, MarkRunning, Terminal, TerminalStatus, DatabaseTypeOK, row
<1>9. ASSUME NEW x \in Executors, Finalize(x) PROVE DoneClosesLog'
  <2> DEFINE verdict == [h \in {job[x]} |-> outcome[x]]
  <2>1. {job[x]} \subseteq {g \in Generations : Active(g)}
    BY <1>9 DEF Finalize, CanFinalize, WriterStatus, JobKnown, Located, Active, ActiveStatus
  <2>2. outcome[x] \in TerminalStatus
    BY <1>0, <1>9 DEF Finalize, Decided, MemoryTypeOK
  <2>3. Settle({job[x]}, verdict)
    BY <1>9 DEF Finalize
  <2>4. \A g \in {job[x]} : verdict[g] \in TerminalStatus
    BY <2>2
  <2> HIDE DEF verdict
  <2> QED BY <1>2, <2>1, <2>3, <2>4
<1>10. ASSUME NEW x \in Executors, FailQueued(x) PROVE DoneClosesLog'
  <2> DEFINE S == IF Claimable(job[x]) THEN {job[x]} ELSE {}
             verdict == [h \in S |-> "failed"]
  <2>1. S \subseteq {g \in Generations : Active(g)} /\ \A g \in S : verdict[g] \in TerminalStatus
    BY <1>10 DEF FailQueued, Claimable, JobKnown, Located, Active, ActiveStatus, TerminalStatus
  <2>2. Settle(S, verdict)
    BY <1>10 DEF FailQueued
  <2> HIDE DEF S, verdict
  <2> QED BY <1>2, <2>1, <2>2
<1>11. ASSUME NEW x \in Executors, Publish(x) PROVE DoneClosesLog'
  <2> DEFINE kind == [h \in {job[x]} |-> "content"]
  <2>1. /\ job[x] \in Generations /\ ~Terminal(job[x])
        /\ AppendEvent({job[x]}, kind) /\ UNCHANGED status
    BY <1>11 DEF Publish, JobKnown, Located, Running, Owned, WriterStatus, Terminal, TerminalStatus, row
  <2>2. kind[job[x]] = "content"
    OBVIOUS
  <2> HIDE DEF kind
  <2>3. /\ \A g \in Generations : g \notin {job[x]} => UNCHANGED <<lastSequence[g], events[g]>>
        /\ \A g \in {job[x]} :
             /\ Numbered(g)'
             /\ lastSequence'[g] > 0
             /\ \A e \in events'[g] : e.kind = IF e.sequence = lastSequence'[g] THEN kind[g] ELSE "content"
    <3>1. {job[x]} \in SUBSET Generations /\ \A g \in {job[x]} : ~Terminal(g)
      BY <2>1
    <3> QED BY <2>1, <3>1, AppendLog
  <2>4. ASSUME NEW g \in Generations, g = job[x] PROVE Numbered(g)' /\ Closed(g)'
    BY <2>1, <2>2, <2>3, <2>4 DEF Closed, Terminal
  <2>5. ASSUME NEW g \in Generations, g # job[x] PROVE Numbered(g)' /\ Closed(g)'
    <3>1. UNCHANGED <<lastSequence[g], events[g]>>
      BY <2>3, <2>5
    <3> QED BY <2>1, <3>1, LogFrame DEF Terminal
  <2>6. ASSUME NEW g \in Generations PROVE Numbered(g)' /\ Closed(g)'
    <3>1. CASE g = job[x]
      BY <2>4, <3>1
    <3>2. CASE g # job[x]
      BY <2>5, <3>2
    <3> QED BY <3>1, <3>2
  <2> QED BY <2>6 DEF DoneClosesLog
<1>12. ASSUME UNCHANGED <<status, log>> PROVE DoneClosesLog'
  BY <1>1, <1>12
<1>13. ASSUME NEW x \in Executors, Shell(x) PROVE DoneClosesLog'
  BY <1>13, <1>7, <1>8, <1>9, <1>10, <1>12
  DEF Shell, Candidate, ReadRequest, CallFails, RunAborted, EndRun, Drain, DrainThrows, FinalizeRefused, Recheck,
      Throw, InsertAttempt, database, row
<1>14. ASSUME NEW x \in Executors, Runtime(x) \/ Chain(x) PROVE DoneClosesLog'
  BY <1>14, <1>11, <1>12
  DEF Runtime, Chain, PublishFails, Emit, RunReturns, RunFails, EndRun, Save,
      Checkpoint, BeginDraft, database, row
<1>15. ASSUME NEW x \in Executors, Heartbeat(x) \/ CancelPoll(x) \/ Timeout(x) \/ Crash(x) PROVE DoneClosesLog'
  BY <1>15, <1>12 DEF Heartbeat, CancelPoll, Timeout, AbortAs, Crash, database, row
<1>16. CASE \E g \in Generations : Age(g)
  BY <1>12, <1>16 DEF Age
<1>17. CASE \E x \in Executors, g \in Generations : StartJob(x, g)
  BY <1>12, <1>17 DEF StartJob, database, row
<1>18. CASE UNCHANGED vars
  BY <1>12, <1>18 DEF vars, database, row
<1> QED BY <1>3, <1>4, <1>5, <1>6, <1>13, <1>14, <1>15, <1>16, <1>17, <1>18 DEF Next, Api

-----------------------------------------------------------------------------
(* What a step may do to a row. *)

Frozen ==
  \A g \in Generations :
    Terminal(g) /\ status'[g] # "absent" =>
      UNCHANGED <<status[g], writer[g], lastSequence[g], events[g], turn[g], message[g]>>

Honoured == \A g \in Generations : status[g] = "cancel_requested" => status'[g] # "completed"

Unique ==
  \A g \in Generations :
    /\ writer[g] # None => writer'[g] \in {writer[g], None}
    /\ writer'[g] # writer[g] /\ writer'[g] # None => status[g] = "pending"
    /\ status'[g] = "pending" => status[g] \in {"absent", "pending"}

LEMMA RowSteps ==
  TypeOK /\ JobKnown /\ Decided /\ RowsAgree /\ [Next]_vars => Frozen /\ Honoured /\ Unique
<1> SUFFICES ASSUME TypeOK, JobKnown, Decided, RowsAgree, [Next]_vars PROVE Frozen /\ Honoured /\ Unique
  OBVIOUS
<1>0. DatabaseTypeOK /\ MemoryTypeOK
  BY DEF TypeOK
<1>1. ASSUME UNCHANGED <<status, writer, log, turn, message>> PROVE Frozen /\ Honoured /\ Unique
  BY <1>1 DEF Frozen, Honoured, Unique, log
<1>2. ASSUME NEW S, S \subseteq {g \in Generations : Active(g)}, NEW verdict,
             \A g \in S : verdict[g] \in TerminalStatus, Settle(S, verdict),
             DropWriter(S) \/ UNCHANGED writer,
             \A g \in Generations : g \notin S => UNCHANGED message[g],
             \A g \in S : verdict[g] = "completed" => status[g] # "cancel_requested"
      PROVE  Frozen /\ Honoured /\ Unique
  <2>1. /\ \A g \in Generations : status'[g] = IF g \in S THEN verdict[g] ELSE status[g]
        /\ \A g \in Generations : g \notin S => UNCHANGED <<turn[g], lastSequence[g], events[g]>>
    BY <1>2, SettleRows DEF RowsAgree
  <2>2. \A g \in Generations : writer'[g] = writer[g] \/ (g \in S /\ writer'[g] = None)
    <3>1. CASE DropWriter(S)
      BY <3>1 DEF DropWriter
    <3>2. CASE UNCHANGED writer
      BY <3>2
    <3> QED BY <1>2, <3>1, <3>2
  <2>3. \A g \in S : ~Terminal(g)
    BY <1>2 DEF Active, ActiveStatus, Terminal, TerminalStatus
  <2>4. Frozen
    BY <1>2, <2>1, <2>2, <2>3 DEF Frozen
  <2>5. Honoured
    BY <1>2, <2>1 DEF Honoured
  <2>6. Unique
    BY <1>2, <2>1, <2>2 DEF Unique, TerminalStatus
  <2> QED BY <2>4, <2>5, <2>6
<1>3. ASSUME NEW g \in Generations, NEW c \in Conversations, Create(g, c) PROVE Frozen /\ Honoured /\ Unique
  <2>1. /\ status[g] = "absent" /\ UNCHANGED <<writer, log, message>>
        /\ \A h \in Generations : status'[h] = IF h = g THEN "pending" ELSE status[h]
        /\ \A h \in Generations : h # g => UNCHANGED turn[h]
    BY <1>0, <1>3 DEF Create, RowsAgree, Blank, DatabaseTypeOK
  <2> QED BY <2>1 DEF Frozen, Honoured, Unique, Terminal, TerminalStatus, log
<1>4. ASSUME NEW g \in Generations, Cancel(g) PROVE Frozen /\ Honoured /\ Unique
  BY <1>0, <1>4 DEF Cancel, Active, ActiveStatus, Terminal, TerminalStatus, DatabaseTypeOK, Frozen, Honoured, Unique, log, records
<1>5. ASSUME NEW c \in Conversations, DeleteConversation(c) PROVE Frozen /\ Honoured /\ Unique
  <2>1. \A g \in Generations :
          IF conversation[g] = c
          THEN status'[g] = "absent" /\ writer'[g] = None
          ELSE UNCHANGED <<status[g], writer[g], lastSequence[g], events[g], turn[g], message[g]>>
    BY <1>5 DEF DeleteConversation, DropWriter, Members
  <2> QED BY <2>1 DEF Frozen, Honoured, Unique
<1>6. CASE FailStale
  <2> DEFINE S == {g \in Generations : Stale(g)}
             verdict == [g \in S |-> IF status[g] = "cancel_requested" THEN "cancelled" ELSE "failed"]
  <2>1. /\ S \subseteq {g \in Generations : Active(g)}
        /\ \A g \in S : verdict[g] \in TerminalStatus /\ verdict[g] # "completed"
    BY DEF Stale, Active, ActiveStatus, TerminalStatus
  <2>2. Settle(S, verdict) /\ DropWriter(S) /\ UNCHANGED message
    BY <1>6 DEF FailStale
  <2> HIDE DEF S, verdict
  <2> QED BY <1>2, <2>1, <2>2
<1>7. ASSUME NEW x \in Executors, FinalizeUnclaimed(x) PROVE Frozen /\ Honoured /\ Unique
  <2> DEFINE S == IF writer[job[x]] = None /\ status[job[x]] = "cancel_requested" THEN {job[x]} ELSE {}
             verdict == [h \in S |-> "cancelled"]
  <2>1. /\ S \subseteq {g \in Generations : Active(g)}
        /\ \A g \in S : verdict[g] \in TerminalStatus /\ verdict[g] # "completed"
    BY <1>7 DEF FinalizeUnclaimed, JobKnown, Located, Active, ActiveStatus, TerminalStatus
  <2>2. Settle(S, verdict) /\ DropWriter(S) /\ UNCHANGED message
    BY <1>7 DEF FinalizeUnclaimed
  <2> HIDE DEF S, verdict
  <2> QED BY <1>2, <2>1, <2>2
<1>8. ASSUME NEW x \in Executors, Claim(x) \/ MarkRunning(x) PROVE Frozen /\ Honoured /\ Unique
  BY <1>0, <1>8 DEF Claim, Claimable, MarkRunning, Terminal, TerminalStatus, DatabaseTypeOK, row, log, records, Frozen, Honoured, Unique
<1>9. ASSUME NEW x \in Executors, Finalize(x) PROVE Frozen /\ Honoured /\ Unique
  <2> DEFINE verdict == [h \in {job[x]} |-> outcome[x]]
  <2>1. {job[x]} \subseteq {g \in Generations : Active(g)}
    BY <1>9 DEF Finalize, CanFinalize, WriterStatus, JobKnown, Located, Active, ActiveStatus
  <2>2. outcome[x] \in TerminalStatus /\ (outcome[x] = "completed" => status[job[x]] # "cancel_requested")
    BY <1>0, <1>9 DEF Finalize, CanFinalize, Decided, MemoryTypeOK
  <2>3. /\ Settle({job[x]}, verdict) /\ DropWriter({job[x]})
        /\ message' = [message EXCEPT ![job[x]] = blocks[x]]
    BY <1>9 DEF Finalize
  <2>4. \A g \in {job[x]} : verdict[g] \in TerminalStatus /\ (verdict[g] = "completed" => status[g] # "cancel_requested")
    BY <2>2
  <2>5. \A g \in Generations : g \notin {job[x]} => UNCHANGED message[g]
    BY <1>0, <2>3 DEF DatabaseTypeOK
  <2> HIDE DEF verdict
  <2> QED BY <1>2, <2>1, <2>3, <2>4, <2>5
<1>10. ASSUME NEW x \in Executors, FailQueued(x) PROVE Frozen /\ Honoured /\ Unique
  <2> DEFINE S == IF Claimable(job[x]) THEN {job[x]} ELSE {}
             verdict == [h \in S |-> "failed"]
  <2>1. /\ S \subseteq {g \in Generations : Active(g)}
        /\ \A g \in S : verdict[g] \in TerminalStatus /\ verdict[g] # "completed"
    BY <1>10 DEF FailQueued, Claimable, JobKnown, Located, Active, ActiveStatus, TerminalStatus
  <2>2. Settle(S, verdict) /\ UNCHANGED <<writer, message>>
    BY <1>10 DEF FailQueued
  <2> HIDE DEF S, verdict
  <2> QED BY <1>2, <2>1, <2>2
<1>11. ASSUME NEW x \in Executors, Publish(x) PROVE Frozen /\ Honoured /\ Unique
  <2>1. /\ ~Terminal(job[x]) /\ UNCHANGED <<status, writer, turn, message>>
        /\ \A g \in Generations : g # job[x] => UNCHANGED <<lastSequence[g], events[g]>>
    BY <1>0, <1>11 DEF Publish, Owned, WriterStatus, Terminal, TerminalStatus, row, records, AppendEvent, DatabaseTypeOK
  <2> QED BY <2>1 DEF Frozen, Honoured, Unique
<1>12. ASSUME NEW x \in Executors, Checkpoint(x) PROVE Frozen /\ Honoured /\ Unique
  <2>1. /\ ~Terminal(job[x]) /\ UNCHANGED <<status, writer, log, turn>>
        /\ \A g \in Generations : g # job[x] => UNCHANGED message[g]
    BY <1>0, <1>12 DEF Checkpoint, Owned, WriterStatus, Terminal, TerminalStatus, row, DatabaseTypeOK
  <2> QED BY <2>1 DEF Frozen, Honoured, Unique, log
<1>13. ASSUME NEW x \in Executors, Shell(x) PROVE Frozen /\ Honoured /\ Unique
  BY <1>13, <1>1, <1>7, <1>8, <1>9, <1>10
  DEF Shell, Candidate, ReadRequest, CallFails, RunAborted, EndRun, Drain, DrainThrows, FinalizeRefused, Recheck,
      Throw, InsertAttempt, database, row, records
<1>14. ASSUME NEW x \in Executors, Runtime(x) \/ Chain(x) PROVE Frozen /\ Honoured /\ Unique
  BY <1>14, <1>1, <1>11, <1>12
  DEF Runtime, Chain, PublishFails, Emit, RunReturns, RunFails, EndRun, Save,
      BeginDraft, database, row, records
<1>15. ASSUME NEW x \in Executors, Heartbeat(x) \/ CancelPoll(x) \/ Timeout(x) \/ Crash(x)
       PROVE  Frozen /\ Honoured /\ Unique
  BY <1>15, <1>1 DEF Heartbeat, CancelPoll, Timeout, AbortAs, Crash, database, row, records
<1>16. CASE \E g \in Generations : Age(g)
  BY <1>1, <1>16 DEF Age, records
<1>17. CASE \E x \in Executors, g \in Generations : StartJob(x, g)
  BY <1>1, <1>17 DEF StartJob, database, row, records
<1>18. CASE UNCHANGED vars
  BY <1>1, <1>18 DEF vars, database, row, records
<1> QED BY <1>3, <1>4, <1>5, <1>6, <1>13, <1>14, <1>15, <1>16, <1>17, <1>18 DEF Next, Api

-----------------------------------------------------------------------------
(* Together: the part of the inductive invariant that speaks of the rows.   *)
Settled == TypeOK /\ JobKnown /\ Decided /\ RowsAgree /\ Executions /\ DoneClosesLog

LEMMA SettledInvariant == Spec => []Settled
<1>1. Init => Settled
  <2> SUFFICES ASSUME Init PROVE Settled
    OBVIOUS
  <2>1. TypeOK /\ JobKnown /\ Decided
    BY GenerationAssumption
    DEF Init, TypeOK, DatabaseTypeOK, MemoryTypeOK, PC, NoDraft, NoAnalysis, Draft, JobKnown, Decided, Located
  <2>2. RowsAgree
    BY DEF Init, RowsAgree, Blank, TurnAgrees, WriterAgrees, OneActive, Active, ActiveStatus
  <2>3. Executions
    BY DEF Init, Executions, Fresh, Exclusive, Unattempted, AttemptedOnce, Claimed, Running
  <2>4. DoneClosesLog
    <3>1. 1..0 = {}
      OBVIOUS
    <3> QED BY <3>1 DEF Init, DoneClosesLog, Numbered, Closed, Terminal, TerminalStatus
  <2> QED BY <2>1, <2>2, <2>3, <2>4 DEF Settled
<1>2. Settled /\ [Next]_vars => Settled'
  BY TypeStep, MemoryStep, RowsStep, ExecutionsStep, LogStep DEF Settled
<1> QED BY <1>1, <1>2, PTL DEF Spec

(* The turn and the attempts have the outcome of the row, a row that ended  *)
(* has no writer, and a job that is delivered again executes nothing: in    *)
(* claim, finalize, failQueued and failStale together.                     *)
THEOREM RecordsCorrect == Spec => []RecordsAgree
<1>1. Settled => RecordsAgree
  BY DEF Settled, RowsAgree, Executions, RecordsAgree
<1> QED BY <1>1, SettledInvariant, PTL

(* createTurn's check under its locks is enough: no later step makes a     *)
(* second answer of the conversation active.                               *)
THEOREM OneActiveAnswer == Spec => []OneActive
<1>1. Settled => OneActive
  BY DEF Settled, RowsAgree
<1> QED BY <1>1, SettledInvariant, PTL

(* Whoever settles a row closes its log, once, with the row's status.      *)
THEOREM LogIsClosed == Spec => []DoneClosesLog
<1>1. Settled => DoneClosesLog
  BY DEF Settled
<1> QED BY <1>1, SettledInvariant, PTL

(* Nothing that arrives late changes an answer that was settled.           *)
THEOREM SettledForGood == Spec => TerminalIsFrozen
<1>1. Settled /\ [Next]_vars => [Frozen]_vars
  BY RowSteps DEF Settled
<1>2. Spec => [][Frozen]_vars
  BY <1>1, SettledInvariant, PTL DEF Spec
<1> QED BY <1>2 DEF TerminalIsFrozen, Frozen

(* A cancel that was accepted is not answered by a completion.              *)
THEOREM CancelHonoured == Spec => CancelIsHonoured
<1>1. Settled /\ [Next]_vars => [Honoured]_vars
  BY RowSteps DEF Settled
<1>2. Spec => [][Honoured]_vars
  BY <1>1, SettledInvariant, PTL DEF Spec
<1> QED BY <1>2 DEF CancelIsHonoured, Honoured

(* Write access is granted once per generation.                             *)
THEOREM WriterUnique == Spec => WriterIsUnique
<1>1. Settled /\ [Next]_vars => [Unique]_vars
  BY RowSteps DEF Settled
<1>2. Spec => [][Unique]_vars
  BY <1>1, SettledInvariant, PTL DEF Spec
<1> QED BY <1>2 DEF WriterIsUnique, Unique

-----------------------------------------------------------------------------
(* What an executor knows. *)

LEMMA RemembersStep == TypeOK /\ JobKnown /\ Decided /\ Remembers /\ [Next]_vars => Remembers'
<1> SUFFICES ASSUME TypeOK, Decided, Remembers, [Next]_vars PROVE Remembers'
  OBVIOUS
<1>0. MemoryTypeOK
  BY DEF TypeOK
<1> USE DEF Remembers, Running, Located
<1>1. ASSUME UNCHANGED <<pc, memory>> PROVE Remembers'
  BY <1>1 DEF memory
<1>2. ASSUME NEW x \in Executors, NEW place \in {"done", "failQueued"}, Leave(x, place) PROVE Remembers'
  BY <1>0, <1>2 DEF Leave, Goto, MemoryTypeOK
<1>3. ASSUME NEW x \in Executors, pc[x] \notin Running \cup {"drain", "finalize", "recheck"}, NEW place,
             place \notin {"finalize", "recheck"},
             Goto(x, place), UNCHANGED memory
      PROVE  Remembers'
  BY <1>0, <1>3 DEF Goto, MemoryTypeOK, memory
<1>4. ASSUME NEW x \in Executors, Emit(x) \/ Publish(x) \/ PublishFails(x) PROVE Remembers'
  BY <1>0, <1>4 DEF Emit, Publish, PublishFails, MemoryTypeOK
<1>5. ASSUME NEW x \in Executors, BeginDraft(x) PROVE Remembers'
  BY <1>0, <1>5 DEF BeginDraft, MemoryTypeOK
<1>6. ASSUME NEW x \in Executors, NEW final \in BOOLEAN, Save(x, final) PROVE Remembers'
  BY <1>0, <1>6 DEF Save, Goto, MemoryTypeOK
<1>7. ASSUME NEW x \in Executors, NEW verdict, pc[x] \in Running, EndRun(x, verdict) PROVE Remembers'
  BY <1>0, <1>7 DEF EndRun, Goto, MemoryTypeOK
<1>8. ASSUME NEW x \in Executors, Drain(x) PROVE Remembers'
  BY <1>0, <1>8 DEF Drain, Goto, MemoryTypeOK, memory
<1>9. ASSUME NEW x \in Executors, FinalizeRefused(x) PROVE Remembers'
  <2>1. CASE Leave(x, "done")
    BY <1>2, <2>1
  <2>2. CASE pc[x] = "finalize" /\ Goto(x, "recheck") /\ UNCHANGED memory
    BY <1>0, <2>2 DEF Goto, MemoryTypeOK, memory
  <2>3. CASE /\ pc[x] = "finalize"
             /\ outcome' = [outcome EXCEPT ![x] = "failed"]
             /\ blocks' = [blocks EXCEPT ![x] = @ + 1]
             /\ UNCHANGED <<pc, queue, broken, session>>
    BY <1>0, <2>3 DEF MemoryTypeOK
  <2> QED BY <1>9, <2>1, <2>2, <2>3 DEF FinalizeRefused
<1>10. ASSUME NEW x \in Executors, Recheck(x) PROVE Remembers'
  <2>1. CASE Leave(x, "done")
    BY <1>2, <2>1
  <2>2. CASE /\ pc[x] = "recheck" /\ Goto(x, "finalize")
             /\ outcome' = [outcome EXCEPT ![x] = "cancelled"]
             /\ UNCHANGED <<blocks, queue, broken, session>>
    BY <1>0, <2>2 DEF Goto, MemoryTypeOK
  <2> QED BY <1>10, <2>1, <2>2 DEF Recheck
<1>11. ASSUME NEW x \in Executors, Candidate(x) PROVE Remembers'
  BY <1>2, <1>3, <1>11 DEF Candidate
<1>12. ASSUME NEW x \in Executors, Claim(x) PROVE Remembers'
  BY <1>2, <1>3, <1>12 DEF Claim
<1>13. ASSUME NEW x \in Executors, InsertAttempt(x) \/ MarkRunning(x) \/ ReadRequest(x) PROVE Remembers'
  BY <1>3, <1>13 DEF InsertAttempt, MarkRunning, ReadRequest
<1>14. ASSUME NEW x \in Executors, Shell(x) PROVE Remembers'
  BY <1>2, <1>7, <1>8, <1>9, <1>10, <1>11, <1>12, <1>13, <1>14
  DEF Shell, FinalizeUnclaimed, CallFails, RunAborted, DrainThrows, Throw, Finalize, FailQueued
<1>15. ASSUME NEW x \in Executors, Runtime(x) \/ Chain(x) PROVE Remembers'
  <2>1. CASE \E final \in BOOLEAN : Save(x, final)
    BY <1>6, <2>1
  <2>2. CASE RunReturns(x) \/ RunFails(x)
    BY <1>7, <2>2 DEF RunReturns, RunFails
  <2>3. CASE Checkpoint(x)
    BY <1>1, <2>3 DEF Checkpoint
  <2> QED BY <1>4, <1>5, <1>15, <2>1, <2>2, <2>3 DEF Runtime, Chain
<1>16. ASSUME NEW x \in Executors, CancelPoll(x) \/ Timeout(x) PROVE Remembers'
  BY <1>16 DEF CancelPoll, Timeout, AbortAs
<1>17. ASSUME NEW x \in Executors, Heartbeat(x) \/ Crash(x) PROVE Remembers'
  BY <1>1, <1>2, <1>17 DEF Heartbeat, Crash
<1>18. ASSUME NEW x \in Executors, NEW g \in Generations, StartJob(x, g) PROVE Remembers'
  BY <1>3, <1>18 DEF StartJob
<1>19. CASE FailStale \/ (\E g \in Generations : Age(g)) \/ Api
  BY <1>1, <1>19 DEF FailStale, Age, Api, Create, Cancel, DeleteConversation
<1>20. CASE UNCHANGED vars
  BY <1>1, <1>20 DEF vars
<1> QED BY <1>14, <1>15, <1>16, <1>17, <1>18, <1>19, <1>20 DEF Next

(* Settling a row ends what its writer may do, so nothing that is still    *)
(* written to by its writer loses or gains an event or changes its draft.  *)
LEMMA SettledRowsUnwritten ==
  ASSUME TypeOK, NEW S \in SUBSET Generations, NEW verdict, Settle(S, verdict),
         DropWriter(S) \/ (UNCHANGED writer /\ \A g \in S : writer[g] = None)
  PROVE  \A g \in Generations, x \in Executors :
           writer'[g] = x => writer[g] = x /\ g \notin S /\ UNCHANGED lastSequence[g]
<1> SUFFICES ASSUME NEW g \in Generations, NEW x \in Executors, writer'[g] = x
             PROVE  writer[g] = x /\ g \notin S /\ UNCHANGED lastSequence[g]
  OBVIOUS
<1>1. x # None
  BY GenerationAssumption
<1>2. g \notin S /\ writer[g] = x
  <2>1. CASE DropWriter(S)
    BY <1>1, <2>1 DEF DropWriter
  <2>2. CASE UNCHANGED writer /\ \A h \in S : writer[h] = None
    BY <1>1, <2>2
  <2> QED BY <2>1, <2>2
<1>3. lastSequence'[g] = lastSequence[g]
  BY <1>2 DEF Settle, AppendEvent, TypeOK, DatabaseTypeOK
<1> QED BY <1>2, <1>3

LEMMA AccountedStep ==
  Settled /\ Remembers /\ Accounted /\ [Next]_vars => Accounted'
<1> SUFFICES ASSUME Settled, Remembers, Accounted, [Next]_vars PROVE Accounted'
  OBVIOUS
<1>0. DatabaseTypeOK /\ MemoryTypeOK /\ TypeOK /\ JobKnown /\ Decided
  BY DEF Settled, TypeOK
<1> DEFINE Writing(y) == pc[y] \in Claimed /\ writer[job[y]] = y
           MayComplete(y) == ~broken[y] /\ outcome[y] \in {"none", "completed"}
<1>1. \A y \in Executors : Writing(y) => job[y] \in Generations
  BY <1>0 DEF JobKnown, Claimed, Running, Located
<1>2. ASSUME NEW y \in Executors, Writing(y), MayComplete(y)
      PROVE  lastSequence[job[y]] + queue[y] = blocks[y]
  BY <1>2 DEF Accounted
<1>3. ASSUME UNCHANGED <<queue, blocks, broken, outcome>>,
             \A y \in Executors : Writing(y)' => Writing(y) /\ job'[y] = job[y] /\ UNCHANGED lastSequence[job[y]]
      PROVE  Accounted'
  BY <1>3 DEF Accounted
<1>4. ASSUME UNCHANGED <<writer, lastSequence>>, UNCHANGED <<queue, blocks, broken, outcome, job>>,
             \A y \in Executors : pc'[y] \in Claimed => pc[y] \in Claimed
      PROVE  Accounted'
  BY <1>4 DEF Accounted
<1>5. ASSUME NEW x \in Executors, NEW place \in {"done", "failQueued"}, Leave(x, place),
             \A g \in Generations : \A y \in Executors :
               writer'[g] = y => writer[g] = y /\ UNCHANGED lastSequence[g]
      PROVE  Accounted'
  <2>1. \A y \in Executors : pc'[y] \in Claimed =>
          y # x /\ pc[y] \in Claimed /\ UNCHANGED <<job[y], queue[y], blocks[y], broken[y], outcome[y]>>
    BY <1>0, <1>5 DEF Leave, Goto, MemoryTypeOK, Claimed, Running
  <2>2. ASSUME NEW y \in Executors, Writing(y)' PROVE Writing(y) /\ job[y] \in Generations /\ UNCHANGED lastSequence[job[y]]
    <3>1. pc[y] \in Claimed /\ job'[y] = job[y] /\ job[y] \in Generations
      BY <1>0, <2>1, <2>2 DEF JobKnown, Claimed, Running, Located
    <3> QED BY <1>5, <2>2, <3>1
  <2> QED BY <2>1, <2>2 DEF Accounted
<1>6. ASSUME NEW S \in SUBSET Generations, NEW verdict, Settle(S, verdict),
             DropWriter(S) \/ (UNCHANGED writer /\ \A g \in S : writer[g] = None)
      PROVE  \A g \in Generations : \A y \in Executors :
               writer'[g] = y => writer[g] = y /\ UNCHANGED lastSequence[g]
  BY <1>0, <1>6, SettledRowsUnwritten
<1>7. ASSUME UNCHANGED <<pc, job, memory>>,
             \A g \in Generations : \A y \in Executors :
               writer'[g] = y => writer[g] = y /\ UNCHANGED lastSequence[g]
      PROVE  Accounted'
  <2>1. ASSUME NEW y \in Executors, Writing(y)' PROVE Writing(y) /\ job'[y] = job[y] /\ UNCHANGED lastSequence[job[y]]
    <3>1. pc[y] \in Claimed /\ job'[y] = job[y] /\ job[y] \in Generations
      BY <1>0, <1>7, <2>1 DEF JobKnown, Claimed, Running, Located
    <3> QED BY <1>7, <2>1, <3>1
  <2> QED BY <1>3, <1>7, <2>1 DEF memory
<1>8. CASE FailStale
  <2> DEFINE S == {g \in Generations : Stale(g)}
             verdict == [g \in S |-> IF status[g] = "cancel_requested" THEN "cancelled" ELSE "failed"]
  <2>1. S \in SUBSET Generations /\ Settle(S, verdict) /\ DropWriter(S) /\ UNCHANGED <<pc, job, memory>>
    BY <1>8 DEF FailStale
  <2> HIDE DEF S, verdict
  <2> QED BY <1>6, <1>7, <2>1
<1>9. ASSUME NEW x \in Executors, FinalizeUnclaimed(x) PROVE Accounted'
  <2> DEFINE S == IF writer[job[x]] = None /\ status[job[x]] = "cancel_requested" THEN {job[x]} ELSE {}
             verdict == [h \in S |-> "cancelled"]
  <2>1. S \in SUBSET Generations
    BY <1>0, <1>9 DEF FinalizeUnclaimed, JobKnown, Located
  <2>2. Settle(S, verdict) /\ DropWriter(S) /\ Leave(x, "done")
    BY <1>9 DEF FinalizeUnclaimed
  <2> HIDE DEF S, verdict
  <2> QED BY <1>5, <1>6, <2>1, <2>2
<1>10. ASSUME NEW x \in Executors, Finalize(x) PROVE Accounted'
  <2>1. {job[x]} \in SUBSET Generations
    BY <1>0, <1>10 DEF Finalize, JobKnown, Located
  <2>2. Settle({job[x]}, [h \in {job[x]} |-> outcome[x]]) /\ DropWriter({job[x]}) /\ Leave(x, "done")
    BY <1>10 DEF Finalize
  <2> QED BY <1>5, <1>6, <2>1, <2>2
<1>11. ASSUME NEW x \in Executors, FailQueued(x) PROVE Accounted'
  <2> DEFINE S == IF Claimable(job[x]) THEN {job[x]} ELSE {}
             verdict == [h \in S |-> "failed"]
  <2>1. S \in SUBSET Generations /\ \A g \in S : writer[g] = None
    BY <1>0, <1>11 DEF FailQueued, JobKnown, Located, Claimable
  <2>2. Settle(S, verdict) /\ UNCHANGED writer /\ Leave(x, "done")
    BY <1>11 DEF FailQueued
  <2> HIDE DEF S, verdict
  <2> QED BY <1>5, <1>6, <2>1, <2>2
<1>12. ASSUME NEW c \in Conversations, DeleteConversation(c) PROVE Accounted'
  <2>1. \A g \in Generations : IF conversation[g] = c THEN writer'[g] = None
                               ELSE UNCHANGED <<writer[g], lastSequence[g]>>
    BY <1>12 DEF DeleteConversation, DropWriter, Members
  <2>2. None \notin Executors
    BY GenerationAssumption
  <2> QED BY <1>7, <1>12, <2>1, <2>2 DEF DeleteConversation
<1>13. CASE (\E g \in Generations, c \in Conversations : Create(g, c)) \/ (\E g \in Generations : Cancel(g) \/ Age(g))
  BY <1>4, <1>13 DEF Create, Cancel, Age, log, memory
<1>14. ASSUME NEW x \in Executors, Claim(x) PROVE Accounted'
  <2>1. CASE UNCHANGED row /\ Leave(x, "done")
    BY <1>5, <1>14, <2>1 DEF Claim, row, log
  <2>2. CASE /\ Claimable(job[x])
             /\ writer' = [writer EXCEPT ![job[x]] = x]
             /\ Goto(x, "attempt")
             /\ UNCHANGED <<job, memory>>
    <3>1. /\ job[x] \in Generations /\ pc[x] = "claim" /\ writer[job[x]] = None
          /\ UNCHANGED lastSequence /\ lastSequence[job[x]] = 0
          /\ blocks[x] = 0 /\ queue[x] = 0
      BY <1>0, <1>14, <2>2 DEF Claim, Claimable, JobKnown, Located, Settled, Executions, Fresh, log, Remembers, Running
    <3>2. \A y \in Executors : y # x => pc'[y] = pc[y]
      BY <1>0, <2>2 DEF Goto, MemoryTypeOK
    <3>3. ASSUME NEW y \in Executors, y # x, Writing(y)' PROVE Writing(y)
      BY <1>0, <2>2, <3>1, <3>2, <3>3 DEF DatabaseTypeOK, JobKnown, Claimed, Running, Located
    <3> QED BY <2>2, <3>1, <3>3 DEF Accounted, memory
  <2> QED BY <1>14, <2>1, <2>2 DEF Claim
<1>15. ASSUME NEW x \in Executors, pc[x] \in Claimed, NEW place, Goto(x, place),
              UNCHANGED <<writer, lastSequence, job, memory>>
       PROVE  Accounted'
  BY <1>0, <1>4, <1>15 DEF Goto, MemoryTypeOK, memory
<1>16. ASSUME NEW x \in Executors, InsertAttempt(x) \/ MarkRunning(x) \/ ReadRequest(x) \/ Drain(x) PROVE Accounted'
  BY <1>15, <1>16 DEF InsertAttempt, MarkRunning, ReadRequest, Drain, row, log, database, Claimed
<1>17. ASSUME NEW x \in Executors, Throw(x) \/ Crash(x) PROVE Accounted'
  BY <1>5, <1>17 DEF Throw, Crash, row, log, database
<1>18. ASSUME NEW x \in Executors, pc[x] \in Claimed, UNCHANGED <<writer, lastSequence, job, queue, broken>>,
              outcome'[x] = "completed" => outcome[x] \in {"none", "completed"} /\ UNCHANGED blocks[x],
              outcome'[x] # "none",
              \A y \in Executors : y # x => UNCHANGED <<pc[y], outcome[y], blocks[y]>>
       PROVE  Accounted'
  BY <1>18 DEF Accounted
<1>19. ASSUME NEW x \in Executors, NEW verdict \in TerminalStatus, pc[x] \in Running, EndRun(x, verdict) PROVE Accounted'
  <2>1. outcome[x] = "none"
    BY <1>0, <1>19 DEF Decided, Running
  <2>2. /\ outcome'[x] = verdict /\ verdict # "none"
        /\ verdict = "completed" => UNCHANGED blocks[x]
        /\ \A y \in Executors : y # x => UNCHANGED <<pc[y], outcome[y], blocks[y]>>
    BY <1>0, <1>19 DEF EndRun, Goto, MemoryTypeOK, TerminalStatus
  <2> QED BY <1>18, <1>19, <2>1, <2>2 DEF EndRun, Claimed, database, row, log
<1>20. ASSUME NEW x \in Executors, FinalizeRefused(x) PROVE Accounted'
  <2>1. UNCHANGED <<writer, lastSequence>> /\ pc[x] \in Claimed
    BY <1>20 DEF FinalizeRefused, database, row, log, Claimed
  <2>2. CASE Leave(x, "done")
    BY <1>5, <2>1, <2>2
  <2>3. CASE Goto(x, "recheck") /\ UNCHANGED <<job, memory>>
    BY <1>15, <2>1, <2>3
  <2>4. CASE /\ outcome' = [outcome EXCEPT ![x] = "failed"]
             /\ blocks' = [blocks EXCEPT ![x] = @ + 1]
             /\ UNCHANGED <<pc, job, abort, queue, broken, session>>
    <3>1. outcome'[x] = "failed" /\ \A y \in Executors : y # x => UNCHANGED <<pc[y], outcome[y], blocks[y]>>
      BY <1>0, <2>4 DEF MemoryTypeOK
    <3> QED BY <1>18, <2>1, <2>4, <3>1
  <2> QED BY <1>20, <2>2, <2>3, <2>4 DEF FinalizeRefused
<1>21. ASSUME NEW x \in Executors, Recheck(x) PROVE Accounted'
  <2>1. UNCHANGED <<writer, lastSequence>> /\ pc[x] \in Claimed
    BY <1>21 DEF Recheck, database, row, log, Claimed
  <2>2. CASE Leave(x, "done")
    BY <1>5, <2>1, <2>2
  <2>3. CASE /\ outcome' = [outcome EXCEPT ![x] = "cancelled"]
             /\ Goto(x, "finalize")
             /\ UNCHANGED <<job, abort, blocks, queue, broken, session>>
    <3>1. outcome'[x] = "cancelled" /\ \A y \in Executors : y # x => UNCHANGED <<pc[y], outcome[y], blocks[y]>>
      BY <1>0, <2>3 DEF MemoryTypeOK, Goto
    <3> QED BY <1>18, <2>1, <2>3, <3>1
  <2> QED BY <1>21, <2>2, <2>3 DEF Recheck
<1>22. ASSUME NEW x \in Executors, Candidate(x) PROVE Accounted'
  <2>1. UNCHANGED <<writer, lastSequence>>
    BY <1>22 DEF Candidate, database, row, log
  <2>2. CASE Leave(x, "done")
    BY <1>5, <2>1, <2>2
  <2>3. CASE (Goto(x, "claim") \/ Goto(x, "cancelRequested")) /\ UNCHANGED <<job, memory>>
    BY <1>0, <1>4, <2>1, <2>3 DEF Goto, MemoryTypeOK, Claimed, Running, memory
  <2> QED BY <1>22, <2>2, <2>3 DEF Candidate
<1>23. ASSUME NEW x \in Executors, Emit(x) PROVE Accounted'
  <2>1. /\ pc[x] \in Claimed /\ UNCHANGED <<writer, lastSequence, pc, job, broken, outcome>>
        /\ blocks'[x] = blocks[x] + 1 /\ (~broken[x] => queue'[x] = queue[x] + 1)
        /\ \A y \in Executors : y # x => UNCHANGED <<blocks[y], queue[y]>>
    BY <1>0, <1>23 DEF Emit, MemoryTypeOK, Claimed, database, row, log
  <2>2. blocks[x] \in Nat /\ queue[x] \in Nat
    BY <1>0 DEF MemoryTypeOK
  <2>3. \A y \in Executors : Writing(y) => lastSequence[job[y]] \in Nat
    BY <1>0, <1>1 DEF DatabaseTypeOK
  <2> QED BY <2>1, <2>2, <2>3 DEF Accounted
<1>24. ASSUME NEW x \in Executors, Publish(x) PROVE Accounted'
  <2>1. /\ writer[job[x]] = x /\ job[x] \in Generations /\ queue[x] \in Nat \ {0}
        /\ UNCHANGED <<writer, pc, job, blocks, broken, outcome>>
        /\ queue'[x] = queue[x] - 1 /\ \A y \in Executors : y # x => UNCHANGED queue[y]
        /\ \A g \in Generations : lastSequence'[g] = lastSequence[g] + (IF g = job[x] THEN 1 ELSE 0)
    BY <1>0, <1>24 DEF Publish, Owned, AppendEvent, row, JobKnown, Located, Running, MemoryTypeOK
  <2>2. \A g \in Generations : lastSequence[g] \in Nat
    BY <1>0 DEF DatabaseTypeOK
  <2> QED BY <1>1, <2>1, <2>2 DEF Accounted
<1>25. ASSUME NEW x \in Executors, PublishFails(x) PROVE Accounted'
  <2>1. /\ UNCHANGED <<writer, lastSequence, pc, job, blocks, outcome>> /\ broken'[x]
        /\ \A y \in Executors : y # x => UNCHANGED <<queue[y], broken[y]>>
    BY <1>0, <1>25 DEF PublishFails, MemoryTypeOK, database, row, log
  <2> QED BY <2>1 DEF Accounted
<1>26. ASSUME NEW x \in Executors, Checkpoint(x) \/ BeginDraft(x) \/ CancelPoll(x) \/ Timeout(x) \/ Heartbeat(x) PROVE Accounted'
  BY <1>4, <1>26 DEF Checkpoint, BeginDraft, CancelPoll, Timeout, AbortAs, Heartbeat, database, row, log, memory
<1>27. ASSUME NEW x \in Executors, NEW final \in BOOLEAN, Save(x, final) PROVE Accounted'
  <2>1. pc[x] \in Claimed
    BY <1>27 DEF Save, Claimed, Running
  <2> QED BY <1>0, <1>4, <1>27, <2>1 DEF Save, Goto, MemoryTypeOK, row, log
<1>28. CASE UNCHANGED vars
  BY <1>4, <1>28 DEF vars, database, row, log, memory
<1>29. ASSUME NEW x \in Executors, NEW g \in Generations, StartJob(x, g) PROVE Accounted'
  <2>1. \A y \in Executors : pc'[y] \in Claimed => pc[y] \in Claimed /\ UNCHANGED job[y]
    BY <1>0, <1>29 DEF StartJob, Goto, MemoryTypeOK, Claimed, Running
  <2> QED BY <1>29, <2>1 DEF StartJob, Accounted, database, row, log, memory
<1>30. ASSUME NEW x \in Executors, Shell(x) PROVE Accounted'
  <2>1. CASE RunAborted(x)
    BY <1>0, <1>19, <2>1 DEF RunAborted, MemoryTypeOK, TerminalStatus
  <2> QED BY <1>30, <1>9, <1>10, <1>11, <1>14, <1>16, <1>17, <1>20, <1>21, <1>22, <2>1 DEF Shell, CallFails, DrainThrows
<1>31. ASSUME NEW x \in Executors, Runtime(x) \/ Chain(x) PROVE Accounted'
  <2>1. CASE RunReturns(x) \/ RunFails(x)
    BY <1>19, <2>1 DEF RunReturns, RunFails, Running, TerminalStatus
  <2>2. CASE \E final \in BOOLEAN : Save(x, final)
    BY <1>27, <2>2
  <2> QED BY <1>23, <1>24, <1>25, <1>26, <1>31, <2>1, <2>2 DEF Runtime, Chain
<1> QED BY <1>8, <1>12, <1>13, <1>17, <1>26, <1>28, <1>29, <1>30, <1>31 DEF Next, Api

-----------------------------------------------------------------------------
(* Completions. *)

(* The job's executor alone completes it, by finalize. *)
CompletedBy(g) ==
  \E x \in Executors : Finalize(x) /\ job[x] = g /\ outcome[x] = "completed"

LEMMA Completions ==
  Settled /\ [Next]_vars =>
    \A g \in Generations : status[g] # "completed" /\ status'[g] = "completed" => CompletedBy(g)
<1> SUFFICES ASSUME Settled, [Next]_vars, NEW g \in Generations, status[g] # "completed", status'[g] = "completed"
             PROVE  CompletedBy(g)
  OBVIOUS
<1>0. DatabaseTypeOK
  BY DEF Settled, TypeOK
<1>1. ASSUME UNCHANGED status PROVE FALSE
  BY <1>1
<1>2. ASSUME NEW h \in Generations, NEW c \in Conversations, Create(h, c) PROVE FALSE
  BY <1>0, <1>2 DEF Create, DatabaseTypeOK
<1>3. ASSUME NEW h \in Generations, Cancel(h) PROVE FALSE
  BY <1>0, <1>3 DEF Cancel, DatabaseTypeOK
<1>4. ASSUME NEW c \in Conversations, DeleteConversation(c) PROVE FALSE
  BY <1>4 DEF DeleteConversation
<1>5. CASE FailStale
  BY <1>5 DEF FailStale, Settle
<1>6. ASSUME NEW x \in Executors, FinalizeUnclaimed(x) \/ FailQueued(x) PROVE FALSE
  BY <1>6 DEF FinalizeUnclaimed, FailQueued, Settle
<1>7. ASSUME NEW x \in Executors, Claim(x) \/ MarkRunning(x) PROVE FALSE
  BY <1>0, <1>7 DEF Claim, MarkRunning, DatabaseTypeOK, row
<1>8. ASSUME NEW x \in Executors, Finalize(x) PROVE CompletedBy(g)
  <2>1. job[x] = g /\ outcome[x] = "completed"
    BY <1>8 DEF Finalize, Settle
  <2> QED BY <1>8, <2>1 DEF CompletedBy
<1>9. ASSUME NEW x \in Executors, Shell(x) PROVE CompletedBy(g)
  BY <1>9, <1>1, <1>6, <1>7, <1>8
  DEF Shell, Candidate, ReadRequest, CallFails, RunAborted, EndRun, Drain, DrainThrows, FinalizeRefused, Recheck,
      Throw, InsertAttempt, database, row
<1>10. ASSUME NEW x \in Executors, Runtime(x) \/ Chain(x) PROVE FALSE
  BY <1>10, <1>1
  DEF Runtime, Chain, Publish, PublishFails, Emit, RunReturns, RunFails, EndRun, Save,
      BeginDraft, Checkpoint, database, row
<1>11. ASSUME NEW x \in Executors, Heartbeat(x) \/ CancelPoll(x) \/ Timeout(x) \/ Crash(x) PROVE FALSE
  BY <1>11, <1>1 DEF Heartbeat, CancelPoll, Timeout, AbortAs, Crash, database, row
<1>12. CASE (\E h \in Generations : Age(h)) \/ (\E x \in Executors, h \in Generations : StartJob(x, h)) \/ UNCHANGED vars
  BY <1>1, <1>12 DEF Age, StartJob, vars, database, row
<1> QED BY <1>2, <1>3, <1>4, <1>5, <1>9, <1>10, <1>11, <1>12 DEF Next, Api

LEMMA SnapshotStep ==
  Settled /\ Remembers /\ Accounted /\ SnapshotMatchesLog /\ [Next]_vars => SnapshotMatchesLog'
<1> SUFFICES ASSUME Settled, Remembers, Accounted, SnapshotMatchesLog, [Next]_vars,
                    NEW g \in Generations, status'[g] = "completed"
             PROVE  lastSequence'[g] = message'[g] + 1
  BY DEF SnapshotMatchesLog
<1>0. DatabaseTypeOK /\ MemoryTypeOK
  BY DEF Settled, TypeOK
<1>1. CASE status[g] = "completed"
  <2>1. Frozen
    BY RowSteps DEF Settled, RowsAgree, Executions
  <2>2. UNCHANGED <<lastSequence[g], message[g]>>
    BY <1>1, <2>1 DEF Frozen, Terminal, TerminalStatus
  <2> QED BY <1>1, <2>2 DEF SnapshotMatchesLog
<1>2. CASE status[g] # "completed"
  <2>1. PICK x \in Executors : Finalize(x) /\ job[x] = g /\ outcome[x] = "completed"
    BY <1>2, Completions DEF CompletedBy
  <2>2. pc[x] = "finalize" /\ writer[g] = x
    BY <2>1 DEF Finalize, CanFinalize
  <2>3. ~broken[x] /\ queue[x] = 0
    BY <2>1, <2>2 DEF Remembers
  <2>4. lastSequence[g] + queue[x] = blocks[x]
    BY <2>1, <2>2, <2>3 DEF Accounted, Claimed
  <2>5. lastSequence'[g] = lastSequence[g] + 1 /\ message'[g] = blocks[x]
    BY <1>0, <2>1 DEF Finalize, Settle, AppendEvent, DatabaseTypeOK
  <2>6. lastSequence[g] \in Nat /\ blocks[x] \in Nat
    BY <1>0 DEF DatabaseTypeOK, MemoryTypeOK
  <2> QED BY <2>3, <2>4, <2>5, <2>6
<1> QED BY <1>1, <1>2

-----------------------------------------------------------------------------
(* Drafts. *)

LEMMA BasedFrame ==
  ASSUME Based,
         \A g \in Generations : draft'[g] # NoDraft => UNCHANGED draft[g],
         \A g \in Generations : Active(g)' /\ draft'[g] # NoDraft =>
           Active(g) /\ UNCHANGED conversation[g] /\ UNCHANGED analysis[conversation[g]]
  PROVE  Based'
  BY DEF Based

LEMMA BasedStep == Settled /\ Remembers /\ Based /\ Held /\ [Next]_vars => Based'
<1> SUFFICES ASSUME Settled, Remembers, Based, Held, [Next]_vars PROVE Based'
  OBVIOUS
<1>0. DatabaseTypeOK /\ MemoryTypeOK /\ TypeOK /\ JobKnown /\ Decided /\ RowsAgree
  BY DEF Settled, TypeOK
<1>1. ASSUME UNCHANGED drafts, UNCHANGED conversation, \A g \in Generations : Active(g)' => Active(g) PROVE Based'
  BY <1>1, BasedFrame DEF drafts
<1>2. ASSUME UNCHANGED drafts, UNCHANGED conversation, UNCHANGED status PROVE Based'
  BY <1>1, <1>2 DEF Active
<1>3. ASSUME NEW g \in Generations, NEW c \in Conversations, Create(g, c) PROVE Based'
  <2>1. /\ draft[g] = NoDraft /\ UNCHANGED drafts
        /\ \A h \in Generations : h # g => UNCHANGED <<status[h], conversation[h]>>
    BY <1>0, <1>3 DEF Create, RowsAgree, Blank, DatabaseTypeOK
  <2>2. ASSUME NEW h \in Generations, Active(h)', draft'[h] # NoDraft
        PROVE Active(h) /\ UNCHANGED conversation[h] /\ UNCHANGED analysis[conversation[h]]
    BY <2>1, <2>2 DEF Active, drafts
  <2> QED BY <2>1, <2>2, BasedFrame DEF drafts
<1>4. ASSUME NEW g \in Generations, Cancel(g) PROVE Based'
  BY <1>0, <1>1, <1>4 DEF Cancel, Active, ActiveStatus, DatabaseTypeOK, topology
<1>5. ASSUME NEW c \in Conversations, DeleteConversation(c) PROVE Based'
  <2>1. \A g \in Generations : IF conversation[g] = c THEN status'[g] = "absent" /\ draft'[g] = NoDraft
                               ELSE UNCHANGED <<status[g], draft[g]>>
    BY <1>5 DEF DeleteConversation
  <2>2. UNCHANGED conversation /\ analysis' = [analysis EXCEPT ![c] = NoAnalysis]
    BY <1>5 DEF DeleteConversation
  <2>3. ASSUME NEW g \in Generations, Active(g)', draft'[g] # NoDraft
        PROVE  Active(g) /\ UNCHANGED conversation[g] /\ UNCHANGED analysis[conversation[g]]
    <3>1. conversation[g] # c /\ UNCHANGED status[g]
      BY <2>1, <2>3
    <3> QED BY <1>0, <2>2, <2>3, <3>1 DEF Active, DatabaseTypeOK
  <2> QED BY <2>1, <2>3, BasedFrame
<1>6. ASSUME NEW S, S \subseteq {g \in Generations : Active(g)}, NEW verdict,
             \A g \in S : verdict[g] \in TerminalStatus, Settle(S, verdict)
      PROVE  \A g \in Generations : Active(g)' <=> Active(g) /\ g \notin S
  BY <1>0, <1>6, SettleRows DEF RowsAgree
<1>7. CASE FailStale
  <2> DEFINE S == {g \in Generations : Stale(g)}
             verdict == [g \in S |-> IF status[g] = "cancel_requested" THEN "cancelled" ELSE "failed"]
  <2>1. S \subseteq {g \in Generations : Active(g)} /\ \A g \in S : verdict[g] \in TerminalStatus
    BY DEF Stale, Active, ActiveStatus, TerminalStatus
  <2>2. Settle(S, verdict) /\ UNCHANGED drafts /\ UNCHANGED conversation
    BY <1>7 DEF FailStale, topology
  <2> HIDE DEF S, verdict
  <2> QED BY <1>1, <1>6, <2>1, <2>2
<1>8. ASSUME NEW x \in Executors, FinalizeUnclaimed(x) PROVE Based'
  <2> DEFINE S == IF writer[job[x]] = None /\ status[job[x]] = "cancel_requested" THEN {job[x]} ELSE {}
             verdict == [h \in S |-> "cancelled"]
  <2>1. S \subseteq {g \in Generations : Active(g)} /\ \A g \in S : verdict[g] \in TerminalStatus
    BY <1>0, <1>8 DEF FinalizeUnclaimed, JobKnown, Located, Active, ActiveStatus, TerminalStatus
  <2>2. Settle(S, verdict) /\ UNCHANGED drafts /\ UNCHANGED conversation
    BY <1>8 DEF FinalizeUnclaimed, topology
  <2> HIDE DEF S, verdict
  <2> QED BY <1>1, <1>6, <2>1, <2>2
<1>9. ASSUME NEW x \in Executors, FailQueued(x) PROVE Based'
  <2> DEFINE S == IF Claimable(job[x]) THEN {job[x]} ELSE {}
             verdict == [h \in S |-> "failed"]
  <2>1. S \subseteq {g \in Generations : Active(g)} /\ \A g \in S : verdict[g] \in TerminalStatus
    BY <1>0, <1>9 DEF FailQueued, Claimable, JobKnown, Located, Active, ActiveStatus, TerminalStatus
  <2>2. Settle(S, verdict) /\ UNCHANGED drafts /\ UNCHANGED conversation
    BY <1>9 DEF FailQueued, topology
  <2> HIDE DEF S, verdict
  <2> QED BY <1>1, <1>6, <2>1, <2>2
<1>10. ASSUME NEW x \in Executors, Claim(x) \/ MarkRunning(x) PROVE Based'
  <2>1. UNCHANGED drafts /\ UNCHANGED conversation
    BY <1>10 DEF Claim, MarkRunning, topology
  <2>2. \A g \in Generations : Active(g)' => Active(g)
    BY <1>0, <1>10 DEF Claim, Claimable, MarkRunning, row, Active, ActiveStatus, DatabaseTypeOK
  <2> QED BY <1>1, <2>1, <2>2
<1>11. ASSUME NEW x \in Executors, Finalize(x) PROVE Based'
  <2> DEFINE verdict == [h \in {job[x]} |-> outcome[x]]
  <2>1. {job[x]} \subseteq {g \in Generations : Active(g)} /\ Active(job[x])
    BY <1>0, <1>11 DEF Finalize, CanFinalize, WriterStatus, JobKnown, Located, Active, ActiveStatus
  <2>2. outcome[x] \in TerminalStatus
    BY <1>0, <1>11 DEF Finalize, Decided, MemoryTypeOK
  <2>3. Settle({job[x]}, verdict) /\ UNCHANGED <<draft, conversation>> /\ Promote(job[x], outcome[x])
    BY <1>11 DEF Finalize, topology
  <2>4. \A g \in {job[x]} : verdict[g] \in TerminalStatus
    BY <2>2
  <2> HIDE DEF verdict
  <2>5. \A g \in Generations : Active(g)' <=> Active(g) /\ g \notin {job[x]}
    BY <1>6, <2>1, <2>3, <2>4
  <2>6. ASSUME NEW g \in Generations, Active(g)' PROVE Active(g) /\ UNCHANGED analysis[conversation[g]]
    <3>1. Active(g) /\ g # job[x]
      BY <2>5, <2>6
    <3>2. conversation[g] # conversation[job[x]]
      BY <1>0, <2>1, <3>1 DEF RowsAgree, OneActive
    <3>3. conversation[g] \in Conversations
      BY <1>0, <3>1 DEF RowsAgree, Blank, Active, ActiveStatus, DatabaseTypeOK
    <3>4. \A c \in Conversations : c # conversation[job[x]] => UNCHANGED analysis[c]
      BY <1>0, <2>3 DEF Promote, DatabaseTypeOK
    <3> QED BY <2>3, <3>1, <3>2, <3>3, <3>4
  <2> QED BY <2>3, <2>6, BasedFrame
<1>12. ASSUME NEW x \in Executors, BeginDraft(x) PROVE Based'
  <2> DEFINE base == analysis[conversation[job[x]]].revision
             new == [base |-> base, revision |-> base + 1, final |-> FALSE]
  <2>1. /\ job[x] \in Generations /\ conversation[job[x]] \in Conversations
        /\ UNCHANGED <<status, analysis, conversation>>
    BY <1>0, <1>12 DEF BeginDraft, JobKnown, Located, DatabaseTypeOK, row, topology
  <2>2. draft' = [draft EXCEPT ![job[x]] = IF draft[job[x]] # NoDraft THEN draft[job[x]] ELSE new]
    BY <1>12 DEF BeginDraft
  <2>3. base \in Nat
    BY <1>0, <2>1 DEF DatabaseTypeOK
  <2>4. new.revision > new.base /\ new.base = analysis[conversation[job[x]]].revision
    BY <2>3
  <2> HIDE DEF new, base
  <2>5. ASSUME NEW g \in Generations
        PROVE  /\ draft'[g] # NoDraft => draft'[g].revision > draft'[g].base
               /\ Active(g)' /\ draft'[g] # NoDraft => draft'[g].base = analysis'[conversation'[g]].revision
    <3>1. CASE g = job[x] /\ draft[g] = NoDraft
      <4>1. draft'[g] = new
        BY <1>0, <2>2, <3>1 DEF DatabaseTypeOK
      <4> QED BY <2>1, <2>4, <3>1, <4>1
    <3>2. CASE g # job[x] \/ draft[g] # NoDraft
      <4>1. draft'[g] = draft[g]
        BY <1>0, <2>2, <3>2 DEF DatabaseTypeOK
      <4> QED BY <2>1, <4>1 DEF Based, Active
    <3> QED BY <3>1, <3>2
  <2> QED BY <2>5 DEF Based
<1>13. ASSUME NEW x \in Executors, NEW final \in BOOLEAN, Save(x, final) PROVE Based'
  <2>1. /\ job[x] \in Generations /\ UNCHANGED <<status, analysis, conversation>>
        /\ session[x] # 0 /\ draft[job[x]].revision = session[x] /\ session[x] \in Nat
        /\ draft[job[x]] \in Draft
    BY <1>0, <1>13 DEF Save, JobKnown, Located, DatabaseTypeOK, MemoryTypeOK, row, topology
  <2>2. draft[job[x]] # NoDraft
    BY <2>1 DEF NoDraft
  <2>3. /\ draft'[job[x]].revision = session[x] + 1
        /\ draft'[job[x]].base = draft[job[x]].base
        /\ \A g \in Generations : g # job[x] => UNCHANGED draft[g]
    BY <1>0, <1>13, <2>1 DEF Save, DatabaseTypeOK, Draft
  <2>4. draft[job[x]].revision > draft[job[x]].base /\ draft[job[x]].base \in Nat
    BY <2>1, <2>2 DEF Based, Draft
  <2>5. ASSUME NEW g \in Generations
        PROVE  /\ draft'[g] # NoDraft => draft'[g].revision > draft'[g].base
               /\ Active(g)' /\ draft'[g] # NoDraft => draft'[g].base = analysis'[conversation'[g]].revision
    <3>1. CASE g = job[x]
      BY <2>1, <2>2, <2>3, <2>4, <3>1 DEF Based, Active
    <3>2. CASE g # job[x]
      BY <2>1, <2>3, <3>2 DEF Based, Active
    <3> QED BY <3>1, <3>2
  <2> QED BY <2>5 DEF Based
<1>14. ASSUME NEW x \in Executors, Shell(x) PROVE Based'
  BY <1>14, <1>2, <1>8, <1>9, <1>10, <1>11
  DEF Shell, Candidate, ReadRequest, CallFails, RunAborted, EndRun, Drain, DrainThrows, FinalizeRefused, Recheck,
      Throw, InsertAttempt, database, row, topology
<1>15. ASSUME NEW x \in Executors, Runtime(x) \/ Chain(x) PROVE Based'
  <2>1. CASE \E final \in BOOLEAN : Save(x, final)
    BY <1>13, <2>1
  <2> QED BY <1>15, <1>2, <1>12, <2>1
      DEF Runtime, Chain, Publish, PublishFails, Emit, RunReturns, RunFails, EndRun, Checkpoint, database, row, topology
<1>16. ASSUME NEW x \in Executors, Heartbeat(x) \/ CancelPoll(x) \/ Timeout(x) \/ Crash(x) PROVE Based'
  BY <1>16, <1>2 DEF Heartbeat, CancelPoll, Timeout, AbortAs, Crash, database, row, topology
<1>17. CASE (\E h \in Generations : Age(h)) \/ (\E x \in Executors, h \in Generations : StartJob(x, h)) \/ UNCHANGED vars
  BY <1>2, <1>17 DEF Age, StartJob, vars, database, row, topology
<1> QED BY <1>3, <1>4, <1>5, <1>7, <1>14, <1>15, <1>16, <1>17 DEF Next, Api

LEMMA HeldStep == Settled /\ Remembers /\ Held /\ [Next]_vars => Held'
<1> SUFFICES ASSUME Settled, Remembers, Held, [Next]_vars PROVE Held'
  OBVIOUS
<1>0. DatabaseTypeOK /\ MemoryTypeOK /\ TypeOK /\ JobKnown /\ Decided
  BY DEF Settled, TypeOK
<1> DEFINE Writing(y) == pc[y] \in Claimed /\ writer[job[y]] = y
<1>1. ASSUME NEW y \in Executors, Writing(y)
      PROVE  /\ session[y] # 0 => draft[job[y]] # NoDraft /\ draft[job[y]].revision = session[y]
             /\ pc[y] = "wrapup" \/ outcome[y] = "completed" => draft[job[y]] # NoDraft /\ draft[job[y]].final
  BY <1>1 DEF Held
(* Executors that neither move on nor write: only their rows may change.   *)
<1>2. ASSUME \A y \in Executors : Writing(y)' =>
               /\ Writing(y) /\ job'[y] = job[y] /\ UNCHANGED <<session[y], draft[job[y]]>>
               /\ pc'[y] = "wrapup" => pc[y] = "wrapup"
               /\ outcome'[y] = "completed" => outcome[y] = "completed"
      PROVE  Held'
  BY <1>2 DEF Held
<1>3. ASSUME UNCHANGED <<pc, job, memory>>,
             \A g \in Generations : \A y \in Executors : writer'[g] = y => writer[g] = y /\ UNCHANGED draft[g]
      PROVE  Held'
  <2>1. ASSUME NEW y \in Executors, Writing(y)'
        PROVE  Writing(y) /\ UNCHANGED draft[job[y]]
    <3>1. pc[y] \in Claimed /\ job'[y] = job[y] /\ job[y] \in Generations
      BY <1>0, <1>3, <2>1 DEF JobKnown, Claimed, Running, Located
    <3> QED BY <1>3, <2>1, <3>1
  <2> QED BY <1>2, <1>3, <2>1 DEF memory
<1>4. ASSUME NEW x \in Executors, NEW place \in {"done", "failQueued"}, Leave(x, place), UNCHANGED draft,
             \A g \in Generations : \A y \in Executors : writer'[g] = y => writer[g] = y
      PROVE  Held'
  <2>1. \A y \in Executors : pc'[y] \in Claimed =>
          y # x /\ pc'[y] = pc[y] /\ UNCHANGED <<job[y], session[y], outcome[y]>>
    BY <1>0, <1>4 DEF Leave, Goto, MemoryTypeOK, Claimed, Running
  <2>2. ASSUME NEW y \in Executors, Writing(y)' PROVE Writing(y)
    <3>1. pc[y] \in Claimed /\ job'[y] = job[y] /\ job[y] \in Generations
      BY <1>0, <2>1, <2>2 DEF JobKnown, Claimed, Running, Located
    <3> QED BY <1>4, <2>2, <3>1
  <2> QED BY <1>2, <1>4, <2>1, <2>2
<1>5. ASSUME NEW x \in Executors, pc[x] \in Claimed, NEW place, place # "wrapup", Goto(x, place),
             UNCHANGED <<writer, draft, job, memory>>
      PROVE  Held'
  <2>1. \A y \in Executors : (y # x => pc'[y] = pc[y]) /\ pc'[x] = place
    BY <1>0, <1>5 DEF Goto, MemoryTypeOK
  <2> QED BY <1>2, <1>5, <2>1 DEF memory
<1>6. ASSUME NEW S \in SUBSET Generations, NEW verdict, Settle(S, verdict),
             DropWriter(S) \/ (UNCHANGED writer /\ \A g \in S : writer[g] = None)
      PROVE  \A g \in Generations : \A y \in Executors : writer'[g] = y => writer[g] = y
  BY <1>0, <1>6, SettledRowsUnwritten
<1>7. CASE FailStale
  <2> DEFINE S == {g \in Generations : Stale(g)}
             verdict == [g \in S |-> IF status[g] = "cancel_requested" THEN "cancelled" ELSE "failed"]
  <2>1. S \in SUBSET Generations /\ Settle(S, verdict) /\ DropWriter(S) /\ UNCHANGED <<draft, pc, job, memory>>
    BY <1>7 DEF FailStale, drafts
  <2> HIDE DEF S, verdict
  <2> QED BY <1>3, <1>6, <2>1
<1>8. ASSUME NEW x \in Executors, FinalizeUnclaimed(x) PROVE Held'
  <2> DEFINE S == IF writer[job[x]] = None /\ status[job[x]] = "cancel_requested" THEN {job[x]} ELSE {}
             verdict == [h \in S |-> "cancelled"]
  <2>1. S \in SUBSET Generations
    BY <1>0, <1>8 DEF FinalizeUnclaimed, JobKnown, Located
  <2>2. Settle(S, verdict) /\ DropWriter(S) /\ Leave(x, "done") /\ UNCHANGED draft
    BY <1>8 DEF FinalizeUnclaimed, drafts
  <2> HIDE DEF S, verdict
  <2> QED BY <1>4, <1>6, <2>1, <2>2
<1>9. ASSUME NEW x \in Executors, Finalize(x) PROVE Held'
  <2>1. {job[x]} \in SUBSET Generations
    BY <1>0, <1>9 DEF Finalize, JobKnown, Located
  <2>2. /\ Settle({job[x]}, [h \in {job[x]} |-> outcome[x]]) /\ DropWriter({job[x]})
        /\ Leave(x, "done") /\ UNCHANGED draft
    BY <1>9 DEF Finalize
  <2> QED BY <1>4, <1>6, <2>1, <2>2
<1>10. ASSUME NEW x \in Executors, FailQueued(x) PROVE Held'
  <2> DEFINE S == IF Claimable(job[x]) THEN {job[x]} ELSE {}
             verdict == [h \in S |-> "failed"]
  <2>1. S \in SUBSET Generations /\ \A g \in S : writer[g] = None
    BY <1>0, <1>10 DEF FailQueued, JobKnown, Located, Claimable
  <2>2. Settle(S, verdict) /\ UNCHANGED writer /\ Leave(x, "done") /\ UNCHANGED draft
    BY <1>10 DEF FailQueued, drafts
  <2> HIDE DEF S, verdict
  <2> QED BY <1>4, <1>6, <2>1, <2>2
<1>11. ASSUME NEW c \in Conversations, DeleteConversation(c) PROVE Held'
  <2>1. \A g \in Generations : IF conversation[g] = c THEN writer'[g] = None
                               ELSE UNCHANGED <<writer[g], draft[g]>>
    BY <1>11 DEF DeleteConversation, DropWriter, Members
  <2>2. None \notin Executors
    BY GenerationAssumption
  <2> QED BY <1>3, <1>11, <2>1, <2>2 DEF DeleteConversation
<1>12. ASSUME NEW x \in Executors, Claim(x) PROVE Held'
  <2>1. CASE UNCHANGED row /\ Leave(x, "done")
    BY <1>4, <1>12, <2>1 DEF Claim, row, drafts
  <2>2. CASE /\ Claimable(job[x])
             /\ writer' = [writer EXCEPT ![job[x]] = x]
             /\ Goto(x, "attempt")
             /\ UNCHANGED <<job, memory>>
    <3>1. /\ job[x] \in Generations /\ writer[job[x]] = None /\ UNCHANGED draft
          /\ session[x] = 0 /\ outcome[x] = "none"
      BY <1>0, <1>12, <2>2 DEF Claim, Claimable, JobKnown, Located, drafts, Remembers, Running, Decided
    <3>2. pc'[x] = "attempt" /\ \A y \in Executors : y # x => pc'[y] = pc[y]
      BY <1>0, <2>2 DEF Goto, MemoryTypeOK
    <3>3. ASSUME NEW y \in Executors, y # x, Writing(y)' PROVE Writing(y)
      BY <1>0, <2>2, <3>1, <3>2, <3>3 DEF DatabaseTypeOK, JobKnown, Claimed, Running, Located
    <3> QED BY <2>2, <3>1, <3>2, <3>3 DEF Held, memory
  <2> QED BY <1>12, <2>1, <2>2 DEF Claim
<1>13. ASSUME NEW x \in Executors, InsertAttempt(x) \/ MarkRunning(x) \/ ReadRequest(x) \/ Drain(x) PROVE Held'
  BY <1>5, <1>13 DEF InsertAttempt, MarkRunning, ReadRequest, Drain, row, drafts, database, Claimed
<1>14. ASSUME NEW x \in Executors, Throw(x) \/ Crash(x) PROVE Held'
  BY <1>4, <1>14 DEF Throw, Crash, row, drafts, database
<1>15. ASSUME NEW x \in Executors, pc[x] \in Claimed, UNCHANGED <<writer, draft, job, session>>,
              pc'[x] # "wrapup", outcome'[x] = "completed" => pc[x] = "wrapup",
              \A y \in Executors : y # x => UNCHANGED <<pc[y], outcome[y]>>
       PROVE  Held'
  BY <1>1, <1>15 DEF Held
<1>16. ASSUME NEW x \in Executors, NEW verdict \in TerminalStatus, pc[x] \in Running, EndRun(x, verdict),
              verdict = "completed" => pc[x] = "wrapup"
       PROVE  Held'
  <2>1. /\ outcome'[x] = verdict /\ pc'[x] = "drain" /\ pc[x] \in Claimed
        /\ \A y \in Executors : y # x => UNCHANGED <<pc[y], outcome[y]>>
    BY <1>0, <1>16 DEF EndRun, Goto, MemoryTypeOK, Claimed
  <2> QED BY <1>15, <1>16, <2>1 DEF EndRun, database, row, drafts
<1>17. ASSUME NEW x \in Executors, FinalizeRefused(x) PROVE Held'
  <2>1. UNCHANGED <<writer, draft>> /\ pc[x] \in Claimed /\ pc[x] # "wrapup"
    BY <1>17 DEF FinalizeRefused, database, row, drafts, Claimed
  <2>2. CASE Leave(x, "done")
    BY <1>4, <2>1, <2>2
  <2>3. CASE Goto(x, "recheck") /\ UNCHANGED <<job, memory>>
    BY <1>5, <2>1, <2>3
  <2>4. CASE /\ outcome' = [outcome EXCEPT ![x] = "failed"]
             /\ UNCHANGED <<pc, job, abort, queue, broken, session>>
    <3>1. outcome'[x] = "failed" /\ \A y \in Executors : y # x => UNCHANGED <<pc[y], outcome[y]>>
      BY <1>0, <2>4 DEF MemoryTypeOK
    <3> QED BY <1>15, <2>1, <2>4, <3>1
  <2> QED BY <1>17, <2>2, <2>3, <2>4 DEF FinalizeRefused
<1>18. ASSUME NEW x \in Executors, Recheck(x) PROVE Held'
  <2>1. UNCHANGED <<writer, draft>> /\ pc[x] \in Claimed
    BY <1>18 DEF Recheck, database, row, drafts, Claimed
  <2>2. CASE Leave(x, "done")
    BY <1>4, <2>1, <2>2
  <2>3. CASE /\ outcome' = [outcome EXCEPT ![x] = "cancelled"]
             /\ Goto(x, "finalize")
             /\ UNCHANGED <<job, abort, blocks, queue, broken, session>>
    <3>1. /\ outcome'[x] = "cancelled" /\ pc'[x] = "finalize"
          /\ \A y \in Executors : y # x => UNCHANGED <<pc[y], outcome[y]>>
      BY <1>0, <2>3 DEF MemoryTypeOK, Goto
    <3> QED BY <1>15, <2>1, <2>3, <3>1
  <2> QED BY <1>18, <2>2, <2>3 DEF Recheck
<1>19. ASSUME UNCHANGED <<writer, draft, job, session, outcome>>,
              \A y \in Executors : pc'[y] \in Claimed => pc'[y] = pc[y]
       PROVE  Held'
  BY <1>2, <1>19
<1>20. ASSUME NEW x \in Executors, Candidate(x) PROVE Held'
  <2>1. UNCHANGED <<writer, draft>>
    BY <1>20 DEF Candidate, database, row, drafts
  <2>2. CASE Leave(x, "done")
    BY <1>4, <2>1, <2>2
  <2>3. CASE (Goto(x, "claim") \/ Goto(x, "cancelRequested")) /\ UNCHANGED <<job, memory>>
    BY <1>0, <1>19, <2>1, <2>3 DEF Goto, MemoryTypeOK, Claimed, Running, memory
  <2> QED BY <1>20, <2>2, <2>3 DEF Candidate
<1>21. ASSUME NEW x \in Executors, BeginDraft(x) PROVE Held'
  <2> DEFINE base == analysis[conversation[job[x]]].revision
             new == [base |-> base, revision |-> base + 1, final |-> FALSE]
             begun == IF draft[job[x]] # NoDraft THEN draft[job[x]] ELSE new
  <2>1. /\ job[x] \in Generations /\ conversation[job[x]] \in Conversations
        /\ writer[job[x]] = x /\ pc[x] = "run" /\ outcome[x] = "none"
        /\ UNCHANGED <<writer, pc, job, outcome>>
    BY <1>0, <1>21 DEF BeginDraft, Owned, JobKnown, Located, DatabaseTypeOK, row, Decided
  <2>2. draft' = [draft EXCEPT ![job[x]] = begun] /\ session' = [session EXCEPT ![x] = begun.revision]
    BY <1>21 DEF BeginDraft
  <2>3. new # NoDraft
    <3>1. base \in Nat
      BY <1>0, <2>1 DEF DatabaseTypeOK
    <3>2. new.revision # 0
      BY <3>1
    <3> QED BY <3>2 DEF NoDraft
  <2>4. begun # NoDraft
    BY <2>3
  <2> HIDE DEF base, new, begun
  <2>5. /\ draft'[job[x]] = begun /\ session'[x] = begun.revision
        /\ \A g \in Generations : g # job[x] => UNCHANGED draft[g]
        /\ \A y \in Executors : y # x => UNCHANGED session[y]
    BY <1>0, <2>1, <2>2 DEF DatabaseTypeOK, MemoryTypeOK
  <2>6. \A y \in Executors : Writing(y) /\ y # x => job[y] \in Generations /\ job[y] # job[x]
    BY <1>0, <2>1 DEF JobKnown, Claimed, Running, Located
  <2> QED BY <2>1, <2>4, <2>5, <2>6 DEF Held
<1>22. ASSUME NEW x \in Executors, NEW final \in BOOLEAN, Save(x, final) PROVE Held'
  <2>1. /\ job[x] \in Generations /\ writer[job[x]] = x /\ pc[x] = "run" /\ outcome[x] = "none"
        /\ session[x] \in Nat /\ draft[job[x]] \in Draft
        /\ UNCHANGED <<writer, job, outcome>>
    BY <1>0, <1>22 DEF Save, Owned, JobKnown, Located, DatabaseTypeOK, MemoryTypeOK, row, Decided
  <2>2. /\ draft'[job[x]].revision = session[x] + 1 /\ draft'[job[x]].final = final
        /\ session'[x] = session[x] + 1
        /\ pc'[x] = IF final THEN "wrapup" ELSE "run"
        /\ \A g \in Generations : g # job[x] => UNCHANGED draft[g]
        /\ \A y \in Executors : y # x => UNCHANGED <<session[y], pc[y]>>
    BY <1>0, <1>22, <2>1 DEF Save, Goto, DatabaseTypeOK, MemoryTypeOK, Draft
  <2>3. draft'[job[x]] # NoDraft
    BY <2>1, <2>2 DEF NoDraft
  <2>4. \A y \in Executors : Writing(y) /\ y # x => job[y] \in Generations /\ job[y] # job[x]
    BY <1>0, <2>1 DEF JobKnown, Claimed, Running, Located
  <2> QED BY <2>1, <2>2, <2>3, <2>4 DEF Held
<1>23. ASSUME NEW x \in Executors, NEW g \in Generations, StartJob(x, g) PROVE Held'
  <2>1. \A y \in Executors : pc'[y] \in Claimed => pc[y] = pc'[y] /\ UNCHANGED job[y]
    BY <1>0, <1>23 DEF StartJob, Goto, MemoryTypeOK, Claimed, Running
  <2> QED BY <1>2, <1>23, <2>1 DEF StartJob, database, row, drafts, memory
<1>24. ASSUME NEW x \in Executors, Shell(x) PROVE Held'
  <2>1. CASE RunAborted(x)
    BY <1>0, <1>16, <2>1 DEF RunAborted, MemoryTypeOK, TerminalStatus
  <2> QED BY <1>24, <1>8, <1>9, <1>10, <1>12, <1>13, <1>14, <1>17, <1>18, <1>20, <2>1 DEF Shell, CallFails, DrainThrows
<1>25. ASSUME NEW x \in Executors, Runtime(x) \/ Chain(x) PROVE Held'
  <2>1. CASE RunReturns(x) \/ RunFails(x)
    BY <1>16, <2>1 DEF RunReturns, RunFails, Running, TerminalStatus
  <2>2. CASE \E final \in BOOLEAN : Save(x, final)
    BY <1>22, <2>2
  <2>3. CASE Publish(x) \/ PublishFails(x) \/ Emit(x) \/ Checkpoint(x)
    BY <1>19, <2>3 DEF Publish, PublishFails, Emit, Checkpoint, database, row, drafts, memory
  <2> QED BY <1>21, <1>25, <2>1, <2>2, <2>3 DEF Runtime, Chain
<1>26. CASE (\E g \in Generations, c \in Conversations : Create(g, c)) \/ (\E g \in Generations : Cancel(g) \/ Age(g))
  BY <1>19, <1>26 DEF Create, Cancel, Age, drafts, memory
<1>27. ASSUME NEW x \in Executors, CancelPoll(x) \/ Timeout(x) \/ Heartbeat(x) PROVE Held'
  BY <1>19, <1>27 DEF CancelPoll, Timeout, AbortAs, Heartbeat, database, row, drafts, memory
<1>28. CASE UNCHANGED vars
  BY <1>19, <1>28 DEF vars, database, row, drafts, memory
<1> QED BY <1>7, <1>11, <1>14, <1>23, <1>24, <1>25, <1>26, <1>27, <1>28 DEF Next, Api

-----------------------------------------------------------------------------
(* The whole of the inductive invariant. *)

THEOREM InductiveInvariant == Spec => []Inductive
<1> DEFINE Rest == Remembers /\ Accounted /\ SnapshotMatchesLog /\ Based /\ Held
<1>1. Init => Rest
  <2> SUFFICES ASSUME Init PROVE Rest
    OBVIOUS
  <2>1. Remembers
    BY DEF Init, Remembers
  <2>2. Accounted
    BY DEF Init, Accounted, Claimed, Running
  <2>3. SnapshotMatchesLog
    BY DEF Init, SnapshotMatchesLog
  <2>4. Based
    BY DEF Init, Based
  <2>5. Held
    BY DEF Init, Held, Claimed, Running
  <2> QED BY <2>1, <2>2, <2>3, <2>4, <2>5
<1>2. Settled /\ Rest /\ [Next]_vars => Rest'
  <2> SUFFICES ASSUME Settled, Rest, [Next]_vars PROVE Rest'
    OBVIOUS
  <2>1. Remembers'
    BY RemembersStep DEF Settled
  <2>2. Accounted' /\ SnapshotMatchesLog'
    BY AccountedStep, SnapshotStep
  <2>3. Based' /\ Held'
    BY BasedStep, HeldStep
  <2> QED BY <2>1, <2>2, <2>3
<1>3. Settled /\ Rest => Inductive
  BY DEF Settled, RowsAgree, Executions, RecordsAgree, Inductive
<1> HIDE DEF Rest
<1>4. Spec => []Rest
  BY <1>1, <1>2, SettledInvariant, PTL DEF Spec
<1> QED BY <1>3, <1>4, SettledInvariant, PTL

(* A completed answer's stored blocks and its log agree: publishes that     *)
(* failed, that were still queued or that lost their row never leave a     *)
(* completion behind (drain, finalize).                                    *)
THEOREM SnapshotCorrect == Spec => []SnapshotMatchesLog
<1>1. Inductive => SnapshotMatchesLog
  BY DEF Inductive
<1> QED BY <1>1, InductiveInvariant, PTL

(* promoteAnalysisDraft never rejects the draft of a good run: nobody else *)
(* moves the committed state of a conversation with an unfinished answer.  *)
THEOREM DraftFresh == Spec => []DraftStaysFresh
<1>1. Inductive => DraftStaysFresh
  <2> SUFFICES ASSUME Inductive, NEW x \in Executors
               PROVE  LET g == job[x] IN
                      /\ pc[x] \in Running \cup {"drain", "finalize"} /\ session[x] # 0 /\ writer[g] = x =>
                           /\ draft[g].base = analysis[conversation[g]].revision
                           /\ draft[g].revision = session[x]
                      /\ pc[x] = "finalize" /\ CanFinalize(x, g, "completed") /\ outcome[x] = "completed" =>
                           draft[g].final /\ ~DraftRejected(g)
    BY DEF DraftStaysFresh
  <2>1. ASSUME pc[x] \in Claimed, writer[job[x]] = x
        PROVE  /\ job[x] \in Generations
               /\ draft[job[x]] # NoDraft => draft[job[x]].base = analysis[conversation[job[x]]].revision
    <3>1. job[x] \in Generations
      BY <2>1 DEF Inductive, JobKnown, Claimed, Running, Located
    <3>2. Active(job[x])
      BY <2>1, <3>1, GenerationAssumption DEF Inductive, RecordsAgree, WriterAgrees, WriterStatus, Active, ActiveStatus
    <3> QED BY <3>1, <3>2 DEF Inductive, Based
  <2>2. ASSUME pc[x] \in Claimed, writer[job[x]] = x
        PROVE  /\ session[x] # 0 => draft[job[x]] # NoDraft /\ draft[job[x]].revision = session[x]
               /\ outcome[x] = "completed" => draft[job[x]] # NoDraft /\ draft[job[x]].final
    BY <2>2 DEF Inductive, Held
  <2> QED BY <2>1, <2>2 DEF Claimed, CanFinalize, DraftRejected
<1> QED BY <1>1, InductiveInvariant, PTL

(* Only a completion moves the committed state of a conversation that still *)
(* exists, to the finished draft of the generation that completed.          *)
THEOREM CommitsCompletions == Spec => CommitsOnlyCompletions
<1> DEFINE Commits == \A c \in Conversations :
             analysis'[c] # analysis[c] /\ c \in live' =>
               \E g \in Members(c) :
                 /\ status[g] # "completed" /\ status'[g] = "completed"
                 /\ analysis'[c] = [revision |-> draft[g].revision, generation |-> g]
                 /\ draft[g].final
                 /\ analysis'[c].revision > analysis[c].revision
<1>1. Inductive /\ [Next]_vars => Commits
  <2> SUFFICES ASSUME Inductive, [Next]_vars, NEW c \in Conversations, analysis'[c] # analysis[c], c \in live'
               PROVE  \E g \in Members(c) :
                        /\ status[g] # "completed" /\ status'[g] = "completed"
                        /\ analysis'[c] = [revision |-> draft[g].revision, generation |-> g]
                        /\ draft[g].final
                        /\ analysis'[c].revision > analysis[c].revision
    OBVIOUS
  <2>0. DatabaseTypeOK /\ MemoryTypeOK
    BY DEF Inductive, TypeOK
  <2>1. ASSUME NEW x \in Executors, Finalize(x)
        PROVE  \E g \in Members(c) :
                 /\ status[g] # "completed" /\ status'[g] = "completed"
                 /\ analysis'[c] = [revision |-> draft[g].revision, generation |-> g]
                 /\ draft[g].final
                 /\ analysis'[c].revision > analysis[c].revision
    <3>1. /\ job[x] \in Generations /\ pc[x] = "finalize" /\ writer[job[x]] = x
          /\ Active(job[x])
      BY <2>1 DEF Finalize, CanFinalize, Inductive, JobKnown, Located, WriterStatus, Active, ActiveStatus
    <3>2. /\ outcome[x] = "completed" /\ conversation[job[x]] = c
          /\ analysis'[c] = [revision |-> draft[job[x]].revision, generation |-> job[x]]
      BY <2>0, <2>1 DEF Finalize, Promote, DatabaseTypeOK
    <3>3. draft[job[x]] # NoDraft /\ draft[job[x]].final
      BY <3>1, <3>2 DEF Inductive, Held, Claimed
    <3>4. draft[job[x]].revision > analysis[c].revision
      BY <3>1, <3>2, <3>3 DEF Inductive, Based
    <3>5. status[job[x]] # "completed" /\ status'[job[x]] = "completed"
      BY <2>1, <3>1, <3>2 DEF Finalize, Settle, Active, ActiveStatus
    <3>6. job[x] \in Members(c)
      BY <3>1, <3>2 DEF Members
    <3> QED BY <3>2, <3>3, <3>4, <3>5, <3>6
  <2>2. ASSUME UNCHANGED analysis PROVE FALSE
    BY <2>2
  <2>3. ASSUME NEW d \in Conversations, DeleteConversation(d) PROVE FALSE
    <3>1. c # d
      BY <2>3 DEF DeleteConversation
    <3>2. analysis'[c] = analysis[c]
      BY <2>0, <2>3, <3>1 DEF DeleteConversation, DatabaseTypeOK
    <3> QED BY <3>2
  <2>4. CASE (\E g \in Generations : Cancel(g) \/ Age(g)) \/ (\E g \in Generations, d \in Conversations : Create(g, d)) \/ FailStale
    BY <2>2, <2>4 DEF Create, Cancel, Age, FailStale, drafts
  <2>5. ASSUME NEW x \in Executors, Shell(x), ~Finalize(x) PROVE FALSE
    BY <2>5, <2>2
    DEF Shell, Candidate, ReadRequest, CallFails, RunAborted, EndRun, Drain, DrainThrows, FinalizeRefused, Recheck,
        Throw, InsertAttempt, Claim, MarkRunning, FinalizeUnclaimed, FailQueued, database, drafts
  <2>6. ASSUME NEW x \in Executors, Runtime(x) \/ Chain(x) PROVE FALSE
    BY <2>6, <2>2
    DEF Runtime, Chain, Publish, PublishFails, Emit, RunReturns, RunFails, EndRun, Save,
        BeginDraft, Checkpoint, database, drafts
  <2>7. ASSUME NEW x \in Executors, Heartbeat(x) \/ CancelPoll(x) \/ Timeout(x) \/ Crash(x) PROVE FALSE
    BY <2>7, <2>2 DEF Heartbeat, CancelPoll, Timeout, AbortAs, Crash, database, drafts
  <2>8. CASE (\E x \in Executors, g \in Generations : StartJob(x, g)) \/ UNCHANGED vars
    BY <2>2, <2>8 DEF StartJob, vars, database, drafts
  <2> QED BY <2>1, <2>3, <2>4, <2>5, <2>6, <2>7, <2>8 DEF Next, Api
<1>2. Inductive /\ [Next]_vars => [Commits]_vars
  BY <1>1
<1> HIDE DEF Commits
<1>3. Spec => [][Commits]_vars
  BY <1>2, InductiveInvariant, PTL DEF Spec
<1> QED BY <1>3 DEF CommitsOnlyCompletions, Commits
-----------------------------------------------------------------------------
(* The promise. *)

Open == {"pending", "starting", "running"}

(* What Inductive does not say: a run that ends as cancelled saw a cancel    *)
(* request, or no row, and a row that is not open is never opened again.    *)
CancelKnown ==
  \A x \in Executors :
    /\ abort[x] # "none" => pc[x] \in Running \cup {"drain", "finalize", "recheck"}
    /\ abort[x] = "cancelled" \/ outcome[x] = "cancelled" => status[job[x]] \notin Open

-----------------------------------------------------------------------------
(* Cancelled runs. *)

(* No step opens a row that was inserted and is not open. *)
LEMMA NeverReopened ==
  ASSUME TypeOK, JobKnown, RowsAgree, Decided, [Next]_vars, NEW g \in Generations,
         conversation[g] # None, status[g] \notin Open
  PROVE  status'[g] \notin Open
<1>0. DatabaseTypeOK
  BY DEF TypeOK
<1>1. CASE UNCHANGED status
  BY <1>1
<1>2. ASSUME NEW S, S \subseteq Generations, NEW verdict, \A h \in S : verdict[h] \in TerminalStatus,
             Settle(S, verdict)
      PROVE  status'[g] \notin Open
  BY <1>2 DEF Settle, TerminalStatus, Open
<1>3. CASE Api
  <2>1. ASSUME NEW h \in Generations, NEW c \in Conversations, Create(h, c) PROVE status'[g] \notin Open
    BY <1>0, <2>1 DEF Create, DatabaseTypeOK
  <2>2. ASSUME NEW h \in Generations, Cancel(h) PROVE status'[g] \notin Open
    BY <1>0, <2>2 DEF Cancel, Open, DatabaseTypeOK
  <2>3. ASSUME NEW c \in Conversations, DeleteConversation(c) PROVE status'[g] \notin Open
    BY <2>3 DEF DeleteConversation, Open
  <2> QED BY <1>3, <2>1, <2>2, <2>3 DEF Api
<1>4. CASE FailStale
  <2> DEFINE S == {h \in Generations : Stale(h)}
             verdict == [h \in S |-> IF status[h] = "cancel_requested" THEN "cancelled" ELSE "failed"]
  <2>1. Settle(S, verdict)
    BY <1>4 DEF FailStale
  <2>2. \A h \in S : verdict[h] \in TerminalStatus
    BY DEF TerminalStatus
  <2>3. S \subseteq Generations
    OBVIOUS
  <2> HIDE DEF S, verdict
  <2> QED BY <1>2, <2>1, <2>2, <2>3
<1>5. ASSUME NEW x \in Executors, FinalizeUnclaimed(x) \/ FailQueued(x) PROVE status'[g] \notin Open
  <2>1. PICK S \in SUBSET Generations, v \in {"cancelled", "failed"} : Settle(S, [h \in S |-> v])
    BY <1>5 DEF FinalizeUnclaimed, FailQueued, JobKnown, Located
  <2> DEFINE verdict == [h \in S |-> v]
  <2>2. \A h \in S : verdict[h] \in TerminalStatus
    BY DEF TerminalStatus
  <2>3. Settle(S, verdict)
    BY <2>1
  <2> HIDE DEF verdict
  <2> QED BY <1>2, <2>2, <2>3
<1>6. ASSUME NEW x \in Executors, Finalize(x) PROVE status'[g] \notin Open
  <2> DEFINE S == {job[x]}
             verdict == [h \in S |-> outcome[x]]
  <2>1. Settle(S, verdict)
    BY <1>6 DEF Finalize
  <2>2. job[x] \in Generations
    BY <1>6 DEF Finalize, JobKnown, Located
  <2>3. S \subseteq Generations
    BY <2>2
  <2>4. outcome[x] \in TerminalStatus
    BY <1>6 DEF Finalize, Decided, TypeOK, MemoryTypeOK
  <2>5. \A h \in S : verdict[h] \in TerminalStatus
    BY <2>4
  <2>6. PICK V, v : V = S /\ v = verdict
    OBVIOUS
  <2>7. V \subseteq Generations /\ (\A h \in V : v[h] \in TerminalStatus) /\ Settle(V, v)
    <3> HIDE DEF verdict, S
    <3> QED BY <2>1, <2>3, <2>5, <2>6
  <2> HIDE DEF verdict, S
  <2> QED BY <1>2, <2>7
<1>7. ASSUME NEW x \in Executors, Claim(x) \/ MarkRunning(x) PROVE status'[g] \notin Open
  BY <1>0, <1>7 DEF Claim, Claimable, MarkRunning, Open, DatabaseTypeOK, row
<1>8. ASSUME NEW x \in Executors, Shell(x) PROVE status'[g] \notin Open
  BY <1>8, <1>1, <1>5, <1>6, <1>7
  DEF Shell, Candidate, ReadRequest, CallFails, RunAborted, EndRun, Drain, DrainThrows, FinalizeRefused, Recheck,
      Throw, InsertAttempt, database, row
<1>9. ASSUME NEW x \in Executors, Runtime(x) \/ Chain(x) PROVE status'[g] \notin Open
  BY <1>9, <1>1 DEF Runtime, Chain, Publish, PublishFails, Emit, Checkpoint, BeginDraft, Save, RunReturns, RunFails,
                    EndRun, database, row
<1>10. CASE \/ \E x \in Executors : Heartbeat(x) \/ CancelPoll(x) \/ Timeout(x) \/ Crash(x)
            \/ \E h \in Generations : Age(h)
            \/ \E x \in Executors, h \in Generations : StartJob(x, h)
            \/ UNCHANGED vars
  BY <1>10, <1>1 DEF Heartbeat, CancelPoll, Timeout, AbortAs, Crash, Age, StartJob, vars, database, row
<1> QED BY <1>3, <1>4, <1>8, <1>9, <1>10 DEF Next

(* The executor whose signal or outcome a step sets. *)
LEMMA CancelStep ==
  ASSUME TypeOK, JobKnown, RowsAgree, Decided, CancelKnown, [Next]_vars
  PROVE  CancelKnown'
<1>0. MemoryTypeOK /\ DatabaseTypeOK
  BY DEF TypeOK
<1>1. \A g \in Generations : conversation[g] # None /\ status[g] \notin Open => status'[g] \notin Open
  BY NeverReopened
<1>2. \A x \in Executors :
        abort[x] = "cancelled" \/ outcome[x] = "cancelled" => pc[x] \in Located
  BY DEF CancelKnown, Decided, Running, Located
<1>3. \A x \in Executors : abort[x] = "cancelled" \/ outcome[x] = "cancelled" => status'[job[x]] \notin Open
  BY <1>1, <1>2 DEF CancelKnown, JobKnown
<1> DEFINE Kept(x) == UNCHANGED <<abort[x], outcome[x], job[x]>>
                      /\ (abort[x] # "none" => pc'[x] \in Running \cup {"drain", "finalize", "recheck"})
           Cleared(x) == abort'[x] = "none" /\ outcome'[x] = "none"
           Judged(x) == /\ abort'[x] # "none" => pc'[x] \in Running \cup {"drain", "finalize", "recheck"}
                        /\ abort'[x] = "cancelled" \/ outcome'[x] = "cancelled" => status'[job'[x]] \notin Open
<1>4. \A x \in Executors : Kept(x) \/ Cleared(x) => Judged(x)
  BY <1>3
<1>5. ASSUME UNCHANGED <<pc, job, abort, outcome>> PROVE CancelKnown'
  BY <1>3, <1>5 DEF CancelKnown
<1>6. ASSUME NEW x \in Executors, \A y \in Executors : y # x => UNCHANGED <<pc[y], job[y], abort[y], outcome[y]>>,
             Kept(x) \/ Cleared(x) \/ Judged(x)
      PROVE  CancelKnown'
  BY <1>3, <1>4, <1>6 DEF CancelKnown
<1>7. ASSUME NEW x \in Executors, NEW place, Leave(x, place) PROVE CancelKnown'
  BY <1>0, <1>6, <1>7 DEF Leave, Goto, MemoryTypeOK
<1>8. ASSUME NEW x \in Executors, NEW place, Goto(x, place), UNCHANGED <<job, abort, outcome>>,
             abort[x] = "none" \/ place \in Running \cup {"drain", "finalize", "recheck"}
      PROVE  CancelKnown'
  BY <1>0, <1>6, <1>8 DEF Goto, MemoryTypeOK
<1>9. ASSUME NEW x \in Executors, NEW verdict, AbortAs(x, verdict),
             verdict = "cancelled" => CancelRequested(job[x])
      PROVE  CancelKnown'
  <2>1. abort'[x] = verdict /\ pc'[x] = pc[x] /\ pc[x] \in Running /\ outcome'[x] = outcome[x] /\ job'[x] = job[x]
    BY <1>0, <1>9 DEF AbortAs, MemoryTypeOK
  <2>2. UNCHANGED status /\ \A y \in Executors : y # x => UNCHANGED <<pc[y], job[y], abort[y], outcome[y]>>
    BY <1>0, <1>9 DEF AbortAs, MemoryTypeOK, database, row
  <2>3. verdict = "cancelled" => status[job[x]] \notin Open
    BY <1>9 DEF CancelRequested, Open
  <2> QED BY <1>3, <1>6, <2>1, <2>2, <2>3
<1>10. ASSUME NEW x \in Executors, NEW verdict, EndRun(x, verdict), pc[x] \in Running,
              verdict = "cancelled" => abort[x] = "cancelled"
       PROVE  CancelKnown'
  <2>1. outcome'[x] = verdict /\ pc'[x] = "drain" /\ abort'[x] = abort[x] /\ job'[x] = job[x]
    BY <1>0, <1>10 DEF EndRun, Goto, MemoryTypeOK
  <2>2. \A y \in Executors : y # x => UNCHANGED <<pc[y], job[y], abort[y], outcome[y]>>
    BY <1>0, <1>10 DEF EndRun, Goto, MemoryTypeOK
  <2> QED BY <1>3, <1>6, <1>10, <2>1, <2>2
<1>11. ASSUME NEW x \in Executors, Recheck(x) PROVE CancelKnown'
  <2>1. CASE CancelRequested(job[x])
    <3>1. /\ outcome'[x] = "cancelled" /\ pc'[x] = "finalize" /\ UNCHANGED <<abort[x], job[x], status>>
          /\ \A y \in Executors : y # x => UNCHANGED <<pc[y], job[y], abort[y], outcome[y]>>
      BY <1>0, <1>11, <2>1 DEF Recheck, Goto, MemoryTypeOK, database, row
    <3>2. status[job[x]] \notin Open
      BY <2>1 DEF CancelRequested, Open
    <3> QED BY <1>3, <1>6, <3>1, <3>2
  <2>2. CASE ~CancelRequested(job[x])
    BY <1>7, <1>11, <2>2 DEF Recheck
  <2> QED BY <2>1, <2>2
<1>12. ASSUME NEW x \in Executors, FinalizeRefused(x) PROVE CancelKnown'
  <2>1. CASE outcome' = [outcome EXCEPT ![x] = "failed"] /\ UNCHANGED <<pc, job, abort>>
    BY <1>0, <1>3, <1>6, <2>1 DEF MemoryTypeOK, CancelKnown
  <2>2. CASE Leave(x, "done") \/ (Goto(x, "recheck") /\ UNCHANGED <<job, memory>>)
    BY <1>7, <1>8, <2>2 DEF memory
  <2> QED BY <1>12, <2>1, <2>2 DEF FinalizeRefused
<1>13. ASSUME NEW x \in Executors, pc[x] \notin Running \cup {"drain", "finalize", "recheck"} PROVE abort[x] = "none"
  BY <1>13 DEF CancelKnown
<1>14. ASSUME NEW x \in Executors,
              Candidate(x) \/ Claim(x) \/ InsertAttempt(x) \/ MarkRunning(x) \/ ReadRequest(x)
       PROVE  CancelKnown'
  BY <1>7, <1>8, <1>13, <1>14 DEF Candidate, Claim, InsertAttempt, MarkRunning, ReadRequest, memory, Running
<1>15. ASSUME NEW x \in Executors, Shell(x) PROVE CancelKnown'
  <2>1. CASE RunAborted(x)
    BY <1>10, <2>1 DEF RunAborted
  <2>2. CASE Drain(x)
    BY <1>8, <2>2 DEF Drain, memory
  <2>3. CASE FinalizeUnclaimed(x) \/ CallFails(x) \/ DrainThrows(x) \/ Finalize(x) \/ FailQueued(x)
    BY <1>7, <2>3 DEF FinalizeUnclaimed, CallFails, DrainThrows, Throw, Finalize, FailQueued
  <2> QED BY <1>11, <1>12, <1>14, <1>15, <2>1, <2>2, <2>3 DEF Shell
<1>16. ASSUME NEW x \in Executors, Runtime(x) \/ Chain(x) PROVE CancelKnown'
  <2>1. CASE RunReturns(x) \/ RunFails(x)
    BY <1>10, <2>1 DEF RunReturns, RunFails, Running
  <2>2. CASE \E final \in BOOLEAN : Save(x, final)
    BY <1>8, <2>2 DEF Save, Running
  <2> QED BY <1>5, <1>16, <2>1, <2>2 DEF Runtime, Chain, Emit, Publish, PublishFails, Checkpoint, BeginDraft, memory
<1>17. ASSUME NEW x \in Executors, CancelPoll(x) \/ Timeout(x) \/ Crash(x) \/ Heartbeat(x) PROVE CancelKnown'
  BY <1>5, <1>7, <1>9, <1>17 DEF CancelPoll, Timeout, Crash, Heartbeat, memory
<1>18. ASSUME NEW x \in Executors, NEW g \in Generations, StartJob(x, g) PROVE CancelKnown'
  <2>1. abort[x] = "none" /\ outcome[x] = "none"
    BY <1>0, <1>18 DEF StartJob, CancelKnown, Decided, Running, MemoryTypeOK
  <2>2. abort'[x] = "none" /\ outcome'[x] = "none"
    BY <1>18, <2>1 DEF StartJob, memory
  <2> QED BY <1>0, <1>6, <1>18, <2>2 DEF StartJob, Goto, memory, MemoryTypeOK
<1>19. CASE Api \/ FailStale \/ (\E g \in Generations : Age(g)) \/ UNCHANGED vars
  BY <1>5, <1>19 DEF Api, Create, Cancel, DeleteConversation, FailStale, Age, vars, memory
<1> QED BY <1>15, <1>16, <1>17, <1>18, <1>19 DEF Next

-----------------------------------------------------------------------------
(* The log as a sequence. *)

(* A number names one event. *)
LEMMA KindOf ==
  ASSUME NEW E, NEW e \in E, \A d, f \in E : d.sequence = f.sequence => d = f
  PROVE  (CHOOSE d \in E : d.sequence = e.sequence).kind = e.kind
  OBVIOUS

(* An event that is added is the last of the sequence, and nothing before   *)
(* it changes.                                                              *)
LEMMA LogsGrow ==
  ASSUME TypeOK, DoneClosesLog, DoneClosesLog', NEW S, S \subseteq Generations, NEW kind, AppendEvent(S, kind)
  PROVE  Logs' = [g \in Generations |-> IF g \in S THEN Append(Logs[g], kind[g]) ELSE Logs[g]]
<1>0. DatabaseTypeOK
  BY DEF TypeOK
<1> DEFINE Line(g) == [n \in 1..lastSequence[g] |-> KindAt(g, n)]
<1>1. Logs = [g \in Generations |-> Line(g)] /\ Logs' = [g \in Generations |-> Line(g)']
  BY DEF Logs
<1>2. ASSUME NEW g \in Generations, g \notin S PROVE Line(g)' = Line(g)
  <2>1. UNCHANGED <<lastSequence[g], events[g]>>
    BY <1>0, <1>2 DEF AppendEvent, DatabaseTypeOK
  <2> QED BY <2>1 DEF KindAt
<1>3. ASSUME NEW g \in S PROVE Line(g)' = Append(Line(g), kind[g])
  <2> DEFINE N == lastSequence[g]
             new == [sequence |-> N + 1, kind |-> kind[g]]
  <2>1. g \in Generations /\ N \in Nat
    BY <1>0, <1>3 DEF DatabaseTypeOK
  <2>2. lastSequence'[g] = N + 1 /\ events'[g] = events[g] \cup {new}
    BY <2>1 DEF AppendEvent
  <2>3. Numbered(g) /\ Numbered(g)'
    BY <2>1 DEF DoneClosesLog
  <2>4. ASSUME NEW n \in 1..N PROVE KindAt(g, n)' = KindAt(g, n)
    <3>1. PICK e \in events[g] : e.sequence = n
      BY <2>3 DEF Numbered
    <3>2. KindAt(g, n) = e.kind
      BY <2>3, <3>1, KindOf DEF Numbered, KindAt
    <3>3. e \in events'[g] /\ \A d, f \in events'[g] : d.sequence = f.sequence => d = f
      BY <2>2, <2>3, <3>1 DEF Numbered
    <3>4. (CHOOSE d \in events'[g] : d.sequence = n).kind = e.kind
      BY <3>1, <3>3, KindOf
    <3> QED BY <3>2, <3>4 DEF KindAt
  <2>5. ASSUME NEW n, n = N + 1 PROVE KindAt(g, n)' = kind[g]
    <3>1. new \in events'[g] /\ new.sequence = N + 1 /\ new.kind = kind[g]
      BY <2>2
    <3>2. \A d, f \in events'[g] : d.sequence = f.sequence => d = f
      BY <2>3 DEF Numbered
    <3>3. (CHOOSE d \in events'[g] : d.sequence = N + 1).kind = kind[g]
      BY <3>1, <3>2, KindOf
    <3> QED BY <2>5, <3>3 DEF KindAt
  <2>6. Line(g)' = [n \in 1..(N + 1) |-> KindAt(g, n)']
    BY <2>2
  <2>7. Append(Line(g), kind[g]) = [n \in 1..(N + 1) |-> IF n = N + 1 THEN kind[g] ELSE Line(g)[n]]
    <3> DEFINE T == {Line(g)[n] : n \in 1..N} \cup {kind[g]}
    <3>1. Line(g) \in Seq(T) /\ Len(Line(g)) = N /\ kind[g] \in T
      <4>1. kind[g] \in T /\ \A n \in 1..N : Line(g)[n] \in T
        OBVIOUS
      <4>2. Line(g) \in [1..N -> T]
        <5> HIDE DEF T
        <5> QED BY <4>1
      <4> HIDE DEF T, Line
      <4> QED BY <2>1, <4>1, <4>2
    <3> HIDE DEF T, Line
    <3>2. /\ Append(Line(g), kind[g]) \in Seq(T)
          /\ Len(Append(Line(g), kind[g])) = N + 1
          /\ \A i \in 1..N : Append(Line(g), kind[g])[i] = Line(g)[i]
          /\ Append(Line(g), kind[g])[N + 1] = kind[g]
      BY <3>1, AppendProperties
    <3> QED BY <2>1, <3>1, <3>2
  <2>8. \A n \in 1..(N + 1) : KindAt(g, n)' = IF n = N + 1 THEN kind[g] ELSE Line(g)[n]
    BY <2>1, <2>4, <2>5
  <2> QED BY <2>6, <2>7, <2>8
<1> QED BY <1>1, <1>2, <1>3

LEMMA LogGrows ==
  ASSUME TypeOK, DoneClosesLog, DoneClosesLog', NEW g \in Generations, NEW k, AppendEvent({g}, [h \in {g} |-> k])
  PROVE  Logs' = [Logs EXCEPT ![g] = Append(@, k)]
<1>1. PICK S, kind : S = {g} /\ kind = [h \in {g} |-> k]
  OBVIOUS
<1>2. AppendEvent(S, kind) /\ S \subseteq Generations
  BY <1>1
<1>3. Logs' = [h \in Generations |-> IF h \in S THEN Append(Logs[h], kind[h]) ELSE Logs[h]]
  BY <1>2, LogsGrow
<1>4. Logs = [h \in Generations |-> Logs[h]]
  BY DEF Logs
<1>5. kind[g] = k /\ \A h : h \in S <=> h = g
  BY <1>1
<1> QED BY <1>3, <1>4, <1>5

-----------------------------------------------------------------------------
(* Every step is a step of the promise or changes nothing of it. *)

LEMMA SamePhases ==
  ASSUME UNCHANGED <<log, conversation, analysis>>, \A g \in Generations : PhaseOf(g)' = PhaseOf(g)
  PROVE  UNCHANGED Promised!promise
<1>1. UNCHANGED Logs
  BY DEF Logs, KindAt, log
<1>2. UNCHANGED Phases
  BY DEF Phases
<1>3. UNCHANGED Committed
  BY DEF Committed
<1> QED BY <1>1, <1>2, <1>3 DEF Promised!promise

LEMMA SameStatus ==
  ASSUME UNCHANGED <<status, log, conversation, analysis>>
  PROVE  UNCHANGED Promised!promise
<1>1. \A g \in Generations : PhaseOf(g)' = PhaseOf(g)
  BY DEF PhaseOf
<1> QED BY <1>1, SamePhases

(* Whoever settles a row closes the answer. *)
LEMMA SettleCloses ==
  ASSUME TypeOK, DoneClosesLog, DoneClosesLog', NEW S, S \subseteq Generations,
         NEW verdict, \A g \in S : verdict[g] \in TerminalStatus, Settle(S, verdict), UNCHANGED conversation
  PROVE  Promised!Close(S, verdict)
<1>1. Logs' = [g \in Generations |-> IF g \in S THEN Append(Logs[g], verdict[g]) ELSE Logs[g]]
  BY LogsGrow DEF Settle
<1>2. ASSUME NEW g \in Generations PROVE PhaseOf(g)' = IF g \in S THEN verdict[g] ELSE PhaseOf(g)
  <2>1. status'[g] = IF g \in S THEN verdict[g] ELSE status[g]
    BY DEF Settle
  <2>2. CASE g \in S
    BY <2>1, <2>2 DEF PhaseOf, TerminalStatus
  <2>3. CASE g \notin S
    BY <2>1, <2>3 DEF PhaseOf
  <2> QED BY <2>2, <2>3
<1>3. Phases' = [g \in Generations |-> IF g \in S THEN verdict[g] ELSE Phases[g]]
  BY <1>2 DEF Phases
<1> QED BY <1>1, <1>3 DEF Promised!Close

(* All that is settled without a completion is given up. *)
LEMMA SettleGivesUp ==
  ASSUME TypeOK, DoneClosesLog, DoneClosesLog', NEW S \in SUBSET Generations,
         NEW verdict \in [S -> {"failed", "cancelled"}],
         \A g \in S : Active(g) /\ (verdict[g] = "cancelled" => status[g] = "cancel_requested"),
         Settle(S, verdict), UNCHANGED <<conversation, analysis>>
  PROVE  Promised!GiveUp(S)
<1>1. Promised!Close(S, verdict)
  BY SettleCloses DEF TerminalStatus
<1>2. ASSUME NEW g \in S
      PROVE  /\ Phases[g] \in Promised!Unfinished
             /\ verdict[g] = "cancelled" => Phases[g] = "cancelling"
  BY DEF Phases, PhaseOf, Promised!Unfinished, Active, ActiveStatus
<1>3. UNCHANGED Committed
  BY DEF Committed
<1> QED BY <1>1, <1>2, <1>3 DEF Promised!GiveUp

LEMMA CreateAsks ==
  ASSUME TypeOK, Blank, NEW g \in Generations, NEW c \in Conversations, Create(g, c)
  PROVE  Promised!Ask(g, c)
<1>0. DatabaseTypeOK /\ UNCHANGED <<log, analysis>>
  BY DEF TypeOK, Create, drafts
<1>1. /\ status[g] = "absent" /\ conversation[g] = None /\ c # None
      /\ \A h \in Generations : status'[h] = IF h = g THEN "pending" ELSE status[h]
      /\ \A h \in Generations : conversation'[h] = IF h = g THEN c ELSE conversation[h]
  BY <1>0, GenerationAssumption DEF Create, Blank, DatabaseTypeOK
<1>2. Phases[g] = "none"
  BY <1>1 DEF Phases, PhaseOf
<1>3. ASSUME NEW h \in Generations, conversation[h] = c PROVE Phases[h] \notin Promised!Unfinished
  <2>1. ~Active(h)
    BY <1>3 DEF Create, ConversationBusy, Members
  <2>2. status[h] \in {"absent"} \cup TerminalStatus
    BY <1>0, <2>1 DEF Active, DatabaseTypeOK
  <2> QED BY <1>1, <1>3, <2>2 DEF Phases, PhaseOf, Promised!Unfinished, TerminalStatus
<1>4. \A h \in Generations : PhaseOf(h)' = IF h = g THEN "open" ELSE PhaseOf(h)
  BY <1>1 DEF PhaseOf
<1>5. Phases' = [Phases EXCEPT ![g] = "open"]
  BY <1>4 DEF Phases
<1>6. UNCHANGED <<Logs, Committed>>
  BY <1>0 DEF Logs, KindAt, Committed, log
<1>7. conversation' = [conversation EXCEPT ![g] = c]
  BY DEF Create
<1> QED BY <1>2, <1>3, <1>5, <1>6, <1>7 DEF Promised!Ask

LEMMA CancelRequests ==
  ASSUME TypeOK, NEW g \in Generations, Cancel(g)
  PROVE  Promised!RequestCancel(g) \/ UNCHANGED Promised!promise
<1>0. DatabaseTypeOK /\ UNCHANGED <<log, conversation, analysis>>
  BY DEF TypeOK, Cancel, drafts, topology
<1>1. \A h \in Generations : status'[h] = IF h = g THEN "cancel_requested" ELSE status[h]
  BY <1>0 DEF Cancel, DatabaseTypeOK
<1>2. CASE status[g] = "cancel_requested"
  <2>1. UNCHANGED status
    BY <1>0, <1>2 DEF Cancel, DatabaseTypeOK
  <2> QED BY <1>0, <2>1, SameStatus
<1>3. CASE status[g] # "cancel_requested"
  <2>1. Phases[g] = "open"
    BY <1>3 DEF Cancel, Active, ActiveStatus, Phases, PhaseOf
  <2>2. \A h \in Generations : PhaseOf(h)' = IF h = g THEN "cancelling" ELSE PhaseOf(h)
    BY <1>0, <1>1 DEF PhaseOf
  <2>3. Phases' = [Phases EXCEPT ![g] = "cancelling"]
    BY <2>2 DEF Phases
  <2>4. UNCHANGED <<Logs, Committed>>
    BY <1>0 DEF Logs, KindAt, Committed, log
  <2> QED BY <1>0, <2>1, <2>3, <2>4 DEF Promised!RequestCancel
<1> QED BY <1>2, <1>3

LEMMA DeleteForgets ==
  ASSUME TypeOK, NEW c \in Conversations, DeleteConversation(c)
  PROVE  Promised!Forget(c)
<1>0. DatabaseTypeOK /\ UNCHANGED conversation /\ c # None
  BY GenerationAssumption DEF TypeOK, DeleteConversation
<1>1. \A g \in Generations : IF conversation[g] = c
                             THEN status'[g] = "absent" /\ lastSequence'[g] = 0
                             ELSE UNCHANGED <<status[g], lastSequence[g], events[g]>>
  BY DEF DeleteConversation
<1>2. \A g \in Generations : PhaseOf(g)' = IF conversation[g] = c THEN "gone" ELSE PhaseOf(g)
  BY <1>0, <1>1 DEF PhaseOf
<1>3. Phases' = [g \in Generations |-> IF conversation[g] = c THEN "gone" ELSE Phases[g]]
  BY <1>2 DEF Phases
<1>4. ASSUME NEW g \in Generations PROVE Logs'[g] = IF conversation[g] = c THEN <<>> ELSE Logs[g]
  <2>1. Logs'[g] = [n \in 1..lastSequence'[g] |-> (CHOOSE e \in events'[g] : e.sequence = n).kind]
    BY DEF Logs, KindAt
  <2>2. CASE conversation[g] = c
    <3>1. 1..0 = {}
      OBVIOUS
    <3> QED BY <1>1, <2>1, <2>2, <3>1
  <2>3. CASE conversation[g] # c
    <3>1. Logs[g] = [n \in 1..lastSequence[g] |-> (CHOOSE e \in events[g] : e.sequence = n).kind]
      BY DEF Logs, KindAt
    <3> QED BY <1>1, <2>1, <2>3, <3>1
  <2> QED BY <2>2, <2>3
<1>5. Logs' = [g \in Generations |-> IF conversation[g] = c THEN <<>> ELSE Logs[g]]
  <2>1. Logs' = [g \in Generations |-> Logs'[g]]
    BY DEF Logs
  <2> QED BY <1>4, <2>1
<1>6. Committed' = [Committed EXCEPT ![c] = 0]
  <2>1. \A d \in Conversations : analysis'[d].revision = IF d = c THEN 0 ELSE analysis[d].revision
    BY <1>0 DEF DeleteConversation, NoAnalysis, DatabaseTypeOK
  <2> QED BY <2>1 DEF Committed
<1> QED BY <1>0, <1>3, <1>5, <1>6 DEF Promised!Forget

LEMMA PublishTells ==
  ASSUME TypeOK, JobKnown, DoneClosesLog, DoneClosesLog', NEW x \in Executors, Publish(x)
  PROVE  Promised!Tell(job[x])
<1> DEFINE g == job[x]
<1>1. g \in Generations /\ status[g] \in WriterStatus /\ UNCHANGED <<status, conversation, analysis>>
  BY DEF Publish, Owned, JobKnown, Running, Located, row, drafts, topology
<1>2. AppendEvent({g}, [h \in {g} |-> "content"])
  BY DEF Publish
<1>3. Logs' = [Logs EXCEPT ![g] = Append(@, "content")]
  <2> HIDE DEF g
  <2> QED BY <1>1, <1>2, LogGrows
<1>4. Phases[g] = "open"
  BY <1>1 DEF Phases, PhaseOf, WriterStatus
<1>5. UNCHANGED <<Phases, Committed>>
  BY <1>1 DEF Phases, PhaseOf, Committed
<1> QED BY <1>1, <1>3, <1>4, <1>5 DEF Promised!Tell

LEMMA FinalizeCloses ==
  ASSUME Inductive, DoneClosesLog', CancelKnown, NEW x \in Executors, Finalize(x)
  PROVE  Promised!Complete(job[x]) \/ Promised!GiveUp({job[x]})
<1> DEFINE g == job[x]
           verdict == [h \in {g} |-> outcome[x]]
<1>1. /\ g \in Generations /\ conversation[g] \in Conversations
      /\ status[g] \in WriterStatus \cup {"cancel_requested"}
      /\ outcome[x] = "completed" => status[g] # "cancel_requested" /\ ~DraftRejected(g)
      /\ Settle({g}, verdict) /\ Promote(g, outcome[x]) /\ UNCHANGED conversation
  BY DEF Inductive, Finalize, CanFinalize, JobKnown, Located, TypeOK, DatabaseTypeOK, topology
<1>2. outcome[x] \in TerminalStatus /\ (outcome[x] = "cancelled" => status[g] = "cancel_requested")
  <2>1. outcome[x] \in TerminalStatus
    BY DEF Inductive, Finalize, Decided, TypeOK, MemoryTypeOK
  <2>2. outcome[x] = "cancelled" => status[g] \notin Open
    BY DEF CancelKnown
  <2> QED BY <1>1, <2>1, <2>2 DEF Open, WriterStatus
<1>3. CASE outcome[x] = "completed"
  <2>1. Promised!Close({g}, verdict)
    <3>1. \A h \in {g} : verdict[h] \in TerminalStatus
      BY <1>3 DEF TerminalStatus
    <3> HIDE DEF verdict
    <3> QED BY <1>1, <3>1, SettleCloses DEF Inductive
  <2>2. Promised!Close({g}, [h \in {g} |-> "completed"])
    BY <1>3, <2>1
  <2>3. Phases[g] = "open"
    BY <1>1, <1>3 DEF Phases, PhaseOf, WriterStatus
  <2> DEFINE c == conversation[g]
  <2>4. analysis' = [analysis EXCEPT ![c] = [revision |-> draft[g].revision, generation |-> g]]
    BY <1>1, <1>3 DEF Promote
  <2>5. /\ draft[g].revision > analysis[c].revision
        /\ draft[g].revision \in Nat /\ analysis[c].revision \in Nat
    <3>1. draft[g] # NoDraft /\ draft[g].base = analysis[c].revision
      BY <1>1, <1>3 DEF DraftRejected
    <3> QED BY <1>1, <3>1 DEF Inductive, Based, TypeOK, DatabaseTypeOK, Draft
  <2>6. \A d \in Conversations : analysis'[d].revision = IF d = c THEN draft[g].revision ELSE analysis[d].revision
    BY <1>1, <2>4 DEF Inductive, TypeOK, DatabaseTypeOK
  <2>7. Committed'[c] = draft[g].revision /\ Committed[c] = analysis[c].revision
    BY <1>1, <2>6 DEF Committed
  <2>8. Committed' = [Committed EXCEPT ![c] = draft[g].revision]
    BY <2>6 DEF Committed
  <2> QED BY <2>2, <2>3, <2>5, <2>7, <2>8 DEF Promised!Complete
<1>4. CASE outcome[x] # "completed"
  <2>1. verdict \in [{g} -> {"failed", "cancelled"}] /\ {g} \in SUBSET Generations
    BY <1>1, <1>2, <1>4 DEF TerminalStatus
  <2>2. \A h \in {g} : Active(h) /\ (verdict[h] = "cancelled" => status[h] = "cancel_requested")
    BY <1>1, <1>2 DEF Active, ActiveStatus, WriterStatus
  <2>3. UNCHANGED analysis
    BY <1>1, <1>4 DEF Promote
  <2> HIDE DEF verdict
  <2> QED BY <1>1, <2>1, <2>2, <2>3, SettleGivesUp DEF Inductive
<1> QED BY <1>3, <1>4

-----------------------------------------------------------------------------
LEMMA PromiseStep ==
  ASSUME Inductive, Inductive', CancelKnown, [Next]_vars
  PROVE  [Promised!Next]_(Promised!promise)
<1>0. TypeOK /\ JobKnown /\ Blank /\ DoneClosesLog /\ DoneClosesLog'
  BY DEF Inductive
<1> DEFINE Step == Promised!Next \/ UNCHANGED Promised!promise
<1>1. CASE Api
  <2>1. ASSUME NEW g \in Generations, NEW c \in Conversations, Create(g, c) PROVE Step
    BY <1>0, <2>1, CreateAsks DEF Promised!Next
  <2>2. ASSUME NEW g \in Generations, Cancel(g) PROVE Step
    BY <1>0, <2>2, CancelRequests DEF Promised!Next
  <2>3. ASSUME NEW c \in Conversations, DeleteConversation(c) PROVE Step
    BY <1>0, <2>3, DeleteForgets DEF Promised!Next
  <2> QED BY <1>1, <2>1, <2>2, <2>3 DEF Api
<1>2. CASE FailStale
  <2> DEFINE S == {g \in Generations : Stale(g)}
             verdict == [g \in S |-> IF status[g] = "cancel_requested" THEN "cancelled" ELSE "failed"]
  <2>1. S \in SUBSET Generations /\ verdict \in [S -> {"failed", "cancelled"}]
    OBVIOUS
  <2>2. \A g \in S : Active(g) /\ (verdict[g] = "cancelled" => status[g] = "cancel_requested")
    BY DEF Stale, Active, ActiveStatus
  <2>3. Settle(S, verdict) /\ UNCHANGED <<conversation, analysis>>
    BY <1>2 DEF FailStale, drafts, topology
  <2> HIDE DEF S, verdict
  <2>4. Promised!GiveUp(S)
    BY <1>0, <2>1, <2>2, <2>3, SettleGivesUp
  <2> QED BY <2>1, <2>4 DEF Promised!Next
<1>3. ASSUME NEW x \in Executors, FinalizeUnclaimed(x) \/ FailQueued(x) PROVE Step
  <2>0. job[x] \in Generations
    BY <1>0, <1>3 DEF FinalizeUnclaimed, FailQueued, JobKnown, Located
  <2>1. UNCHANGED <<conversation, analysis>>
    BY <1>3 DEF FinalizeUnclaimed, FailQueued, drafts, topology
  <2>2. ASSUME NEW S \in SUBSET Generations, NEW v \in {"cancelled", "failed"}, Settle(S, [h \in S |-> v]),
               \A g \in S : Active(g) /\ (v = "cancelled" => status[g] = "cancel_requested")
        PROVE  Step
    <3> DEFINE verdict == [h \in S |-> v]
    <3>1. verdict \in [S -> {"failed", "cancelled"}] /\ \A g \in S : verdict[g] = v
      OBVIOUS
    <3>2. Settle(S, verdict)
      BY <2>2
    <3> HIDE DEF verdict
    <3>3. Promised!GiveUp(S)
      BY <1>0, <2>1, <2>2, <3>1, <3>2, SettleGivesUp
    <3> QED BY <3>3 DEF Promised!Next
  <2>3. CASE FinalizeUnclaimed(x)
    <3> DEFINE S == IF writer[job[x]] = None /\ status[job[x]] = "cancel_requested" THEN {job[x]} ELSE {}
    <3>1. Settle(S, [h \in S |-> "cancelled"]) /\ S \in SUBSET Generations
      BY <2>0, <2>3 DEF FinalizeUnclaimed
    <3>2. \A g \in S : Active(g) /\ status[g] = "cancel_requested"
      BY DEF Active, ActiveStatus
    <3> HIDE DEF S, Step
    <3> QED BY <2>2, <3>1, <3>2
  <2>4. CASE FailQueued(x)
    <3> DEFINE S == IF Claimable(job[x]) THEN {job[x]} ELSE {}
    <3>1. Settle(S, [h \in S |-> "failed"]) /\ S \in SUBSET Generations
      BY <2>0, <2>4 DEF FailQueued
    <3>2. \A g \in S : Active(g)
      BY DEF Active, ActiveStatus, Claimable
    <3> HIDE DEF S, Step
    <3> QED BY <2>2, <3>1, <3>2
  <2> QED BY <1>3, <2>3, <2>4
<1>4. ASSUME NEW x \in Executors, Publish(x) PROVE Step
  <2>1. job[x] \in Generations
    BY <1>0, <1>4 DEF Publish, JobKnown, Running, Located
  <2> QED BY <1>0, <1>4, <2>1, PublishTells DEF Promised!Next
<1>5. ASSUME NEW x \in Executors, Finalize(x) PROVE Step
  <2>1. job[x] \in Generations
    BY <1>0, <1>5 DEF Finalize, JobKnown, Located
  <2> QED BY <1>0, <1>5, <2>1, FinalizeCloses DEF Promised!Next
<1>6. ASSUME NEW x \in Executors, Claim(x) \/ MarkRunning(x) PROVE Step
  <2>1. UNCHANGED <<log, conversation, analysis>>
    BY <1>6 DEF Claim, MarkRunning, drafts, topology
  <2>2. \A g \in Generations : PhaseOf(g)' = PhaseOf(g)
    BY <1>0, <1>6, <2>1 DEF Claim, Claimable, MarkRunning, PhaseOf, TypeOK, DatabaseTypeOK, row
  <2> QED BY <2>1, <2>2, SamePhases
<1>7. ASSUME NEW x \in Executors, Shell(x) PROVE Step
  <2>1. CASE FinalizeUnclaimed(x) \/ FailQueued(x) \/ Finalize(x) \/ Claim(x) \/ MarkRunning(x)
    BY <1>3, <1>5, <1>6, <2>1
  <2>2. CASE ~(FinalizeUnclaimed(x) \/ FailQueued(x) \/ Finalize(x) \/ Claim(x) \/ MarkRunning(x))
    BY <1>7, <2>2, SameStatus
    DEF Shell, Candidate, ReadRequest, CallFails, RunAborted, EndRun, Drain, DrainThrows, FinalizeRefused, Recheck,
        Throw, InsertAttempt, database, row, drafts, topology
  <2> QED BY <2>1, <2>2
<1>8. ASSUME NEW x \in Executors, Runtime(x) \/ Chain(x) PROVE Step
  BY <1>4, <1>8, SameStatus
  DEF Runtime, Chain, PublishFails, Emit, Checkpoint, BeginDraft, Save, RunReturns, RunFails, EndRun,
      database, row, drafts, topology
<1>9. CASE \/ \E x \in Executors : Heartbeat(x) \/ CancelPoll(x) \/ Timeout(x) \/ Crash(x)
           \/ \E h \in Generations : Age(h)
           \/ \E x \in Executors, h \in Generations : StartJob(x, h)
           \/ UNCHANGED vars
  BY <1>9, SameStatus
  DEF Heartbeat, CancelPoll, Timeout, AbortAs, Crash, Age, StartJob, vars, database, row, drafts, topology
<1> QED BY <1>1, <1>2, <1>7, <1>8, <1>9 DEF Next

(* KeepsPromise, for every value of the constants: whatever workers,        *)
(* tokens, monitors and retries do, what an API client and a reader of      *)
(* generation_event see is a behaviour of AnswerPromise.                    *)
THEOREM ImplementsPromise == Spec => KeepsPromise
<1>1. Init => Promised!Init
  <2> SUFFICES ASSUME Init PROVE Promised!Init
    OBVIOUS
  <2>1. Phases = [g \in Generations |-> "none"]
    BY DEF Init, Phases, PhaseOf
  <2>2. \A g \in Generations : [n \in 1..lastSequence[g] |-> KindAt(g, n)] = <<>>
    <3>1. 1..0 = {}
      OBVIOUS
    <3> QED BY <3>1 DEF Init
  <2>3. Logs = [g \in Generations |-> <<>>]
    BY <2>2 DEF Logs
  <2>4. Committed = [c \in Conversations |-> 0]
    BY DEF Init, Committed, NoAnalysis
  <2>5. conversation = [g \in Generations |-> None]
    BY DEF Init
  <2> QED BY <2>1, <2>3, <2>4, <2>5 DEF Promised!Init
<1>2. Init => CancelKnown
  BY DEF Init, CancelKnown
<1>3. Inductive /\ CancelKnown /\ [Next]_vars => CancelKnown'
  <2>1. Inductive => TypeOK /\ JobKnown /\ RowsAgree /\ Decided
    BY DEF Inductive, RowsAgree, RecordsAgree
  <2> QED BY <2>1, CancelStep
<1>4. Spec => []Inductive
  BY InductiveInvariant
<1>5. Spec => []CancelKnown
  BY <1>2, <1>3, <1>4, PTL DEF Spec
<1>6. Inductive /\ Inductive' /\ CancelKnown /\ [Next]_vars => [Promised!Next]_(Promised!promise)
  BY PromiseStep
<1> QED BY <1>1, <1>4, <1>5, <1>6, PTL DEF Spec, KeepsPromise, Promised!Spec
=============================================================================
