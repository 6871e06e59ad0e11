------------------------ MODULE GenerationInvariants ------------------------
(***************************************************************************)
(* The inductive invariant behind the safety properties of Generation: what *)
(* the code relies on between two statements and nowhere writes down.       *)
(***************************************************************************)
EXTENDS Generation

(* Places between a successful claim and the end of the job. *)
Claimed == {"attempt", "starting", "request"} \cup Running \cup {"drain", "finalize", "recheck"}

(* An executor that has a job was given one of a row that was inserted. *)
JobKnown ==
  \A x \in Executors : pc[x] \in Located => job[x] \in Generations /\ conversation[job[x]] # None

(* The run has ended exactly when its outcome is recorded. *)
Decided ==
  \A x \in Executors : pc[x] \in {"drain", "finalize", "recheck"} <=> outcome[x] # "none"

(* What an id without a row owns: nothing, before INSERT and after DELETE. *)
Blank ==
  \A g \in Generations :
    /\ conversation[g] = None => status[g] = "absent"
    /\ status[g] = "absent" =>
         /\ writer[g] = None /\ lastSequence[g] = 0 /\ events[g] = {}
         /\ attempts[g] = <<>> /\ message[g] = 0 /\ draft[g] = NoDraft

(* A pending row was never touched by an executor. *)
Fresh ==
  \A g \in Generations : status[g] = "pending" =>
    /\ writer[g] = None /\ lastSequence[g] = 0 /\ attempts[g] = <<>> /\ draft[g] = NoDraft
    /\ \A x \in Executors : pc[x] \in Claimed => job[x] # g

(* One executor at most has claimed a generation, for good. *)
Exclusive ==
  \A x, y \in Executors :
    pc[x] \in Claimed /\ pc[y] \in Claimed /\ job[x] = job[y] => x = y

Unattempted ==
  \A x \in Executors : pc[x] = "attempt" => attempts[job[x]] = <<>>

(* What an executor remembers, by place. *)
Remembers ==
  \A x \in Executors :
    /\ pc[x] \notin Running \cup {"drain", "finalize", "recheck"} =>
         blocks[x] = 0 /\ queue[x] = 0 /\ ~broken[x] /\ session[x] = 0
    /\ broken[x] => queue[x] = 0
    /\ pc[x] \in {"finalize", "recheck"} => queue[x] = 0 /\ (broken[x] => outcome[x] # "completed")

(* The writer's events are in the log or in its queue, in full, as long as *)
(* it may still complete.                                                  *)
Accounted ==
  \A x \in Executors :
    pc[x] \in Claimed /\ writer[job[x]] = x /\ ~broken[x] /\ outcome[x] \in {"none", "completed"} =>
      lastSequence[job[x]] + queue[x] = blocks[x]

(* Nobody commits under an unfinished answer, so its draft stays on the     *)
(* revision it was begun on.                                               *)
Based ==
  \A g \in Generations :
    /\ draft[g] # NoDraft => draft[g].revision > draft[g].base
    /\ Active(g) /\ draft[g] # NoDraft => draft[g].base = analysis[conversation[g]].revision

(* The writer knows its draft, and completes only with a finished one. *)
Held ==
  \A x \in Executors :
    pc[x] \in Claimed /\ writer[job[x]] = x =>
      /\ session[x] # 0 => draft[job[x]] # NoDraft /\ draft[job[x]].revision = session[x]
      /\ pc[x] = "wrapup" \/ outcome[x] = "completed" => draft[job[x]] # NoDraft /\ draft[job[x]].final

Inductive ==
  /\ TypeOK
  /\ JobKnown
  /\ Decided
  /\ Blank
  /\ Fresh
  /\ Exclusive
  /\ Unattempted
  /\ RecordsAgree
  /\ OneActive
  /\ DoneClosesLog
  /\ Remembers
  /\ Accounted
  /\ SnapshotMatchesLog
  /\ Based
  /\ Held
=============================================================================
