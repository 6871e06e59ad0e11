----------------------------- MODULE Migration -----------------------------
(***************************************************************************)
(* migrate-database, run beside a live API: one transaction that brings the *)
(* tables to the current schema and, with --reset-analysis, drops and       *)
(* recreates those of the conversations first.                             *)
(*                                                                         *)
(* Definitions marked "Faulty" are plausible bugs in the definition after  *)
(* them and not part of the specification.                                 *)
(***************************************************************************)
CONSTANTS
  Migrations,   \* runs of the script
  Requests,     \* requests to create a turn
  None

(* The tables, by what a migration does with them: conversation, generation *)
(* and the rest of a reset; analysis_state_draft and query_artifact, which  *)
(* also get the columns they lack; accounts, sources and policies; the      *)
(* retired business definitions.                                           *)
Kinds == {"answers", "drafts", "accounts", "retired"}
Analysis == Kinds \ {"accounts"}

VARIABLES
  shape,    \* of the tables: "none", "lacking" (the columns), "odd" or "current"
  answer,   \* of a request: in its transaction, "active", "settled", "dropped" or "lost"
  holder,   \* the migration with the advisory lock
  pc,       \* where it stands
  reset,    \* it was given --reset-analysis
  work,     \* the shapes as its transaction has left them
  migrated  \* one has committed

script == <<holder, pc, reset, work>>
vars == <<shape, answer, migrated, script>>

Init ==
  /\ shape \in [Kinds -> {"none", "lacking", "odd", "current"}]
  /\ shape["answers"] # "lacking" /\ shape["accounts"] # "lacking"
  /\ shape["retired"] \in {"none", "odd"}
  /\ answer = [q \in Requests |-> "none"]
  /\ holder = None /\ pc = "idle" /\ reset = FALSE /\ work = None
  /\ migrated = FALSE

-----------------------------------------------------------------------------
(* Locks *)

(* Faulty: the table is only read. *)
ExclusiveNever(table) == FALSE

(* A migration holds the table in ACCESS EXCLUSIVE MODE. *)
Exclusive(table) ==
  /\ reset
  /\ \/ pc \in {"locked", "checked", "cleared", "applied"}
     \/ pc = "half" /\ table = "conversation"

-----------------------------------------------------------------------------
(* createTurn, and an answer's end *)

(* The look for the idempotency key. *)
Read(q) ==
  /\ answer[q] = "none" /\ shape["answers"] = "current" /\ ~Exclusive("generation")
  /\ answer' = [answer EXCEPT ![q] = "read"]
  /\ UNCHANGED <<shape, migrated, script>>

(* SELECT ... FROM conversation ... FOR UPDATE, and the inserts. *)
Insert(q) ==
  /\ answer[q] = "read" /\ ~Exclusive("conversation")
  /\ answer' = [answer EXCEPT ![q] = "written"]
  /\ UNCHANGED <<shape, migrated, script>>

Accept(q) ==
  /\ answer[q] = "written"
  /\ answer' = [answer EXCEPT ![q] = "active"]
  /\ UNCHANGED <<shape, migrated, script>>

(* Any statement may fail; PostgreSQL also ends a deadlock this way. *)
RollBack(q) ==
  /\ answer[q] \in {"read", "written"}
  /\ answer' = [answer EXCEPT ![q] = "none"]
  /\ UNCHANGED <<shape, migrated, script>>

Settle(q) ==
  /\ answer[q] = "active" /\ ~Exclusive("generation")
  /\ answer' = [answer EXCEPT ![q] = "settled"]
  /\ UNCHANGED <<shape, migrated, script>>

-----------------------------------------------------------------------------
(* The script *)

(* The transaction and its advisory lock. *)
Begin(m) ==
  /\ holder = None
  /\ holder' = m
  /\ \E r \in BOOLEAN :
       /\ reset' = r
       /\ pc' = IF ~r THEN "plain" ELSE IF shape["answers"] = "none" THEN "checked" ELSE "begun"
  /\ work' = shape
  /\ UNCHANGED <<shape, answer, migrated>>

(* LOCK TABLE takes the tables one after the other, each once no open       *)
(* transaction uses it.                                                    *)
LockConversation ==
  /\ pc = "begun"
  /\ \A q \in Requests : answer[q] # "written"
  /\ pc' = "half"
  /\ UNCHANGED <<shape, answer, migrated, holder, reset, work>>

LockGeneration ==
  /\ pc = "half"
  /\ \A q \in Requests : answer[q] \notin {"read", "written"}
  /\ pc' = "locked"
  /\ UNCHANGED <<shape, answer, migrated, holder, reset, work>>

(* With an unfinished answer the script throws. *)
Check ==
  /\ pc = "locked"
  /\ \A q \in Requests : answer[q] # "active"
  /\ pc' = "checked"
  /\ UNCHANGED <<shape, answer, migrated, holder, reset, work>>

Drop ==
  /\ pc = "checked"
  /\ work' = [k \in Kinds |-> IF k \in Analysis THEN "none" ELSE work[k]]
  /\ pc' = "cleared"
  /\ UNCHANGED <<shape, answer, migrated, holder, reset>>

(* Without a reset: drop what is retired, add the columns that are lacking. *)
Alter ==
  /\ pc = "plain"
  /\ work' = [work EXCEPT !["retired"] = "none",
                          !["drafts"] = IF @ = "lacking" THEN "current" ELSE @]
  /\ pc' = "cleared"
  /\ UNCHANGED <<shape, answer, migrated, holder, reset>>

(* CREATE TABLE IF NOT EXISTS: a table that is there stays as it is. *)
Create ==
  /\ pc = "cleared"
  /\ work' = [k \in Kinds |-> IF k # "retired" /\ work[k] = "none" THEN "current" ELSE work[k]]
  /\ pc' = "applied"
  /\ UNCHANGED <<shape, answer, migrated, holder, reset>>

(* assertSchemaColumns: every column of the DDL exists with its type. *)
Fits(s) == \A k \in Kinds \ {"retired"} : s[k] \notin {"none", "lacking", "odd"}

(* The checks at the end pass; the transaction commits. *)
Commit ==
  /\ pc = "applied" /\ Fits(work) /\ work["retired"] = "none"
  /\ shape' = work
  /\ answer' = IF ~reset THEN answer
               ELSE [q \in Requests |-> CASE answer[q] = "active" -> "lost"
                                          [] answer[q] = "settled" -> "dropped"
                                          [] OTHER -> answer[q]]
  /\ migrated' = TRUE
  /\ holder' = None /\ pc' = "idle" /\ work' = None
  /\ UNCHANGED reset

(* A check throws, a lock or a statement takes too long, something unknown  *)
(* depends on a table, or the process dies: nothing has happened.          *)
Fail ==
  /\ holder # None
  /\ holder' = None /\ pc' = "idle" /\ work' = None
  /\ UNCHANGED <<shape, answer, migrated, reset>>

Next ==
  \/ \E q \in Requests : Read(q) \/ Insert(q) \/ Accept(q) \/ RollBack(q) \/ Settle(q)
  \/ \E m \in Migrations : Begin(m)
  \/ LockConversation \/ LockGeneration \/ Check \/ Drop \/ Alter \/ Create \/ Commit \/ Fail

Spec == Init /\ [][Next]_vars

-----------------------------------------------------------------------------
(* Properties *)

(* A reset takes no answer away that was accepted and has not ended, however *)
(* its steps and those of createTurn interleave.                           *)
NoneLost == \A q \in Requests : answer[q] # "lost"

(* After a migration has committed, the API and the worker start: they      *)
(* refuse a schema with a column missing or of another type.               *)
MigratedStarts == migrated => \A k \in Kinds \ {"retired"} : shape[k] = "current"
=============================================================================
