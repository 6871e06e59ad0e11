--------------------------------- MODULE Pool ---------------------------------
(***************************************************************************)
(* The two pools of connections: transactions of the application, and       *)
(* read-only queries of the agent that an abort cancels through another     *)
(* connection of their pool, while statements fail and connections break.   *)
(*                                                                         *)
(* Definitions marked "Faulty" are plausible bugs in the definition after    *)
(* them and not part of the specification.                                  *)
(***************************************************************************)
EXTENDS Naturals, Sequences, FiniteSets

CONSTANTS
  Connections,
  Agent,      \* those of the agent's pool
  Calls,      \* callers of withTransaction and queryReadOnly
  MaxCalls,   \* how many calls are begun
  None

VARIABLES
  call,       \* of each caller: [kind, at, on], what it does on which connection
  aborted,    \* callers whose signal is aborted
  cancels,    \* pg_cancel_backend statements that wait for a connection, by backend
  inTx,       \* connections inside a transaction
  broken,     \* connections that were lost
  calls

vars == <<call, aborted, cancels, inTx, broken, calls>>

Idle == [kind |-> None, at |-> "idle", on |-> None]

Init ==
  /\ call = [c \in Calls |-> Idle]
  /\ aborted = {} /\ cancels = {} /\ inTx = {} /\ broken = {}
  /\ calls = 0

Held == {call[c].on : c \in Calls} \ {None}

Free == Connections \ Held

PoolOf(kind) == IF kind = "read" THEN Agent ELSE Connections \ Agent

-----------------------------------------------------------------------------
(* Calls, one statement at a time *)

Begin(c, kind) ==
  /\ call[c] = Idle /\ calls < MaxCalls /\ calls' = calls + 1
  /\ call' = [call EXCEPT ![c] = [Idle EXCEPT !.kind = kind, !.at = "connect"]]
  /\ aborted' = aborted \ {c}
  /\ UNCHANGED <<cancels, inTx, broken>>

(* The pool hands out a free connection, a new one in place of a broken one. *)
Connect(c, k) ==
  /\ call[c].at = "connect" /\ k \in Free \cap PoolOf(call[c].kind)
  /\ call' = [call EXCEPT ![c].on = k, ![c].at = "begin"]
  /\ broken' = broken \ {k} /\ inTx' = inTx \ (broken \cap {k})
  /\ UNCHANGED <<aborted, cancels, calls>>

Released(c) == call' = [call EXCEPT ![c] = Idle]

(* Faulty: who is refused for an abort keeps the connection. *)
RefusedHolding(c) == call' = [call EXCEPT ![c].at = "lost"]

(* The signal is aborted by the time there is a connection. *)
Refused(c) == Released(c)

AlreadyAborted(c) ==
  /\ call[c].at = "begin" /\ call[c].kind = "read" /\ c \in aborted
  /\ Refused(c)
  /\ UNCHANGED <<aborted, cancels, inTx, broken, calls>>

NextOf(at, kind) ==
  CASE at = "begin" -> IF kind = "read" THEN "setup" ELSE "work"
    [] at = "setup" -> "pid"
    [] at = "pid"   -> "work"
    [] at = "work"  -> IF kind = "read" THEN "rollback" ELSE "commit"

(* BEGIN, SET LOCAL statement_timeout, pg_backend_pid, the statements. *)
Statement(c) ==
  /\ call[c].at \in {"begin", "setup", "pid", "work"} /\ call[c].on \notin broken
  /\ call[c].at = "begin" => ~(call[c].kind = "read" /\ c \in aborted)
  /\ call' = [call EXCEPT ![c].at = NextOf(@, call[c].kind)]
  /\ inTx' = inTx \cup {call[c].on}
  /\ cancels' = IF call[c].at = "pid" /\ c \in aborted THEN cancels \cup {call[c].on} ELSE cancels
  /\ UNCHANGED <<aborted, broken, calls>>

(* A statement fails, of itself, by its timeout or because it is cancelled, *)
(* or the connection is gone.                                              *)
Fails(c) ==
  /\ call[c].at \in {"begin", "setup", "pid", "work", "commit"}
  /\ call' = [call EXCEPT ![c].at = "rollback"]
  /\ inTx' = IF call[c].at = "commit" /\ call[c].on \notin broken THEN inTx \ {call[c].on} ELSE inTx
  /\ UNCHANGED <<aborted, cancels, broken, calls>>

Commit(c) ==
  /\ call[c].at = "commit" /\ call[c].on \notin broken
  /\ inTx' = inTx \ {call[c].on}
  /\ Released(c)
  /\ UNCHANGED <<aborted, cancels, broken, calls>>

(* finally: ROLLBACK, whose own failure is that of a lost connection, and   *)
(* release.  The listener is gone by then.                                  *)
Rollback(c) ==
  /\ call[c].at = "rollback"
  /\ inTx' = IF call[c].on \in broken THEN inTx ELSE inTx \ {call[c].on}
  /\ Released(c)
  /\ UNCHANGED <<aborted, cancels, broken, calls>>

(* abort: cancels the backend once its number is known, until the call ends. *)
Abort(c) ==
  /\ call[c] # Idle /\ call[c].kind = "read" /\ c \notin aborted
  /\ aborted' = aborted \cup {c}
  /\ cancels' = IF call[c].at = "work" THEN cancels \cup {call[c].on} ELSE cancels
  /\ UNCHANGED <<call, inTx, broken, calls>>

(* The cancelling statement needs a connection of the pool itself; whatever *)
(* its target runs by then fails.                                           *)
Cancels(k) ==
  /\ k \in cancels /\ cancels' = cancels \ {k}
  /\ Free \cap Agent # {}
  /\ \/ UNCHANGED <<call, inTx>>
     \/ \E c \in Calls :
          /\ call[c].on = k /\ call[c].at \in {"begin", "setup", "pid", "work", "commit"}
          /\ call' = [call EXCEPT ![c].at = "rollback"]
          /\ UNCHANGED inTx
  /\ UNCHANGED <<aborted, broken, calls>>

Lose(k) ==
  /\ k \notin broken /\ broken' = broken \cup {k}
  /\ UNCHANGED <<call, aborted, cancels, inTx, calls>>

Next ==
  \/ \E c \in Calls :
       \/ Begin(c, "tx") \/ Begin(c, "read")
       \/ \E k \in Connections : Connect(c, k)
       \/ AlreadyAborted(c) \/ Statement(c) \/ Fails(c) \/ Commit(c) \/ Rollback(c) \/ Abort(c)
  \/ \E k \in Connections : Cancels(k) \/ Lose(k)

Spec == Init /\ [][Next]_vars

-----------------------------------------------------------------------------
(* Properties *)

(* However calls fail, are aborted or lose their connection, every          *)
(* connection that is not free is held by exactly one call that still does  *)
(* something with it, and a free one that works is outside any transaction: *)
(* aborts do not use the pool up, and no call joins the transaction of      *)
(* another.                                                                 *)
PoolIsClean ==
  /\ \A c, d \in Calls : call[c].on # None /\ call[c].on = call[d].on => c = d
  /\ \A c \in Calls : call[c].on # None =>
       call[c].at \in {"begin", "setup", "pid", "work", "commit", "rollback"}
  /\ Free \cap inTx \subseteq broken
=============================================================================
