-------------------------------- MODULE Turns -------------------------------
(***************************************************************************)
(* Asking a question: createTurn of the API, for all conversations of one   *)
(* user.  A request may be a repetition of an earlier one under the same    *)
(* Idempotency-Key, and retry makes a new one out of a failed answer.       *)
(*                                                                         *)
(* createTurn is one transaction at READ COMMITTED: it takes an advisory    *)
(* lock of the user and one of the conversation, each statement reads what  *)
(* is committed when it runs, and its inserts appear together at the end.   *)
(* Definitions marked "Faulty" are plausible bugs in the definition after   *)
(* them and not part of the specification.                                 *)
(***************************************************************************)
EXTENDS Naturals, FiniteSets, FiniteSetsExt, Sequences

CONSTANTS
  Requests,       \* HTTP requests
  Conversations,
  Keys,           \* values of the Idempotency-Key header; without one it is a new UUID
  Bodies,         \* what requestHash tells apart within a conversation
  None,
  UserLimit,      \* USER_GENERATION_CONCURRENCY_LIMIT
  MaxAnswers      \* bound: rows of generation ever inserted

VARIABLES
  answers,     \* rows of generation with their turns, in the order of insertion
  open,        \* conversations that exist
  userLock, conversationLock,   \* who holds the advisory locks
  requests     \* what a request asks, how far it is and what it was told

vars == <<answers, open, userLock, conversationLock, requests>>

Ids == DOMAIN answers

Active == {"pending", "cancel_requested"}

ActiveIn(S) == {g \in S : answers[g].status \in Active}

(* Rows are deleted with their conversation. *)
Present == {g \in Ids : answers[g].status # "deleted"}

RowsOf(c) == {g \in Present : answers[g].conversation = c}

Init ==
  /\ answers = <<>>
  /\ open = Conversations
  /\ userLock = None
  /\ conversationLock = [c \in Conversations |-> None]
  /\ requests = [r \in Requests |-> None]

-----------------------------------------------------------------------------
(* The request, up to the locks *)

Asked(c, key, body) ==
  [conversation |-> c, key |-> key, body |-> body, at |-> "asked", reply |-> 0, parent |-> 0]

(* startChat finds the conversation, and the user may use the datasource.   *)
(* POST of the same question again carries the same key.                    *)
Ask(r, c, key, body) ==
  /\ requests[r] = None /\ c \in open
  /\ requests' = [requests EXCEPT ![r] = Asked(c, key, body)]
  /\ UNCHANGED <<answers, open, userLock, conversationLock>>

(* retry: the question of a failed or cancelled answer, under a new key. *)
Retry(r, g) ==
  /\ requests[r] = None /\ g \in Present
  /\ answers[g].status \in {"failed", "cancelled"}
  /\ requests' = [requests EXCEPT ![r] = Asked(answers[g].conversation, <<"new", r>>, answers[g].body)]
  /\ UNCHANGED <<answers, open, userLock, conversationLock>>

At(r, place) == requests[r] # None /\ requests[r].at = place

Go(r, place) == requests' = [requests EXCEPT ![r].at = place]

(* Faulty: only the conversation is locked. *)
UserUnlocked == TRUE

UserFree == userLock = None

LockUser(r) ==
  /\ At(r, "asked") /\ UserFree
  /\ userLock' = r
  /\ Go(r, "user")
  /\ UNCHANGED <<answers, open, conversationLock>>

LockConversation(r) ==
  /\ At(r, "user") /\ conversationLock[requests[r].conversation] = None
  /\ conversationLock' = [conversationLock EXCEPT ![requests[r].conversation] = r]
  /\ Go(r, "locked")
  /\ UNCHANGED <<answers, open, userLock>>

-----------------------------------------------------------------------------
(* The reads, one statement after the other *)

WithKey(key) == {g \in Present : answers[g].key = key}

Release(r) ==
  /\ userLock' = IF userLock = r THEN None ELSE userLock
  /\ conversationLock' = [c \in Conversations |-> IF conversationLock[c] = r THEN None ELSE conversationLock[c]]

(* The transaction ends, and the caller gets an answer's ids or an error. *)
Told(r, end, reply) ==
  /\ requests' = [requests EXCEPT ![r] = [@ EXCEPT !.at = end, !.reply = reply]]
  /\ Release(r)

SameRequest(g, q) == answers[g].conversation = q.conversation /\ answers[g].body = q.body

(* A key that is known: the answer it stands for, or 403. *)
Repeat(r) ==
  /\ At(r, "locked")
  /\ \E g \in WithKey(requests[r].key) :
       IF SameRequest(g, requests[r]) THEN Told(r, "answered", g) ELSE Told(r, "refused", 0)
  /\ UNCHANGED <<answers, open>>

FirstUse(r) ==
  /\ At(r, "locked") /\ WithKey(requests[r].key) = {}
  /\ Go(r, "unique")
  /\ UNCHANGED <<answers, open, userLock, conversationLock>>

Busy(c) == ActiveIn(RowsOf(c)) # {}

(* 404, 409 and 429. *)
Refuse(r) ==
  /\ \/ At(r, "unique") /\ (requests[r].conversation \notin open \/ Busy(requests[r].conversation))
     \/ At(r, "idle") /\ Cardinality(ActiveIn(Present)) >= UserLimit
  /\ Told(r, "refused", 0)
  /\ UNCHANGED <<answers, open>>

ConversationIdle(r) ==
  /\ At(r, "unique") /\ requests[r].conversation \in open /\ ~Busy(requests[r].conversation)
  /\ Go(r, "idle")
  /\ UNCHANGED <<answers, open, userLock, conversationLock>>

(* Completed answers carry the moment of completion. *)
LastCompleted(c) ==
  LET done == {g \in RowsOf(c) : answers[g].status = "completed"}
  IN IF done = {} THEN 0 ELSE CHOOSE g \in done : \A h \in done : answers[h].completedAt <= answers[g].completedAt

(* Below the limit; then the answer that this one continues. *)
Admit(r) ==
  /\ At(r, "idle") /\ Cardinality(ActiveIn(Present)) < UserLimit
  /\ requests' = [requests EXCEPT ![r] = [@ EXCEPT !.at = "admitted",
                                          !.parent = LastCompleted(requests[r].conversation)]]
  /\ UNCHANGED <<answers, open, userLock, conversationLock>>

-----------------------------------------------------------------------------
(* The inserts *)

(* uk_generation_user_idempotency and uk_generation_conversation_active *)
Clashes(q) == WithKey(q.key) # {} \/ Busy(q.conversation)

NextTurn(c) == Max({0} \cup {answers[g].turn : g \in RowsOf(c)}) + 1

Row(q) ==
  [conversation |-> q.conversation, key |-> q.key, body |-> q.body, status |-> "pending",
   turn |-> NextTurn(q.conversation), parent |-> q.parent, completedAt |-> 0]

Insert(r) ==
  /\ At(r, "admitted") /\ Len(answers) < MaxAnswers
  /\ IF Clashes(requests[r])
     THEN Told(r, "clash", 0) /\ answers' = answers
     ELSE answers' = Append(answers, Row(requests[r])) /\ Told(r, "answered", Len(answers) + 1)
  /\ UNCHANGED open

(* The process or its connection dies: PostgreSQL rolls back. *)
Die(r) ==
  /\ requests[r] # None /\ requests[r].at \in {"asked", "user", "locked", "unique", "idle", "admitted"}
  /\ Told(r, "lost", 0)
  /\ UNCHANGED <<answers, open>>

-----------------------------------------------------------------------------
(* Everybody else *)

Clock == Max({0} \cup {answers[g].completedAt : g \in Ids})

(* finalize, failStale: see Generation. *)
Finish(g, verdict) ==
  /\ g \in ActiveIn(Present)
  /\ verdict = "completed" => answers[g].status = "pending"
  /\ answers' = [answers EXCEPT ![g] = [@ EXCEPT !.status = verdict,
                                        !.completedAt = IF verdict = "completed" THEN Clock + 1 ELSE 0]]
  /\ UNCHANGED <<open, userLock, conversationLock, requests>>

Cancel(g) ==
  /\ g \in Present /\ answers[g].status = "pending"
  /\ answers' = [answers EXCEPT ![g].status = "cancel_requested"]
  /\ UNCHANGED <<open, userLock, conversationLock, requests>>

(* remove waits for the lock of the conversation. *)
Remove(c) ==
  /\ c \in open /\ conversationLock[c] = None
  /\ open' = open \ {c}
  /\ answers' = [g \in Ids |-> IF answers[g].conversation = c THEN [answers[g] EXCEPT !.status = "deleted"] ELSE answers[g]]
  /\ UNCHANGED <<userLock, conversationLock, requests>>

Next ==
  \/ \E r \in Requests, c \in Conversations, k \in Keys, b \in Bodies : Ask(r, c, k, b)
  \/ \E r \in Requests, g \in Ids : Retry(r, g)
  \/ \E r \in Requests :
       LockUser(r) \/ LockConversation(r) \/ Repeat(r) \/ FirstUse(r) \/ Refuse(r) \/ ConversationIdle(r)
       \/ Admit(r) \/ Insert(r) \/ Die(r)
  \/ \E g \in Ids : Cancel(g) \/ \E v \in {"completed", "failed", "cancelled"} : Finish(g, v)
  \/ \E c \in Conversations : Remove(c)

Spec == Init /\ [][Next]_vars

-----------------------------------------------------------------------------
(* Properties *)

Answered(r) == At(r, "answered")

(* A key stands for one answer: whoever repeats a request under its key is   *)
(* told the answer of the first, as long as that exists, and none of the    *)
(* requests fails on a unique index, however they overlap.                  *)
KeyNamesOneAnswer ==
  /\ \A r \in Requests : Answered(r) => SameRequest(requests[r].reply, requests[r])
  /\ \A r, s \in Requests :
       Answered(r) /\ Answered(s) /\ requests[r].key = requests[s].key /\ requests[r].reply # requests[s].reply
         => ~({requests[r].reply, requests[s].reply} \subseteq Present)
  /\ \A r \in Requests : ~At(r, "clash")

(* A user never has more answers under way than the limit, and the turns of  *)
(* a conversation are numbered from 1, each continuing the last answer that *)
(* was completed before it.                                                *)
TurnsFollow ==
  /\ Cardinality(ActiveIn(Present)) <= UserLimit
  /\ \A g \in Present :
       LET before == {h \in RowsOf(answers[g].conversation) : h < g}
       IN /\ answers[g].turn = Cardinality(before) + 1
          /\ answers[g].parent = Max({0} \cup {h \in before : answers[h].status = "completed"})
=============================================================================
