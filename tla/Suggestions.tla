----------------------------- MODULE Suggestions ----------------------------
(***************************************************************************)
(* The questions suggested for a datasource: generated by a model from the  *)
(* schema, stored for a user in datasource_suggestions under a key with the *)
(* hash of the schema, and kept once more by a tab.                         *)
(*                                                                         *)
(* A schema is a number, and every change brings the next.  Definitions     *)
(* marked "Faulty" are plausible bugs in the definition after them and not  *)
(* part of the specification.                                               *)
(***************************************************************************)
EXTENDS Naturals

CONSTANTS
  Calls,      \* calls of getSuggestions under way, of the tab or of triggerAsync
  None,
  MaxSchema   \* bound: changes of the schema

VARIABLES
  schema,     \* tables, visible columns and comments
  stored,     \* the row of datasource_suggestions: key and items, each a schema
  call,       \* what a call has read, and where it is
  shown,      \* suggestionsCache of the tab
  loading,    \* suggestionsLoading
  revision,   \* suggestionRevisions
  saving,     \* a save of this tab: not under way, sent, or committed
  floor       \* history variable: the schema its last confirmed save left behind

tab == <<shown, loading, revision, saving, floor>>

vars == <<schema, stored, call, tab>>

Init ==
  /\ schema = 1 /\ stored = None
  /\ call = [q \in Calls |-> None]
  /\ shown = None /\ loading = FALSE /\ revision = 0
  /\ saving = [at |-> "none", left |-> 0] /\ floor = 0

-----------------------------------------------------------------------------
(* The service *)

(* Uploads, deletions, saved comments, policies: somebody else's. *)
SchemaChange ==
  /\ schema < MaxSchema
  /\ schema' = schema + 1
  /\ UNCHANGED <<stored, call, tab>>

(* Every change made through the API deletes the row, some time afterwards. *)
Forget ==
  /\ stored # None
  /\ stored' = None
  /\ UNCHANGED <<schema, call, tab>>

(* triggerAsync: nobody waits for it. *)
Trigger(q) ==
  /\ call[q] = None
  /\ call' = [call EXCEPT ![q] = [by |-> "service", revision |-> 0, at |-> "sent", items |-> 0]]
  /\ UNCHANGED <<schema, stored, tab>>

(* The structured schema is read, and its hash makes the key. *)
ReadSchema(q) ==
  /\ call[q] # None /\ call[q].at = "sent"
  /\ call' = [call EXCEPT ![q] = [@ EXCEPT !.at = "keyed", !.items = schema]]
  /\ UNCHANGED <<schema, stored, tab>>

(* Faulty: the key holds the language and the prompt only. *)
AnyKey(key, hash) == TRUE

SameKey(key, hash) == key = hash

Hit(q) ==
  /\ call[q] # None /\ call[q].at = "keyed" /\ stored # None /\ SameKey(stored.key, call[q].items)
  /\ call' = [call EXCEPT ![q] = [@ EXCEPT !.at = "answered", !.items = stored.items]]
  /\ UNCHANGED <<schema, stored, tab>>

Miss(q) ==
  /\ call[q] # None /\ call[q].at = "keyed" /\ (stored # None => ~SameKey(stored.key, call[q].items))
  /\ call' = [call EXCEPT ![q].at = "generating"]
  /\ UNCHANGED <<schema, stored, tab>>

(* The model has answered; the row is written, whatever it holds by now. *)
Store(q) ==
  /\ call[q] # None /\ call[q].at = "generating"
  /\ stored' = [key |-> call[q].items, items |-> call[q].items]
  /\ call' = [call EXCEPT ![q].at = "answered"]
  /\ UNCHANGED <<schema, tab>>

-----------------------------------------------------------------------------
(* The tab *)

(* fetchSuggestions *)
MayFetch == shown = None /\ ~loading

Sent(q, rev) == call' = [call EXCEPT ![q] = [by |-> "tab", revision |-> rev, at |-> "sent", items |-> 0]]

Fetch(q) ==
  /\ call[q] = None /\ MayFetch
  /\ Sent(q, revision)
  /\ loading' = TRUE
  /\ UNCHANGED <<schema, stored, shown, revision, saving, floor>>

SameRevision(q) == call[q].revision = revision

Refetches(q) == call[q].revision # revision

(* The finally block: asked again, if nobody has fetched meanwhile. *)
After(q) ==
  IF Refetches(q) /\ shown' = None
  THEN Sent(q, revision) /\ loading' = TRUE
  ELSE call' = [call EXCEPT ![q] = None] /\ loading' = FALSE

Reply(q) ==
  /\ call[q] # None /\ call[q].by = "tab" /\ call[q].at = "answered"
  /\ shown' = IF SameRevision(q) THEN call[q].items ELSE shown
  /\ After(q)
  /\ UNCHANGED <<schema, stored, revision, saving, floor>>

ReplyLost(q) ==
  /\ call[q] # None /\ call[q].by = "tab"
  /\ shown' = shown
  /\ After(q)
  /\ UNCHANGED <<schema, stored, revision, saving, floor>>

(* A call of the service ends or fails. *)
Over(q) ==
  /\ call[q] # None /\ call[q].by = "service"
  /\ call' = [call EXCEPT ![q] = None]
  /\ UNCHANGED <<schema, stored, tab>>

(* The tab saves column comments; the row is deleted with the commit. *)
Save ==
  /\ saving.at = "none" /\ schema < MaxSchema
  /\ schema' = schema + 1
  /\ stored' = None
  /\ saving' = [at |-> "committed", left |-> schema + 1]
  /\ UNCHANGED <<call, shown, loading, revision, floor>>

(* save() of the dialog: invalidateSuggestions *)
Saved ==
  /\ saving.at = "committed"
  /\ floor' = saving.left
  /\ revision' = revision + 1
  /\ shown' = None
  /\ saving' = [at |-> "none", left |-> 0]
  /\ UNCHANGED <<schema, stored, call, loading>>

(* clear, on logout; requests stay under way *)
Clear ==
  /\ shown' = None /\ loading' = FALSE
  /\ UNCHANGED <<schema, stored, call, revision, saving, floor>>

Next ==
  \/ SchemaChange \/ Forget \/ Save \/ Saved \/ Clear
  \/ \E q \in Calls :
       \/ Trigger(q) \/ ReadSchema(q) \/ Hit(q) \/ Miss(q) \/ Store(q) \/ Over(q)
       \/ Fetch(q) \/ Reply(q) \/ ReplyLost(q)

Spec == Init /\ [][Next]_vars

-----------------------------------------------------------------------------
(* Properties *)

(* From the moment a save of comments is confirmed, the tab shows only       *)
(* questions made of the schema with them, whatever calls are under way and  *)
(* in whatever order they store and answer what they have generated.         *)
ShownAreCurrent == shown # None => shown >= floor
=============================================================================
