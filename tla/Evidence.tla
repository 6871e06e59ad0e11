------------------------------ MODULE Evidence ------------------------------
(***************************************************************************)
(* The evidence of a conversation: the results of queries, stored with the  *)
(* analysis state and the access they were taken under, and what later      *)
(* calls and later turns may still do with them.                           *)
(*                                                                         *)
(* One turn runs at a time (OneActive of Generation) and its calls one by   *)
(* one (AgentLoop); grants and field policies change at any moment.         *)
(* Definitions marked "Faulty" are plausible bugs in the definition after   *)
(* them and not part of the specification.                                 *)
(***************************************************************************)
EXTENDS Naturals, Sequences

CONSTANTS
  Conditions,    \* what conditionSignature tells apart within a task
  MaxTurns,      \* bound: turns of the conversation
  MaxTasks,      \* bound: analysis tasks
  MaxArtifacts,  \* bound: stored results
  Accesses,      \* contents of the tables and field policies a user has
  MaxPolicyChanges   \* bound: changes of them

VARIABLES
  turn,       \* the turn at hand, 0 before the first
  verdict,    \* of a turn: "none" while it runs, "completed" or "dropped"
  committed,  \* analysis_state
  state,      \* session.state
  tasks,      \* task ids given out
  prepared, observed,   \* of the session
  artifacts,  \* query_artifact: where, under which conditions and access
  access,     \* the tables and policies in force, which may come back
  changed,    \* how often they changed
  granted,    \* the user may use the datasource
  pc,         \* "none" between turns, "idle" between calls, or inside a call
  label,      \* accessFingerprint of the query under way: a hash of the content
  moved,      \* history: the access has changed between that and the execution
  result,     \* what the query has read: under which access, and is it whole
  using       \* the artifact the call is about, and the access when it began

session == <<state, tasks, prepared, observed>>
call == <<label, moved, result, using>>
world == <<access, changed, granted>>

vars == <<turn, verdict, committed, session, artifacts, world, pc, call>>

(* Hypotheses are the artifacts that the judged ones cite. *)
NewTask(t, c) == [task |-> t, cond |-> c, latest |-> FALSE, cites |-> {}]

Nil == <<>>

Init ==
  /\ turn = 0 /\ verdict = [t \in 1..MaxTurns |-> "none"]
  /\ committed = NewTask(0, CHOOSE c \in Conditions : TRUE)
  /\ state = committed /\ tasks = 0 /\ prepared = FALSE /\ observed = {}
  /\ artifacts = <<>>
  /\ access = CHOOSE a \in Accesses : TRUE
  /\ changed = 0 /\ granted = TRUE
  /\ pc = "none" /\ label = Nil /\ moved = FALSE /\ result = Nil /\ using = Nil

(* The locals of a call go with it. *)
Over == label' = Nil /\ moved' = FALSE /\ result' = Nil /\ using' = Nil

-----------------------------------------------------------------------------
(* Turns *)

(* The committed state; a memory in it that has changed is taken out. *)
Inherited(c) ==
  IF c = committed.cond THEN committed ELSE [committed EXCEPT !.cond = c, !.cites = {}]

Begin ==
  /\ pc = "none" /\ turn < MaxTurns /\ granted
  /\ turn' = turn + 1
  /\ \/ /\ tasks > 0
        /\ \E c \in Conditions : state' = Inherited(c)
        /\ tasks' = tasks
     \/ /\ tasks < MaxTasks   \* the first turn, or another datasource
        /\ \E c \in Conditions : state' = NewTask(tasks + 1, c)
        /\ tasks' = tasks + 1
  /\ prepared' = FALSE /\ observed' = {}
  /\ pc' = "idle"
  /\ UNCHANGED <<verdict, committed, artifacts, world, call>>

(* The run has ended, access() passed once more, and finalize promotes. *)
Complete ==
  /\ pc \in {"idle", "closing"} /\ granted
  /\ verdict' = [verdict EXCEPT ![turn] = "completed"]
  /\ committed' = state
  /\ pc' = "none"
  /\ UNCHANGED <<turn, session, artifacts, world, call>>

(* The run fails, is cancelled, or throws for one of many reasons. *)
Drop ==
  /\ pc # "none"
  /\ verdict' = [verdict EXCEPT ![turn] = "dropped"]
  /\ pc' = "none"
  /\ Over
  /\ UNCHANGED <<turn, committed, session, artifacts, world>>

(* DATASOURCE_ACCESS_CHANGED in a tool: the loop ends the analysis. *)
AccessLost ==
  /\ pc \notin {"none", "closing"} /\ ~granted
  /\ pc' = "closing"
  /\ Over
  /\ UNCHANGED <<turn, verdict, committed, session, artifacts, world>>

-----------------------------------------------------------------------------
(* What may be done with an artifact *)

(* Of this answer, or of a completed turn. *)
UsableInGeneration(a) == artifacts[a].turn = turn \/ verdict[artifacts[a].turn] = "completed"

CanAccessDatasource == granted

ReadQueryArtifact(a) == a \in DOMAIN artifacts /\ CanAccessDatasource

(* readEvidence passes. *)
Readable(a) ==
  /\ ReadQueryArtifact(a)
  /\ UsableInGeneration(a)
  /\ artifacts[a].label = access

(* evidenceMismatch finds nothing. *)
Fits(a, s) ==
  /\ artifacts[a].task = s.task
  /\ s.latest => artifacts[a].turn = turn
  /\ artifacts[a].cond = s.cond

Ids == DOMAIN artifacts

-----------------------------------------------------------------------------
(* update_analysis_state *)

(* Hypotheses go when the conditions change. *)
Kept(s) == IF s.task = state.task /\ s.cond = state.cond THEN state.cites ELSE {}

MayCite(a, s) == a \in observed /\ Readable(a) /\ Fits(a, s) /\ artifacts[a].whole

(* The new conditions, with hypotheses kept or judged anew. *)
Revise(s) ==
  /\ \/ state' = [s EXCEPT !.cites = Kept(s)]
     \/ \E cites \in SUBSET Ids :
          /\ \A a \in cites : MayCite(a, s)
          /\ state' = [s EXCEPT !.cites = cites]
  /\ prepared' = TRUE

Patch ==
  /\ pc = "idle" /\ granted
  /\ \E c \in Conditions, l \in BOOLEAN :
       \/ Revise([state EXCEPT !.cond = c, !.latest = l]) /\ tasks' = tasks
       \/ /\ tasks < MaxTasks   \* start_new_task
          /\ Revise([NewTask(tasks + 1, c) EXCEPT !.latest = l])
          /\ tasks' = tasks + 1
  /\ UNCHANGED <<turn, verdict, committed, observed, artifacts, world, pc, call>>

-----------------------------------------------------------------------------
(* sql_query *)

(* Faulty: the fingerprint is taken when the result is stored. *)
LabelLate == access

(* The fingerprint taken before the query was executed. *)
Label == label

SqlStart ==
  /\ pc = "idle" /\ prepared /\ granted /\ Len(artifacts) < MaxArtifacts
  /\ label' = access
  /\ pc' = "asked"
  /\ UNCHANGED <<turn, verdict, committed, session, artifacts, world, moved, result, using>>

(* The executor reads tables and policies and runs the statement. *)
SqlRun ==
  /\ pc = "asked" /\ granted
  /\ \E whole \in BOOLEAN : result' = <<access, whole>>
  /\ pc' = "ran"
  /\ UNCHANGED <<turn, verdict, committed, session, artifacts, world, label, moved, using>>

(* A syntax error, a timeout: the model is told. *)
SqlFails ==
  /\ pc = "asked"
  /\ pc' = "idle"
  /\ Over
  /\ UNCHANGED <<turn, verdict, committed, session, artifacts, world>>

(* createQueryArtifact *)
SqlStore ==
  /\ pc = "ran"
  /\ artifacts' = Append(artifacts, [turn |-> turn, task |-> state.task, cond |-> state.cond,
                                     label |-> Label, under |-> result[1], moved |-> moved,
                                     whole |-> result[2]])
  /\ pc' = "stored"
  /\ UNCHANGED <<turn, verdict, committed, session, world, call>>

(* The new artifact is read back, and its rows go to the model. *)
SqlObserve ==
  /\ pc = "stored" /\ Readable(Len(artifacts))
  /\ observed' = observed \cup {Len(artifacts)}
  /\ pc' = "idle"
  /\ Over
  /\ UNCHANGED <<turn, verdict, committed, state, tasks, prepared, artifacts, world>>

-----------------------------------------------------------------------------
(* read_query_artifact, generate_chart, display_query_table *)

(* mode = "comparison" *)
Comparable(a) == artifacts[a].task = state.task /\ ~state.latest

(* The checks of a call, before its rows are fetched. *)
Check(a, next) ==
  /\ pc = "idle" /\ prepared /\ Readable(a)
  /\ using' = [artifact |-> a, since |-> access]
  /\ pc' = next
  /\ UNCHANGED <<turn, verdict, committed, session, artifacts, world, label, moved, result>>

ReadCheck(a) == (Fits(a, state) \/ Comparable(a)) /\ Check(a, "reading")

ChartCheck(a) == artifacts[a].whole /\ Fits(a, state) /\ Check(a, "drawing")

(* readQueryArtifact again, for a page or for all rows. *)
Fetch ==
  /\ pc \in {"reading", "drawing"} /\ ReadQueryArtifact(using.artifact)
  /\ observed' = IF pc = "reading" THEN observed \cup {using.artifact} ELSE observed
  /\ pc' = "idle"
  /\ Over
  /\ UNCHANGED <<turn, verdict, committed, state, tasks, prepared, artifacts, world>>

(* The page is too large for the model, or the chart names no such columns. *)
FetchFails ==
  /\ pc \in {"reading", "drawing"}
  /\ pc' = "idle"
  /\ Over
  /\ UNCHANGED <<turn, verdict, committed, session, artifacts, world>>

(* The answer shows an artifact as a table. *)
MayTable(a) == pc = "idle" /\ a \in observed /\ Readable(a) /\ Fits(a, state)

(* The page asks the API for the details or the rows of an artifact, of any  *)
(* turn and however that ended.                                            *)
MayShow(a) == CanAccessDatasource /\ artifacts[a].label = access

-----------------------------------------------------------------------------
(* The owner of the datasource *)

(* A change, or a change back: the fingerprint knows the content only. *)
PolicyChange ==
  /\ changed < MaxPolicyChanges /\ changed' = changed + 1
  /\ \E a \in Accesses \ {access} : access' = a
  /\ moved' = (moved \/ pc = "asked")
  /\ UNCHANGED <<turn, verdict, committed, session, artifacts, granted, pc, label, result, using>>

GrantOrRevoke ==
  /\ granted' = ~granted
  /\ UNCHANGED <<turn, verdict, committed, session, artifacts, access, changed, pc, call>>

Next ==
  \/ Begin \/ Complete \/ Drop \/ AccessLost
  \/ Patch
  \/ SqlStart \/ SqlRun \/ SqlFails \/ SqlStore \/ SqlObserve
  \/ \E a \in Ids : ReadCheck(a) \/ ChartCheck(a)
  \/ Fetch \/ FetchFails
  \/ PolicyChange \/ GrantOrRevoke

Spec == Init /\ [][Next]_vars

-----------------------------------------------------------------------------
(* Properties *)

(* What the conversation goes on from rests on evidence that fits it: the   *)
(* judged hypotheses of the committed state cite whole results of completed *)
(* turns, taken for the committed task under the committed conditions,      *)
(* whatever was patched, inherited or dropped since they were judged.       *)
CommittedFits ==
  \A a \in committed.cites :
    /\ verdict[artifacts[a].turn] = "completed"
    /\ artifacts[a].whole
    /\ artifacts[a].task = committed.task
    /\ artifacts[a].cond = committed.cond

(* A call uses rows only while the tables and policies they were read under *)
(* are in force, the same or the same again, when the call begins.  The one *)
(* exception is a query during which they changed between its fingerprint   *)
(* and its execution: rows read under the others are labelled with the      *)
(* former, and pass as soon as those are back.                              *)
ReadUnder(a, content) == artifacts[a].under = content \/ artifacts[a].moved

UsedWithinAccess ==
  /\ \A a \in Ids : MayTable(a) \/ MayShow(a) => ReadUnder(a, access)
  /\ pc = "stored" /\ Readable(Len(artifacts)) => ReadUnder(Len(artifacts), access)
  /\ pc \in {"reading", "drawing"} => ReadUnder(using.artifact, using.since)
=============================================================================
