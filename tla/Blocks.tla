------------------------------- MODULE Blocks -------------------------------
(***************************************************************************)
(* What an answer shows, kept twice.  AnalysisRuntimeAdapter's emit changes *)
(* the blocks the worker stores with the message and hands the event to a   *)
(* buffer that joins texts, from which it comes into a queue and into the   *)
(* log of the answer; the store of the web page makes its blocks from that  *)
(* log alone (applyBlock).  A reader who comes later gets the stored ones,   *)
(* to which a run that failed adds an error of which there is no event.     *)
(*                                                                         *)
(* The agent and its tools are here by the events they emit, in the order   *)
(* their control allows.  A block has a kind, an id (of the activity, of    *)
(* the title of a log), a content and, if it is one, its text.              *)
(***************************************************************************)
EXTENDS Integers, Sequences, SequencesExt

CONSTANTS MaxRounds, MaxCalls, MaxTexts   \* bounds: rounds, calls, fragments of text

VARIABLES
  blocks,   \* input.blocks
  pending,  \* the text TextEventBuffer holds back
  queue,    \* events whose publication waits its turn, still unserialised objects
  view,     \* what the page makes of the events published
  stage,    \* "asking", "round", "call", "sql", "called", "failing", "returned" or "ended"
  round, called, said,   \* modelCalls, the calls and the fragments so far
  activity, \* the current call has an activity on screen
  title,    \* of the current or last query
  clashed,  \* a query took the title of a log that was unfinished
  stopped   \* the run is aborted or has lost its row

titles == <<title, clashed>>

vars == <<blocks, pending, queue, view, stage, round, called, said, activity, titles, stopped>>

Block(type, id, content) == [type |-> type, id |-> id, content |-> content, text |-> <<>>]

Text(s) == [type |-> "text_chunk", id |-> 0, content |-> "-", text |-> s]
Activity(status) == Block("activity", called', status)
Removed == Block("remove", called', "-")
RoundLog(content) == Block("log", round', content)
RoundUpdate(content) == Block("log_update", round', content)

(* The model titles its queries, with the title of a round if it likes; the  *)
(* last of these is any other.                                              *)
Titles == 1..(MaxRounds + 1)
QueryLog(t, content) == Block("log", t, content)
QueryUpdate(content) == Block("log_update", title, content)

(* Notices, SQL, charts, displayed tables, suggestions; the closing text with *)
(* the analysis is one of them, as no text is joined to it.                  *)
Other(name) == Block(name, 0, "-")
Error == Other("error")

-----------------------------------------------------------------------------
(* The two aggregations *)

Indices(bs, type, id) == {i \in DOMAIN bs : bs[i].type = type /\ bs[i].id = id}

Unfinished(bs, e) == {i \in Indices(bs, "log", e.id) : bs[i].content = "busy"}

First(S) == CHOOSE i \in S : \A j \in S : i <= j
Final(S) == CHOOSE i \in S : \A j \in S : j <= i

Joined(bs, s) ==
  IF bs # <<>> /\ Last(bs).type = "text"
  THEN [bs EXCEPT ![Len(bs)].text = @ \o s]
  ELSE Append(bs, [type |-> "text", id |-> 0, content |-> "-", text |-> s])

Replaced(bs, e) ==
  LET is == Indices(bs, "activity", e.id)
  IN  IF is = {} THEN Append(bs, e) ELSE [bs EXCEPT ![First(is)] = e]

Dropped(bs, e) ==
  LET is == Indices(bs, "activity", e.id)
  IN  IF is = {} THEN bs ELSE RemoveAt(bs, First(is))

(* emit: the first unfinished log of the title *)
Stored(bs, e) ==
  CASE e.type = "text_chunk" -> Joined(bs, e.text)
    [] e.type = "activity" -> Replaced(bs, e)
    [] e.type = "remove" -> Dropped(bs, e)
    [] e.type = "log_update" ->
         LET is == Unfinished(bs, e)
         IN  IF is = {} THEN bs ELSE [bs EXCEPT ![First(is)] = Block("log", e.id, e.content)]
    [] OTHER -> Append(bs, e)

(* applyBlock: the last one *)
ApplyBlock(bs, e) ==
  CASE e.type = "text_chunk" -> Joined(bs, e.text)
    [] e.type = "activity" -> Replaced(bs, e)
    [] e.type = "remove" -> Dropped(bs, e)
    [] e.type = "log_update" ->
         LET is == Unfinished(bs, e)
         IN  IF is = {} THEN bs ELSE [bs EXCEPT ![Final(is)].content = e.content]
    [] OTHER -> Append(bs, e)

-----------------------------------------------------------------------------
(* TextEventBuffer: texts are joined, anything else sends them off first. *)

Waiting(p) == IF p = <<>> THEN <<>> ELSE <<Text(p)>>

(* Faulty: other events go past the text *)
BufferedAround(m, e) ==
  IF e.type = "text_chunk"
  THEN [m EXCEPT !.pending = @ \o e.text]
  ELSE [m EXCEPT !.queue = Append(@, e)]

Buffered(m, e) ==
  IF e.type = "text_chunk"
  THEN [m EXCEPT !.pending = @ \o e.text]
  ELSE [m EXCEPT !.pending = <<>>, !.queue = @ \o Waiting(m.pending) \o <<e>>]

(* emit: what the worker holds after an event, *)
Sent(m, e) == Buffered([m EXCEPT !.blocks = Stored(@, e)], e)

(* and after the events of one synchronous piece of code *)
Emitted(m, es) ==
  LET after[n \in 0..Len(es)] == IF n = 0 THEN m ELSE Sent(after[n - 1], es[n])
  IN  after[Len(es)]

EmitFrom(bs, q, es) ==
  LET m == Emitted([blocks |-> bs, pending |-> pending, queue |-> q], es)
  IN  /\ ~stopped
      /\ blocks' = m.blocks
      /\ pending' = m.pending
      /\ queue' = m.queue
      /\ UNCHANGED <<view, stopped>>

Emit(es) == EmitFrom(blocks, queue, es)

Flush ==
  /\ pending # <<>>
  /\ queue' = queue \o Waiting(pending)
  /\ pending' = <<>>
  /\ UNCHANGED <<blocks, view, stage, round, called, said, activity, titles, stopped>>

Publish ==
  /\ queue # <<>>
  /\ view' = ApplyBlock(view, Head(queue))
  /\ queue' = Tail(queue)
  /\ UNCHANGED <<blocks, pending, stage, round, called, said, activity, titles, stopped>>

-----------------------------------------------------------------------------
(* A run *)

Init ==
  /\ blocks = <<>> /\ pending = <<>> /\ queue = <<>> /\ view = <<>>
  /\ stage = "asking" /\ round = 0 /\ called = 0 /\ said = 0
  /\ activity = FALSE /\ title = MaxRounds + 1 /\ clashed = FALSE /\ stopped = FALSE

MemoryNotice ==
  /\ stage = "asking" /\ round = 0 /\ blocks = <<>>
  /\ UNCHANGED <<stage, round, called, said, activity, titles>>
  /\ Emit(<<Other("memory_notice")>>)

Round ==
  /\ stage = "asking" /\ round < MaxRounds
  /\ stage' = "round" /\ round' = round + 1
  /\ UNCHANGED <<called, said, activity, titles>>
  /\ Emit(<<RoundLog("busy")>>)

(* publishText *)
Say ==
  /\ stage = "round" /\ said < MaxTexts
  /\ said' = said + 1
  /\ UNCHANGED <<stage, round, called, activity, titles>>
  /\ Emit(<<Text(<<said'>>)>>)

(* The prompt was too long. *)
Shorten ==
  /\ stage = "round"
  /\ stage' = "asking"
  /\ UNCHANGED <<round, called, said, activity, titles>>
  /\ Emit(<<RoundUpdate("adjust")>>)

(* A wrong language, no call, or an empty response: its log is left as it is. *)
AskAgain ==
  /\ stage = "round"
  /\ stage' = "asking"
  /\ UNCHANGED <<round, called, said, activity, titles>>
  /\ Emit(<<>>)

(* reportFailure of a call that was refused before its tool ran *)
Refuse ==
  /\ stage = "round" /\ called < MaxCalls
  /\ called' = called + 1
  /\ UNCHANGED <<stage, round, said, activity, titles>>
  /\ \E shown \in BOOLEAN : Emit(IF shown THEN <<Activity("warning")>> ELSE <<>>)

(* startActivity; tools without a public label have none. *)
StartCall ==
  /\ stage = "round" /\ called < MaxCalls
  /\ called' = called + 1
  /\ activity' \in BOOLEAN
  /\ stage' = "call"
  /\ UNCHANGED <<round, said, titles>>
  /\ Emit(IF activity' THEN <<Activity("running")>> ELSE <<>>)

(* A log of this title waits for its end. *)
Taken(t) == Unfinished(blocks, QueryLog(t, "busy")) # {}

QueryStart ==
  /\ stage = "call" /\ activity
  /\ stage' = "sql"
  /\ title' \in Titles /\ clashed' = (clashed \/ Taken(title'))
  /\ UNCHANGED <<round, called, said, activity>>
  /\ Emit(<<QueryLog(title', "busy"), Other("sql")>>)

(* The rows of the query are not emitted: their table is not for display. *)
QueryDone ==
  /\ stage = "sql"
  /\ stage' = "called"
  /\ UNCHANGED <<round, called, said, activity, titles>>
  /\ Emit(<<QueryUpdate("done")>>)

(* The object of the log is changed in place, in the blocks and wherever it *)
(* waits to be serialised; the update then finds no unfinished log.         *)
Adjusted(s) ==
  LET is == {i \in DOMAIN s : s[i] = QueryLog(title, "busy")}
  IN  IF is = {} THEN s ELSE [s EXCEPT ![Final(is)] = QueryLog(title, "adjust")]

ReportFailure ==
  IF activity THEN <<Activity("warning")>> ELSE <<>>

QueryFails ==
  /\ stage = "sql"
  /\ stage' = "round" /\ activity' = FALSE
  /\ UNCHANGED <<round, called, said, titles>>
  /\ EmitFrom(Adjusted(blocks), Adjusted(queue), <<QueryUpdate("adjust")>> \o ReportFailure)

(* display_query_table, generate_chart *)
Show ==
  /\ stage = "call"
  /\ stage' = "called"
  /\ UNCHANGED <<round, called, said, activity, titles>>
  /\ Emit(<<Other("chart")>>)

(* completeActivity: a warning of the result's quality shows. *)
Complete ==
  /\ stage \in {"call", "called"}
  /\ stage' = "round" /\ activity' = FALSE
  /\ UNCHANGED <<round, called, said, titles>>
  /\ \E status \in {"completed", "warning"} : Emit(IF activity THEN <<Activity(status)>> ELSE <<>>)

(* The tool answered that it did not succeed. *)
Correct ==
  /\ stage = "call"
  /\ stage' = "round" /\ activity' = FALSE
  /\ UNCHANGED <<round, called, said, titles>>
  /\ Emit(ReportFailure)

RemoveActivity == IF activity THEN <<Removed>> ELSE <<>>

(* A broken tool ends the run, as does evidence that cannot be read again    *)
(* after its query.                                                         *)
ToolThrows ==
  /\ stage \in {"call", "sql", "called"}
  /\ stage' = "failing" /\ activity' = FALSE
  /\ UNCHANGED <<round, called, said, titles>>
  /\ Emit(RemoveActivity)

(* A rule or a withdrawn access ends it with an explanation, before, in or   *)
(* after a query.                                                           *)
SecurityStop ==
  /\ stage \in {"call", "sql", "called"}
  /\ stage' = "returned" /\ activity' = FALSE /\ said' = said + 1
  /\ UNCHANGED <<round, called, titles>>
  /\ Emit((IF stage = "sql" THEN <<QueryUpdate("blocked")>> ELSE <<>>)
          \o RemoveActivity \o <<RoundUpdate("blocked"), Text(<<said'>>)>>)

EndRound ==
  /\ stage = "round"
  /\ stage' = "asking"
  /\ UNCHANGED <<round, called, said, activity, titles>>
  /\ \E content \in {"done", "adjust"} : Emit(<<RoundUpdate(content)>>)

(* The analysis and, if the model makes some, suggestions *)
Close ==
  /\ stage = "asking" /\ round > 0
  /\ stage' = "returned"
  /\ UNCHANGED <<round, called, said, activity, titles>>
  /\ \E more \in {<<>>, <<Other("suggestions")>>} : Emit(<<Other("analysis")>> \o more)

(* Aborted, or another writer has the row: the next check throws, and so     *)
(* does every emit, that of removeActivity too.  A model that fails or       *)
(* breaks the protocol leaves as little.                                    *)
Stop ==
  /\ stage \in {"asking", "round", "call", "sql", "called"}
  /\ stopped' = TRUE
  /\ stage' = "failing"
  /\ UNCHANGED <<blocks, pending, queue, view, round, called, said, activity, titles>>

(* Whoever called the agent adds an error to the message, without an event.  *)
Fail ==
  /\ stage = "failing"
  /\ stage' = "ended"
  /\ blocks' = Append(blocks, Error)
  /\ UNCHANGED <<pending, queue, view, round, called, said, activity, titles, stopped>>

(* So does one that finds the signal set behind the run, or the analysis     *)
(* state changed by another when it finalizes.                              *)
Finalize ==
  /\ stage = "returned"
  /\ stage' = "ended"
  /\ blocks' \in {blocks, Append(blocks, Error)}
  /\ UNCHANGED <<pending, queue, view, round, called, said, activity, titles, stopped>>

Next ==
  \/ Flush \/ Publish
  \/ MemoryNotice \/ Round \/ Say \/ Shorten \/ AskAgain \/ Refuse \/ StartCall
  \/ QueryStart \/ QueryDone \/ QueryFails \/ Show \/ Complete \/ Correct \/ ToolThrows
  \/ SecurityStop \/ EndRound \/ Close \/ Stop \/ Fail \/ Finalize

Spec == Init /\ [][Next]_vars

-----------------------------------------------------------------------------
(* What the page makes of the blocks bs and further events *)
Replay(bs, es) ==
  LET after[n \in 0..Len(es)] == IF n = 0 THEN bs ELSE ApplyBlock(after[n - 1], es[n])
  IN  after[Len(es)]

(* What the blocks show, apart from what their logs say *)
Outline(bs) ==
  [i \in DOMAIN bs |-> IF bs[i].type = "log" THEN [bs[i] EXCEPT !.content = "-"] ELSE bs[i]]

(* Whoever follows the log and whoever loads the stored message see the     *)
(* same: the blocks the worker stores are those the page makes of the events *)
(* published, of those queued and of the text held back, whatever the timer, *)
(* the queue and the calls did in between; of a run that failed an error     *)
(* follows at the end, which only the stored message has.  What logs say may *)
(* differ once a query has the title of a step that is not finished: worker  *)
(* and page then settle different ones.                                     *)
ReplayGivesBlocks ==
  \E es \in {<<>>, <<Error>>} :
    LET seen == Replay(view, queue \o Waiting(pending)) \o es IN
    /\ es # <<>> => stage = "ended"
    /\ Outline(blocks) = Outline(seen)
    /\ ~clashed => blocks = seen

(* A run that was not stopped leaves no tool on screen as running, and what  *)
(* a stopped one leaves is the call it was stopped in.                      *)
ActivitiesSettle ==
  \A i \in DOMAIN blocks :
    blocks[i].type = "activity" /\ blocks[i].content = "running"
      => activity /\ blocks[i].id = called /\ (stage \in {"failing", "returned", "ended"} => stopped)
=============================================================================
