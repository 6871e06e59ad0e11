------------------------------ MODULE Context -------------------------------
(***************************************************************************)
(* What a request to the model holds.  Before every round of the loop       *)
(* prepareContext gathers what could be said, and assembleContext selects   *)
(* from it what fits: the rules and the question, the data of the analysis, *)
(* earlier turns, catalogs, and the messages of this run, in which the      *)
(* calls of a response and their results must stay together.  After the     *)
(* run, the context of the suggested questions is cut to fit likewise.      *)
(*                                                                         *)
(* Sizes stand for the estimator's tokens and are small numbers.            *)
(* Definitions marked "Faulty" are plausible bugs in the definition after   *)
(* them and not part of the specification.                                 *)
(***************************************************************************)
EXTENDS Integers, Sequences, FiniteSetsExt

CONSTANTS
  None,
  Budgets,      \* budgets to begin with
  MaxMessages,  \* bound: messages of the run
  MaxTurns,     \* rows of AnalysisStateRepository.history
  Limit,        \* characters of the context of suggested questions
  MaxColumns    \* bound: columns of a table in it

VARIABLES
  budget,     \* what the request may cost, tools included
  messages,   \* the messages of the run after the question
  turns,      \* sizes of the earlier turns, newest first
  request,    \* what was assembled last, None before and after a change
  more        \* the context of suggested questions, None before

vars == <<budget, messages, turns, request, more>>

ToolsSize == 1

(* A message of the run: a response with so many calls, or the result of a   *)
(* call of the response at a position.                                      *)
Response(calls, size) == [role |-> "assistant", calls |-> calls, of |-> 0, size |-> size]
Result(of, size) == [role |-> "tool", calls |-> 0, of |-> of, size |-> size]

Init ==
  /\ budget \in Budgets
  /\ messages = <<>>
  /\ turns \in UNION {[1..n -> 1..2] : n \in 0..MaxTurns}
  /\ request = None
  /\ more = None

(* append: a response goes in with the results of its calls. *)
Respond ==
  /\ more = None
  /\ \E calls \in 0..2, size \in 1..2 :
       LET p == Len(messages) + 1
       IN  /\ p + calls <= MaxMessages
           /\ messages' = messages \o <<Response(calls, size)>> \o [i \in 1..calls |-> Result(p, size)]
  /\ request' = None
  /\ UNCHANGED <<budget, turns, more>>

(* The provider did not take the request: three quarters of the budget. *)
Shorten ==
  /\ more = None
  /\ budget \in Budgets
  /\ budget' = (budget * 3) \div 4
  /\ request' = None
  /\ UNCHANGED <<messages, turns, more>>

-----------------------------------------------------------------------------
(* assembleContext *)

(* Faulty: results are groups of their own *)
StartsEach == DOMAIN messages

(* Positions at which a group begins *)
Starts == {p \in DOMAIN messages : messages[p].role = "assistant"}

GroupAt(p) == {q \in DOMAIN messages : q >= p /\ \A s \in Starts : s > p => q < s}

LatestGroup == IF Starts = {} THEN {} ELSE {Max(Starts)}

LatestToolGroup ==
  LET with == {p \in Starts : messages[p].calls > 0}
  IN  IF with = {} THEN {} ELSE {Max(with)}

(* What a request can hold: an earlier turn by its number, a message of the  *)
(* run by its position, and what there is one of.                           *)
Part(kind, index) == [kind |-> kind, index |-> index]

Everything ==
  {Part(kind, 0) : kind \in {"system", "question", "data", "catalogs"}}
    \cup {Part("turn", t) : t \in DOMAIN turns} \cup {Part("run", q) : q \in DOMAIN messages}

Size ==
  [x \in Everything |->
     CASE x.kind = "run" -> messages[x.index].size
       [] x.kind = "turn" -> turns[x.index]
       [] x.kind = "catalogs" -> 2
       [] OTHER -> 1]

GroupParts(p) == {Part("run", q) : q \in GroupAt(p)}

Candidate(parts, priority, place, required) ==
  [parts |-> parts, size |-> SumFunctionOnSet(Size, parts),
   rank |-> (IF required THEN 0 ELSE 6) + priority, place |-> place, required |-> required]

(* Groups are placed latest first, the rest in their order. *)
AllCandidates ==
  {Candidate({Part("system", 0), Part("question", 0)}, 1, 0, TRUE),
   Candidate({Part("data", 0)}, 1, 1, TRUE),
   Candidate({Part("catalogs", 0)}, 5, 0, FALSE)}
    \cup {Candidate(GroupParts(p), 3, Len(messages) - p, p \in LatestGroup \cup LatestToolGroup) : p \in Starts}
    \cup {Candidate({Part("turn", t)}, 4, t, FALSE) : t \in DOMAIN turns}

(* Required ones first, then by priority *)
Before(c, d) == c.rank < d.rank \/ (c.rank = d.rank /\ c.place < d.place)

LastOf(S) == CHOOSE c \in S : \A d \in S : ~Before(c, d)

Take(c, s) ==
  IF c.size <= s.left
  THEN [s EXCEPT !.left = @ - c.size, !.chosen = @ \cup {c}]
  ELSE [s EXCEPT !.exceeded = @ \/ c.required]

(* The candidates are looked at in their order: what is left after the last  *)
(* is what it leaves of what the others have left.                          *)
Selection ==
  MapThenFoldSet(Take, [left |-> budget - ToolsSize, chosen |-> {}, exceeded |-> FALSE],
                 LAMBDA c : c, LastOf, AllCandidates)

(* History in its order, data and catalogs, the question, then the run. *)
Position(x) ==
  CASE x.kind = "system" -> 0
    [] x.kind = "turn" -> 1 + Len(turns) - x.index
    [] x.kind = "data" -> 1 + Len(turns)
    [] x.kind = "catalogs" -> 2 + Len(turns)
    [] x.kind = "question" -> 3 + Len(turns)
    [] x.kind = "run" -> 3 + Len(turns) + x.index

Request(S) ==
  LET upTo[n \in 0..(3 + Len(turns) + Len(messages))] ==
        LET here == {x \in S : Position(x) = n}
            before == IF n = 0 THEN <<>> ELSE upTo[n - 1]
        IN  IF here = {} THEN before ELSE Append(before, CHOOSE x \in here : TRUE)
  IN  upTo[3 + Len(turns) + Len(messages)]

(* CONTEXT_BUDGET_EXCEEDED ends the run and leaves nothing to send. *)
Assemble ==
  /\ request = None /\ more = None
  /\ ~Selection.exceeded
  /\ request' = Request(UNION {c.parts : c \in Selection.chosen})
  /\ UNCHANGED <<budget, messages, turns, more>>

-----------------------------------------------------------------------------
(* buildFollowUpContext: columns go from the widest table, one each stays;   *)
(* then the answer is cut.  What else is in the context is "fixed".  What    *)
(* the run said has no part in it, so that one without messages will do.     *)

InAll(cs) == cs[1] + cs[2]

Widths == {<<m, n>> : m, n \in 0..MaxColumns}

Narrowed(cs) == IF cs[2] > cs[1] THEN <<cs[1], cs[2] - 1>> ELSE <<cs[1] - 1, cs[2]>>

CanNarrow(cs) == cs[1] > 1 \/ cs[2] > 1

Fitted(rest) ==
  LET fit[cs \in Widths] ==
        IF rest + InAll(cs) > Limit /\ CanNarrow(cs) THEN fit[Narrowed(cs)] ELSE cs
  IN  fit

FollowUp ==
  /\ more = None /\ messages = <<>>
  /\ \E fixed \in 0..(Limit + 1), answer \in 0..(Limit + 1), cs \in Widths :
       LET kept == Fitted(fixed + answer)[cs]
           excess == Max({0, fixed + answer + InAll(kept) - Limit})
       IN  more' = [fixed |-> fixed, told |-> answer, had |-> cs, columns |-> kept,
                    answer |-> Max({0, answer - excess})]
  /\ turns' = <<>> /\ request' = None
  /\ UNCHANGED <<budget, messages>>

Next == Respond \/ Shorten \/ Assemble \/ FollowUp

Spec == Init /\ [][Next]_vars

-----------------------------------------------------------------------------
Positions(kind) == {i \in DOMAIN request : request[i].kind = kind}

Cost == SumFunction([i \in DOMAIN request |-> Size[request[i]]])

InRequest == {request[i].index : i \in Positions("run")}

(* A request keeps the provider's protocol and the budget: every result     *)
(* stands in the group of its call and every call of a response is answered *)
(* there; turns and messages are in the order they happened; the question,  *)
(* the data, the latest response and the latest results are in it.  And     *)
(* what was left out would not have fitted.                                 *)
RequestIsWhole ==
  request # None =>
    /\ \A i \in Positions("run") :
         LET m == messages[request[i].index]
         IN  IF m.role = "tool" THEN m.of \in InRequest
             ELSE \A j \in 1..m.calls : request[i + j] = Part("run", request[i].index + j)
    /\ \A i, j \in Positions("run") : i < j => request[i].index < request[j].index
    /\ \A i, j \in Positions("turn") : i < j => request[i].index > request[j].index
    /\ {"system", "question", "data"} \subseteq {request[i].kind : i \in DOMAIN request}
    /\ messages # <<>> => Len(messages) \in InRequest
    /\ \A p \in DOMAIN messages : messages[p].role = "tool" /\ (\A q \in DOMAIN messages : q > p => messages[q].role # "tool") => p \in InRequest
    /\ Cost + ToolsSize <= budget
    /\ \A t \in DOMAIN turns :
         turns[t] + Cost + ToolsSize <= budget => \E i \in Positions("turn") : request[i].index = t
    /\ \A p \in Starts : SumFunctionOnSet(Size, GroupParts(p)) + Cost + ToolsSize <= budget => p \in InRequest

(* The context of suggested questions fits unless what cannot be cut does    *)
(* not, no table loses its last column, and nothing is cut that fitted.     *)
FollowUpFits ==
  more # None =>
    /\ more.fixed + InAll(more.columns) <= Limit => more.fixed + more.answer + InAll(more.columns) <= Limit
    /\ \A i \in 1..2 : more.had[i] > 0 => more.columns[i] > 0
    /\ more.fixed + more.told + InAll(more.had) <= Limit => more.columns = more.had /\ more.answer = more.told
=============================================================================
