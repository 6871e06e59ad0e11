------------------------------ MODULE Results -------------------------------
(***************************************************************************)
(* From a SQL text of the model to rows and a chart: SqlExecutor.execute,   *)
(* the tool around it, the assessment of the result and generate_chart.     *)
(*                                                                         *)
(* A statement is a record of what the code tells apart: the tables of its  *)
(* common table expressions and of its body, where it uses which column,    *)
(* the LIMIT of a subquery, which comes first in the text, and its own.     *)
(* Rows are counted, the limits scaled down.                                *)
(* Definitions marked "Faulty" are plausible bugs in the definition after   *)
(* them and not part of the specification.                                 *)
(***************************************************************************)
EXTENDS Integers, Sequences

CONSTANTS
  None,
  Tables,     \* table names; a table expression may have the name of a table
  Columns,    \* columns of the tables
  MaxRows,    \* MAX_ROWS
  Room,       \* the size of the rows the model receives at most
  MaxSize     \* bound: rows there are for a statement

VARIABLES
  allowed,    \* getAllowedTableNames
  policy,     \* getColumnPolicies
  query,      \* the statement being executed
  at,         \* "idle", "valid", "read", "assessed", "drawn" or "refused"
  rows,       \* what came back: number, different grains, numbers all exact
  limited,    \* isLimited
  cells,      \* how each column came out
  warnings    \* severities of the quality warnings, with their codes

vars == <<allowed, policy, query, at, rows, limited, cells, warnings>>

Places == {"output", "clause", "expression"}

Plain ==
  [parsed |-> "select", forbidden |-> FALSE, with |-> <<>>, from |-> {},
   uses |-> [c \in Columns |-> {}], star |-> FALSE, derived |-> FALSE,
   inner |-> None, outer |-> None, size |-> 1, grain |-> FALSE]

TableExpressions == [name : Tables, reads : SUBSET Tables]

(* Statements that differ from a plain one in one respect: what they read,   *)
(* where they use columns, how many rows they have                          *)
Reading(w, f) == [Plain EXCEPT !.with = w, !.from = f]
Using(u, s, d) == [Plain EXCEPT !.uses = u, !.star = s, !.derived = d]
Counting(i, o, n, g) == [Plain EXCEPT !.inner = i, !.outer = o, !.size = n, !.grain = g]

Statements ==
  {[Plain EXCEPT !.parsed = p] : p \in {"unknown", "several", "write"}}
  \cup {[Plain EXCEPT !.forbidden = TRUE]}
  \cup {Reading(w, f) : w \in UNION {[1..n -> TableExpressions] : n \in 0..2}, f \in SUBSET Tables}
  \cup {Using(u, s, d) : u \in [Columns -> SUBSET Places], s \in BOOLEAN, d \in BOOLEAN}
  \cup {Counting(i, o, n, g) :
          i \in {None} \cup 1..MaxSize, o \in {None} \cup 1..MaxSize, n \in 0..MaxSize, g \in BOOLEAN}

NoRows == [number |-> 0, grains |-> 0, exact |-> TRUE, width |-> 1]

Init ==
  /\ allowed \in SUBSET Tables
  /\ policy \in [Columns -> {"allow", "mask", "deny"}]
  /\ query = None /\ at = "idle"
  /\ rows = NoRows /\ limited = FALSE /\ cells = [c \in Columns |-> "none"] /\ warnings = {}

-----------------------------------------------------------------------------
(* validate *)

Used(q) == {c \in Columns : q.uses[c] # {}}
Restricted == {c \in Columns : policy[c] # "allow"}
Masked(q) == {c \in Used(q) : policy[c] = "mask"}

(* ctes: the names validateTableScopes knows where it reads the i-th part *)
Known(q, i) == {q.with[j].name : j \in 1..(i - 1)}

Part(q, i) == IF i \in DOMAIN q.with THEN q.with[i].reads ELSE q.from

TablesAllowed(q) ==
  \A i \in 1..(Len(q.with) + 1) : Part(q, i) \subseteq allowed \cup Known(q, i)

ColumnsAllowed(q) ==
  /\ q.star => Restricted = {}
  /\ \A c \in Used(q) : policy[c] # "deny"

(* Faulty: a masked column may be sorted or filtered by *)
MasksKeptLoosely(q) ==
  Masked(q) # {} => ~q.derived /\ \A c \in Masked(q) : "expression" \notin q.uses[c]

MasksKept(q) ==
  Masked(q) # {} => ~q.derived /\ \A c \in Masked(q) : q.uses[c] = {"output"}

Valid(q) ==
  /\ q.parsed = "select" /\ ~q.forbidden
  /\ TablesAllowed(q) /\ ColumnsAllowed(q) /\ MasksKept(q)

Submit ==
  /\ at = "idle"
  /\ \E q \in Statements :
       /\ query' = q
       /\ at' = IF Valid(q) THEN "valid" ELSE "refused"
  /\ UNCHANGED <<allowed, policy, rows, limited, cells, warnings>>

-----------------------------------------------------------------------------
(* The database *)

Least(a, b) == IF a <= b THEN a ELSE b

(* ensureLimit puts the statement into one with LIMIT MAX_ROWS. *)
Bound(q) == IF q.outer # None THEN Least(q.outer, MaxRows) ELSE MaxRows

Returned(q) == Least(q.size, Bound(q))

(* extractLimit: the first one in the text, of a subquery, a string or the  *)
(* statement, and the executor's own only behind them.                      *)
FirstLimit(q) ==
  IF q.inner # None THEN q.inner ELSE IF q.outer # None THEN q.outer ELSE MaxRows

IsLimited(q) == Returned(q) >= FirstLimit(q)

(* applyColumnMasks; column names of a star are all shown. *)
Shown(q, c) ==
  IF ~q.star /\ q.uses[c] \cap {"output", "expression"} = {} THEN "none"
  ELSE IF policy[c] = "mask" THEN "masked" ELSE "raw"

(* normalizeRows keeps a number only if it is exactly the one of the database. *)
Execute ==
  /\ at = "valid"
  /\ at' = "read"
  /\ limited' = IsLimited(query)
  /\ cells' = [c \in Columns |-> Shown(query, c)]
  /\ \E g \in 0..Returned(query), exact \in BOOLEAN, width \in 1..2 :
       /\ Returned(query) > 0 => g > 0
       /\ rows' = [number |-> Returned(query), grains |-> g, exact |-> exact, width |-> width]
  /\ UNCHANGED <<allowed, policy, query, warnings>>

(* A rejected statement, a timeout or an error of the database *)
ExecuteFails ==
  /\ at = "valid"
  /\ at' = "refused"
  /\ UNCHANGED <<allowed, policy, query, rows, limited, cells, warnings>>

-----------------------------------------------------------------------------
(* The tool *)

(* The rows the model receives *)
Kept == Least(rows.number, Room \div rows.width)

Warning(code, severity) == [code |-> code, severity |-> severity]

Duplicates == rows.number - rows.grains

(* assessResultQuality *)
Assess ==
  /\ at = "read"
  /\ at' = "assessed"
  /\ warnings' =
       {w \in {Warning("EMPTY_RESULT", "warning")} : rows.number = 0}
       \cup {w \in {Warning("RESULT_LIMITED", "blocking")} : limited}
       \cup {w \in {Warning("TOOL_RESULT_TRUNCATED", "blocking")} : Kept # rows.number}
       \cup {w \in {Warning("DUPLICATE_GRAIN", "blocking")} : query.grain /\ Duplicates > 0}
  /\ UNCHANGED <<allowed, policy, query, rows, limited, cells>>

Blocked == limited \/ \E w \in warnings : w.severity = "blocking"

(* generate_chart, behind the check of the adapter: all rows of the stored  *)
(* result, if the column counts as a number.                               *)
Draw ==
  /\ at = "assessed"
  /\ at' = IF ~Blocked /\ rows.exact THEN "drawn" ELSE "refused"
  /\ UNCHANGED <<allowed, policy, query, rows, limited, cells, warnings>>

Next == Submit \/ Execute \/ ExecuteFails \/ Assess \/ Draw

Spec == Init /\ [][Next]_vars

-----------------------------------------------------------------------------
(* The tables a statement really reads: a name stands for the table         *)
(* expression before it that has this name, and else for the table.         *)
ReallyRead(q) ==
  UNION {Part(q, i) \ {q.with[j].name : j \in {k \in DOMAIN q.with : k < i}} :
           i \in 1..(Len(q.with) + 1)}

(* What comes back is of tables the user was granted; no denied column took *)
(* part in it, and a masked one came out masked and decided nothing: not    *)
(* which rows are there, not their order, not another column.               *)
OutputsFollowPolicy ==
  at \in {"read", "assessed", "drawn"} =>
    /\ ReallyRead(query) \subseteq allowed
    /\ \A c \in Columns :
         /\ policy[c] = "deny" => ~query.star /\ query.uses[c] = {} /\ cells[c] = "none"
         /\ policy[c] = "mask" =>
              /\ cells[c] # "raw"
              /\ query.uses[c] \subseteq {"output"}
              /\ query.uses[c] # {} => ~query.derived

(* A chart shows each grain once, as exact numbers, and the model saw all of *)
(* it.  It shows every row there is, or those up to the LIMIT the statement  *)
(* runs under, and then the first LIMIT in the text is a higher one: this is *)
(* the one way in which a result is cut and nobody is told.                  *)
ChartsAreWhole ==
  at = "drawn" =>
    /\ \/ rows.number = query.size
       \/ rows.number = Bound(query) /\ Bound(query) < FirstLimit(query)
    /\ query.grain => Duplicates = 0
    /\ rows.exact /\ Kept = rows.number
=============================================================================
