------------------------------- MODULE Sources ------------------------------
(***************************************************************************)
(* The tables of one datasource: uploads, the deletion of a table, of the   *)
(* whole datasource, and the editing of column comments, each a             *)
(* transaction at READ COMMITTED that locks rows, reads and writes under    *)
(* the locks, and appears at its commit.                                   *)
(*                                                                         *)
(* An editor locks the catalog row before the datasource's, a deletion the  *)
(* other way round; PostgreSQL ends such a deadlock by aborting one.        *)
(* Definitions marked "Faulty" are plausible bugs in the definition after   *)
(* them and not part of the specification.                                 *)
(***************************************************************************)
EXTENDS Naturals, FiniteSets

CONSTANTS
  Sessions,   \* transactions that may run at a time
  Tables,     \* tables that may ever be uploaded: names are drawn anew
  Datasource, \* the row of data_source
  None

VARIABLES
  exists,     \* the datasource
  catalog,    \* datasource_table_catalog
  physical,   \* the tables of the uploads
  holder,     \* who has a row FOR UPDATE
  tx          \* what a transaction does, its table, what it has read, and how far it is

vars == <<exists, catalog, physical, holder, tx>>

Rows == Tables \cup {Datasource}

Init ==
  /\ exists = TRUE /\ catalog = {} /\ physical = {}
  /\ holder = [row \in Rows |-> None]
  /\ tx = [x \in Sessions |-> None]

(* The rows a transaction locks, in this order. *)
Order(kind, t) ==
  CASE kind = "upload" -> <<Datasource>>
    [] kind = "delete" -> <<Datasource, t>>
    [] kind = "edit"   -> <<t, Datasource>>
    [] kind = "remove" -> <<Datasource>>

Running == {y \in Sessions : tx[y] # None}

(* Nobody knows the name of a table that is still to be uploaded. *)
Known == physical \cup {tx[y].table : y \in Running}

Begin(x, kind, t) ==
  /\ tx[x] = None
  /\ kind = "upload" => t \notin Known
  /\ tx' = [tx EXCEPT ![x] = [kind |-> kind, table |-> t, locks |-> 0, listed |-> catalog, at |-> "locking"]]
  /\ UNCHANGED <<exists, catalog, physical, holder>>

IsThere(row) == IF row = Datasource THEN exists ELSE row \in catalog

NextRow(x) == Order(tx[x].kind, tx[x].table)[tx[x].locks + 1]

Locking(x) ==
  tx[x] # None /\ tx[x].at = "locking" /\ tx[x].locks < (IF tx[x].kind \in {"delete", "edit"} THEN 2 ELSE 1)

Lock(x) ==
  /\ Locking(x) /\ holder[NextRow(x)] = None /\ IsThere(NextRow(x))
  /\ holder' = [holder EXCEPT ![NextRow(x)] = x]
  /\ tx' = [tx EXCEPT ![x].locks = @ + 1]
  /\ UNCHANGED <<exists, catalog, physical>>

(* Rollback: 403 or 404, a lost connection, the victim of a deadlock. *)
Free(x) == holder' = [row \in Rows |-> IF holder[row] = x THEN None ELSE holder[row]]

Abort(x) ==
  /\ tx[x] # None
  /\ Free(x)
  /\ tx' = [tx EXCEPT ![x] = None]
  /\ UNCHANGED <<exists, catalog, physical>>

(* Faulty: remove lists the tables before it has the lock. *)
ListedFirst(x) == tx[x].listed

(* remove lists the tables under the lock. *)
Listed(x) == catalog

(* CREATE TABLE and the rows of it, DROP TABLE, the statements of remove. *)
Work(x) ==
  /\ tx[x] # None /\ tx[x].at = "locking" /\ ~Locking(x)
  /\ tx' = [tx EXCEPT ![x] = [@ EXCEPT !.listed = Listed(x), !.at = "writing"]]
  /\ UNCHANGED <<exists, catalog, physical, holder>>

Commits(x, kind) ==
  /\ tx[x] # None /\ tx[x].kind = kind /\ tx[x].at = "writing"
  /\ Free(x)
  /\ tx' = [tx EXCEPT ![x] = None]

CommitUpload(x) ==
  /\ Commits(x, "upload")
  /\ catalog' = catalog \cup {tx[x].table}
  /\ physical' = physical \cup {tx[x].table}
  /\ UNCHANGED exists

CommitDelete(x) ==
  /\ Commits(x, "delete")
  /\ catalog' = catalog \ {tx[x].table}
  /\ physical' = physical \ {tx[x].table}
  /\ UNCHANGED exists

CommitEdit(x) ==
  /\ Commits(x, "edit")
  /\ UNCHANGED <<exists, catalog, physical>>

(* The delete of the datasource cascades to the catalog, and waits for      *)
(* whoever has a row of it.                                                *)
CommitRemove(x) ==
  /\ \A t \in catalog : holder[t] \in {None, x}
  /\ Commits(x, "remove")
  /\ exists' = FALSE
  /\ catalog' = {}
  /\ physical' = physical \ tx[x].listed

Next ==
  \E x \in Sessions :
    \/ \E kind \in {"upload", "delete", "edit", "remove"}, t \in Tables : Begin(x, kind, t)
    \/ Lock(x) \/ Abort(x) \/ Work(x)
    \/ CommitUpload(x) \/ CommitDelete(x) \/ CommitEdit(x) \/ CommitRemove(x)

Spec == Init /\ [][Next]_vars

-----------------------------------------------------------------------------
(* Properties *)

(* Nothing is left behind: a table of an upload exists exactly as long as    *)
(* the catalog of its datasource has it, however uploads, deletions, edits   *)
(* and the end of the datasource overlap, fail or are aborted; and who edits *)
(* the comments of a table has a table that is there.                       *)
TablesCatalogued ==
  /\ physical = catalog
  /\ ~exists => catalog = {}
  /\ \A x \in Sessions :
       tx[x] # None /\ tx[x].kind = "edit" /\ tx[x].at = "writing" => tx[x].table \in physical
=============================================================================
