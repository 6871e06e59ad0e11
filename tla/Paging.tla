------------------------------- MODULE Paging -------------------------------
(***************************************************************************)
(* Reading the stored result of a query page by page.  Three components do  *)
(* it: AnalysisArtifactTable shows one artifact and is given another one,   *)
(* QueryEvidence does the same with the description alone, and              *)
(* AnalysisProcessBlock keeps what it read of each artifact and replaces it *)
(* when the user tries again.  Requests are answered in any order or fail.  *)
(*                                                                         *)
(* A row is its artifact and its position.                                 *)
(***************************************************************************)
EXTENDS Integers, Sequences

CONSTANTS
  None,
  Artifacts,
  Limit,      \* rows of a page
  MaxRows,    \* bound: rows of an artifact
  MaxLoads    \* bound: requests of a behaviour

VARIABLES
  viewer,     \* "table", "evidence" or "process"
  rowsOf,     \* rows of the artifacts
  shown,      \* the table: artifact, revision, loading, error, metadata, rows, cursor
  objects,    \* AnalysisProcessBlock: what it read, and replaced
  current,    \* artifacts.value: the number of the object of an artifact, 0 for none
  loads,      \* requests under way
  asked       \* requests so far

vars == <<viewer, rowsOf, shown, objects, current, loads, asked>>

(* AnalysisArtifactController.rows: result_rows.slice(offset, offset + size) *)
Page(a, offset) ==
  LET to == IF offset + Limit < rowsOf[a] THEN offset + Limit ELSE rowsOf[a]
  IN  [rows |-> [i \in 1..(to - offset) |-> <<a, offset + i>>],
       cursor |-> IF offset + Limit < rowsOf[a] THEN offset + Limit ELSE None]

Blank == [loading |-> FALSE, error |-> FALSE, metadata |-> None, rows |-> <<>>, cursor |-> None]

NewObject(a) == [artifact |-> a, loading |-> TRUE, more |-> FALSE, error |-> FALSE,
                 metadata |-> None, rows |-> <<>>, cursor |-> None]

(* A request of the table has a revision, one of the process block an object. *)
Load(a, tag, reset, offset, of) ==
  [artifact |-> a, tag |-> tag, reset |-> reset, offset |-> offset, of |-> of]

Send(l) ==
  /\ asked < MaxLoads
  /\ asked' = asked + 1
  /\ loads' = loads \cup {l}

Init ==
  /\ viewer \in {"table", "evidence", "process"}
  /\ rowsOf \in [Artifacts -> 0..MaxRows]
  /\ shown = [artifact |-> None, revision |-> 0, is |-> Blank]
  /\ objects = <<>> /\ current = [a \in Artifacts |-> 0]
  /\ loads = {} /\ asked = 0

-----------------------------------------------------------------------------
(* AnalysisArtifactTable, QueryEvidence *)

(* load(true), with everything read so far forgotten *)
Reload(a, revision) ==
  /\ shown' = [artifact |-> a, revision |-> revision, is |-> [Blank EXCEPT !.loading = TRUE]]
  /\ Send(Load(a, revision, TRUE, 0, "metadata"))
  /\ UNCHANGED <<viewer, rowsOf, objects, current>>

(* The watch on the ids; two more revisions in the table, one in the evidence. *)
Show(a) ==
  /\ viewer # "process" /\ shown.artifact # a
  /\ Reload(a, shown.revision + IF viewer = "table" THEN 2 ELSE 1)

Retry ==
  /\ viewer # "process" /\ shown.is.error
  /\ ~shown.is.loading
  /\ Reload(shown.artifact, shown.revision + 1)

(* load(false) *)
More ==
  /\ viewer = "table" /\ shown.is.cursor # None /\ shown.is.metadata # None
  /\ ~shown.is.loading /\ ~shown.is.error
  /\ shown' = [shown EXCEPT !.is.loading = TRUE, !.is.error = FALSE]
  /\ Send(Load(shown.artifact, shown.revision, FALSE, shown.is.cursor, "rows"))
  /\ UNCHANGED <<viewer, rowsOf, objects, current>>

(* Faulty: whatever arrives is shown *)
CurrentAlways(l) == TRUE

Current(l) == l.tag = shown.revision

Stale(l) ==
  /\ viewer # "process" /\ l \in loads /\ ~Current(l)
  /\ loads' = loads \ {l}
  /\ UNCHANGED <<viewer, rowsOf, shown, objects, current, asked>>

(* The table goes on to the first page; the evidence has all it needs. *)
MetadataReply(l) ==
  /\ viewer # "process" /\ l \in loads /\ l.of = "metadata" /\ Current(l)
  /\ shown' = [shown EXCEPT !.is.metadata = l.artifact, !.is.loading = viewer = "table"]
  /\ loads' = (loads \ {l}) \cup {[l EXCEPT !.of = "rows"] : v \in {viewer} \ {"evidence"}}
  /\ UNCHANGED <<viewer, rowsOf, objects, current, asked>>

RowsReply(l) ==
  /\ viewer # "process" /\ l \in loads /\ l.of = "rows" /\ Current(l)
  /\ LET page == Page(l.artifact, l.offset)
     IN  shown' = [shown EXCEPT !.is.rows = IF l.reset THEN page.rows ELSE @ \o page.rows,
                                !.is.cursor = page.cursor,
                                !.is.loading = FALSE]
  /\ loads' = loads \ {l}
  /\ UNCHANGED <<viewer, rowsOf, objects, current, asked>>

(* Expired, other policies by now, or the connection broke *)
Fails(l) ==
  /\ viewer # "process" /\ l \in loads /\ Current(l)
  /\ shown' = [shown EXCEPT !.is.error = TRUE, !.is.loading = FALSE]
  /\ loads' = loads \ {l}
  /\ UNCHANGED <<viewer, rowsOf, objects, current, asked>>

-----------------------------------------------------------------------------
(* AnalysisProcessBlock *)

Object(a) == objects[current[a]]

(* loadArtifact from the dialog's button, or forced after an error *)
Open(a) ==
  /\ viewer = "process"
  /\ current[a] # 0 => Object(a).error \/ (Object(a).metadata = None /\ ~Object(a).loading)
  /\ objects' = Append(objects, NewObject(a))
  /\ current' = [current EXCEPT ![a] = Len(objects')]
  /\ Send(Load(a, 0, TRUE, 0, "both"))
  /\ UNCHANGED <<viewer, rowsOf, shown>>

(* Description and first page were asked for together; a new object. *)
Opened(l) ==
  /\ viewer = "process" /\ l \in loads /\ l.of = "both"
  /\ \E ok \in BOOLEAN :
       LET page == Page(l.artifact, 0)
           o == NewObject(l.artifact)
       IN  objects' = Append(objects,
             IF ok
             THEN [o EXCEPT !.loading = FALSE, !.metadata = l.artifact, !.rows = page.rows, !.cursor = page.cursor]
             ELSE [o EXCEPT !.loading = FALSE, !.error = TRUE])
  /\ current' = [current EXCEPT ![l.artifact] = Len(objects')]
  /\ loads' = loads \ {l}
  /\ UNCHANGED <<viewer, rowsOf, shown, asked>>

LoadMore(a) ==
  /\ viewer = "process" /\ current[a] # 0
  /\ Object(a).cursor # None /\ ~Object(a).more
  /\ objects' = [objects EXCEPT ![current[a]].more = TRUE]
  /\ Send(Load(a, current[a], FALSE, Object(a).cursor, "rows"))
  /\ UNCHANGED <<viewer, rowsOf, shown, current>>

(* The rows go to the object they were asked for, replaced by now or not. *)
LoadedMore(l) ==
  /\ viewer = "process" /\ l \in loads /\ l.of = "rows"
  /\ \E ok \in BOOLEAN :
       LET page == Page(l.artifact, l.offset)
           o == objects[l.tag]
       IN  objects' = [objects EXCEPT ![l.tag] =
             IF ok
             THEN [o EXCEPT !.rows = o.rows \o page.rows, !.cursor = page.cursor, !.more = FALSE]
             ELSE [o EXCEPT !.error = TRUE, !.more = FALSE]]
  /\ loads' = loads \ {l}
  /\ UNCHANGED <<viewer, rowsOf, shown, current, asked>>

Next ==
  \/ \E a \in Artifacts : Show(a) \/ Open(a) \/ LoadMore(a)
  \/ Retry \/ More
  \/ \E l \in loads :
       Stale(l) \/ MetadataReply(l) \/ RowsReply(l) \/ Fails(l) \/ Opened(l) \/ LoadedMore(l)

Spec == Init /\ [][Next]_vars

-----------------------------------------------------------------------------
(* What was read of an artifact is its beginning, and the cursor says where  *)
(* it goes on.                                                              *)
Beginning(v, a) ==
  /\ v.rows = [i \in DOMAIN v.rows |-> <<a, i>>]
  /\ v.cursor = IF Len(v.rows) < rowsOf[a] THEN Len(v.rows) ELSE None

(* Whatever is opened, tried again and answered late: under the description  *)
(* of an artifact stand its rows from the first on, none twice, none missing *)
(* and none of another artifact, and "load more" is there exactly as long as *)
(* there are more.                                                          *)
PagesFollow ==
  /\ shown.is.metadata # None =>
       /\ shown.is.metadata = shown.artifact
       /\ shown.is.rows # <<>> => Beginning(shown.is, shown.artifact)
       /\ viewer = "table" /\ ~shown.is.loading /\ ~shown.is.error => Beginning(shown.is, shown.artifact)
  /\ \A a \in Artifacts :
       current[a] # 0 /\ Object(a).metadata # None => Beginning(Object(a), a)
=============================================================================
