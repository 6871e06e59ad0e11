---------------------------- MODULE MemoriesPage ----------------------------
(***************************************************************************)
(* The page of a datasource's memories (MemoriesView.vue): a list that is   *)
(* searched and read on page by page, candidates below it, and the dialogs  *)
(* that show, edit, delete and compare one memory.  Requests travel while   *)
(* the user goes on, and the address bar may name another datasource at any *)
(* time.                                                                   *)
(*                                                                         *)
(* A memory is the datasource it is of.  Definitions marked "Faulty" are    *)
(* plausible bugs in the definition after them and not part of the          *)
(* specification.                                                          *)
(***************************************************************************)
EXTENDS Naturals, Sequences, FiniteSets

CONSTANTS
  Datasources,
  Owned,        \* those this user may write to
  Searches,     \* what the search field may say, "all" if it is empty
  None,
  MaxPages,     \* bound: pages of a list
  MaxLoads,     \* bound: loads of a list
  MaxReads      \* bound: requests for one memory under way

VARIABLES
  datasource,   \* datasourceId
  search,       \* what the search field says now
  items,        \* the pages of the list, each with the datasource and the search it is of
  cursor,       \* nextCursor: the page that comes next, of whatever search
  candidates,
  editing, viewing, deleting, history,
  epoch, loading,
  loads,        \* calls of load under way
  reads,        \* requests for one memory: the linked one, or an old version
  saving,       \* the form or a card that saves, and whether it is still there
  deciding,     \* mutate under way: a removal, or a candidate being rejected
  busy

dialogs == <<editing, viewing, deleting, history>>

list == <<search, items, cursor, candidates, epoch, loading, loads>>

work == <<reads, saving, deciding, busy>>

vars == <<datasource, list, dialogs, work>>

Init ==
  /\ datasource = None /\ search = "all"
  /\ items = <<>> /\ cursor = None /\ candidates = None
  /\ editing = None /\ viewing = None /\ deleting = None /\ history = None
  /\ epoch = 0 /\ loading = FALSE /\ loads = {}
  /\ reads = {} /\ saving = None /\ deciding = None /\ busy = FALSE

CanWrite == datasource \in Owned

-----------------------------------------------------------------------------
(* The list *)

MayLoad == epoch < MaxLoads

(* load: of the datasource selected now and what the search field says now,  *)
(* which need not be what the list on screen was searched for; a reply says  *)
(* which call it is of.  The cursor is the last memory of the page before,   *)
(* and memories come in one order: a page begins behind it in any search.   *)
Load(ds, more, others) ==
  /\ epoch' = epoch + 1
  /\ loading' = (ds # None)
  /\ loads' = others \cup (IF ds = None THEN {} ELSE
       {[seq |-> epoch + 1, of |-> ds, search |-> search, more |-> more, at |-> "items",
         from |-> IF more /\ cursor # None THEN cursor ELSE 1]})

(* What is typed matters to a load to come. *)
Type ==
  /\ MayLoad /\ search' \in Searches \ {search}
  /\ UNCHANGED <<datasource, items, cursor, candidates, epoch, loading, loads, dialogs, work>>

(* 查询, or Enter in the search field, which nothing disables *)
Search ==
  /\ MayLoad
  /\ Load(datasource, FALSE, loads)
  /\ UNCHANGED <<datasource, search, items, cursor, candidates, dialogs, work>>

More ==
  /\ MayLoad /\ cursor # None /\ ~loading /\ ~busy
  /\ Load(datasource, TRUE, loads)
  /\ UNCHANGED <<datasource, search, items, cursor, candidates, dialogs, work>>

(* Faulty: whatever comes last is shown. *)
Latest(l) == TRUE

Current(l) == l.seq = epoch

(* A page comes, with the cursor of the next one or none; candidates are    *)
(* asked for then, where the user may decide them.                         *)
PageComes(l) ==
  /\ l.at = "items" /\ Current(l)
  /\ items' = (IF l.more THEN items ELSE <<>>) \o <<[of |-> l.of, search |-> l.search, page |-> l.from]>>
  /\ \/ cursor' = None
     \/ l.from < MaxPages /\ cursor' = l.from + 1
  /\ IF CanWrite
     THEN /\ loads' = (loads \ {l}) \cup {[l EXCEPT !.at = "candidates"]}
          /\ UNCHANGED <<candidates, loading>>
     ELSE /\ loads' = loads \ {l}
          /\ candidates' = None /\ loading' = FALSE
  /\ UNCHANGED <<datasource, search, epoch, dialogs, saving, deciding, reads, busy>>

(* Cards stay for candidates that are still pending; one that is gone takes *)
(* its form with it, and what that reports later is dropped.               *)
CandidatesCome(l) ==
  /\ l.at = "candidates" /\ Current(l)
  /\ \E gone \in BOOLEAN :
       /\ candidates' = IF gone THEN None ELSE l.of
       /\ saving' = IF saving # None /\ saving.by = "card" /\ gone
                    THEN [saving EXCEPT !.there = FALSE] ELSE saving
  /\ loads' = loads \ {l} /\ loading' = FALSE
  /\ UNCHANGED <<datasource, search, items, cursor, epoch, dialogs, reads, deciding, busy>>

LoadFails(l) ==
  /\ loads' = loads \ {l}
  /\ loading' = IF Current(l) THEN FALSE ELSE loading
  /\ UNCHANGED <<datasource, search, items, cursor, candidates, epoch, dialogs, work>>

Outdated(l) ==
  /\ ~Current(l)
  /\ loads' = loads \ {l}
  /\ UNCHANGED <<datasource, search, items, cursor, candidates, epoch, loading, dialogs, work>>

-----------------------------------------------------------------------------
(* The datasource *)

(* The watcher: everything of the old one goes, dialogs and forms included. *)
Leave ==
  /\ items' = <<>> /\ cursor' = None /\ candidates' = None
  /\ editing' = None /\ viewing' = None /\ deleting' = None /\ history' = None
  /\ saving' = IF saving = None THEN None ELSE [saving EXCEPT !.there = FALSE]

(* The select, which is disabled while the page is busy *)
Select(ds) ==
  /\ MayLoad /\ ~busy /\ ds # datasource
  /\ datasource' = ds
  /\ Leave
  /\ Load(ds, FALSE, loads)
  /\ UNCHANGED <<search, reads, deciding, busy>>

(* The address bar: another datasource, and perhaps a memory to open, which  *)
(* may be of either.                                                        *)
Reads(r) == reads' = IF r = None THEN reads ELSE reads \cup {r}

Linked(ds) == {None} \cup [kind : {"linked"}, for : {ds}, of : Datasources]

FewReads(r) == r # None => Cardinality(reads \cup {r}) <= MaxReads   \* bound

Navigate(ds) ==
  /\ MayLoad /\ ds # datasource
  /\ datasource' = ds
  /\ Leave
  /\ Load(ds, FALSE, loads)
  /\ \E r \in Linked(ds) : FewReads(r) /\ Reads(r)
  /\ UNCHANGED <<search, deciding, busy>>

OpenLink ==
  /\ datasource # None
  /\ \E r \in Linked(datasource) : FewReads(r) /\ Reads(r)
  /\ UNCHANGED <<datasource, list, dialogs, saving, deciding, busy>>

OfThis(r) == r.for = datasource /\ r.of = datasource

(* A linked memory is shown if it is of the datasource it was asked for and  *)
(* that is still selected; an old version, if its memory is still compared. *)
ReadComes(r) ==
  /\ reads' = reads \ {r}
  /\ viewing' = IF r.kind = "linked" /\ OfThis(r) THEN r.of ELSE viewing
  /\ history' = IF r.kind = "version" /\ r.for = datasource /\ history # None THEN r.of ELSE history
  /\ UNCHANGED <<datasource, list, editing, deleting, saving, deciding, busy>>

-----------------------------------------------------------------------------
(* One memory *)

Listed == {items[i].of : i \in DOMAIN items}

View == \E m \in Listed \ {viewing} : viewing' = m /\ UNCHANGED <<editing, deleting, history>>

Close ==
  \/ viewing # None /\ viewing' = None /\ UNCHANGED <<editing, deleting, history>>
  \/ history # None /\ history' = None /\ UNCHANGED <<editing, viewing, deleting>>
  \/ ~busy /\ editing # None /\ editing' = None /\ UNCHANGED <<viewing, deleting, history>>
  \/ ~busy /\ deleting # None /\ deleting' = None /\ UNCHANGED <<editing, viewing, history>>

(* 新增, 修改, 删除, 历史 *)
Start ==
  /\ ~busy
  /\ \/ CanWrite /\ editing' = datasource /\ UNCHANGED <<viewing, deleting, history>>
     \/ \E m \in Listed :
          \/ CanWrite /\ editing' = m /\ UNCHANGED <<viewing, deleting, history>>
          \/ CanWrite /\ deleting' = m /\ UNCHANGED <<editing, viewing, history>>
          \/ history' = m /\ UNCHANGED <<editing, viewing, deleting>>
     \/ CanWrite /\ viewing # None /\ viewing' = None
        /\ \/ editing' = viewing /\ UNCHANGED <<deleting, history>>
           \/ deleting' = viewing /\ UNCHANGED <<editing, history>>

Dialog ==
  /\ View \/ Close \/ Start
  /\ UNCHANGED <<datasource, list, work>>

ReadVersion ==
  /\ history # None /\ ~busy
  /\ LET r == [kind |-> "version", for |-> datasource, of |-> history] IN FewReads(r) /\ Reads(r)
  /\ UNCHANGED <<datasource, list, dialogs, saving, deciding, busy>>

(* mutate: a removal, or the rejection of a candidate *)
Mutate ==
  /\ ~busy /\ deciding = None
  /\ \/ deleting # None /\ deciding' = [what |-> "remove", awaits |-> 0]
     \/ candidates # None /\ deciding' = [what |-> "reject", awaits |-> 0]
  /\ busy' = TRUE
  /\ UNCHANGED <<datasource, list, dialogs, reads, saving>>

(* It is done: what was to be deleted is forgotten, and the list read again *)
(* before the page is no longer busy.                                      *)
Mutated ==
  /\ deciding # None /\ deciding.awaits = 0 /\ MayLoad
  /\ deleting' = IF deciding.what = "remove" THEN None ELSE deleting
  /\ Load(datasource, FALSE, loads)
  /\ deciding' = IF datasource = None THEN None ELSE [deciding EXCEPT !.awaits = epoch + 1]
  /\ busy' = IF datasource = None THEN FALSE ELSE busy
  /\ UNCHANGED <<datasource, search, items, cursor, candidates, editing, viewing, history, reads, saving>>

Refreshed ==
  /\ deciding # None /\ deciding.awaits # 0
  /\ \A l \in loads : l.seq # deciding.awaits
  /\ deciding' = None /\ busy' = FALSE
  /\ UNCHANGED <<datasource, list, dialogs, reads, saving>>

MutateFails ==
  /\ deciding # None /\ deciding.awaits = 0
  /\ deciding' = None /\ busy' = FALSE
  /\ UNCHANGED <<datasource, list, dialogs, reads, saving>>

(* A form saves, and reports that it is busy; of the forms, only one at a time. *)
Save ==
  /\ ~busy /\ saving = None
  /\ \/ editing # None /\ saving' = [by |-> "dialog", there |-> TRUE]
     \/ candidates # None /\ saving' = [by |-> "card", there |-> TRUE]
  /\ busy' = TRUE
  /\ UNCHANGED <<datasource, list, dialogs, reads, deciding>>

(* It has saved, and the dialog closes; or it has not.  A form that is gone *)
(* tells nobody: the page stays busy.                                      *)
SaveEnds ==
  /\ saving # None /\ saving' = None
  /\ IF ~saving.there THEN UNCHANGED <<datasource, list, dialogs, busy>>
     ELSE /\ busy' = FALSE
          /\ \/ UNCHANGED <<datasource, list, dialogs>>
             \/ /\ MayLoad
                /\ editing' = IF saving.by = "dialog" THEN None ELSE editing
                /\ Load(datasource, FALSE, loads)
                /\ UNCHANGED <<datasource, search, items, cursor, candidates, viewing, deleting, history>>
  /\ UNCHANGED <<reads, deciding>>

Next ==
  \/ Type \/ Search \/ More \/ OpenLink \/ Dialog \/ ReadVersion
  \/ Mutate \/ Mutated \/ Refreshed \/ MutateFails \/ Save \/ SaveEnds
  \/ \E l \in loads : PageComes(l) \/ CandidatesCome(l) \/ LoadFails(l) \/ Outdated(l)
  \/ \E r \in reads : ReadComes(r)
  \/ \E ds \in Datasources : Select(ds) \/ Navigate(ds)

Spec == Init /\ [][Next]_vars

-----------------------------------------------------------------------------
(* Properties *)

(* The page never mixes datasources, whatever replies come late: the list is *)
(* made of pages of the selected one, as are its candidates, the form and    *)
(* every dialog.  Each page begins where the one before it ends, from the    *)
(* first on, and so does the next, so no memory is there twice.  They may    *)
(* be of different searches: "加载更多" goes on with what the field says     *)
(* then, from the place the former search has come to.                      *)
PageIsOfDatasource ==
  /\ \A i \in DOMAIN items : items[i].of = datasource /\ items[i].page = i
  /\ cursor \in {None, Len(items) + 1}
  /\ {candidates, editing, viewing, deleting, history} \subseteq {None, datasource}
=============================================================================
