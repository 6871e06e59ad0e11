------------------------------- MODULE Catalog -------------------------------
(***************************************************************************)
(* What a user is shown of the datasources: the list, the tables of one,    *)
(* and the structure that the page and the agent read.  A request reads in  *)
(* several queries, each of what is committed when it runs, while others    *)
(* share and unshare, upload, delete and remove, and policies change.       *)
(*                                                                         *)
(* Writes appear at once: they are transactions or, of permissions, one     *)
(* statement after a look at who owns the datasource, which never changes   *)
(* (Sources shows that tables exist as long as the catalog lists them).  A  *)
(* table has one column that policies are about.  Definitions marked        *)
(* "Faulty" are plausible bugs in the definition after them and not part of *)
(* the specification.                                                       *)
(***************************************************************************)
EXTENDS Naturals, Sequences

CONSTANTS
  Users,
  Local,      \* the public datasource, is_local
  Shared,     \* a datasource that a user may create
  Tables,     \* tables that may ever be uploaded: names are drawn anew
  Preset,     \* the table of the public datasource
  None

VARIABLES
  owner,      \* of Shared: created_by, None while it does not exist
  permitted,  \* datasource_permission of Shared
  uploaded,   \* the tables of Shared, each with who uploaded it
  gone,       \* tables that were deleted, and Shared once it is removed
  policy,     \* datasource_column_policy: of each table, "allow", "mask" or "deny"
  request     \* the request being served, with what was so all the time it took

world == <<owner, permitted, uploaded, gone, policy>>

vars == <<world, request>>

Datasources == {Local, Shared}

AllTables == Tables \cup {Preset}

Access == {"allow", "mask", "deny"}

Init ==
  /\ owner = None /\ permitted = {}
  /\ uploaded = [t \in {} |-> None] /\ gone = {}
  /\ policy = [t \in AllTables |-> "allow"]
  /\ request = None

-----------------------------------------------------------------------------
(* The rules *)

Exists(ds) == ds = Local \/ owner # None

(* Public, one's own, or shared with one: canAccess, findAllForUser,        *)
(* assertDatasourceAccess, and the checks in uploadTable and deleteTable.    *)
MayUse(ds, u) == Exists(ds) /\ (ds = Local \/ owner = u \/ u \in permitted)

TablesOf(ds) == IF ds = Local THEN {Preset} ELSE DOMAIN uploaded

(* resolveCatalogDatasourceId *)
Resolved(ds) == IF ds = None THEN Local ELSE ds

-----------------------------------------------------------------------------
(* Writes.  A request under way notes what still holds: "could" is whether  *)
(* its user could use the datasource at any time, "denied" and "hidden" are *)
(* the tables whose column was denied, or not plainly allowed, as long as    *)
(* they were there.                                                         *)

Noted(r) ==
  IF r = None THEN None
  ELSE [r EXCEPT !.could = @ \/ \E ds \in Datasources, u \in Users :
                               r.ds = ds /\ r.user = u /\ MayUse(ds, u)',
                 !.denied = @ \cap {t \in AllTables : policy'[t] = "deny" \/ t \in gone'},
                 !.hidden = @ \cap {t \in AllTables : policy'[t] # "allow" \/ t \in gone'}]

(* The creator gets a row of permissions, too. *)
Create(u) ==
  /\ owner = None /\ Shared \notin gone
  /\ owner' = u /\ permitted' = {u}
  /\ UNCHANGED <<uploaded, gone, policy>>

Grant(u) ==
  /\ owner # None
  /\ permitted' = permitted \cup {u}
  /\ UNCHANGED <<owner, uploaded, gone, policy>>

Revoke(u) ==
  /\ owner # None
  /\ permitted' = permitted \ {u}
  /\ UNCHANGED <<owner, uploaded, gone, policy>>

Upload(u, t) ==
  /\ MayUse(Shared, u) /\ t \in Tables \ (DOMAIN uploaded \cup gone)
  /\ uploaded' = [x \in DOMAIN uploaded \cup {t} |-> IF x = t THEN u ELSE uploaded[x]]
  /\ UNCHANGED <<owner, permitted, gone, policy>>

Without(S) ==
  /\ uploaded' = [x \in DOMAIN uploaded \ S |-> uploaded[x]]
  /\ gone' = gone \cup S

(* The uploader or the owner of the datasource; policies go with the table. *)
DeleteTable(u, t) ==
  /\ t \in DOMAIN uploaded /\ MayUse(Shared, u) /\ u \in {uploaded[t], owner}
  /\ Without({t})
  /\ policy' = [policy EXCEPT ![t] = "allow"]
  /\ UNCHANGED <<owner, permitted>>

(* Everything goes with the datasource. *)
Remove ==
  /\ owner # None
  /\ owner' = None /\ permitted' = {}
  /\ Without(DOMAIN uploaded \cup {Shared})
  /\ policy' = [t \in AllTables |-> IF t \in Tables THEN "allow" ELSE policy[t]]

(* Whoever administers the database sets policies of tables there are. *)
SetPolicy(t, access) ==
  /\ t \in {Preset} \cup DOMAIN uploaded /\ policy[t] # access
  /\ policy' = [policy EXCEPT ![t] = access]
  /\ UNCHANGED <<owner, permitted, uploaded, gone>>

Write ==
  /\ \/ Remove
     \/ \E u \in Users : Create(u) \/ Grant(u) \/ Revoke(u)
     \/ \E u \in Users, t \in Tables : Upload(u, t) \/ DeleteTable(u, t)
     \/ \E t \in AllTables, access \in Access : SetPolicy(t, access)
  /\ request' = Noted(request)

-----------------------------------------------------------------------------
(* Requests *)

(* Faulty: the columns are read before the policies. *)
StepsColumnsFirst(kind) ==
  CASE kind = "tables"    -> <<"access", "row", "catalog">>
    [] kind = "summary"   -> <<"access", "catalog">>
    [] kind = "members"   -> <<"owner", "members">>
    [] kind = "page"      -> <<"access", "access", "policies", "catalog", "columns">>
    [] kind = "structure" -> <<"access", "catalog", "columns", "access", "policies">>

(* The queries of listTables, getSchemaCatalogSummary, listPermissionUsers   *)
(* and getStructuredSchema of the API ("page", also for the suggestions) and *)
(* of the worker ("structure", for getSchemaDetail alone), in order.         *)
Steps(kind) ==
  CASE kind = "tables"    -> <<"access", "row", "catalog">>
    [] kind = "summary"   -> <<"access", "catalog">>
    [] kind = "members"   -> <<"owner", "members">>
    [] kind = "page"      -> <<"access", "access", "policies", "catalog", "columns">>
    [] kind = "structure" -> <<"access", "catalog", "access", "policies", "columns">>

Kinds == {"tables", "summary", "members", "page", "structure"}

Begin(kind, u, named) ==
  /\ request = None
  /\ named = None => kind \in {"summary", "structure", "page"}
  /\ request' =
       [kind |-> kind, user |-> u, ds |-> Resolved(named), next |-> 1,
        catalog |-> {}, policies |-> {}, columns |-> {},
        could |-> MayUse(Resolved(named), u),
        denied |-> {t \in AllTables : policy[t] = "deny"},
        hidden |-> {t \in AllTables : policy[t] # "allow"}]
  /\ UNCHANGED world

Serving == request # None /\ request.next <= Len(Steps(request.kind))

Query(step) == Serving /\ Steps(request.kind)[request.next] = step

Reads(field, value) ==
  /\ request' = [request EXCEPT !.next = @ + 1, ![field] = value]
  /\ UNCHANGED world

Refused == request' = None /\ UNCHANGED world

CheckAccess ==
  /\ Query("access")
  /\ IF MayUse(request.ds, request.user) THEN Reads("catalog", request.catalog) ELSE Refused

CheckOwner ==
  /\ Query("owner")
  /\ IF request.ds = Shared /\ owner = request.user THEN Reads("catalog", {}) ELSE Refused

(* findOne: the row may be gone by now. *)
ReadRow ==
  /\ Query("row")
  /\ IF Exists(request.ds) THEN Reads("catalog", {}) ELSE Refused

ReadMembers == Query("members") /\ Reads("catalog", {})

(* getAgentVisibleCatalogTables *)
ReadCatalog ==
  /\ Query("catalog")
  /\ Reads("catalog", IF Exists(request.ds) THEN TablesOf(request.ds) ELSE {})

(* getDatasourceColumnPolicies joins the catalog: no policies of tables that *)
(* are not in it.                                                           *)
ReadPolicies ==
  /\ Query("policies")
  /\ Reads("policies", {[table |-> t, access |-> policy[t]] : t \in TablesOf(request.ds)})

(* fetchRawSchemaRows: the columns of those tables that are still there.     *)
ReadColumns ==
  /\ Query("columns")
  /\ Reads("columns", {t \in request.catalog : t = Preset \/ t \in DOMAIN uploaded})

(* The answer: no tables without a column.  The page is told which are       *)
(* masked; getSchemaDetail leaves that out of what the model gets.           *)
Has(r, t, access) == [table |-> t, access |-> access] \in r.policies

Answer(r) ==
  [shown  |-> {t \in r.columns : ~Has(r, t, "deny")},
   masked |-> {t \in r.columns : r.kind = "page" /\ Has(r, t, "mask")}]

Served == request # None /\ ~Serving

Finish == Served /\ request' = None /\ UNCHANGED world

Next ==
  \/ Write
  \/ \E kind \in Kinds, u \in Users, named \in Datasources \cup {None} : Begin(kind, u, named)
  \/ CheckAccess \/ CheckOwner \/ ReadRow \/ ReadMembers
  \/ ReadCatalog \/ ReadPolicies \/ ReadColumns \/ Finish

Spec == Init /\ [][Next]_vars

-----------------------------------------------------------------------------
(* Properties *)

(* However the reads of a request and the writes of others fall, a user gets *)
(* an answer only about a datasource he could use meanwhile, and never the   *)
(* column of a table that was denied to the agent all the time the request   *)
(* took; on the page, a column that was never allowed as it is is marked so. *)
(* That a deletion takes the policies of a table along does not show what    *)
(* they hid.  The model is not told of masks (the documentation says so), so *)
(* nothing is said of them there: Results has what a query makes of them.    *)
ShownWithinPolicy ==
  Served =>
    /\ request.could
    /\ Answer(request).shown \cap request.denied = {}
    /\ request.kind = "page" =>
         (Answer(request).shown \ Answer(request).masked) \cap request.hidden = {}
=============================================================================
