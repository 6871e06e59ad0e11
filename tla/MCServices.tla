----------------------------- MODULE MCServices -----------------------------
(***************************************************************************)
(* The services whose state spaces are small, checked in one run: the      *)
(* relay, and the components that share no state with it or each other.  A *)
(* behaviour is one of the part it begins with; the others stay as they    *)
(* are.                                                                    *)
(***************************************************************************)
EXTENDS Outbox

CONSTANT g1

(* The first event of g1 cannot be delivered. *)
FirstInvalid == {<<g1, 1>>}

VARIABLE part

(* The draft, the committed state and the artifacts of a conversation *)
CONSTANTS Conditions, MaxTurns, MaxTasks, MaxArtifacts, Accesses, MaxPolicyChanges

VARIABLES turn, verdict, committed, draft, tasks, prepared, observed, artifacts,
          access, changed, granted, at, label, moved, result, using

evidence ==
  <<turn, verdict, committed, draft, tasks, prepared, observed, artifacts,
    access, changed, granted, at, label, moved, result, using>>

E == INSTANCE Evidence WITH state <- draft, pc <- at

(* The memory of a datasource *)
CONSTANTS Items, Candidates, Callers, Messages, Names, Texts, MaxVersion

VARIABLES status, revisions, candidates, completed, calls

memory == <<status, revisions, candidates, completed, calls>>

M == INSTANCE Memory

(* Asking questions *)
CONSTANTS Requests, Conversations, Keys, Bodies, UserLimit, MaxAnswers

VARIABLES answers, open, userLock, conversationLock, requests

turns == <<answers, open, userLock, conversationLock, requests>>

T == INSTANCE Turns

(* An account *)
CONSTANTS Clients, MaxChanges, MaxLinks

VARIABLES secret, links, issued, sessions, rowLock, acts, proofs

account == <<secret, links, issued, sessions, rowLock, acts, proofs>>

A == INSTANCE Accounts WITH Callers <- Clients

(* The tables of a datasource *)
CONSTANTS Sessions, Tables, Datasource

VARIABLES exists, catalog, physical, holder, tx

sources == <<exists, catalog, physical, holder, tx>>

S == INSTANCE Sources

(* The result of a query *)
CONSTANTS Columns, MaxRows, Room, MaxSize

VARIABLES allowed, policy, query, step, fetched, limited, cells, warnings

results == <<allowed, policy, query, step, fetched, limited, cells, warnings>>

R == INSTANCE Results WITH at <- step, rows <- fetched

(* What a request to the model holds *)
CONSTANTS Budgets, MaxMessages, Limit, MaxColumns

VARIABLES budget, messages, earlier, assembled, more

context == <<budget, messages, earlier, assembled, more>>

X == INSTANCE Context WITH turns <- earlier, request <- assembled

(* What the structure of a datasource shows *)
CONSTANTS Users, Local, Shared, Uploads, Preset

VARIABLES owner, permitted, uploaded, gone, policies, serving

structure == <<owner, permitted, uploaded, gone, policies, serving>>

D == INSTANCE Catalog WITH Tables <- Uploads, policy <- policies, request <- serving

(* The connections to PostgreSQL *)
CONSTANTS Connections, Agent, Queries, MaxCalls

VARIABLES doing, aborted, cancels, inTx, broken, begun

pool == <<doing, aborted, cancels, inTx, broken, begun>>

P == INSTANCE Pool WITH Calls <- Queries, call <- doing, calls <- begun

(* A migration beside a live API *)
CONSTANTS Migrations, Askers

VARIABLES shape, answer, migrant, place, reset, work, migrated

migration == <<shape, answer, migrant, place, reset, work, migrated>>

B == INSTANCE Migration WITH Requests <- Askers, holder <- migrant, pc <- place

(* The records in which Turns and Catalog keep a request *)
Questions ==
  [conversation : Conversations, key : Keys \cup ({"new"} \X Requests), body : Bodies,
   at : {"asked", "user", "locked", "unique", "idle", "admitted", "answered", "refused", "clash", "lost"},
   reply : Nat, parent : Nat]

Readings ==
  [kind : D!Kinds, user : Users, ds : {Local, Shared}, next : Nat,
   catalog : SUBSET D!AllTables, policies : SUBSET [table : D!AllTables, access : D!Access],
   columns : SUBSET D!AllTables, could : BOOLEAN,
   denied : SUBSET D!AllTables, hidden : SUBSET D!AllTables]

(* NULL is nobody and nothing, names of different kinds differ, and limits  *)
(* are numbers.                                                             *)
ASSUME ServicesAssumption ==
  /\ None \notin Clients \cup Sessions \cup Connections /\ Datasource \notin Tables
  /\ Conditions # {} /\ Accesses # {} /\ MaxTurns \in Nat
  /\ None \notin Items \cup Candidates \cup Messages /\ Candidates \cap Messages = {} /\ MaxVersion \in Nat
  /\ None \notin [proposal : M!Proposals, status : {"pending", "accepted", "rejected", "lost"}, version : Nat,
                   result : {None} \cup (Items \X Nat)]
  /\ None \notin Requests \cup Questions /\ UserLimit \in Nat
  /\ MaxRows \in Nat /\ MaxSize \in Nat
  /\ Budgets \subseteq Nat /\ Limit \in Nat /\ MaxColumns \in Nat
  /\ None \notin Users \cup Readings /\ Local # Shared /\ Preset \notin Uploads \cup {Local, Shared}

-----------------------------------------------------------------------------
Components ==
  {"outbox", "evidence", "memory", "turns", "account", "sources",
   "results", "context", "structure", "pool", "migration"}

(* The variables of a part that does not run *)

NoEvidence ==
  /\ turn = None /\ verdict = None /\ committed = None /\ draft = None /\ tasks = None
  /\ prepared = None /\ observed = None /\ artifacts = None /\ access = None
  /\ changed = None /\ granted = None
  /\ at = None /\ label = None /\ moved = None /\ result = None /\ using = None

NoMemory ==
  /\ status = None /\ revisions = None /\ candidates = None /\ completed = None /\ calls = None

NoTurns ==
  /\ answers = None /\ open = None /\ userLock = None /\ conversationLock = None /\ requests = None

NoAccount ==
  /\ secret = None /\ links = None /\ issued = None /\ sessions = None /\ rowLock = None
  /\ acts = None /\ proofs = None

NoSources ==
  /\ exists = None /\ catalog = None /\ physical = None /\ holder = None /\ tx = None

NoResults ==
  /\ allowed = None /\ policy = None /\ query = None /\ step = None /\ fetched = None
  /\ limited = None /\ cells = None /\ warnings = None

NoContext ==
  /\ budget = None /\ messages = None /\ earlier = None /\ assembled = None /\ more = None

NoStructure ==
  /\ owner = None /\ permitted = None /\ uploaded = None /\ gone = None /\ policies = None
  /\ serving = None

NoPool ==
  /\ doing = None /\ aborted = None /\ cancels = None /\ inTx = None /\ broken = None
  /\ begun = None

NoMigration ==
  /\ shape = None /\ answer = None /\ migrant = None /\ place = None /\ reset = None
  /\ work = None /\ migrated = None

AllInit ==
  /\ part \in Components
  /\ Init
  /\ IF part = "evidence" THEN E!Init ELSE NoEvidence
  /\ IF part = "memory" THEN M!Init ELSE NoMemory
  /\ IF part = "turns" THEN T!Init ELSE NoTurns
  /\ IF part = "account" THEN A!Init ELSE NoAccount
  /\ IF part = "sources" THEN S!Init ELSE NoSources
  /\ IF part = "results" THEN R!Init ELSE NoResults
  /\ IF part = "context" THEN X!Init ELSE NoContext
  /\ IF part = "structure" THEN D!Init ELSE NoStructure
  /\ IF part = "pool" THEN P!Init ELSE NoPool
  /\ IF part = "migration" THEN B!Init ELSE NoMigration

(* Only part p takes a step. *)
Only(p) ==
  /\ part = p /\ UNCHANGED part
  /\ p # "outbox" => UNCHANGED vars
  /\ p # "evidence" => UNCHANGED evidence
  /\ p # "memory" => UNCHANGED memory
  /\ p # "turns" => UNCHANGED turns
  /\ p # "account" => UNCHANGED account
  /\ p # "sources" => UNCHANGED sources
  /\ p # "results" => UNCHANGED results
  /\ p # "context" => UNCHANGED context
  /\ p # "structure" => UNCHANGED structure
  /\ p # "pool" => UNCHANGED pool
  /\ p # "migration" => UNCHANGED migration

AllNext ==
  \/ Only("outbox") /\ Next
  \/ Only("evidence") /\ E!Next
  \/ Only("memory") /\ M!Next
  \/ Only("turns") /\ T!Next
  \/ Only("account") /\ A!Next
  \/ Only("sources") /\ S!Next
  \/ Only("results") /\ R!Next
  \/ Only("context") /\ X!Next
  \/ Only("structure") /\ D!Next
  \/ Only("pool") /\ P!Next
  \/ Only("migration") /\ B!Next

all ==
  <<part, vars, evidence, memory, turns, account,
    sources, results, context, structure, pool, migration>>

AllSpec == AllInit /\ [][AllNext]_all

-----------------------------------------------------------------------------
(* The properties, each stated in its module. *)

(* Judged hypotheses rest on evidence that fits them, and rows are used only *)
(* under the tables and policies they were read under.                      *)
EvidenceIsSound == part = "evidence" => E!CommittedFits /\ E!UsedWithinAccess

(* A revision keeps what its author did not name, and a candidate makes at  *)
(* most one.                                                                *)
MemoryIsKept == part = "memory" => M!NoLostUpdate /\ M!DecidedOnce

(* An idempotency key stands for one answer, and the turns of a             *)
(* conversation are numbered and continue the last completed one.           *)
AnswersInOrder == part = "turns" => T!KeyNamesOneAnswer /\ T!TurnsFollow

(* A change of the password kills older secrets. *)
OldSecretsAreDead == part = "account" => A!OldSecretsAreDead

(* Tables exist exactly as long as they are in the catalog. *)
TablesCatalogued == part = "sources" => S!TablesCatalogued

(* What leaves the executor keeps to the column policies, and a chart is    *)
(* drawn of a complete result or of one whose cut the executor overlooks.   *)
ResultsAreSound == part = "results" => R!OutputsFollowPolicy /\ R!ChartsAreWhole

(* A request to the model is well-formed and within its budget, and so is   *)
(* the context of suggested questions.                                      *)
RequestIsWhole == part = "context" => X!RequestIsWhole /\ X!FollowUpFits

(* No structure shows what was denied all the time; the page marks the masked. *)
ShownWithinPolicy == part = "structure" => D!ShownWithinPolicy

(* No connection goes back to its pool inside a transaction. *)
PoolIsClean == part = "pool" => P!PoolIsClean

(* No accepted answer is dropped by a migration, and a migrated database is *)
(* one the API starts on.                                                   *)
MigrationIsSafe == part = "migration" => B!NoneLost /\ B!MigratedStarts
=============================================================================
