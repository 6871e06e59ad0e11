# A TLA+ model of gist-agent

gist-agent answers analytical questions about a user's databases. A question is asked over HTTP; its
answer, a *generation*, is produced by a separate worker process, streamed back event by event, and
finally stored as a message, together with the *analysis state* that the next question of the
conversation builds on. This directory models that life of an answer, and the services and pages around
it, in TLA+, model-checks them with TLC and proves what matters most with TLAPS. Paths below are relative
to the repository; `api` stands for `apps/api/src`, `worker` for `apps/worker/src`, `web` for
`apps/web/src`, `db` for `packages/database/src`.

## 1. The system

| component | state it keeps | operations | what makes it correct | modules |
| --- | --- | --- | --- | --- |
| API, generations (`api/chat`) | rows `generation`, `conversation_turn`, `message`, `generation_request` | createTurn (under advisory locks, idempotent), cancel, retry, sync, history, stream | one active answer per conversation; a key names one answer; what is read back agrees with the log | Turns, Generation, ChatClient |
| worker shell (`worker/chat/chat.service.ts`, `generation.service.ts`, `generation-worker.service.ts`), monitor | a job activation's memory: abort signal, publish chain, blocks, draft session; columns `status`, `writer_token`, `heartbeat_at`, `last_sequence`; `generation_event`, `generation_attempt` | executeGeneration: candidate, permit, claim, heartbeat, run, checkpoint, publish, drain, finalize; failQueued; failStale | one writer; a gapless log closed by one done event; nothing changes after a terminal status; cancel wins; everything is settled in the end | Generation, AnswerPromise |
| analysis draft (`worker/analysis/analysis-state*.ts`, `db/analysis-state-schema.ts`, `worker/analysis/analysis-tools.ts`) | `analysis_state`, `analysis_state_draft`, `query_artifact` | begin, patch, save (compare and swap), promote | committed state moves only with a completion; judged hypotheses rest on evidence that fits | Generation, Evidence |
| agent loop (`worker/analysis/analysis-agent.ts`, `finish-analysis.ts`, `analysis-runtime-adapter.ts`) | model messages, loop flags, counters, blocks | rounds, tool batches, finish protocol, checkpoints, events | a finish is earned; charts only of seen evidence; no orphan calls; events and stored blocks agree | AgentLoop, Blocks |
| context assembly (`worker/analysis/context-assembler.ts`, `prepare-conversation-memory.ts`, `follow-up-suggestions.ts`) | none | trimming a request to its budget | what must stay stays, calls keep their results | Context |
| artifacts and SQL tools (`worker/chat/tools`, `result-quality.ts`, `api/analysis-artifact`) | query and chart artifacts | validate, execute, cancel, assess, draw, page | masks hold, partial results are known to be partial | Results, Evidence, Paging |
| outbox relay (`api/chat/outbox-relay.service.ts`) | `outbox_event`, Redis streams and keys, the BullMQ queue | dispatch in every API process: claim rows, deliver, mark | at least once, in order, each event once in the stream | Outbox |
| capacity permits (`worker/chat/generation-reliability.service.ts`) | three Redis sorted sets of leases | acquire, renew, release | never more executors with a lease than each limit | Permits |
| web store (`web/stores/chat.ts`) | messages, per generation a status and a sequence; a stream cursor | send, cancel, retry, applyEvent, resync, fetchMessages, startRealtime | the page ends with the stored answer | ChatClient, Blocks |
| pages (`web/components`, `web/views`) | what a form, list or player shows, and requests under way | paging, editing, reviewing, following, playing | late replies never replace newer state; nothing is written unseen | Paging, MemoryEditor, MemoriesPage, Comments, Suggestions, Following, Playback, Upload |
| memory (`db/memory-repository.ts`, `memory-policy.ts`, `api/memory`) | versioned items, candidates | create, update, restore, delete, remember, propose, decide | no lost update; a candidate becomes one revision at most | Memory |
| datasources (`api/datasource`, `*/database/schema.service.ts`) | sources, catalog, grants, column policies, uploaded tables, comments, suggestions | create, upload, share, enrich, suggest, delete | catalog and tables agree; nothing forbidden is shown | Sources, Upload, Catalog, Comments, Suggestions |
| accounts (`api/auth`, `api/user`) | users, reset links, JWTs | register, login, change, reset | a change of the password kills older secrets | Accounts |
| database client and migration (`db/index.ts`, `db/schema*.ts`, `scripts/migrate-database.mjs`) | two pools, the schema | query, withTransaction, cancel, migrate | no connection keeps a transaction; no accepted answer is dropped | Pool, Migration |
| conversations (`api/conversation`) | `conversation` | create, list, rename, remove | deletion takes everything along | Generation, Memory (remove only) |
| configuration, LLM client, contracts, rendering | none shared | - | - | not modelled |

How they interact. The API and the workers share no memory and send each other nothing directly. The API
inserts a `pending` row and an outbox row in one transaction; a relay turns the outbox row into a BullMQ
job; some worker takes the job, gets a permit from Redis, and claims the row by writing its token. From
then on the row is the meeting point: the executor writes under its token, the user's cancel changes the
status, the monitor of any worker settles what nobody renews, a deletion removes it. Inside the executor
the agent loop asks the model, runs its tools against a datasource through a connection of the pool, keeps
results as artifacts and the analysis state as a draft. Events and outbox rows are written together; relays
copy them to Redis streams, from which the API feeds the browser, which falls back to the event table when
it sees a gap. Memory, datasources, suggestions and accounts are served by the API from PostgreSQL alone.

What is hard here: several executors of one answer (redelivery, retries, stalled jobs, processes that were
thought dead); cancels and deletions between any two statements; a claim of three statements without a
transaction; a publish chain that fails in the middle of a good run; a completion that races the cancel or
the monitor; a committed state that could move under a draft; access that changes under a query; a model
that says anything in any order; delivery that repeats; transactions at READ COMMITTED that decide on what
they read before a lock; pages whose requests are answered late. PROJECT.json lists each of these at the
line where it bites.

## 2. The modules

### Generation.tla

One answer from its insertion to its end, for any number of answers, conversations of one user and
executors. Every action is one SQL statement or one transaction, because PostgreSQL is the only thing the
parties share; between two of them everything else may happen.

| in the model | in the code |
| --- | --- |
| `status`, `writer`, `lastSequence` | columns `status`, `writer_token`, `last_sequence` of `generation`; `"absent"` is no row |
| `overdue` | the timestamp failStale compares (heartbeat, created or cancel-requested, whichever applies) is older than its threshold |
| `events` | rows of `generation_event`: a sequence number and whether it is content or done with a status |
| `turn`, `attempts`, `message` | `conversation_turn.status`, the `generation_attempt` rows, how many emitted events `message.blocks` reflects |
| `draft`, `analysis` | `analysis_state_draft` (base revision, revision, does it hold an outcome) and `analysis_state` (revision, generation that committed it) |
| `conversation`, `live` | `conversation_id` and the conversations that exist |
| `failures` | the `attemptsMade` of the BullMQ job that threw |
| `pc`, `job` | where one job activation stands in `executeGeneration` and the generation its job names; an executor's name is its writer token |
| `abort` | the reason the AbortController was aborted with, reduced to the verdict it leads to |
| `blocks`, `queue`, `broken` | `emittedBlocks`, the publish chain of `emitter`, and its rejection |
| `session`, `outcome` | `session.state.revision` and `finalStatus` |

Actions follow the code's functions and keep their names: `Create` (createTurn), `Cancel`,
`DeleteConversation` (remove and its cascade), `FailStale`, `Candidate`, `FinalizeUnclaimed`, `Claim`,
`InsertAttempt` and `MarkRunning` (the three statements of claim), `Heartbeat`, `ReadRequest`,
`CancelPoll`, `Timeout`, `Emit`, `Publish`, `PublishFails`, `Checkpoint`, `BeginDraft`, `Save` (during the run
and, with `final`, once at its end), `RunReturns`, `RunAborted`, `RunFails`, `Drain`, `DrainThrows`, `Finalize`,
`FinalizeRefused`, `Recheck`, `FailQueued`. `StartJob` is BullMQ handing the job to an activation: any
idle executor may receive any answer's job at any time, which covers retries, stalled jobs and relay
redelivery. `CallFails` is any rejected call that leaves `executeGeneration` by an exception, a refused
permit included; `Throw` then counts an attempt and the last one goes on to `failQueued`. `Crash` is the
death of the process at any place. `Age` lets a timestamp pass the monitor's threshold.

What is abstracted. Text, tools and tokens are invisible: the runtime may emit, checkpoint, save the
draft, end or fail in any order it likes. `ownershipLost` is not a variable: heartbeats and permit
renewals set and clear it in ways no reader can predict, so every read may find it set. Event payloads are
reduced to content or done. The idempotency lookup and the locks of createTurn are in Turns, what the runtime does in AgentLoop,
what a draft may hold in Evidence.

Definitions marked "Faulty" are not part of the specification. Each is a plausible bug in the definition
after it (a dropped condition, a forgotten reset), and PROJECT.json says which property it violates.

### AnswerPromise.tla and GenerationPromise.tla

AnswerPromise is what a reader of the API may rely on, without workers, tokens or timers: an answer is
asked for where no other is unfinished, told piece by piece, and closed once, in one step with the done
event that says how; a cancel request rules out a completion; a completion moves the conversation's
analysis state up; deletion forgets. GenerationPromise instantiates it with the refinement mapping: the
phase of an answer is its row's status (`pending`, `starting`, `running` are all open), its log is
`generation_event` in order of sequence, and the committed revision is that of `analysis_state`.

### Outbox.tla

How rows leave PostgreSQL: any number of relays (one per API process) over the outbox rows of any number
of answers. A row is its answer and a number, 0 for the job and n for event n. `written` is what writers
have inserted, `state`, `due`, `lock` and `lapsed` the row's columns (`published_at` and
`dead_lettered_at`, `next_attempt_at <= NOW()`, `lock_token`, a `locked_at` older than 30 seconds); `jobs`,
`last`, `delivered` and `stream` are the queue's job ids and the three kinds of Redis keys of
PUBLISH_EVENT_SCRIPT; `pc`, `batch` and `current` are where a dispatch stands. One action per
statement or script: `Dispatch` (the claiming UPDATE), `Take` (a row's payload test, the queue's add, the
SELECT before an event is published), `Publish` (the script), `Mark`, `Fail` (the catch block). `Reject` is
a call that fails before or after it took effect, `Abandon` a process that dies or a catch block that
fails, `Create`, `Write` and `Remove` are the writers on the other side, as Generation describes them.

The statements that claim rows run under `FOR UPDATE SKIP LOCKED`, so two of them never share a row and
each is one step. The branch for `generation.terminal` rows is left out: no code in the repository
writes such a row. So is the expiry of the Redis keys after 24 hours.

### ChatClient.tla

The store of one browser tab (`web/stores/chat.ts`) and the answers of one conversation. The tab hears of
an answer in five ways, none of which waits for another: the reply to its own POST (`Answered`), the
frames of the user's stream (`Frame`), the history it asks for when a frame is ahead (`HistoryRow`,
`HistoryEvents`, `ResyncApply`), the messages of the conversation (`FetchRead`, `FetchApply`) and the sync
at its start (`SyncCursor` to `Reconcile`). All of them write the same two records.

| in the model | in the code |
| --- | --- |
| `status`, `last`, `ending`, `stored` | the row's `status` and `last_sequence`, the status in the done event, how many events `message.blocks` shows |
| `stream`, `cursor` | the user's Redis stream; the tab's place in it, kept in `sessionStorage` |
| `known`, `shown` | `generations[id]` (status, sequence); the events whose blocks the message on screen has, None without a message |
| `asked`, `cancels`, `fetches` | requests under way: POST of a question or a retry, cancel, GET messages with the rows it has read |
| `pc`, `sync`, `history` | where startRealtime awaits, and what it holds in local variables while it does |

The handlers of the API are split where they read twice: `sync` reads the end of the stream, then the
active rows, then the known ones; `history` reads the row, then the events. The server's writes between
them are a summary of Generation and Outbox: an answer's log grows, its message is checkpointed ahead of or behind the
log, it ends, its events reach the stream in order, its conversation may be deleted. Two details
of the code matter and are kept. `resync` holds on to the record it started with, which `fetchMessages`
may have replaced while the history was awaited (`detached`). And `fetchMessages` takes over the server's
sequence but leaves the message of an active answer as it is on screen. An own answer is a question's or
the retry of an earlier one; blocks are reduced to the numbers of the events that made them.

### Permits.tla

The capacity permits of `worker/chat/generation-reliability.service.ts` for any number of job activations and
sorted sets. `members`, `score` and `until` are what Redis holds (the members of a set, their
scores, the time PEXPIRE has set); `skew` is how far the clock of an activation's process is ahead; `sent` and
`beats` are commands under way with the clock reading they carry, since a script runs some time after
`Date.now()` was taken for it; `lost` is `ownershipLost`. `Script` is the Lua script of acquire: it sweeps
set after set up to the first full one, and adds to all or none. `Renew` is the one of renew,
`Answer` the moment both halves of a heartbeat have settled, in any order; the half that goes to
PostgreSQL may say no at any time. `Notice` is the poll of runGeneration. `Resend` and `AcquireFails` are
lost connections: ioredis repeats an unanswered command after reconnecting, or reports an
error for one that took effect. `Tick` drops a set when its PEXPIRE has run out.

Of two scores the model keeps the last one written even after the token is dropped: the code has no such
record, but properties need it to say whose lease has ended by whose clock.

### AgentLoop.tla

`AnalysisAgent.run` for one answer. The model may say anything: `Respond` picks a text (none, one in the
right language, one in English) and a batch of calls (queries, charts, finish, state changes, broken
calls). `pc` is where the loop awaits; the flags keep the code's names. `Ask`, `AskFails`, `Shorten` (the
provider refuses the length before any output), `StreamFails` are the request; `Finish`, `FinishTooEarly`,
`Refuse`, `Execute` dispatch a call; `Succeed`, `FailSoftly`, `SecurityStop`, `ToolThrows` are what comes
of it (`Stopped` is the return behind a security stop's checkpoint, which nothing checks); `Checkpoint` and `Continue` end a round; `Abort` makes `check()` throw at the next step that has
one. `waiting` are the calls in the history that have no result yet, which is what a provider looks at;
`basis` is `previouslyObserved`, the artifacts charts may use in this batch. Texts are reduced to whether
they count, tool results to the artifact they found, budgets of retries are kept.

### Blocks.tla

What the loop shows, kept twice: `Emit` changes the blocks the worker stores and hands the event to the
text buffer (`pending`) and the publish queue; `Publish` is an event reaching the log, and `ApplyBlock`
what the web store makes of it. The agent and the SQL tool appear by the events they emit, in the order
their control allows. The in-place change of a queued log by a failing query is kept (`Adjusted`).
A run ends by throwing (`ToolThrows`, `Stop`: stage "failing") or by returning (`SecurityStop`, `Close`); then
handleChat stores an error of which there is no event (`Fail`), which a run that returned gets too when the
signal is set or the draft cannot be promoted (`Finalize`). A query's title is the model's choice among those
of the rounds' logs and one other; `clashed` remembers that one was taken whose log was unfinished.

### Evidence.tla

The evidence of a conversation over its turns: `state` is the draft, `committed` the analysis state,
`artifacts` the rows of `query_artifact` with turn, task, conditions and the access they were read under.
`Patch` is the state tool with everything it resets, `SqlStart` to `SqlObserve` a query with its reads
before and after the datasource's answer, `ReadCheck`, `ChartCheck`, `Fetch` what may be done with an
artifact, `Begin`, `Complete`, `Drop` the ends of a turn. `PolicyChange` and `GrantOrRevoke` may come at any
step. Access is the content of tables and policies, which the fingerprint is a hash of: a change may bring
back a former one. `moved` remembers whether it changed between a query's fingerprint and its execution
(each is a few statements in a row, taken as one).

### Turns.tla

createTurn and retry for all conversations of a user: one transaction, modelled statement by statement
(`LockUser`, `LockConversation`, `Repeat`/`FirstUse`, `ConversationIdle`, `Admit`, `Insert`) because each
reads what is committed when it runs. `Finish`, `Cancel` and `Remove` are the rest of the world.
`Generation!Create` is the same transaction as one step, seen from the worker.

### Memory.tla, Accounts.tla, Sources.tla

Transactions at READ COMMITTED that read before they lock. Memory: `Read` and `Update` (update, restore,
disable, remove, all through `Save`), `Remember`/`Remembered`, `Propose` and `Decide` (accept, replace,
reject). Revisions remember their author's fields and the candidate they came from, for the properties.
Accounts: `Login`/`Sign`, `AskChange`, `AskReset`, `LockRow`, `Write`, `Commit`; passwords are numbers, a
session and a link carry the number they were issued under. Sources: upload, deletion of a table, editing
of comments and the end of a datasource, each `Begin`, a sequence of row locks, `Work`, a commit or an
`Abort`, with PostgreSQL ending deadlocks.

### Catalog.tla, Comments.tla, Suggestions.tla, Upload.tla

Catalog: what lists and structures show, read in several queries (`ReadRow`, `ReadMembers`, `ReadCatalog`,
`ReadPolicies`, `ReadColumns`) while others share, upload, delete and change policies. Comments:
SchemaEnrichmentModal and the service behind it, two editors of one table. Suggestions: generation of
suggested questions beside changes of the schema, with the stored row and the tab's cache. Upload: the
dialog, the cleaning of cells, type inference, naming of columns, batches of inserts. As in the code a row is a
record by name (`Under`, `Cell`): the columns are the names over the first row (`Keys`), of two cells under one
name the parser keeps the last, and a cell the first row has no name for is dropped. Numbers are counted in
halves; `Rounded` is the nearest double of a small floating-point format with `Exact` consecutive integers and
spacings of powers of two behind, its end included (`IsFinite`). The parsers themselves (csv-parser, xlsx) are
libraries, known by what the code asks of them; the order of names that look like integers is not modelled.

### Results.tla, Context.tla

Pure algorithms, run as short behaviours over enumerated inputs. Results: validation of a statement against
tables and column policies, limits, masks, cuts, quality warnings, charts. A statement is a record of what
the validator tells apart; the parser is a library. The properties compare with `ReallyRead` and with the
rows there are, not with the validator's own notions. Context: grouping of messages (`GroupAt`), the
candidates (`AllCandidates`), the selection of them one after the other (`Selection`, a fold of `Take` over
the candidates in their order), the arrangement of what was selected (`Request`, by `Position`), and the
narrowing of the schema for follow-up questions; token counts are small numbers. The reminders a run puts
behind its messages (`worker/analysis/analysis-agent.ts:171` and `191`) are not among them.

### Pool.tla, Migration.tla

Pool: transactions and read-only queries over two pools, cancellation through another connection of the
same pool, lost connections. Migration: `scripts/migrate-database.mjs` as one transaction with its locks,
beside requests that read, insert and wait.

### Paging.tla, MemoryEditor.tla, MemoriesPage.tla, Following.tla, Playback.tla

The pages that keep state between requests. Paging: three components that read stored rows page by page,
each with its own test for late replies. MemoryEditor: review before save, with the content, the target and
the related memories changing in between. MemoriesPage: list, dialogs and linked items while the address
bar moves to another datasource and the search field is typed in; a page is named by its place in the order of
the cursors. Following: scrolling of ChatDetail by intent, frame and tick; the listeners are passive, so the
event that announces a scroll (`Intend`) and the browser's moves (`Move`) are separate steps with any other
between them. `announced` and `reading` are not in the code: they remember what the user did, for the property.
Playback: MarkdownBlock's timers and the order texts are revealed in.

### The MC modules

MCGeneration, MCChatClient, MCPermits and MCAgentLoop instantiate one module. MCServices and MCPages put
components into one run that share no variable and no call: a behaviour chooses its `part` at the start,
takes steps of that part only, and the variables of the others are None (those of the part a run's module
extends stay as they begin). A property of such a run is `part = p => property of p`, so it is the
component's own. MCDelivery does the same for the two halves of delivery whose liveness is checked, the
executor and the relay: rows are written for the relay by its own `Create` and `Write`, which do not wait
for it, so neither half waits for the other. MCTab does it for the event loop of a tab and for Playback.

### GenerationInvariants.tla and the modules of proofs

The inductive invariants and the theorems, section 4.

## 3. What is model-checked

| run | instance | what it asks |
| --- | --- | --- |
| `generation` | 2 answers, 1 conversation, 2 executors, 2 job attempts, 1 event per execution, symmetric | safety of rows, log, message and analysis state; Generation implements AnswerPromise |
| `delivery` | 1 answer, 2 executors, 1 draft save before the final one; 1 relay, 2 events, batches of 2, event 1 invalid | liveness of executor and relay |
| `permits` | 2 activations of one user, limit 1 for the user and 2 for all, leases of 2 ticks, clocks up to 1 tick apart, 1 renewal under way, 4 ticks | the limits, whole permits, what the dead leave |
| `permits_notice` | 2 activations of two users, limit 1 for all, 2 renewals under way, 1 tick | liveness |
| `agent` | up to 3 responses with up to 2 calls, one query, one earlier and one fresh artifact | the loop's promises whatever the model says |
| `services` | eleven parts: 2 relays with 3 events; 2 turns, 2 tasks, 2 conditions, 2 artifacts, 2 changes between two accesses; 1 item with 3 revisions, 1 candidate; 3 requests with 2 keys in 2 conversations; 2 clients, 2 changes and 2 links; 3 sessions on 2 tables; 2 columns, 2 tables; 5 messages; 2 users; 3 connections, 2 callers; 1 migration, 2 requests | one property per part |
| `pages` | nine parts: 2 calls and 2 texts of one round; 2 artifacts of up to 3 rows; 1 memory with 2 versions; 2 datasources; a list of 4 heights; 2 texts; 2 editors of 2 columns; 2 calls over 3 schemas; 2 kinds of file | one property per part |
| `client` | 1 answer of this tab, 2 events, 1 request for messages at a time | what the tab reports is true, and the stored message is shown in the end |
| `client_stream` | 1 answer of another tab, 2 events; 2 texts of up to 2 characters | liveness of the event loop and of playing |
| `agent_unheard`, `client_repeat`, `client_deleted` | as `agent`, `client`, `client_stream` | three statements of the documentation that the code does not keep |

`generation`:

- `DoneClosesLog`: the log has no gap and no duplicate number; one done event exactly when the row is
  terminal, the last one, with the row's status. Three handlers settle rows while a writer still publishes.
- `SnapshotMatchesLog`: the message of a completed answer shows exactly the events of its log.
- `DraftStaysFresh`: a writer that may still complete has a finished draft on the committed revision: the
  errors of promoteAnalysisDraft are never thrown at the end of a good run.
- `CommitsOnlyCompletions`: no step moves the committed state without a completion.
- `KeepsPromise`: workers, tokens, monitors and retries together do no more than AnswerPromise allows,
  where a settled answer never changes and a cancelled one is never completed.

`delivery`: `EventuallySettled` (every answer is settled or deleted) and `EventuallyDelivered` (a written
row is published, given up or deleted). Fairness is what the code's timers justify: the monitor's interval
fires in some worker (`FailStale`), time passes (`Age`), the 120 s timer fires, calls return or are rejected
(`Shell`, `Chain`), a runtime whose signal is aborted unwinds (`RunAborted`, part of `Shell`); for the relay
that timers fire (`Lapse`, `BackoffEnds`, `Dispatch`), that the catch block runs, and that the calls for a
row, though they may be refused and relays may die any number of times, are not refused for ever (strong
fairness of the three calls, per row and whichever relay makes them). Nothing is assumed of users, of job
delivery, of heartbeats or of the model. A second relay adds only states here: one that dies with its rows
locked is the same relay again, with the same expired lock.

`permits`: `NeverOvercommitted` (executors whose lease no clock has seen the end of are never more than a
limit), `PlacesComeTogether` (who has no permit has places in all its sets or in none), `DeadHoldsBriefly`
(a place outlives its executor by one lease and the clock difference at most). `permits_notice`:
`DroppedStops`, an executor whose place was given away stops, assuming that interval and poll fire and
commands are run and answered, rightly or by a rejection.

`agent`: `HistoryIsPaired` (every checkpointed history pairs each call with one result), `ChartsOfSeenEvidence`
(a chart is drawn only of evidence whose result an earlier response could see), `FinishedIsDelivered` (a
recorded finish means the user has something to read), `AbortStops` (after an abort no tool starts, no
checkpoint begins and no outcome is returned, except that of a security stop whose checkpoint was already
under way: the code returns behind it without a look at the signal, and the row decides what it is worth).

`services`:

- `StreamInOrder`, `NothingLost`: the events of an answer are in the user's stream in order and each once;
  a row marked published was handed to the queue or is in the stream.
- `EvidenceIsSound`: judged hypotheses of the committed state cite whole, fitting results of completed
  turns, and a call uses rows only while the tables and policies they were read under are in force, the
  same or the same again, when it begins. One exception is in the code and in the property: if they changed
  between the fingerprint of a query and its execution, its rows carry the fingerprint of the former ones
  and pass once those are back.
- `MemoryIsKept`: a revision leaves what its author did not name as it was; a candidate becomes one
  revision at most.
- `AnswersInOrder`: a key names one answer, no request fails on a unique index, turns are numbered without
  gap and continue the last completed answer, no user exceeds the limit.
- `OldSecretsAreDead`: every change of the password was justified by the one it replaced, and no link
  mailed under an older one can be used.
- `TablesCatalogued`: a table exists exactly as long as the catalog has it.
- `ResultsAreSound`: results keep to tables and column policies; a chart shows each grain once, as exact
  numbers the model saw all of, and every row there is, or those up to the LIMIT the statement runs under,
  its own or the executor's. The latter happens exactly where the code overlooks the cut: it compares with
  the first LIMIT in the text, and a higher one of a subquery, a string or the statement hides the one in
  force. `docs/guides/risks-and-open-questions.md:10` and `docs/guides/sql-and-artifacts.md:188` know
  of this; such a chart is drawn of a partial result without a word.
- `RequestIsWhole`: every result in a request stands with its call and every call with its results, in the
  order they came; question, data and latest results are there; it is within its budget and leaves out only
  what would not have fitted; follow-up questions get as much of the schema as fits.
- `ShownWithinPolicy`: no structure shows a column that was denied all the time it took, and the page none
  unmarked that was masked all that time. The model's copy (`getSchemaDetail`) drops the masked flag, as
  `datasource-and-schema.md` says, so of masks nothing is claimed there.
- `PoolIsClean`: aborts do not use the pool up, and no call joins another's transaction.
- `MigrationIsSafe`: no accepted answer is dropped, and the API starts on a migrated database.

`pages`: `BlocksReplay` (whoever follows the log and whoever loads the message see the same, but for the error that only
the stored message has; where a query takes the title of an unfinished log, but for what logs say),
`PagesFollow` (the rows on screen are those of one artifact, in order, each once), `WritesReviewed` (only
what was shown with its related memories is written), `PageIsOfDatasource` (all a page of memories shows is of
the selected datasource, no memory twice; of one search it need not be), `KeepsPlace` (a reader who
scrolled up is not taken away, from when the list was moved while following had stopped, or when a scroll event
found that it came up), `PlaysOut` (what plays is exactly what is not shown in full, with a timer to
go on; no suggestion comes before it), `CommentsReviewed`
(nobody overwrites a comment unseen), `ShownAreCurrent` (a tab shows questions of the schema it last saved),
`UploadKeepsFile` (all ticked tables or none, each with a column for every name over the first row and every row
in order; what a cell keeps is what `Says` tells: text but for the commas of a grouped number, a number to the
precision of a double, without its leading zeros, and NULL if it is too large for one. Cells without a name over
the first row, and all but the last under one name, are lost: `Holds` claims nothing of them).

`client`: `NeverAhead` (the tab's sequence is one the log has, and an end it reports is the one that was
written) and `StoredAtRest` (once an end is known and every request for messages is answered, the message
on screen is the stored one; asked only of tabs that watch, because of `client_repeat`, and only as long as
no sync has replaced the sequences without the blocks, which is what `missed` remembers). `client_stream`:
`FramesHandled`, assuming that the event loop goes on by itself, that the three requests of the start are
answered or fail, and that a history that is asked for again and again is answered at some time, unless the
answer is gone; and `TextsEnd` (once an answer is settled and its texts stay as they are, all are shown in full,
nothing plays any more and the suggestions come), assuming that Vue flushes, that ticks come and that timers of
mounted renderers fire. That the texts change no more is a premise; the server sends none after done.

Bounds. Two executors are the fewest that race for a row, for the writer token and for failQueued; two
answers of one conversation are what base conflicts and a late writer of the first answer under
the second need. One event per execution is enough to be published late, lost, or dropped behind a rejected
one. Two attempts let a job throw once and be retried, and throw twice and reach failQueued. `MaxUpdates`
bounds draft saves before the final one, which `delivery` has. Two relays are the fewest of which one takes
over the other's rows, three events the fewest with one before and one after a given one, one invalid row is
enough for a gap. Two activations are the fewest that compete, two renewals the fewest whose answers
overtake each other, a lease of two ticks can be renewed in time or late. Two calls are the smallest batch
that stops in the middle; three responses let a reminder be followed by a refused finish and a good one. In
`services`, three requests are two that repeat one key and one that does not; three sessions are two in a
deadlock and one beside; three connections are one pool of two and the other. In `pages`, two of each kind
are one late reply and one that replaces it, and one text of a round meets the explanation of a stop. One answer suffices for the client, because the records of two
answers are disjoint; what they share is the event loop, and for that a frame is a frame. Where a part has a
theorem (section 4), its property does not depend on the bounds. Deadlock is not an error in
these instances: answers, requests and calls are finite sets, so an instance does come to rest.

What the definitions marked "Faulty" do: each is a plausible bug in the definition after it, and
PROJECT.json names the property that finds it.

Where code and documentation part, each shown by a run that ends in a counterexample:

- `client_repeat`: `docs/design/architecture.md:50` says events are deduplicated by sequence. The reply to
  POST, if it is slower than the first frames and a fetch, sets the sequence to 0 (`web/stores/chat.ts:162`)
  under a message that was fetched with blocks, and the next frame is appended although its event is
  already shown. The fetch after done repairs it.
- `client_deleted`: the comment at `web/stores/chat.ts:331` says reconnecting goes on with the recovery.
  When a gap frame belongs to an answer whose conversation was deleted, the history is a 404, `resync`
  throws on it, and the loop reconnects before the same frame for ever; frames of other answers behind it
  are not handled.
- `agent_unheard`: `docs/guides/agent-loop.md:161` says a finish without any delivery is refused with an
  error that asks to answer first. After an empty first response the loop is in its closing phase
  (`worker/analysis/analysis-agent.ts:189`), where a text with the next finish is neither published nor
  counted (line 181): the model does what the error asks and is refused again.

## 4. What is proved

| module | holds for every | assumes only |
| --- | --- | --- |
| GenerationProofs | set of generations, conversations and executors, values of the bounds | `GenerationAssumption`: NULL is no id, limits are positive numbers |
| OutboxProofs | set of answers and relays, batch limit, choice of invalid rows | `OutboxAssumption` |
| PermitsProofs | activations and sorted sets, limits, lease, grace, clock difference | `PermitsAssumption` |
| AgentLoopProofs | queries, artifacts, error codes, batch length, number of responses | `AgentAssumption`: the bounds are numbers |
| ServicesProofs | constants of the ten parts it is about | `ServicesAssumption`: NULL is nobody and nothing, names of different kinds differ, limits are numbers |
| PagesProofs | constants of the eight parts it is about | `PagesAssumption`: limits and sizes are numbers, the search field may be empty, there is a version of a text, the sheets of a file are sequences of rows of cells, the spacings of doubles are positive numbers, None is not a record of the memory editor's |
| BlocksProofs | numbers of rounds, calls and texts | `PagesAssumption`: they are numbers |
| ClientProofs | set of answers, those this tab may ask for, number of events and of requests under way | `ClientAssumption`: the bounds are positive numbers; `NoneAssumption`: None is no sync |

### GenerationProofs

- `TypeCorrect`: `TypeOK`, `JobKnown` and `Decided` are invariants. They are proved together, because a
  step keeps the type of the records only if a busy executor's job is a generation that has a
  conversation and only if an outcome is recorded where finalize needs it.
- `RecordsCorrect`, `OneActiveAnswer`, `LogIsClosed`: `RecordsAgree`, `OneActive`, `DoneClosesLog`.
- `SettledForGood`, `CancelHonoured`, `WriterUnique`: the action properties about rows (`TerminalIsFrozen`,
  `CancelIsHonoured`, `WriterIsUnique`). The runs ask for the first two through `KeepsPromise`.
- `InductiveInvariant`: `Inductive` is an invariant.
- `SnapshotCorrect`, `DraftFresh`, `CommitsCompletions`: what follows from it about message and draft.
- `ImplementsPromise`: Generation implements AnswerPromise, `Spec => KeepsPromise`.

The argument. None of the safety properties is inductive as it stands. `RecordsAgree` needs `Fresh` (no
executor past its claim works for a pending row), `Exclusive` (two executors past their claim never hold
the same answer, even long after it was settled or deleted, since an id is never inserted twice) and
`Unattempted`. `DoneClosesLog` needs the row's agreement and `Blank` (what deletion leaves behind), and
that no action adds to the log of a terminal row. `SnapshotMatchesLog` rests on `Accounted`: while a writer
may still complete, the events in the log and those in its queue are all it emitted; a rejected publish
ends that for good, and `Remembers` says that such an executor never reaches finalize with a completion.
`DraftStaysFresh` rests on `Based`: nobody commits under an unfinished answer, by `OneActive`, so the base
of its draft stays the committed revision; and on `Held`, which ties the writer's session to the draft row
and a completion to a finished draft. Each conjunct is proved preserved by a lemma of its own with one step
per action.

The refinement (`ImplementsPromise`). The initial states correspond; for a step, lemma `PromiseStep` has one case per action. Most change nothing a
reader sees. Those that do need the invariant: an insert finds no other answer of the conversation
unfinished (`OneActive`), a publish appends to a log whose numbers are 1 to `lastSequence` (`DoneClosesLog`,
which also makes the mapped log a sequence), the three settling actions write status and done event
together, and a promotion raises the revision (`Based`). `CancelKnown` is an invariant of its own: an
executor that was aborted as cancelled, or means to finish so, works for a row that is not open any more.

### OutboxProofs

- `OutboxInvariant`, `StreamOrdered`, `MarkedIsSent`, `OnlyDeadMissing`: `Inductive` of Outbox and the three
  properties in it.

The argument for the outbox. What a relay has claimed is `Ready`: nothing open is ahead of it, and that
stays so, since a row once settled is never opened again, even when its lock has passed to another relay.
So every earlier event is in the stream (`NothingLost`) or was given up (`DeadInvalid`), and the script's keys
say what the stream holds (`KeysAgree`). If the script finds the sequence not above the last one, then by
`GapsAreDead` the event was delivered before: the relay may mark the row (`Sent`). Otherwise it appends the
event behind all its predecessors, which keeps `StreamInOrder` and `GapsAreDead`.

### PermitsProofs

- `PermitsInvariant`, `LimitsHold`, `PlacesAreWhole`, `DeadIsBrief`: `Inductive` of Permits and the three
  safety properties.

The argument for permits. No set exceeds its limit (`WithinLimit`), because the only step that adds a token
counts and adds at once. For that to say anything about executors, one that runs with a lease must
be in its sets (`Counted`): a token is dropped by a script whose clock reading is at most `now + MaxSkew`
(`Sane`), or with the whole set, which PEXPIRE keeps until after its last lease (`Outlived`); and nobody's
late renewal brings a token back. `OneLease` says that before a permit all scores of a token are equal, so that
a lease in force in one set is in force in all.

### AgentLoopProofs

- `LoopInvariant`: `Inductive`, a type invariant with three parts.
- `HistoryPaired`, `ChartsSeen`, `FinishDelivered`, `AbortObeyed`: the four properties of the run.

The argument. `Paired`: while a batch is dealt with, the calls that wait for a result are those left in it,
and between batches none does, so a checkpoint, made after a batch was dealt with or skipped to its end,
finds none. `Seen`: what may be drawn (`basis`) was fixed before the batch, and everything in it came in an
earlier round. `Earned`: `answered` implies that the text went to the user, and a finish is accepted only of
what was answered or delivered. `AbortStops` follows from the guards that each step after an await makes.

### ServicesProofs

All theorems are about `AllSpec`, the specification of the run; `PartStep` reduces each to a step of one
component's `Next`.

- `SecretsDie` (`AccountKept`): who holds the row's lock has read the secret in force, so a change is
  justified by it; a fresh link was issued under it, because a change marks every link there is, and the
  insert of another waits for the lock.
- `TablesStay` (`TablesKept`): a session past a lock holds it, exclusively; uploads and deletions change
  catalog and tables in one commit; an editor's table cannot go, for the deletion needs the editor's lock.
- `MigrationSafe` (`MigrationKept`): a reset that has its locks keeps new answers out, and one that has
  looked has seen none unfinished, so what it drops was settled or never accepted; and a migration that
  commits leaves every shape current, which nothing takes back.
- `PoolStaysClean` (`PoolKept`): where a call stands says whether its connection is in a transaction, two
  calls never have the same one, and what is released in doubt is destroyed.
- `EvidenceSound` (`EvidenceKept`): five conjuncts: turns are numbered and one runs, what the committed state
  cites and what the draft cites (`Cited`), a label is the access its rows were read under unless that moved,
  and where a call stands says what it may rely on.
- `MemoryStays` (`MemoryKept`): a call that will pass the test of the version under the lock has read that
  very version (`EditKept`), so its copy is the one it replaces; a revision that names a candidate is its
  result, and the candidate is no longer pending (`Born`).

- `ShownStaysWithinPolicy` (`StructureKept`): what a request has read of grants, catalog and policies is what
  was there at some time since it began (`ReadingKept`), so that a column that was denied all the time is
  among the policies it read, and a policy that went with its table hides nothing that is still there
  (`PoliciesKnown`).
- `ResultsStaySound` (`ResultKept`): what a statement reads is among what was granted when it was taken, and
  between reading, assessing and drawing nothing but cuts happens to the rows. The part of the run is one
  statement, so the invariant has no strengthening but for where it stands.
- `AnswersStayInOrder` (`AnswersKept`, `QuestionKept`, `TurnsKept`): a request past a lock holds it, and what
  it has read under the lock still is so (its key is free, the number of active answers, the last turn);
  the numbers of a conversation's answers grow with their turns, so that the turn is the count of those
  before. Here the answer with the greatest number is needed to exist; maxima and minima come from the
  well-foundedness of the naturals (`LeastOf`, `MaxOf`), of a set and without induction over an operator.
- `RequestStaysWhole` (`ContextKept`): the invariant adds to the property that messages are `Grouped`, every
  response followed by the results of its calls. Hence the group of a response is an interval (`GroupIs`),
  groups share no message and candidates no part (`CandidatesApart`). The selection is a fold over the
  candidates: what one has after each of them satisfies `Selects` (what is left and what was taken make up the
  budget, what was passed over is larger than what is left, and a required one was passed over only if the
  budget is exceeded), which `Take` keeps for whichever candidate comes next (`TakeKeeps`, `SelectionIs`), so
  that the property does not depend on the order of sorting. The arrangement puts one part after the other by
  its position, which no two parts share (`PositionIs`, `PutKeeps`, `RequestIs`), so that what follows in the
  run stands side by side (`RunStands`). The cost is a sum over the request, the budget counts sums over sets
  of parts: sums over finite sets do not depend on the order, add up over disjoint sets and keep their value
  when things are renamed (`TotalAny`, `TotalUnion`, `TotalRenamed`). That these folds and recursive functions
  exist, and what they satisfy, is shown by a smallest set or a least number at which it would fail
  (`SmallestOf`, `LeastOf`; `SumExists`, `SelectExists`, `RequestExists`, `FitExists`), without induction over
  an operator.

### PagesProofs

One theorem for each page of the run `pages`, about its `AllSpec`: eight parts, which share no
state. The ninth, Blocks, has a module of its own.

- `PlaceKept` (`ReaderKept`): who reads above is away from the bottom, so no handler takes what it measures
  for a return; and while a scroll is announced following has stopped, so the move that follows is reading.
- `CurrentShown` (`SchemasKept`): a call of the tab that no save has overtaken has read a schema not older
  than the last save, or got its questions from a row whose key says so, and a save under way leaves a newer
  one behind.
- `NoCommentUnseen` (`EditorKept`): beside a column that is ticked the editor shows what it showed when it was
  ticked, and nothing stays ticked that a reply could change under it; a save carries both the texts and what
  was shown, which the service compares with the table before it writes.
- `TextsPlayOut` (`PlayKept`): those renderers play whose text is not shown in full, and the timers of those
  that play run. That playing ends is `TextsEnd`, which is only model-checked.
- `MemoriesOfDatasource` (`PageKept`, `LoadKept`): a load that would be applied has the number the page waits
  for, and that load was sent for what is selected and brings what is next in the list; changing the selection
  takes everything of the old one along.
- `MemoriesReviewed` (`FormKept`; an action property): the form's proof of having looked, a list of related
  memories, belongs to the content in it; every edit drops it.
- `PagesInOrder` (`TableKept`, `ProcessKept`): a read that is still awaited begins where the object or table
  it is for ends (`Continues`), and no two awaited reads are for the same one.
- `FileKept` (`UploadKept`): a double next to a number differs from it by one part in `Exact` at most
  (`RoundedNear`), each name over the first row has one column (`KeysAreNames`), a prepared table holds its sheet
  (`TableKeeps`); the tables made so far are the first of those prepared, all but the last whole
  and that one a beginning (`Partial`); a failure takes them all back before anyone is told.

### BlocksProofs

- `BlocksAgree`: `BlocksReplay` (`ReplayGivesBlocks` and `ActivitiesSettle` of Blocks), for runs of any length in
  which no query takes the title of a log that is unfinished. For those in which one does, that the two differ
  in no more than what logs say is only model-checked.

The argument. The worker's emit and the page's applyBlock differ in what they look for: emit changes the
first unfinished log of a title, the page the last. They do the same (`SameBlocks`) where there is one of
each (`Tidy`), and emit keeps it so, unless it is given the start of a log whose title is still open
(`StoredKeeps`); that this happens only to a query whose title is taken, the case the theorem leaves out, is
where the control of loop and tools comes in (`LiveKept` says which logs and activities may be open at each
stage). They also differ in when they see a text: emit joins
each fragment at once, the page a buffered text as one (`JoinedTwice`: that makes no difference, because
anything else sends the buffer off first). Hence `Agrees`, that replaying queue and buffer over the page's
blocks gives the worker's, survives one event (`SentAgrees`) and a list of them, and publishing moves the
first event of the queue to the page (`ReplayFirst`). The one step outside this pattern is a failing query,
which changes a log in place in the blocks and in the queue: `QueryRuns` says that it is the last log but
for the statement in both. Behind the error of a failed run only flushes and publications come, which change
nothing of what replaying gives (`EndKept`). Replaying is a recursive function over a queue of any length; that it exists and
that two that go on alike are equal is shown by the least number at which they would not (`ReplayExists`,
`ReplayIs`), from the well-foundedness of the naturals.

### ClientProofs

- `RepliesWereTrue`: `Kept` is an invariant: the types, and that whatever is under way to the store (rows of
  messages, of the sync and of a history, states it holds, frames of the stream) is `Truthful`.
- `ServerLeads`, `ScreenSettles`: `NeverAhead` and `StoredAtRest`.

The argument. The server only goes on (`GoesOn`): logs grow, and an answer that is over never changes again.
So what a reply says stays true in the sense that matters: its sequence is one the log has, and if it says
that the answer is over, then status, sequence and message in it are the last ones. Every action then keeps
the records by this alone, in whatever order replies come, and `NeverAhead` follows. For `StoredAtRest`
one needs what a step makes of a `View`: an event that ends an answer asks for its messages (`AppliedAtRest`),
and a resync that shows a snapshot, possibly into a record nobody reads any more, has one of an answer that
is over or deleted: if the events are wanting, the row was the last word (`HistoryKept`). Since requests
that are asked for find a place or count as missed (`AskingKeeps`), a step after which nothing is under way
has either not touched the message or replaced it by the stored one.

### What is only model-checked

`EventuallySettled`, `EventuallyDelivered`, `DroppedStops`, `FramesHandled` and `TextsEnd`: liveness under fairness is out
of the prover's reach. Every other property of a passing run is a theorem. The three statements of the
documentation that the code does not keep are refuted by TLC, on the instances of their runs.

## 5. Not modelled

- The outbox branch for `generation.terminal` rows: no code in the repository writes such a row. The expiry
  of Redis keys after 24 hours.
- Creating, listing and renaming conversations: single statements with no interplay.
- Charts and the process display (ChartBlock, AnalysisProcessBlock beyond its paging), and the pages that
  only show what they fetch: rendering.
- Configuration, the LLM client, type declarations; getDatabaseSchemaPrompt, which nothing calls.
- What the language model writes, SQL parsing (a library), PostgreSQL and Redis themselves, whose atomic
  statements, scripts and transactions are taken as the grain of the actions.

Seen while modelling, and covered by no property because the code makes no promise about them, or the effect
is repaired by the next request:

- `worker/analysis/analysis-runtime-adapter.ts:84` and `web/stores/chat.ts:248`: a query titled like a log that is
  still unfinished makes worker and page settle different ones, and one stays "busy" on one side (`clashed`).
- `web/views/MemoriesView.vue:256`: "load more" sends what the search field says by then with the cursor of the
  list on screen, so a list may go on with another search; as memories are ordered by id
  (`db/memory-repository.ts:88`), none is shown twice, but some of either search are left out.
- `api/datasource/datasource.controller.ts:185`: the names of the first row are all an upload reads, so a CSV file
  whose first row is short loses the columns behind it in every row, and of two columns with one name the first;
  "00123" becomes 123 in a column of numbers (`docs/guides/datasource-and-schema.md:121`), "1,234" in a column of
  text "1234".
- `web/components/blocks/AnalysisBlock.vue:118`: a temporary action is applied after an await, when another
  conversation may be open.
- `web/components/ChatDetail.vue:106`: `docs/guides/frontend-streaming.md:295` says that wheel, touch, keys and the
  scroll bar pause following first. The listeners are passive (:20-21), so the frame, or the event of an earlier
  scroll (:125-126), may run before the browser moves the list, find it at the bottom and take the intent back;
  if the content grows before the event of the move, that event is told apart from a layout change no more
  (`layoutChanged`), and the list goes on following. `KeepsPlace` speaks of the other cases only.
- `db/index.ts:100` and `111`: pg_cancel may arrive after the statement has ended and meet the next one on that
  connection.
- `worker/chat/generation.service.ts:77`: a row that failStale settles before the INSERT of its attempt leaves
  an attempt that stays running.
- `web/stores/chat.ts:375`: the late answer to a cancel makes a settled generation look active until the next
  sync.
- suggestionsCache is not dropped after an upload or the deletion of a table; two registrations of one
  address at once end in a 500 for one of them; rememberFromConversation tests for similar memories without a
  lock (`db/memory-repository.ts:170`).
- `docs/design/analysis-engine.md:55` describes how fresh a committed state is more strictly than the code
  keeps it; `CommitsOnlyCompletions` states what the code does.
