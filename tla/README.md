# A verification project for copy_trade

TLA+ modules, TLC configurations and TLAPS proofs for the copy trading platform
of this repository. Paths below are relative to the repository root (`src/` in
`PROJECT.json`); `PROJECT.json` maps every definition to the lines it translates.

## 1. The system

An exchange streamer publishes a *normalized order event* when a trader
("source") account trades. The copy engine, a Python asyncio worker, consumes the
event from NATS JetStream, looks up the copy relationships that follow the
account, and publishes one *copy execution request* per follower. An executor
(not in the repository yet) answers with execution results, which the copy engine
stores. An admin API (FastAPI) edits relationships, accounts, subscriptions, risk
settings and credentials in the same PostgreSQL database; administrators reach it
with a session cookie or a token, through a rate limit; a web console drives it.

### Inventory

| component | code | state | operations | what makes it correct |
|---|---|---|---|---|
| event bus | `packages/shared_events` | per subject one durable push consumer: which events are due, outstanding, acknowledged, given up; how often each was delivered | `publish_json`, `subscribe_json`, `handle_message` (ack, nak, dead letter) | nothing acknowledged that was not handled or dead-lettered; dead letters only after `max_deliver` attempts; no endless redelivery |
| copy engine, trade handler | `workers/copy_engine`: `main.py`, `processor.py`, `handler.py`, `idempotency.py`, `execution_requests.py` | idempotency keys, request rows, the requests in the stream | validate, list, reserve, record, publish, release on failure, mark published | a copy is ordered at most once; a due copy is ordered in the end; rows agree with the stream |
| copy engine, selection and gates | `relationships.py`, `processor.py`, `handler.py` | what one outer join read | five gates, request built field by field | exactly the due copies are requested, with the relationship's limits |
| copy engine, result recorder | `execution_results.py` | result rows, status of request rows | `record`: INSERT, then UPDATE, no transaction | acknowledged results are stored and shown; an outcome has a result |
| copy engine, dead-letter recorder | `dead_letters.py` | `dead_letter_events` | `record`: INSERT, duplicates of a key ignored | what was given up is listed, nothing else is; its own failures end |
| admin API, writes | `copy_relationships.py`, `foundation_controls.py`, `admin_credentials.py` | relationships, accounts, subscriptions, risk settings, users, passwords, credentials | create, patch, upsert, deactivate, rotate: one transaction each, under row locks, unique indexes and foreign keys | one active relationship per route; a rotated credential has one successor; a change and its audit row are one step; requests do not deadlock |
| admin API, audit log | `audit.py` | `audit_logs` | insert, inside or outside a transaction | appended to only; tells the truth about before and after |
| admin API, sessions | `sessions.py` | `user_sessions` | login, use, logout | who is logged out, expired or disabled stays out; logins and logouts are audited |
| admin API, token authentication | `auth.py`, `identity.py` | active credentials | token, environment token, session, in that order | a deactivated token lets nobody in; a failing database opens nothing but the configured way |
| admin API, rate limiter | `rate_limit.py` | a deque of times per client | `allow` | the window's limit is exact: never more, never fewer |
| web console | `apps/web` | React state | loads and edits | late answers do not overwrite newer ones |
| exchange adapters, billing, notification, streamer | interfaces and README files | - | - | no code to model |

Interaction: the bus joins the workers by messages; dead letters of every consumer
come back as events of one more consumer; the copy engine and the admin API share
the database and nothing else, and so do two requests of the admin API. The
modules follow that: `EventBus` is extended by the consumers that run on it,
`AdminTables` by the handlers that meet in the database, `RateLimiter` and
`Sessions` by the way into the API, and the tables the admin API writes appear in
`RelationshipGate` as the copy engine reads them.

### What is hard here

* *Interleaving*: a delivery that outlives `ack_wait` (or an old worker that comes
  back beside its replacement) runs the same handler for the same event at the
  same time. Only the reserved key keeps the two apart. Admin requests overlap
  between any two statements; only row locks and unique indexes order them.
* *Partial failure*: every await of the trade handler can raise, and the
  compensation (`release_idempotency_key`) covers one of them. All keys of an
  event are reserved before the first publish.
* *Ambiguity*: a publish, a statement or a COMMIT can raise although it took effect.
* *Time*: the stream forgets `Nats-Msg-Id`s after 120 s, redelivery may be later;
  sessions expire by the API's clock and are judged by the database's.
* *Staleness*: the gates judge rows read before the first await; a retried call
  makes fresh event ids while the row keeps the old one; a session is revoked
  while requests with it are between two statements.
* *Non-atomic pairs*: result row and request status; request row and its publish;
  session revocation and its audit row; an event's dead letter and its
  acknowledgement.
* *Failures of the failure path*: the recorder of dead letters writes to the
  database whose refusals it records.

`PROJECT.json` lists each hazard at its line, with the properties aimed at it.

## 2. Plan, and what it has left

In order of importance; stages 1 to 4 exist.

1. `EventBus` with the abstract `EventDelivery`, `CopyEngine` (extends it) with the
   abstract `CopyLedger`, `ExecutionResults` (extends `EventBus`), `RelationshipGate`.
2. `AdminTables` with `RelationshipAdmin` and `AdminCredentials`, composed in
   `AdminWrites`, with the abstract `AuditedLog`.
3. `RateLimiter`, `Sessions` (extends it), composed in `AdminAccess`.
4. `DeadLetters` (extends `ExecutionResults`): two kinds of consumer on one bus.
5. Left: the reconfiguration of streams and consumers while two releases run; the
   redaction of dead-letter payloads as a function on trees; readiness probes.

Each component with operations of its own has one passing run; the engine has three,
because its questions need different failures (section 4). Proofs follow the same
order and are in `<module>Proofs`; section 6 says what they leave to TLC.

## 3. Modules and the code they model

### EventBus

One message is one event in the stream. The server's view is `status` (`absent`,
`due`, `outstanding`, `acked`, `spent`) and `delivered` (JetStream's
`num_delivered`). A *task* is one subscription callback of one process: nats-py
awaits it for one message after another, so a task has an `inbox` and a `phase`.

| action | code |
|---|---|
| `Publish`, `Deliver`, `AckWaitExpires` | `publish_json`; JetStream push delivery and `ack_wait` (external) |
| `Take` | the callback built by `build_message_callback` starts |
| `HandlerReturns`, `HandlerRaises` | `await handler(...)` in `handle_message` |
| `Nak` | attempt below the limit: `message.nak()` |
| `DeadLetter`, `DeadLetterFails` | `maybe_dead_letter_message` on the last attempt: one publish, in this step (`StoreDeadLetter`); if it raises, neither ack nor nak follows |
| `Ack` | `message.ack()` |
| `Crash` | a process dies with all its tasks hold in memory |

`Readers[m]` may hold two tasks: the durable has no queue group, so an old worker
that lost its connection and its replacement both receive a delivery. The bus is
checked and proved through the consumers that extend it.

A module that follows dead letters says in `DeadLetterOf` which event the dead letter
of a message becomes and in `MsgId` what its `Nats-Msg-Id` is. `StoreDeadLetter` makes
that event `due`, or, when the stream has a dead letter with the same id
(`Duplicate`), drops it for good: the callback acknowledges all the same and
publishes no second time. With `"dedupe_expiry"` the earlier one may be older than the
window, so that the new one is stored beside it.

`EventDelivery` is what the bus promises of one event: tried at most `Limit` times until
it is closed, closed only when a try has handled it or every try was used and it was
given up, and not tried again after that. `KeepsDelivery` is the refinement: `Stage`
computes the stage of an event from `status`, tries are `delivered`; a step may move two
events, the one given up and its dead letter. Whether a handled event may also be given
up is left open there, because it is in the code.

### CopyEngine and CopyLedger

`CopyEngine` extends the bus; its `Begin` contains `Take`, its `Finish`
`HandlerReturns`, its raising steps `HandlerRaises`. Every await of
`handle_normalized_trade_event` is one step: `List` (or `Reject`, when validation
fails), `Reserve` per relationship, `Reserved`, then per request `Record`,
`PublishRequest` (or `PublishRequestFails`), `Release` in the `except` branch,
`Mark`, and `Finish`. `Statement(t, Effect, WayOn)` gives each database statement
its three outcomes: it runs, it raises without having run, it raises although it
ran. A relationship's gates are one bit, `enabled`, that `Toggle` may flip at any
moment; `RelationshipGate` opens that bit up. Keys are `<<event key,
relationship>>`, an `event_id` (a fresh uuid) is the call and relationship it was
made in.

A publish that raises with `"publish_ambiguous"`, or whose process dies meanwhile, has
sent a request that no call waits for any more: `inFlight` holds it. `RequestArrives`
lets the stream have it at any later moment, or never: before the key is released,
after it, or when another call has claimed and published the same copy (nats-py
reconnects without end and sends what it has buffered).

`CopyLedger` is the promise: a copy is free, claimed, placed or lost; a claim is
exclusive and a placed copy stays placed and is placed once. A call that ends
early gives claims back (`GiveUp`) or loses them, among them at most one it never
had an answer for, and may leave requests `underway`; one of those that arrives
(`Arrive`) places its copy only if nobody has. `KeepsLedger` is the refinement: `copy`
is computed from the stream, the reserved keys and who holds what.

### ExecutionResults and DeadLetters

`ExecutionResults` extends the bus as well: `Insert`, `Update` and `Finish` are the
awaits of `record`, `ForeignKeyFails` the result of a request whose row does not
carry its id (`Recorded` leaves such requests out). `results` are the results that
have a row: the INSERT drops one whose key another has (`KeyStored`), the UPDATE shows
its status all the same. The keys are the executor's, which is not in the repository;
`OutcomeHasResult` is a promise only if they tell results apart, which
`KeysTellResults` says and the theorems assume. `MarkPublished` is the trade handler's
last statement racing the results.

`DeadLetters` composes those consumers with the recorder of dead letters. A dead letter
is an event on the recorder's subject, its key in the table is its `MsgId`
(`build_dead_letter_idempotency_key` makes both). One that cannot be recorded is
dead-lettered in turn, to the subject the recorder consumes, and so on for as long as
the database refuses; `MaxFailures` ends the outage. `MarkPublished` touches none of
this and is left to `ExecutionResults`.

### AdminTables, RelationshipAdmin, AdminCredentials, AdminWrites, AuditedLog

`AdminTables` is PostgreSQL as the handlers use it: committed rows, what an open
transaction has written, row locks (FOR UPDATE, FOR KEY SHARE), unique and partial
unique indexes that make a second writer wait, foreign keys, and the end of a
transaction: COMMIT, an exception, a connection that breaks before or after the
server committed. A SELECT or a foreign key finds committed rows only: a request that
names a row which another one is still creating is answered `not_found` at once.
`RelationshipAdmin` and `AdminCredentials` put each handler together
from these statements, in the order of the code: `UpdateRelationship` is SELECT ...
FOR UPDATE, the computed UPDATE, the audit row, COMMIT; `RotateAdminCredential`
locks credential and user, switches the old credential off, inserts the new one, two
audit rows, COMMIT. `AdminWrites` lets all of them overlap. A row is a flag
(active, enabled, ...) and one value for the other columns; `pc` is the next
statement, or the answer's meaning (`ok`, `unchanged`, `not_found`, `conflict`,
`error`).

`AuditedLog` is what the documents promise of every change: rows and the audit rows that
describe them change in one step, and audit rows stay. `KeepsAuditedLog` is the
refinement, over the rows that have audit rows of their own (`Audited`), a credential
being the columns its handlers write. `AuditIsHistory` is what a reader of `audit_logs`
gains from it: the audit rows of one row follow on one another, each starting from what
the one before it left, up to what the row holds now. It is said of relationships,
accounts, subscriptions and risk settings (`Followed`), not of credentials: what the log
tells of those contains `last_used_at`, which every request with the token writes
(`identity.py`), and the email and name of the user, which creating another credential
may change, neither with an audit row of the credential. (The handlers that upsert do
not read the row and log no content before; there the chain has no link to check, but
its end is still the row.)

`Table` names the table of each row, which `NoWaitCycle` needs: `Blockers(r)` are the
requests whose locks, or whose undecided unique key, the next statement of `r` waits
for, and no set of requests may wait in a circle, which PostgreSQL would break by
failing one of them. What `SchemaAssumption` says of tables is in the migrations:
unique keys stay within a table, foreign keys lead to `users` or, for risk settings,
to `copy_relationships`.

`RelationshipGate`'s admin actions are the atomic view of the same transactions, as
the copy engine's SELECT sees them.

### RateLimiter, Sessions, AdminAccess

`RateLimiter` is one `allow` call per step: pop what left the window, compare,
append. `Sessions` has the statements of login (its transaction is one step, since
nothing in it is read by others before it commits), of `authenticate_session`, of
`revoke_session` (UPDATE and audit row are two commits) and of the token lookup, with
statements that fail and answers that are lost, and what operators change
meanwhile. `AdminAccess` is the way of a request: middleware, then the auth router or
`build_admin_dependency`, which tries the header's token, the environment's token
and the session. `Skew` is how far the API's clock, which sets the expiry, is ahead
of the database's, which judges it. The verification of the password hash belongs
to `SelectLogin`: it reads nothing but the row just selected.

### RelationshipGate

The tables are partial functions (a key outside the `DOMAIN` has no row). `Fetch`
is the one SELECT with its LEFT JOINs: `JoinedRow` puts NULL where a join finds
nothing, with the conversions of `_row_to_relationship` (`bool(NULL)` is false, a
NULL limit stays `None`). `Skip` and `Issue` judge the rows one after another while
`CreateRelationship`, `UpdateRelationship`, `SetAccount`, `SetUser`,
`UpsertSubscription` and `UpsertRiskSettings` change the tables. `Due` states, on
the tables and without NULLs, what the gates are for.

## 4. Runs

| run | question | bounds |
|---|---|---|
| `engine_faulty` | two workers, crashes that leave a publish on its way, lost acks and deliveries, failing statements, lost publishes, failing dead letters, an expiring duplicate window: nothing acknowledged unhandled, one order per copy by the reserved key alone, honest rows, the ledger kept? | 1 event, 1 relationship, 2 workers, 2 deliveries |
| `engine_calm` | without failures, is every copy ordered, every row marked? | 1 event, 2 relationships, 2 workers, 2 deliveries |
| `engine_retry` | is a lost publish made good, and a late request placed once, whoever has claimed the copy since? | 2 events (one malformed), 1 relationship, 1 worker, 3 deliveries |
| `results_faulty` | what if a result's handler stops between its statements, and is it delivered as the bus promises? | 3 results of 2 consumers, 2 deliveries; crashes, lost acks, failing statements |
| `dead_letters` | does every result end up stored or its key listed, although the list fills from the database that refuses and a dropped dead letter is not published again? | 2 results with one key, their dead letters, the dead letter of either; 2 deliveries, 2 failing records; inside and outside the duplicate window |
| `admin_writes` | do unique keys, rotations, audit rows and answers stay right, and does every request end, with nobody waiting in a circle? | 3 overlapping requests out of 5 kinds about relationships or 7 about identities, and 13 groups in which requests name what another one creates; 4 contents of the tables, broken connections |
| `admin_access` | who gets in, is it audited, is the window exact? | 5 patterns of 4 requests, limit and window 2, clock to 3, lifetime and skew 1, 1 change by an operator; failing statements, lost answers |
| `gate_decisions` | are exactly the due copies let through? | 1 relationship, 5 events, every content of the tables, 1 write |
| `engine_double_order`, `engine_lost_copy`, `engine_unmarked`, `gate_slippage` | disagreements, section 7 | the smallest instance that shows each |

Why the bounds suffice for what they are asked. Two deliveries are a first try and a
retry that is also the last; three add a retry that is neither. Two workers are all that
a key must separate; a third adds no new pair. One relationship is enough where the keys
of different relationships do not interact (`engine_faulty`); two are used where they do
(`engine_calm`, `engine_lost_copy`). In `dead_letters` two results are the least that
can share a key, and `MaxFailures = 2` lets one dead letter use up its deliveries. Three
admin requests are one more than a pair that conflicts: the third finds what the two
left, or waits for either. Four requests of `admin_access` are a login, two logouts that
race and a request between them; limit 2 is exceeded where one client sends three or
more, and a clock of 3 reaches the window's edge and goes beyond. In the gates, limits 1
and NULL against quantities 1 and 2 meet, exceed and lack each limit; slippages 1 and 2
do the same. `MaxWrites = 1` puts one write at any moment between read and decision;
since `Init` already ranges over every content of the tables, the longer histories that
lead to a content add nothing before the read, and after it the engine does not look at
the tables. `DefaultSlippage` is scaled from 100 to 1. What is proved (section 6) does
not depend on any of these bounds.

The bounds that the code does not have, each in the guard of an action:
`MaxFailures` (`Fail`), `MaxChanges` (`Change`), `Horizon` (`Tick`), `MaxWrites`
(the writes of `RelationshipGate`). Retries of one event are capped by `MaxDeliver` in
the code too (3, `bus.py`:52 and ADR-004). `MaxFailures` is not implied by that: each
dead letter that uses up its deliveries publishes another, so while the database is
down the recorder goes on failing; the bound is an outage that ends.

`CHECK_DEADLOCK FALSE` everywhere: when all events are settled, or all requests
answered, the system rests.

Every property has a mutant: an operator beside the definition it alters
(`ReserveIgnoringConflict`, `SelectWithoutLock`, `CommitWithoutAudit`,
`RecordErrorsIgnored`, ...), written as a plausible bug of that code, under which
TLC finds the property violated.

## 5. Fairness

Weak fairness of `Deliver` and `AckWaitExpires` for each message: a running
JetStream server pushes due messages and runs its timers. Weak fairness of a
task's step: an asyncio loop resumes a callback whose await has completed, and
every await has a client timeout. Nothing is assumed of `Publish`, of administrators,
of crashes, of the window, or of `RequestArrives` (a request on its way may never
arrive), and no task's step is favoured by its outcome. The failures of `engine_calm`
and `engine_retry` cannot repeat without end, because deliveries are bounded by
`MaxDeliver`, as in the code; those of `dead_letters` end by the assumption that
`MaxFailures` is. A dead letter the stream has dropped is not stored by any fairness.

`AdminWrites` assumes weak fairness of each request's next statement: a statement
that waits for no lock ends, and the handler goes on. A statement that waits is not
enabled, so `EveryRequestAnswered` says that locks are released in the end;
`NoWaitCycle` says, without any fairness, that nobody waits for himself.
`AdminAccess`, `ExecutionResults` and `RelationshipGate` state no fairness and have
no liveness property.

## 6. Proofs

For every value of the constants that satisfies the named assumptions, which say
the types of the constants and no more than the code justifies: at least one
delivery (`BusAssumption`), NULL distinct from data (`GateAssumption`), a dead
letter's subject has the recorders as its only readers (`DeadLetterAssumption`),
a symmetric relation of rows with one unique key (`TableAssumption`), tables that
satisfy their unique keys at first (`ContentAssumption`), keys and foreign keys of the
tables in the migrations (`SchemaAssumption`), ids of their own for created rows,
which any other request may name (`AdminWrites`' `ArrivalAssumption`), cookies
that a login gave out (`AdminAccess`' `ArrivalAssumption`), a limiter that is
installed (`LimiterAssumption`); `EngineAssumption`, `ResultAssumption` and
`SessionAssumption` are types. What only some theorems need is a named hypothesis of
theirs: `Dependable`, `Marking`, `Answered`, `OneFollower`, `KeysTellResults`, ...

* `EventBusProofs`: `BusTypeCorrect`, `AckedSettled`, `DeadLetterAtLimit`,
  `NothingLostSilently`. The strengthening says that a task in phase `acking` has a
  message that is handled or dead-lettered, and that a delivery in a task's hands
  never has a higher number than the server has counted. `NothingLostSilently`
  carries the assumption its name needs (`Dependable`): no crashes, no lost
  deliveries and no failing dead-letter publish. `OrderInv` says that queues rise in
  delivery number, so a task never sees one delivery twice: it is what makes an
  `event_id` fresh. `BusKeepsDelivery`: the bus implements `EventDelivery`, under every
  failure. An acknowledgement closes an event because whoever sends it has a reason
  (`AckInv`); a dead letter gives up an event all of whose tries are used (`LimitInv`);
  no callback works on an event that was never published (`Routed`). Late naks and
  acknowledgements of a closed event are stutters. `DeadLettersAreSent`: the dead letter
  of an event given up, or an earlier one of its key, is in the stream; the publish and
  the mark are one step, and no event leaves the stream (`PresentStays`).
* `CopyEngineProofs`: `EngineUsesBus` shows every step of the engine to be a bus step or
  a stutter, so the bus theorems hold of it, among them `EngineKeepsDelivery` and
  `EngineLosesNothing`. `TypeCorrect`. `HolderUnique`: by induction on the statement
  that a held key is reserved and held by one task. `NeverOrderedTwice` assumes that a
  publish that raises has sent nothing or that the duplicate window never passes, and
  has one invariant for each case: the key of a request sent, arrived or still on its
  way, stays reserved with no holder left, and no other request is sent for it
  (`SentIsClosed`, `SentOnce`), or an ordered copy's key is still remembered by the
  stream (`OrderedIsRemembered`). When both failures are possible `engine_double_order`
  is a counterexample. `RowBeforeOrder` (a row exists before its request is sent,
  `SentRecorded`) and `MarkedRowsPublished` rest on rows and ids: a call's ids are in
  nobody else's hands and not in use before (`Fresh`, from `OrderInv`), a call marks
  rows of its own ids only (`OwnRows`), what the stream remembers was ordered
  (`RememberedIsOrdered`). `EngineKeepsLedger`: with the same assumption as
  `NeverOrderedTwice`, every step maps to a step of `CopyLedger` or to a stutter.
  `OrdersAreMarked` holds under `Marking`: publishes return, workers live, statements
  are not refused (their answers may be lost). Then no key is ever freed, so a call that
  records a request meets no older row (`FirstRows`) and the row it marks is its own.
  `engine_unmarked` shows what a publish that raises does to it. `OwedCopiesInWork` and
  `AckedAreCopied` are about lost copies. A copy is owed once a call has found it due
  and its gates have stayed open. Under `Answered` (workers live, every statement is
  answered) a reserved key is being worked on or its copy is ordered (`ReservedIsLive`):
  what a second call takes for a duplicate is in somebody's hands. If publishes return
  too (`Publishing`), an owed copy is in work or ordered in every state, for any number
  of relationships and workers. If they may fail, with or without having been stored,
  and be retried, this holds of acknowledged events with one relationship
  (`OneFollower`) all of whose messages one task reads (`OneReader`): the call that
  releases a key returns its event for a retry. Without `OneFollower`,
  `engine_lost_copy` is a counterexample, and a crash between reserving and publishing
  is one without `Answered`.
* `ExecutionResultsProofs`, where every event is a result (`OnlyResults`):
  `ResultsUseBus`, `ResultsKeepDelivery`, `ResultsTypeCorrect`,
  `AcknowledgedIsRecorded`, `OutcomesAreReported`, `OutcomesHaveResults`,
  `OutcomesStay`. The invariant `ResultInv`: a handler past its INSERT has its key
  stored, past its UPDATE its outcome shown, and neither is undone. For any keys, an
  outcome shown was reported by a result of the request whose key is stored
  (`OutcomesAreReported`); that the row with this key is one of this request and this
  outcome (`OutcomesHaveResults`) needs `KeysTellResults`, without which it is false of
  the code. Its steps are proved for calls with results whatever else the bus carries,
  so that the pipeline below can use them.
* `DeadLettersProofs`: `PipelineUsesBus` carries the bus theorems over, among them
  `PipelineLosesNothing`. `Routed` keeps deliveries with the readers of their subject,
  so result consumers meet results and recorders dead letters; `DeadLettersAreFailures`
  traces a stored dead letter to the event that was given up. With what a recorder past
  its INSERT has stored (`RecordersStored`, `HandledStored`) they give
  `PipelineTypeCorrect` and `RowsFromFailures`. With `ResultInv`, kept by the recorder's
  steps as well, they give `PipelineRecords` and `PipelineOutcomes` (this with
  `KeysTellResults` again): what `ExecutionResults` promises is kept beside the
  recorder. `NothingUnaccounted`, under `Dependable`, is the safety behind
  `EventuallyRecorded`: a result or dead letter that the server will not deliver again
  and nobody holds is in its table, or was given up with a dead letter of its key in the
  stream. `PipelineKeepsDelivery` is the bus's promise for both.
* `RelationshipGateProofs`: `GateTypeCorrect`; `OnlyDueIssued` and `AllDueIssued`, from
  the lemma `GateAgrees` (on the joined row of a matching relationship the gates
  equal `Due`) and an invariant for the rows still to be judged.
* `RateLimiterProofs`: `WindowHolds` and `RefusalJustified`. `LimiterInv`: the bucket is
  the end of the history of admitted requests, the history is in order, and what the
  bucket has lost is out of the window.
* `AdminAccessProofs`: `AccessUsesLimiter`, by which the limiter's theorems carry over
  (`ApiWindowHolds`, `ApiRefusalJustified`), `AccessTypeCorrect`,
  `NothingStaleAccepted`, `LoginsAreAudited`, `LogoutsAreAudited`. `AccessInv`: a
  request goes through the statements of its kind (`Stage`), past a check it shows
  something that was alive after it arrived, and what is dead stays dead (`Admitted`);
  of each session at most one request is or was the revoker (`Story`).
* `AdminWritesProofs`: `WritesTypeCorrect`; `RowsUnique`, from `KeyInv`: rows of one key
  are apart as committed, as the open transactions see them, and across the two unless
  one transaction holds both; `HandlersKeepAuditedLog` (the refinement of `AuditedLog`)
  and `AnswersAreTrue`, from `LogInv`: what a handler has read under its lock is still
  the committed content, and what it has told the log is what its COMMIT makes true;
  `CreatedInvariant`: what a request creates is in its table only after its commit, so
  other requests that name it do not find it before (and wait for nobody);
  `RotatedOnce`, from it and `SuccessorInv`: a rotation that has switched its credential
  off holds the lock under which that credential was still on. `LogIsHistory`: a step of
  the log adds at most one audit row for each row and tells what it found there, so a
  new audit row of a followed row continues the last one (`HistoryStep`); it needs
  nothing of the handlers but the refinement. `NoCircle`: `WaitInv` says which locks a
  request can hold at which statement (`Locking`, `Sharing`) and that what it holds
  before its first write is unwritten (`Unwritten`). With it, whoever waits is at a
  lower `Level` than whoever he waits for, though the handlers take their locks in no
  common order: a handler that has locked a user's row needs nothing that a handler
  waiting for that row can have locked. Levels would climb for ever along a circle, so
  there is none. `UnblockedGoesOn` shows that `Blockers` names everything a statement
  waits for, `SomeoneGoesOn` that, while requests are unanswered, one of them waits for
  nobody. `RequestsRunForward`: every step takes one request to a statement of higher
  `Rank` and moves no other, so no handler loops and a request is answered after at most
  seven of its steps.

Only model-checked: the liveness properties `EventuallyCopied`, `EventuallyRecorded` and
`EveryRequestAnswered`, which the prover cannot do under fairness. Their safety is
proved: no owed copy is out of work (`OwedCopiesInWork`), no event is unaccounted for
(`NothingUnaccounted`), no requests wait in a circle (`NoCircle`, `SomeoneGoesOn`) or
go round in one (`RequestsRunForward`). Every
other property of a passing run is the statement of a theorem. Out of the prover's
reach altogether:
ENABLED, induction over data, and RECURSIVE operators, of which no module has any.

## 7. Disagreements found

* **`engine_double_order`**: a publish that raises although its request is stored, then
  or later, releases the key; redelivered after the 120 s window the copy is ordered
  again. ADR-002 promises the opposite.
* **`engine_lost_copy`**: with two relationships, a failed publish for the first
  leaves the second's key reserved; the retry takes it for a duplicate and the
  event is acknowledged without it. A worker that dies between reserving and
  publishing loses its copies in the same way (set `Faults = {"crash"}` in
  `EngineLostCopy.cfg`).
* **`engine_unmarked`**: a retried publish has a new id, the row the old one, so
  `mark_published` meets no row and the request stays `REQUESTED`. Results of it
  break the foreign key, which is where the orphan of `ExecutionResults` comes from.
* **`gate_slippage`**: the request carries the default of 100 basis points whatever
  the relationship's limit.

Without a run, because no run would say more than the sentence does, or because
the promise is not precise enough to be a property:

* When the dead letter cannot be published on the last attempt, the event is
  neither acknowledged nor delivered again, that is, lost without a trace
  (`NoSilentLoss` fails with `"dlq_lost" \in Faults`; that is why the run `dead_letters`
  and `NothingLostSilently` exclude it). ADR-004 does not mention the case.
* A logout whose audit row fails has revoked the session; the retry is refused,
  because the session is gone, so that logout is never audited
  (`docs/restart/05_open_implementation_plans.md`:83 asks for an audit row of every
  logout). `LogoutsAudited` states exactly this gap.
* A created or rotated token is shown once, in the answer; when the answer of COMMIT
  is lost, the credential exists and nobody has its token
  (`docs/sessions/2026-04-27-session.md`:80 warns of the display, not of the loss).
* Replacing a password leaves the user's sessions valid. No document decides it.
* Two results that carry one key: the INSERT drops the second, the UPDATE shows its
  status, so the request may show an outcome that no stored result has. Nothing in the
  repository makes the keys; `KeysTellResults` is what the executor must see to.
* While the database is down the recorder of dead letters fails with everything else,
  and every dead letter it cannot record leaves another on the same subject, without
  end.
* Of two events with one dead-letter key the operators' list has one row: the second
  dead letter is dropped, by the stream or by the table, and is not published again.
* The audit rows of a credential tell its last use and its user's email and name, which
  change without an audit row of the credential: consecutive rows need not join up.
* A late `ACCEPTED` overwrites `FILLED`: the UPDATE has no guard, and no document
  ranks the outcomes.

## 8. Not modelled

* The web console: its answers concern what is displayed until the next load, and
  neither code nor documents promise an order.
* Readiness probes, configuration and the wiring of the application: they change no
  state the properties are about. That the limiter is installed only for positive
  settings is an assumption; a table that a migration has not created is not a state
  of the models.
* All listings and single reads of the admin API, and so the order of pages.
* The reconfiguration of streams and consumers while processes of two releases run;
  within one release, stream, consumers and retry policy are constant.
* `get_delivery_attempt`'s fallback to 1 when a message has no metadata: JetStream
  deliveries always have it. JetStream's limit on unacknowledged deliveries, left at
  its default.
* The redaction of dead-letter payloads and the conversions of asyncpg on the way to it.
* The in-memory idempotency store and the no-op recorders, used by tests only.
* More than one API process: the limiter counts per process, and the code promises
  no more. The error "admin role is not configured" cannot occur: the
  migrations insert the role.
* Exchange adapters (an interface), billing, notification and streamer (README
  files), process start and pools, containers: no code with state of its own.
* Field formats, decimal arithmetic, logging and the wording of payloads.
