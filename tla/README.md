# Janus: a verification development

TLA+ modules, TLC runs and TLAPS proofs about the backend of Janus
(`src/backend`, a FastAPI application with PostgreSQL, RabbitMQ, Qdrant and a
browser client). The subject is what the backend promises about work that
outlives a request: a chat answer that is streamed, replayed or retried, a
message that must reach the broker, a document on its way into the index, a goal
that an autonomous loop pursues, an effect at Google that must happen once.

## 1. Inventory

| component | state | operations | interacts by | hard | correct when |
|---|---|---|---|---|---|
| **Durable chat stream runs** `services/chat_stream_run_service.py`, `repositories/chat_stream_repository.py` | `chat_stream_runs` row (status, lease, owner token, last sequence), `chat_stream_events` ledger, producer tasks and subscribers of each process | begin or attach, claim, produce (consumer, heartbeat, supervisor), append, finish, renew, fail, interrupt a stale run, subscribe from a cursor | guarded UPDATEs in PostgreSQL from worker threads; SSE | several processes, orphan threads after a cancel, crashes, lease against clock, subscribers that poll | one execution per key; contiguous ledger; a finished run is final; subscribers get the whole ledger in order, and every subscription ends |
| **Idempotent REST chat** `services/chat_rest_run_service.py`, `repositories/chat_rest_repository.py`, `endpoints/chat/chat_message.py` | `chat_rest_runs` row, persisted turns | attach (insert, replay, refuse, claim), execute, persist, complete, fail, clean up | one row per key in PostgreSQL | unique-key race, crash while executing, failure after the turn is stored | never two executions at once; one stored turn; an uncertain run is not replayed |
| **Transactional outbox** `services/outbox_service.py`, `repositories/outbox_repository.py` | `outbox_events` rows (status, claim token, lease, attempts) | enqueue with dedupe key, claim a batch, publish, mark sent, mark for retry, reconcile dead rows | PostgreSQL rows; broker `publish` | leases that expire under a batch, read-then-update marks, crash after the publication | a row is sent only if it was published; one holder; every row is sent or dead in the end |
| **Document ingestion** `services/document_service.py`, `repositories/document_manifest_repository.py`, `core/workers/document_ingestion_worker.py`, consumer of `core/infrastructure/message_broker.py`, `core/monitoring/poison_pill_handler.py` | manifest row, staged file, points in Qdrant, messages, poison counts | upload, dispatch, handle (load, recover, parse, clear, batches, complete, withdraw), delete, ack or nack | outbox, broker, disk, vector store, database | redelivery after crash, cancellation, lost channel; one of four stores failing | "indexed" means complete; an undecided document can still be worked on; a failed one leaves no points |
| Message broker and workers `core/infrastructure/message_broker.py`, `core/workers/*` | connection, channels, consumer tasks | connect, publish, consume, RPC | RabbitMQ | messages neither acknowledged nor rejected, redelivery | each message is settled once |
| **Autonomy loop** `services/autonomy_service.py`, `repositories/autonomy_lock_repository.py`, `core/autonomy/goal_manager.py`, `repositories/autonomy_goal_repository.py`, `repositories/autonomy_repository.py`, hook of `services/collaboration_service.py` | lease row, loop task and owner id of each process, goals, enqueue ledger, tasks at the workers | start, stop, cycle (select, plan, ledger, publish, mark or give back), renew; create, change, delete, close a goal | lease row; goals and ledger tables; broker; a hook on the task's end | lease read and written later, renewal between cycles, start against stop, accidents between goal, ledger and publication | one loop per scope; one task per goal and a closed goal stays closed, unless its cycle failed with the message out; every goal in progress moves on |
| Pending actions, tool executor `repositories/pending_action_repository.py`, `endpoints/pending_actions.py`, `services/tool_executor_service.py` | action rows, quotas, checkpoints | create, approve, reject, execute | SQL rows; graph checkpoints | decision checked in one session, written in another | one decision per action |
| **Productivity tasks and OAuth** `core/workers/google_productivity_worker.py`, `services/productivity_*`, `services/google_productivity_service.py`, `repositories/productivity_task_repository.py` | task rows, messages, consent, token row, effects at Google | ask, create, publish; handle (start, consent, token, refresh, reconcile, post, succeed, fail); connect, refresh, disconnect | broker, Google, SQL rows; the caller writes the row that the worker writes | redelivery after an effect, requests without an answer, two errors in a row, disconnection during a refresh | one effect per task; success stands; a disconnection holds; an accepted task ends |
| Circuit breakers, rate limits `core/infrastructure/resilience.py`, `core/infrastructure/rate_limit_middleware.py`, `core/llm/resilience.py` | counters, bucket | call, success, failure; consume | shared objects, Redis script | half-open with concurrent calls; clock skew | opens and closes as told; bucket within its burst |
| **Frontend chat stream client** `frontend/src/app/services/chat-stream.service.ts`, `frontend/src/app/features/conversations/conversations.ts` | of the service: the call that is current, its controller, the last request, the last event id of each request, attempts, calls and timers under way; of the component: the message that streams, `sending`, the texts shown | start, stop, consume, handle an error, retry; send, create and select a conversation, load its history, show what comes | SSE with Last-Event-ID; subjects from the service to the component | calls and timers that outlive a stop, events of an older question, histories that arrive late | what is received is shown in order, once and in its own message, the whole when it is finished, a beginning after an error; the composer is free again |
| Data purge, governance `services/data_purge_service.py` | manifests, points, records | purge by kind | Qdrant, SQL | partial deletions | nothing is left |
| Chat service and agent loop, LLM router, memory and RAG, knowledge spaces, study jobs, scheduler, self-optimisation, meta agent, observability, audit, authentication, kernel, senses, frontend UI, deployment and tooling | – | – | – | – | see section 8 |

How they meet: the stream service calls the chat service as the *source* of a
run. Uploads enqueue an outbox row; the outbox publishes it; the ingestion
worker consumes it. The dispatch of the outbox has a loop of its own
(`kernel.py:551`), an endpoint reconciles it (`endpoints/tasks.py:195`), and the
scheduler cleans up expired REST runs (`scheduler_service.py:564`). The database runs at READ COMMITTED
(`db/postgres_config.py`), so a read and a later UPDATE are two steps unless the
code locks the row or repeats the guard in the UPDATE's WHERE.

`PROJECT.json` lists the hazards line by line with the properties that cover
them.

## 2. Modules

| module | models | state and actions |
|---|---|---|
| `DurableStream` | what a stream run promises: a ledger that grows by one event, gets one outcome, and is delivered from a cursor in order | abstract specification |
| `ChatStreamRun` | the stream runs | the row `run`, `events`, one handler per request (`pc`: begin, insert, claim, track, poll ...), per run the producer's consumer, heartbeat and supervisor, and the *call* each of them has in a database thread. A cancelled await leaves its call behind (`Orphaned`), which commits on its own (`OrphanCommits`); implements `DurableStream` |
| `IdempotentKey` | what an idempotency key promises: a run is opened for one payload, taken up once, stores one turn at most, and is ended only by whoever took it up; who repeats the payload is given that turn | abstract specification |
| `ChatRestRun` | the REST runs | one row per key, its requests, the turns persisted; implements `IdempotentKey` |
| `KeyedDelivery` | what an outbox promises: one box per key, nothing handed over but what waits, nothing closed as sent that was not handed over, and a sent box closed for good | abstract specification |
| `Outbox` | the outbox | rows, producers, dispatchers with batch, item and token; each read and each update one action; implements `KeyedDelivery` |
| `DocumentIngestion` | the ingestion | manifest, staged files, points, messages, workers; one action per access to a store |
| `GoalPursuit` | what the loop promises of a goal: it is taken by one process, which alone gives it back or hands it out; it is handed out once, closed once and then left alone; an accident may leave it where it is; once taken it may lapse, and then nothing is promised of it | abstract specification |
| `AutonomyLoop` | the autonomy loop of one scope | the lease row and whose it is, per process the `loop`, the `request` (start or release) that is between two accesses to the row, its owner id and a `stop` that waits; per goal its status, its ledger rows and its tasks. A start and a loop of one process interleave only at awaits (`Free`); implements `GoalPursuit` |
| `SingleEffect` | what a task at Google promises: it is performed once at most, however often it is taken up; a success was performed and stands; a refused one is not performed, then or later; a halted one is not performed until work is resumed; a task may lapse, and then nothing is promised of it | abstract specification |
| `ProductivityTask` | effects at Google | per task the row, the API call, copies of the message, effects and requests nobody waits for; per handler its place in `_handle_google_productivity_task`; the token, consent, a refresh and a disconnection in progress; implements `SingleEffect` |
| `ChatStreamClient` | the browser's side of a stream | the server's logs, as `DurableStream` promises them; of the component its message, texts and `sending`; of the service its calls (`conns`: fetching, reading, reading a refusal, or the timer of a retry), which is current, and the numbers that decide about retries. One action per task of the JavaScript event loop |
| `MC*` | instances for TLC | model values, symmetry |
| `*_proofs` | theorems | section 5 |

Each action is the whole of one transaction, file access or vector store call
with what the handler does in memory around it. The `map` in `PROJECT.json` gives
the lines of each definition. Operators named `X_Something` under the comment
"Mutant" are plausible bugs of `X`: the property they are listed with fails if
`X` is replaced by them.

Abstractions. Payloads, prompts, chunks and embeddings are values that properties
compare, or are left out. Time in `ChatStreamRun` is a clock whose ticks age the
lease; in `Outbox` a lease may end at any moment (or, with `Timely`, only when
nobody works under it). A document has `Batches` batches, and since point ids are
deterministic its points are a set of batches. All of the error statuses of a
manifest are "failed". An owner id of the autonomy lease is made once per start and
never again, so that only whether it is the row's is kept. Budgets, throttle and
breaker of a cycle are a choice to skip it.

Some accidents leave a state that no code repairs. The modules record them in
variables of their own, which no guard reads: `stranded`, `doubled`, `disowned`,
`barred`, `gone`, `dropped` and `crossed`. A property that excepts one of them says exactly
which accident it is about.

## 3. Runs

| run | instance | shows |
|---|---|---|
| stream_threads | fair; 2 requests, 2 processes; crashes, graceful shutdowns, database errors, disconnects; the conversation is not deleted | one execution, sound ledger, final outcome, whatever threads are left behind; `ChatStreamRun` implements `DurableStream`; every subscription ends |
| stream_followers | 3 requests with any Last-Event-ID, one with another message; crashes, deletion of the conversation; lease and heartbeat of one tick each, the tightest setting | a request follows only a run that was started, and for its own message; delivery in order and complete; a producer that keeps up is never interrupted |
| rest_runs | 4 requests with one key, one with another message, crashes, errors, expiry | a claim is kept, one turn, everybody is answered with it; `ChatRestRun` implements `IdempotentKey` (so a run cut off stays as it is) |
| outbox_timely | fair; 3 producers, 2 with one key, 2 dispatchers whose leases outlast their batches, one of which also reconciles and has crashes and database errors; failed publications, offline broker | one row per key, one holder, sent is handed over; `Outbox` implements `KeyedDelivery` (so sent is final); every row settles |
| docs_rough | 2 documents, 2 workers, all faults except lost channels | one handler per document |
| docs_progress | fair; 2 documents, one worker; crashes, lost channels, two publications, embedding failures, aborted uploads | undecided documents are recoverable; failed ones leave no points; "indexed" is complete; every accepted document is decided |
| autonomy_single | 2 processes, 2 goals (parent and child, users trouble the parent), 2 cycles of a process that take up a goal; timely leases, starts one after another; 3 accidents of any kind | one loop, one task per goal; `AutonomyLoop` implements `GoalPursuit` (so closed goals stay closed, and a goal gets one task in its life), for goals that users leave alone and whose cycle did not fail with the message out |
| autonomy_rough | fair; 2 processes, 1 goal, 1 such cycle; leases end at any time, starts overlap; 2 accidents, errors before and after the publication among them | goals in progress are worked on and move on, a loop that lost its lease ends, also while two loops run |
| google_tasks | fair; 1 task, 2 handlers, 2 copies of its message, 2 accidents of any kind; connect, refresh and disconnect at any time | one effect, disconnection holds, every accepted task ends; `ProductivityTask` implements `SingleEffect` (so a success is final and a refused call has no effect) |
| stream_client | fair; 2 questions, answers of up to 3 events, 1 repetition; calls are refused, cut and fail, histories arrive, conversations are selected and created at any time | while the user waits, a message shows its own answer in order: all received as it streams, the whole when finished, a beginning after an error; the composer is free again whatever he does |
| outbox_race, docs_restart | findings | section 4 |

Bounds. Two requests are the least that race and a third is needed where a race
has a winner, a loser and a late comer; two documents suffice since handlers of
different documents share only the worker; two batches are the least with a
partial document. A source that yields one event and a terminal one makes a
ledger in which order, gaps and the outcome can go wrong. A `MaxFaults` of 2 or 3
lets a fault hit the recovery from another. `docs_progress` has one worker: with
lost channels two of them may overlap on a document, and then nothing is
promised. In `autonomy_single` the second process may take the lease over from
the first, restarted one, and the second goal is both the parent that blocks the
first and the one users set back; a third accident lets a crash or a stop follow
an error and its recovery. `autonomy_rough` needs one goal only, since two loops
that meet at one goal are what may go wrong there; their meeting takes no accident, so
that two accidents are enough. `google_tasks` has two
handlers for two copies of one message; tasks share nothing but the connection.
`MaxRows`, `MaxEvents`, `MaxCursor`, `MaxSends`, `MaxCycles`, `MaxTasks`,
`MaxCopies`, `MaxFaults`, `MaxRequests` and the `MaxEvents` of a client's logs are
bounds on counters that the code does not bound. In `stream_client` a second question
is the least that an answer can be misplaced in, a third event the least that two
partial ones can be out of order before a terminal one, and a `MaxRetries` of 2 has
the one repetition that may come late; its invariant was also checked with 3.
Symmetry is used only over interchangeable values and in no run of a liveness
property.

Deadlock is not checked where the system may come to rest (every request
answered, every row settled). It is checked in the runs of `AutonomyLoop` and
`ProductivityTask`, where users can always act.

## 4. Findings

Two have a run that ends in a counterexample.

1. **outbox_race.** `mark_retry` compares the claim token it read and updates the
   row by primary key later (`outbox_repository.py:173`). A lease that ends in
   between lets it overwrite the claim of the next dispatcher.
2. **docs_restart.** A cancelled handler deletes the staged file in `finally`
   (`document_service.py:337`) while its message goes back to the queue; the next
   delivery finds `chunks_indexed > 0` and calls the partial document indexed.
   There is a second way to the same end: a handler fails, withdraws the points,
   marks the document failed, deletes the file and dies before its message is
   rejected; the redelivered message finds `chunks_indexed > 0` and calls a
   document indexed that has no point left. `IndexedIsComplete` names this
   recovery of a failed document as its only exception.

More were met while translating the code. Either they take no interleaving to show,
or no document of the repository promises better: the modules follow the code, the
properties name the exception, and no run is spent on them.

* The recovery without a file counts points by a call that lacks an argument
  (`document_service.py:350`, `vector_store.py:230`) and raises `TypeError`; the
  unit test replaces the function by a stub with two arguments. `FindsNoFile`
  has this branch raise.
* The delete endpoint passes `delete_manifest` an argument it does not take
  (`endpoints/documents.py:291`): points and file are gone, the row stays, and
  the answer is an error. `DeleteRest` leaves the row.
* The consumer's docstring says that failed messages are requeued
  (`message_broker.py:519`); they are rejected without requeue (line 610), and
  this queue has no dead letter exchange. `Settle` drops them.
* The autonomy loop passes `run_id=None` to the ledger, and counts its cycles from
  0 in every process: after a restart the keys of old cycles come again, a cycle
  finds its row published and skips (`autonomy_service.py:799`) with the goal
  already in progress (`SkipPublished`).
* A start that finds conflicting goals raises with the lease acquired
  (`autonomy_service.py:242`): until it expires nobody can start the loop (`Check`).
* A stop waits for its loop; a start in the meantime replaces the owner id, and the
  late release then takes it away. The new loop runs without an id and never looks
  at its lease again (`Renew`); `StrayLoopStops` excepts it.
* The scope of the lease is a user and a project, the goals have neither: loops of
  two scopes share the goals.
* Neither `stop` nor a cancelled cycle, an empty plan, an offline broker or a lost
  task gives the goal back. It stays in progress and is never listed again
  (`stranded`).
* A publication that raises though its message got through, or an error of
  `mark_enqueue_published` (`autonomy_service.py:821`, `829`), gives the goal back
  although its task is on its way (`860-869`): the goal gets a second task, or is
  reopened after the first one closed it. From then on the goal is `disowned`, and
  `OneTaskPerGoal` and `ImplementsGoalPursuit` except it.
* The watchdog's restart of a loop cannot be reached from the code, so no action
  models it.
* A publication that raises though the message got through lets the API call a task
  failed that the worker has brought to success; so does an error of
  `mark_succeeded` that comes after its commit (`disowned`).
* A refresh in flight writes the token back after a disconnection deleted it
  (`gone`), and a disconnection that waits for Google deletes the connection that
  the user made in the meantime (`DeleteToken`).
* When recording an error fails too, a task stays running or queued although its
  message is rejected (`stranded`).
* `RABBITMQ_QUEUE_CONFIG` configures `janus.productivity.google` (`config.py:574`),
  but the queues are `janus.productivity.google.calendar` and `.mail`
  (`google_productivity_worker.py:74`), and the entry "default" is never looked up
  (`message_broker.py:375`). They have neither time limit nor dead letter exchange.
* Two deliveries of a task that overlap (a lost channel, a repeated publication), or
  a request to Google that takes effect after the next delivery asked, may double
  the effect (`doubled`): the reconciliation cannot see it yet.
* A document that is rejected for its text (`document_service.py:316`) is called
  failed without a withdrawal of points; only the `except` at line 327 withdraws. If
  an earlier handler of it was cut off after it had stored batches, they stay. Parsing
  one file twice gives one text, unless the parser or a quota has changed in
  between: `FailedIsWithdrawn` assumes that nothing is rejected.
* In the browser nothing cancels the timer of a retry (`chat-stream.service.ts:547`).
  When the user goes on meanwhile, the old request opens again over the newer call:
  what it receives is shown in the newer message, and the newer call is dropped after
  its next event (`Retry`, `ReceivePartial`).
* The component gives its message up at every error, also one that the service will
  retry (`conversations.ts:999`), so that what a resumed stream still brings has no
  message to go to (`HandleError`).
* The first message of a new conversation selects it, which resets `sending`: the
  composer is free while the answer streams, and a second question leaves the first
  message "streaming" for ever (`ConversationCreated`). The guard at
  `conversations.ts:605`, which is to keep a late navigation from tearing that stream
  down, asks for `sending` and cannot be true there.
* The answer of `loadHistory` (`conversations.ts:691`) replaces the messages whenever
  it comes, also for a conversation that is no longer selected. After a first
  message it always races that message's stream (`HistoryArrives`).

`docs_progress` passes because a *crash*, unlike a cancellation, runs no
`finally`; `docs_rough` checks that even the faulty paths keep one handler per
document.

## 5. Proofs

All theorems are for arbitrary constants under the named assumptions.

* **ChatStreamRun_proofs.** `TypeCorrect` first; everything else uses it.
  `LedgerIsSound` joins two invariants. `LedgerContiguous` and `FinishedRunIsFinal`
  follow from the guard `Owns` in the same UPDATE as the write. `OutcomeInLedger` needs
  `OutcomeInv`: whoever is about to finish the run, an orphaned call included, has the
  event that goes with the status in the ledger already (`Prepared`, `Backed`).
  `AtMostOneExecution` needs `ClaimInv`: the request that started a producer is the one
  whose token is in the row, and any request between claim and producer holds that
  token, so no second one can pass the guard on "pending". `LiveProducerIsSafe` assumes
  `Timely` and `Interval <= Lease`; it needs `LeaseInv`: the lease lasts at least as
  long as the owner's heartbeat still sleeps. `AttachedAsPromised` needs `AttachInv`
  (a request beyond its claim saw a run that was not pending, and statuses do not go
  back); it also proves `LeaseIffRunning`, which no run checks any more.
  `SubscribersGetTheLedger` combines `DeliveryInv` (what was delivered is the ledger
  between start and cursor) with `FinalInv` (a terminal snapshot is the row as it
  stays).
* **ChatStreamRefinement_proofs.** `StreamIsDurable`: the rows, threads and handlers
  implement `DurableStream`. The invariant is the conjunction of six of the above
  (`TypeOK`, `LedgerContiguous`, `OutcomeInLedger`, `ClaimInv`, `DeliveryInv`,
  `FinalInv`); under it there is one lemma per handler, which says which abstract step
  it is or that it is none. A commit is the same step whether its caller still waits
  for it or has been cancelled, which is what makes orphans harmless.
* **ChatRestRun_proofs.** `RestInv`: the executing request owns the row by token and
  id; a turn of the current row is its owner's; what a completed row replays is
  stored. `ClaimNeverLost`, `NeverTwoAtOnce`, `AnswersAreStoredOnce` and
  `UncertainStays` are its consequences. `KeyIsIdempotent`, the refinement of
  `IdempotentKey`, adds `FreshInv`: nothing is stored before the model has answered,
  and a completed row's result is of the row's own token.
* **Outbox_proofs.** `NothingIsSentUnpublished` holds under any leases: `HandedOver`
  says that whoever is about to mark a row has handed it over. `OneHolder`,
  `SentStaysSent` and `OutboxDelivers` assume `Timely` (a lease outlasts the batch under
  it) and `OneReconciler` (one process at most requeues dead rows). `HoldInv` ties a
  dispatcher's batch to rows that carry its token, and `DoomedInv` says that the rows a
  reconciler is about to requeue are dead still. Without these assumptions they
  fail, as finding 1 shows. `OneRowForOneKey` needs no assumption: the unique key
  refuses the second insert, and the loser reads. `OutboxDelivers`, the refinement of
  `KeyedDelivery`, joins all of these: a publication is of a row that waits since
  its holder is the only one, a mark closes a box that was handed over, and a
  requeue revives boxes that are dead still.
* **DocumentIngestion_proofs.** `TypeCorrect`, and `OneWorkerPerDocument` with
  `HandlerInv`: a document's one message is in the queue, or with one worker, or
  gone. It assumes one publication per row and channels that hold. The other three
  assume `Alone`: that, or a single worker with any number of publications and lost
  channels. A step then touches only what belongs to the one worker at its document,
  so that each invariant is shown per document. `WorkInv` says which status a place in
  the handler goes with. `FailedIsWithdrawn` needs `PointInv` (between clearing and the
  end only its worker's points are there, and a failed document has none); a vector
  store that does not withdraw, or a rejection, which does not try, would break it.
  `DocumentsAreRecoverable` and `IndexedMeansComplete` need `FileInv` (an undecided
  document has its file, unless its handler has decided and is about to delete it),
  `SupplyInv` (it has a publication to come, a message or a worker) and `CountInv` (the
  counts say what is stored). They assume none of four faults, each of which
  breaks them: a cancellation deletes the file of a document that will come again, a
  deletion leaves the row without file and points, an error of the database or of
  the vector store leaves a document "processing" with its file deleted. TLC shows
  for each of them alone that `IndexedIsComplete` and `UndecidedIsRecoverable` fail.
* **AutonomyLoop_proofs.** `TypeCorrect` with `HandsFull` (a loop past its list has a
  goal in hand). `LoopIsSingle` assumes `Timely` and `SerialStarts`; `LoopInv`
  strengthens "one loop" to one *holder*: a process that runs a loop, is past its
  acquisition, waits in a stop or is about to release (`HolderAlone`), while what a
  request has read of the row is still so (`ReadsHold`) and no process does two of
  these at once (`OneAtATime`). On top of it `Settled` describes each goal that users
  leave alone and that is not disowned: the status that goes with the loop which has
  it in hand, and no task before the publication; `TasksAreSingle` and
  `ClosedGoalsStay` follow. `GoalsArePursued` proves the refinement of `GoalPursuit`
  from the same invariant, with one lemma per kind of step: each leaves all goals as
  they are but the one in the hand of the process that steps (`LoopPursues`,
  `AccidentPursues`) or the one the user or the worker speaks of (`GoalsFare`). It
  says more than one task at a time: a goal that was handed out waits never again, so
  there is no second task later. A cycle that fails with its message out makes its
  goal lapse (`AccidentLapses`), and nothing is claimed of it from then on
  (`VoidKeeps`). `GoalsAreWorkedOn` needs none of the assumptions: `Pursued` says
  *where* the loop is that has a goal in hand, since a loop that is about to claim or
  to mark does not vouch for it.
* **ProductivityTask_proofs.** One inductive invariant, `IInv`, of `TypeOK` and six
  parts. What has succeeded, or is about to be called so, has had its effect
  (`DoneInv`). A task whose message is not out, or was refused for good reason, has
  no message, no handler and no success, so that its caller's "failed" overwrites
  nothing (`UnsentInv`). Without `doubled` a task has at most one copy of its
  message, waiting or with one handler, at most one effect, and none while that
  handler is about to post (`OnceInv`). A handler at work has not found a success
  (`UndoneInv`). A barred task has no handler past its check and no request that
  Google still works on (`BarredInv`), and while a deletion stands no refresh is
  under way (`GoneInv`). `EffectIsSingle`, `SuccessStands` and `DisconnectIsKept` are
  consequences, for any number of tasks and handlers. `OrdersAreKept`, the refinement
  of `SingleEffect`, adds two parts: nothing was done for a call that may yet be
  refused (`AnswerInv`), and a handler past its start has called the task running
  (`RunningInv`). A task in `doubled` or `disowned` has lapsed; the others, one by one,
  take one step of their order or none (`ItFares`), and only the connection halts.

* **ChatStreamClient_proofs.** `TypeCorrect`, with what ties calls to questions
  (`Typed`: a call is of a request that was asked, and of the attempt that names it).
  `AnswersStayInPlace` needs `Quiet`, which holds until the user goes on while
  something is unsettled: there is one call, timer or refusal at most (`OneCall`), it is
  the current one and of the last question (`Reachable`), it streams into that
  question's message if there is one, which shows all that was received (`Streaming`),
  the texts are in order (`InOrder`, `Shown`), and finished messages have their whole log (`Complete`).
  For any number of questions, events and retries.

Only model-checked are the liveness properties: `SubscriptionEnds`,
`EventuallySettled`, `EventuallyDecided`, `TakenMovesOn`, `StrayLoopStops`,
`AcceptedSettles` and `Settles`. They rest on fairness, which this prover cannot
reason about. Every other property that a passing run checks is a theorem.

## 6. Fairness

* `ChatStreamRun`: weak fairness of each handler, of the producer and of the clock.
  The event loop resumes what is ready and time passes. Nothing is assumed of
  heartbeats, of orphaned calls, or of the environment.
* `Outbox`: weak fairness of the dispatch loops (`outbox_service.py` wakes at an
  interval) and of backoff and lease ends; strong fairness of a dispatcher's claim,
  for dispatchers that compete for rows: a claim that fails because another has the
  rows is repeated at the next interval. Crashes and errors befall the dispatchers
  in `Faulty` only, so that one of the two is reliable. A broker that never comes
  back leads to a dead row.
* `DocumentIngestion`: weak fairness of `Publish` and of each handler; strong
  fairness of taking a given message, since the queue is first in, first out and
  a message that waits is taken when those before it are settled.
* `AutonomyLoop`: weak fairness of what a request and a loop do next (`Serve`,
  `Loop`), of the end of a task, which the broker and the workers bring about, and
  of the end of a lease. Starts, stops and users have none.
* `ProductivityTask`: weak fairness of delivery and of each handler. The API's calls,
  the user, Google's late requests and the refreshes have none: nothing that is
  promised of an accepted task waits for them.
* `ChatStreamClient`: weak fairness of the answer to a creation, of the server, which
  takes a request and comes to an outcome (`SubscriptionEnds` on the other side), of
  the timers, and of the handling of what has arrived. The user has none, and
  connections need not fail.

## 7. Plan

Done: `ChatStreamRun` with `DurableStream`, `ChatRestRun` with `IdempotentKey`, `Outbox`
with `KeyedDelivery`, `AutonomyLoop` with `GoalPursuit`, `ProductivityTask` with
`SingleEffect`, `DocumentIngestion`, `ChatStreamClient`, with the theorems above.

Next, in this order:

1. `PendingActions`: approve against reject, both of which may be answered with
   success, and the chat message that shows the decision.
2. `BrokerConsumer`: settlement of messages on every path, prefetch; the poison
   pill decorator as a module of its own; composed with `DocumentIngestion`.
3. `CircuitBreaker`, `TokenBucket`: pure operators against a reference, then
   concurrent callers.
4. `DataPurge` against what ingestion leaves behind.

## 8. Not modelled

Language model calls, prompts, retrieval, ranking, pricing and optimisation
(numeric or textual heuristics, no protocol); metrics and logging; authorisation
predicates over a single request; configuration and start-up order; audio and
vision devices; the user interface; deployment and test tooling. In
`DocumentIngestion`: the synchronous link-url path, searches and listings,
consolidation after indexing, and the quota's count. In `Outbox`: enqueues that
raise, unsupported event types, statistics. In `ChatStreamRun`: the contents of
events and the translation of errors to user messages. In `AutonomyLoop`: budgets,
throttle and breaker beyond the choice to skip a cycle, planning, risk profiles and
self study, the watchdog. In `ProductivityTask`: the one-time use of OAuth states,
which one Redis command decides, quotas, the indexing of what was sent, single
scopes, tokens without a refresh token. In `ChatStreamClient`: classic sends, the
`/code` command, the button for a new conversation, a component that is destroyed,
tokens and the typing indicator, and events that cannot be parsed.
