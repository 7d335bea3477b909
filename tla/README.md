# Metis Brain and the protected broker: specifications and proofs

This directory holds TLA+ models of the concurrent, stateful parts of the
repository: **Metis Brain**, the local HTTP service that runs conversations with
Model 1 (`src/metis_model1/brain_*.py`), the **protected broker** of W3, a
set of services that execute a request once and account for it with signed,
chained receipts, and that a crash-tolerant installer puts in place
(`runtime/w3_*.py`, `src/metis_model1/w3_broker_client.py`), and the command that
**writes reviewed semantics into a tenant's checkout**
(`src/metis_model1/video_semantic_patch_apply.py`). Everything else in the repository
is offline, sequential tooling.

Model checking is done with TLC (`tlc -config X.cfg MC….tla`), proofs with TLAPS
(`tlapm …_proofs.tla`). `PROJECT.json` lists the runs, the mutants, the
source lines every definition models, the hazards and the theorems.

## 1. The system

### Metis Brain

| Component | State it keeps | Operations | Calls |
|---|---|---|---|
| Session manager `brain_sessions.py` | sessions with state, leases (`in_flight`), snapshot, overlay directory; rosters of pending captures | `create_session`, `operation`, `close`, `sweep_expired`, `shutdown` | cleanup listeners of the turn store and of the orchestrator |
| Clarification store `brain_clarifications.py` | the open question of every session, conversations with their decisions, claims, replay guards, revocation guards | `create_pending(_v2)`, `validate_answer(s_v2)`, `release_answer_claim`, `answer(_v2)`, `discard_pending_for_turn`, `drop_session`, `release_revocation_guard`, … | called by turn store and orchestrator |
| Turn store `brain_turns.py` | turn records, idempotency keys, proposal heads, active sessions, the executor's futures and queue, admitted private work | `submit`, `answer`, `cancel`, `_run`, `events`, `apply_preflight`, `drop_session`, `shutdown` | leases sessions; claims questions; runs the orchestrator on a worker thread |
| Turn record `brain_turns.py`, `brain_server.py` (events) | the event journal of a turn, its terminal, its heartbeat threads; a cursor per client | `emit`, `heartbeat_while`, `_finish`, `events`, `_dispatch_sse` | written by worker and heartbeat threads, read by HTTP threads |
| Orchestrator `brain_orchestrator.py` | none of its own between turns | one turn: retrieve, generate, compile, repair, ask, answer | model workers, compiler, clarification store |
| Model workers `brain_mlx_runtime.py`, `brain_flash_runtime.py` | one subprocess, its warm-up status and request count | `warmup`, `generate`, `plan_create`, `compile`, `close` | a subprocess over pipes |
| HTTP service `brain_server.py` | request slots, reaper thread, bootstrap token | the routes, the event stream, `_reap`, `close` | all of the above |
| Pure code `brain_create_*`, `brain_structural_edit`, `brain_semantic_retrieval`, dialogue contracts, pins | none | functions of documents | – |

How they interact: an HTTP thread authenticates a session through
`SessionManager.operation` (a *lease*) and submits a turn; the turn runs later, on
a worker, under a lease of its own. When a session is revoked (idle TTL, `close`,
a stale snapshot, shutdown) whichever thread gets there first becomes the owner
of its cleanup: it cancels, calls the erasers (`drop_session` of the turn store,
which erases the clarifications) and, when the last lease is gone, removes the
overlay. Each of the three stores has a lock of its own and gives it back around
every callback; the order in which threads get through is what the models are about.

### The protected broker

| Component | State it keeps | Operations |
|---|---|---|
| Broker core `w3_protected_broker.py` | an append-only ledger of attempts, tombstones and receipts under a file lock; bounded slots | `handle`, `inspect_ledger` |
| Worker and journal `w3_installed_worker.py` | published output files; the public receipt journal | `AtomicPublicationWriter`, `PublicReceiptJournal.append` |
| Service `w3_broker_service.py` | one connection at a time | `serve_listener` |
| Anchor service `w3_anchor_service.py` | the log of accepted receipts | `ADVANCE` |
| Consumers `w3_broker_client.py` | a cached anchor state | `submit`, `accept`, `advance`, `replay_protected_journal` |
| Install executor `w3_broker_executor.py` | a hash-chained transition journal with ownership receipts; the host's accounts, files and services | `execute_install_plan`, `recover_install_plan` and their rollbacks |
| Launcher, installer, materializer, qualifier | none between calls | – |

A request goes through the core (consume the nonce durably, execute, sign, append
the receipt), then into the public journal, and only then to the client, which
advances the anchor before it trusts the receipt. Four files or states hold the
same chain; each is written after the one before it, by another process, and any
of them can stop in between.

### Semantic patches

`apply_semantic_patch` renders the drafts of a wave from the bytes of a clean checkout
and writes them into several source files; `promote_semantic_patch_review` makes the
drafts reviewed. Both look at the checkout again after planning, replace the files one
by one with a compare and swap, and undo what they wrote when anything fails. Their
state is the checkout itself and the receipt of the apply, which the promotion wants.

### Hard behaviours and what correctness means

* **Threads between critical sections.** What was checked under a lock is stale
  after it: capacities, session states, limits, questions. Correct: nothing is
  admitted twice or beyond a limit, nothing returns into an erased session.
* **Cleanup that has to happen exactly once**, by whoever is last, with failing
  listeners and directories. Correct: one owner, in the right order, and finally.
* **Claims and guards with an end**: a turn that claims a question, a guard that
  keeps a revoked session empty. Correct: every holder lets go on every path.
* **One pipe, many callers**: cancelled exchanges, recycled processes and a `close`
  that does not wait for the lock. Correct: an answer is never taken for another
  request's, no process is left behind, a runtime breaks only through a real fault.
* **A bounded journal with slow readers**: eviction, reconnection, heartbeat threads
  that outlive their phase. Correct: events come in order, no reader skips one that the
  journal still holds, nothing follows the terminal event, every reader learns the end.
* **Crashes between durable steps**, torn file tails, resubmissions. Correct: a
  nonce is executed and signed at most once, the ledger stays readable, the
  journal, the anchor and the caches remain prefixes of it, a client that retries
  gets there.
* **A plan undone from its own journal**: kills between intent, effect and outcome,
  failing appends, recoveries of recoveries. Correct: the journal stays readable, what
  it says of the host is true, only what the plan made is removed, secrets are kept.
* **Several files changed as one**, while others work in the same checkout. Correct:
  the receipt or the error says what is there, and half a wave is never taken for a whole.

The hazards, each at its line with the properties that cover it, are in
`PROJECT.json`; those without a property say why.

## 2. The modules

| Module | Models | Kind |
|---|---|---|
| `SessionLifecycle` | what a session promises: opened once, entered while live, revoked for ever, erased after revocation, destroyed after the last lease | abstract |
| `BrainSessions` | `brain_sessions.py`, every lock region | detailed; implements `SessionLifecycle` |
| `BrainSessions_proofs` | theorems about `BrainSessions` | proofs |
| `QuestionLedger` | what the clarification store promises | abstract |
| `BrainClarifications` | `brain_clarifications.py`, every method | detailed; implements `QuestionLedger` |
| `BrainTurns` | `brain_turns.py`, composed with `SessionLifecycle` and the promises of `QuestionLedger` | detailed, composed |
| `ReceiptChain` | what the broker promises: bind, run, issue or give up, answer | abstract |
| `ProtectedBroker` | `w3_protected_broker.py` with crashes and torn tails | detailed; implements `ReceiptChain` |
| `ReceiptDelivery` | service, journal, anchor and clients around `ReceiptChain` | detailed, composed |
| `InstallTransaction` | `w3_broker_executor.py`: plan, journal, recovery, rollbacks | detailed |
| `BrainClarifications_proofs`, `BrainTurns_proofs`, `ProtectedBroker_proofs`, `ReceiptDelivery_proofs`, `ModelWorker_proofs`, `TurnRecord_proofs` | theorems about these modules | proofs |
| `Rollback_proofs` | theorems about `InstallTransaction` and `SemanticPatch`, which both undo what they have done | proofs |
| `ModelWorker` | `brain_mlx_runtime.py` and `brain_flash_runtime.py`, one protocol | detailed |
| `EventStream` | what the events of a turn promise its clients | abstract |
| `TurnRecord` | the event journal, heartbeats and readers of a turn | detailed; implements `EventStream` |
| `SemanticPatch` | `video_semantic_patch_apply.py`: apply, promote, their rollbacks | detailed |
| `MC…` | constants and symmetry for TLC | – |

A composed module is built on the abstract specification of what it uses, so it
does not repeat the detailed one, and the detailed one is shown to implement
the abstract one in a run of its own. Definitions whose comment begins with
"Faulty variant" are not part of any specification: each is a definition below it with
one plausible mistake, and is substituted for it to show that a property does
depend on that detail of the code.

### BrainSessions

`state`, `in_flight`, `cleanup_started`, `listeners_completed`, `snapshot` and
`overlay` are the attributes of `_Session`; `pending_*` the rosters of captures.
A thread is `pc`/`on` (the call it is in), `toNotify`/`toClean` (the cleanups it
took over under the lock and still owes) and `doing`/`at`/`cursor` (the listener it
is in). The points of `pc` are the places where the code has released the lock:
`check1`, `admit`, `check2`, `activate`, `body`, `check3`, `exit`. `Tick` is
the monotonic clock; `ContextChanges` lets `assert_current` find another revision on disk;
a listener or the removal of an overlay may fail (`MaxFaults`).

### BrainClarifications

Every method holds the re-entrant lock from its first line to its last, so it is
one action that starts with the sweep (`SweepExpired`) the code starts with. The two
dialogue versions have separate dictionaries of conversations, but one index of
questions and one limit. A decision is its key and how many decisions on the
key it supersedes, so that it is identified by the slot it answers and what a conversation
has decided is a set of slots; texts, options and revisions are reduced to what the code
compares. `retired` is the code's dictionary: identifier to session, reason and age.
A guard that is one too many is the oldest of its session; of guards of equal age `min` takes
the one inserted first, which is the one with the lower identifier.

### BrainTurns

Steps are the critical sections of `_lock`; a record's condition, the second
lock, is held in `finishing` and `cancelling`. The executor's futures (`job`) and
its queue are modelled from how the code uses `ThreadPoolExecutor` (external): a cancelled
future stays in the queue until a worker takes it out and skips it. What
a turn does inside the orchestrator is any outcome: a proposal, a question, an
answer, a failure or a cancellation, at any moment after its lease begins.

What a record keeps of a user is three things that are written differently. `private`
stands for the sources, manifests and dialogue, which are attached under `_lock`
(`Publish`); `notes` for the decision and the conversation in the request, which the
worker and the orchestrator also write without the lock and without asking whether the
record is still the store's (`RecordDecision`, `AddContext`, `KeepRequest`:
`brain_turns.py:2635`, `2650-2657`, `brain_orchestrator.py:203-204`); and `rest` for the
question left of a partial answer, by the turn that asked it. `clear_private` empties all
three (`Emptied`), `_clear_private_if_current` only in a record of the store. A turn's own
question is withdrawn by its worker, when it finds the turn cancelled or fails
(`FinishCheck`, `Fail`), the rest of one it answered already by a `cancel`, by the dead branch of `Publish` and by the error
paths (`Abandon`), which an error after a rotation or in the publication leads to as well.

### ProtectedBroker

`handle` is cut at every point where the process can stop: a `stage` per handler.
`ledger` is the sequence of complete records, `tail` whether a partial record
follows (only part of a length prefix, which is repaired, or part of a body,
which stops the broker: `TORN_TAIL_AMBIGUOUS`). `Readable` is the validation of
`_state_from_records`. `Abort` is an exception without a tombstone in one
handler; `Crash` stops all of them and leaves only the files. A digest is
modelled by the attempt it identifies.

### ReceiptDelivery

One connection is served at a time (`served`), others wait in the listener's
`backlog`, a set: two abandoned connections with the same call are one. The core
is `ReceiptChain`. A state of the anchor is the sequence of receipts it accepted,
and its digest stands for it. `Lose` is a lost ADVANCE or a lost response, once
retried with the same bytes as in `_exchange_with_one_retry`.

### InstallTransaction

`journal` is the sequence of rows of the transaction under way (`closed` counts the
rolled-back ones before it), `torn` an incomplete record at its end. `host` maps each
representative object to what is there: `no`, a temporary name (`temp`), both names
(`both`), made but not yet owned (`raw`), `yes`, and for a registration `live`. `pc`
follows `execute_install_plan` and `_recover_install_plan_locked`: a row, the effect,
the row of its outcome; a receipt is the set of objects it names. `Broken` is an
append that fails, with or without the record on disk; a kill may come between
any two effects; how far a rollback got is the set of objects gone and of secrets copied
(`Cuts`), objects in their order and each secret copied before it goes. `ReadUpTo` is the
loop of `_validate_operation_journal_order`, the installer's own reader, which decides
whether a recovery may start at all, and `OwnershipReadable` what
`_recover_operation_ownership` refuses.

### ModelWorker

One request of one caller at a time holds `lock`; the process's two pipes are `inbox`
and `answers`, sequences of lines that carry the caller they belong to. `close` reads and
kills the process without the lock (`CloseRead`, `CloseKill`) and changes the state
under it (`CloseFinally`). Death, a stall, a bad answer, a failed start and a flood
of standard error are faults; `Drain` is the thread that reads standard error, which
outlives its process. `kind` chooses between the MLX and the Flash runtime.

### TurnRecord

Every critical section of `record.condition` is a step. `worker` is the thread of the
turn, `beats` the heartbeat thread of each phase, which may outlive the join that ends
it. A request for the events has two sections, `Open` (`TurnStore.events`) and `Look`
(`_dispatch_sse`), between which the journal may evict what the first one saw.

### SemanticPatch

`disk` maps each file of the wave to one of its three images (the commit's, the draft, the
reviewed) or to an edit of somebody else; how an image is rendered is left out. `stage`
follows the one operation under way: `active` is the file in hand, `written` how many the
loop has recorded, `undo` what the rollback has still to put back, with the digest it
expects. The compare and swap is two steps, as in `atomic_replace_if_current`:
its last look at the target and `os.replace`. Others save a file, add one or commit
at any moment; `Reset` is the operator who throws an unfinished wave away.

## 3. What the runs show

| Run | Instance | Properties |
|---|---|---|
| `sessions_threads` | 1 session, 2 workers, reaper, closer, 2 listeners, 2 failures, fair | `LeaseKeepsSession`, `CleanupHasOneOwner`, `ErasedBeforeRemoved`, `RevocationIsFinal`, `ImplementsLifecycle`, `RevokedIsCleaned`, `ShutdownDrains` |
| `sessions_capacity` | 4 requests of overlapping clients and tenants, 2 slots | `CapacityRespected` |
| `clarifications` | 2 sessions, 1 turn, 2 keys, 2 revisions, 2 assumptions of which 1 fits, 3 decisions, 1 conversation, 2 replay guards, 3 identifiers | `StoreConsistent` (types, indexes, a revoked session stays empty), `QuestionResolvable`, `DecisionsAreKept`, `ReplayGuardLasts`, `ClaimIsHonoured`, `ImplementsLedger` |
| `turns_lifecycle` | 2 threads, 2 requests of 1 session, 1 worker, shutdown, fair | `OneActiveTurn` (with `TypeOK`), `RequestsAdmittedOnce`, `AdmittedTurnEnds` |
| `turns_dialogue` | 3 turns of one session, 1 worker, 2 questions, 1 target | `NothingSurvivesErasure`, `PrivateWhileUsable`, `ClaimHasOwner`, `OpenQuestionIsVisible`, `ResultsAreFinal` |
| `turn_events` | 1 client, a journal of 2 events, 2 phases, 2 broken connections, fair | `ImplementsEventStream`, `TheEndIsLearned` |
| `model_worker` | 2 callers and a close, either runtime, 1 request per process, 2 faults, fair | `NoStrayWorker` (with `TypeOK`), `OnlyFaultsBreak`, `EveryCallEnds` |
| `broker_ledger` | 2 handlers, 3 nonces, 2 requests, crashes everywhere | `LedgerReadable` (with `TypeOK`), `ExecutedOnce` (with `SignedOnce` and `OutputIsFresh`), `ImplementsReceiptChain` |
| `delivery` | 2 clients, or one of them that retries alone, 2 nonces, 3 faults, fair when alone | `EachFollowsItsSource` (journal, anchor, caches), `RestartIsCurrent`, `RetriedIsAccepted` |
| `install_transaction` | 2 installations, 3 kills or failures, 1 failed recovery, with and without foreign objects | `JournalReadable`, `OutcomeIsTrue`, `OnlyOwnedIsRemoved`, `SecretsAreRetained` |
| `semantic_patch` | 3 files, 2 edits, a new file, a commit, 3 failures or kills | `VerdictIsTrue` (with `TypeOK`), `WavesDoNotMix`, `UndisturbedRollbackSucceeds` |
| `install_rollback` (violation) | 1 installation, 2 kills or failures | `RollbackIsIdempotent` |

**Bounds.** They limit how often something can happen, not which interleavings are
explored. Sessions do not interact except through the capacity rosters, so
capacity has a run with four sessions and the thread protocol one with a
single session and every kind of thread: one worker holds a lease while the other,
the reaper or the closer revokes and takes the cleanup over (the proofs of section 4
cover any number of them); two listeners, for one to have run and the next to fail.
Two sessions share the clarification store, which has room for one conversation, so
that one session's sweep frees the other's room; two keys are a question group with
a partial answer, three identifiers a question and its two rotations. Turns of
different sessions meet only in the executor's queue, so the races of
admission and the dialogue are explored on one session. The dialogue has one worker (two
make seven million states): turns of a session overlap all the same, as the next one is
admitted and claims its question while the worker of the last is still on its way out. The
proofs cover any number of workers. A journal of two events evicts
with the fourth emission of five, while a client is between its two sections or
disconnected; two phases are one heartbeat thread that lives on and another that starts.
Two callers are one whose exchange is cancelled and one that takes the runtime over, with
a limit of one request so that the second always meets a recycled process. Three nonces
make a chain with a tombstone between two receipts; two handlers compete for the
lock; the broker's crashes are not bounded at all, as the nonces bound the ledger. Three
faults are a crash, a lost request and a lost response in one run; for the installer,
a failure that starts a rollback, a kill inside it and a lost row of the recovery after.
Two installations let the second find what the first left. Three files are
one recorded, one in hand and one to come; of three faults the first starts a rollback,
the second breaks it and the third kills the operation tried on what it left. Identifiers
(`MaxId`, `MaxTurn`, `MaxQuestion`) are drawn at most so many times.
`CHECK_DEADLOCK FALSE` is stated where the system really stops: the turn store after
shutdown, a turn whose clients know its end, an installation with no attempt left.

**Fairness.** A thread that is inside a method goes on (`WF` of its steps): the
operating system schedules it, and no method waits for something only a client can
do. The reaper's loop runs every five seconds. A worker of the executor takes
queued work, and the orchestrator returns at some time, as every exchange with a
model or compiler has a deadline. A shutdown that was begun is completed by the
thread that called it. Nobody has to submit, answer, cancel, close or shut down. A
worker process that is not stalled answers; a stalled one is met by the deadline of
its caller. `RetriedIsAccepted` further assumes a client that works alone (`patient`) and resubmits
until it has its receipt or `NONCE_CONSUMED_NO_RECEIPT`: a run chooses in its first state
between such a client and any number that do what they like, of which nothing is
promised; and `TheEndIsLearned` one that reconnects or
polls; faults stop after their bound. Heartbeats need no fairness: nothing waits for them.

### Finding

* `install_rollback`: the rollback that removes the accounts verifies, when the step's
  own receipt is durable, that both still exist before it deletes either. Killed
  between the two deletions, it is refused by every later recovery
  (`remove-created-identities-last`, `w3_broker_executor.py:4167`), while the tests state that a
  crashed rollback can be repeated.

### Observations

Each of these was met while modelling and is stated as a formula of its module, or
follows from one action; no run checks them.

* `BrainTurns!HistoryBounded`: `submit` checks `MAX_SESSION_TURNS` before the snapshot is
  captured and not again when the turn is inserted (`brain_turns.py:1653`, `1670-1722`), so
  concurrent requests exceed it by their number.
* `BrainTurns!GuardReleased`: the revocation guard of a session is not released when
  `cancel` finishes its turn around the erasure, since `_run` then returns before its
  `finally` (`brain_turns.py:2523`).
* `BrainTurns!DroppedRecordsAreEmpty`: `drop_session` empties the records of a session it
  erases, but the worker of a running turn may write decisions and context into one
  afterwards, as those writes take no lock. If the turn then ends by an error, nothing
  empties the record again (`_clear_private_if_current` passes over a record that is not
  in the store); if it reaches the publication, its dead branch does. Nobody can
  ask for such a record any more, and `docs/26` (133-139) allows a running call frame to
  keep its arguments until its worker ends; after that it is garbage.
* `TurnRecord!GapsAreTold`: a request for the events looks for a gap in its first critical
  section (`brain_turns.py:2456-2462`) and takes its answer in the second
  (`brain_server.py:943-961`), up to thirty seconds later. What a full journal evicts in between
  is left out without a word. `EventStream` allows it: a reader may skip what was evicted.
* `ReceiptDelivery!DuplicateIsAnswered`: a duplicate nonce whose receipt is not the
  tail of the public journal is answered with a closed connection
  (`w3_installed_worker.py:641`), where `docs/13` promises the receipt. For the same
  reason only one of several consumers makes progress at a time, and one that restarts
  while the journal is ahead of the anchor cannot replay.
* `InstallTransaction!RecoveryIsNotRefused`: a transaction that owns the directories of a
  rollback's steps but none of its files is refused by every recovery.
* `SemanticPatch!RollbackSparesEdits`: an edit saved between the recheck of the checkout and
  the compare and swap of its file makes that fail, as it should; but the rollback
  then reads the file again, expects the digest of the edit and overwrites it with
  the planned preimage (`video_semantic_patch_apply.py:1303-1313`, and the same in the
  promotion), where `docs/24` (2024-2026) has a rollback stop at a concurrent change
  without overwriting. The branch is meant for a writer that published and then
  failed, and does not compare with the postimage. For the same reason the loser of
  two concurrent applies undoes a file of the winner. An edit saved between the last look
  and `os.replace` is lost as well, which no compare and swap on files can avoid.
* `apply_preflight` tests and sets a record's ticket without a lock
  (`brain_turns.py:2488`): two callers can get different tickets.
* `close` of a model runtime can wait for the warmup of a process that was started
  after it had read the old one (`brain_mlx_runtime.py:955`).
* A heartbeat can be published after its phase, when the join times out. A client
  that has nothing yet (`Last-Event-ID` 0) is told of no gap. The one-second wait
  of `_dispatch_sse` for a terminal without its event is unreachable, as the two are
  published in one critical section.
* `ClarificationStore.sweep_expired` is never called by the service (every method sweeps
  itself); a `create_pending` refused with `ASSUMPTION_LIMIT` leaves an empty
  conversation until its session is dropped. A client that never resubmits a
  nonce whose receipt missed the journal blocks the journal for everybody. The branch
  `RECEIPT_SEQUENCE_INVALID` of `handle` is unreachable by `LedgerReadable`.

## 4. What is proved

`BrainSessions_proofs` proves, for every set of sessions, threads, clients, tenants,
revisions, every limit and any number of listeners and failures, from
`SessionsAssumption` alone:

| Theorem | States |
|---|---|
| `TypeCorrect` | `[]TypeOK` |
| `InFlightIsExact` | `[]InFlightExact` |
| `SessionSafety` | `[]SafetyInv`, the inductive invariant |
| `LeasesKeepSessions` | `[]LeaseKeepsSession` |
| `CleanupsHaveOneOwner` | `[]CleanupHasOneOwner` |
| `ErasureIsOrdered` | `[]ErasedBeforeRemoved` and `[]EraseAfterCancel` |
| `RevocationsAreFinal` | `RevocationIsFinal` |
| `ShutdownIsFinal` | `[]NothingOpenAfterShutdown` |
| `ReservationsAreExact` | `[]ReservationsExact` |
| `CapacityIsNeverExceeded` | `[]CapacityRespected` |
| `LifecycleIsImplemented` | `ImplementsLifecycle` |

The argument. None of these is inductive alone. `TypeOK` needs that a counter is
not decremented at zero, hence the exact counts: `in_flight[s]` is the cardinality of
the threads inside `s`, the rosters are the cardinalities of the captures in
progress. These form `BaseInv`. `SafetyInv` adds how the flags of a session follow
its state (a revoked session is cancelled, an unfinished cleanup has exactly one
thread that owes it, `listeners_completed` comes only after every listener has
run) and what a thread that owes a cleanup knows. Many actions do the same to a
session: revoke it and, if nobody is inside, hand out its cleanup. They are
abstracted to one step, `Retires`, whose preservation of the invariant is proved
once. Capacity uses its own invariant: live sessions plus captures in progress
never exceed a limit, counted with the library's facts on cardinalities. The
refinement needs one fact more, `GoneInv`: a session that is closed or being closed has
no overlay left, so that it is erased before it is destroyed. `Retires` gives the set of
sessions that a step revokes, and `CallMoves` says that a thread that enters a session
revokes none, and one that leaves it at most its own.

`ProtectedBroker_proofs`, for any sets of handlers, nonces and requests, any number of
crashes and failing writes, from `NoneAssumption` (`None` is no handler, nonce or request):

| Theorem | States |
|---|---|
| `BrokerSafety` | `[]BrokerInv`, the inductive invariant |
| `LedgerStaysReadable` | `[]LedgerReadable` |
| `NoncesExecuteOnce` | `[]ExecutedOnce` |
| `LedgerIsAppendOnly` | `LedgerOnlyGrows` |
| `BrokerKeepsItsPromise` | `ImplementsReceiptChain` |

Whether a record fits a ledger depends on its last attempt and its last receipt.
`LedgerInv` therefore says of these what a reader finds: there is a last attempt, each
nonce has at most one, every end belongs to an attempt. `CountInv` ties executions and
signatures to the records, `FileInv` the output files to the attempts, and `ServeInv` says
what the handler in the critical section knows at each of its stages: at most one
attempt is open, and it is the last one and its own. Appending a fitting record keeps a
ledger readable, which is a lemma, so every action has only to show that its record fits.
The refinement maps the receipt numbered `k` to the `k`-th element of the chain. It needs
`PromiseInv`: the receipts are numbered without a gap and no two alike (`Numbered`), and at
most one attempt is open, none while a handler decides whether to consume (`OpenInv`).

`ReceiptDelivery_proofs`, for any clients, nonces and faults, from `NoneIsNoNonce` and
`NoneIsNoRequest`:

| Theorem | States |
|---|---|
| `DeliverySafety` | `[]DInv`, the inductive invariant |
| `SourcesAreFollowed` | `[]EachFollowsItsSource` |
| `RestartsAreCurrent` | `RestartIsCurrent` |
| `DeliveryUsesTheChain` | `Spec` of `ReceiptChain`, step by step |

That each file is a prefix of the one before is inductive only with where a receipt
may be at which time: a nonce has one receipt (`ChainInv`), and what is answered, held by a
client or sent to the anchor is in the journal already (`FlowInv`). An anchor that advances
from the head of a prefix to the next receipt of the journal is again a prefix, a lemma
about sequences without repetition.

`BrainTurns_proofs`, for any sessions, threads, workers, turns, questions and
limits, from `LimitsAreNumbers`:

| Theorem | States |
|---|---|
| `StoreInvariant` | `[]TurnInv`, the inductive invariant |
| `OneTurnPerSession` | `[]OneActiveTurn` |
| `AdmissionIsIdempotent` | `[]RequestsAdmittedOnce` |
| `ErasureIsComplete` | `[]NothingSurvivesErasure` |
| `PrivacyFollowsUse` | `[]PrivateWhileUsable` |
| `ClaimsAreOwned` | `[]ClaimHasOwner` |
| `QuestionsAreShown` | `[]OpenQuestionIsVisible` |
| `ResultsLast` | `ResultsAreFinal` |

None of these is inductive, and they need one another: a worker may ask only while
its session is not erased, which it knows because an erased session whose turn was
taken off the queue has the guard of that turn (`ErasureInv`); it may attach private data
only while its record is in the store and not cancelled, which both change under the same
lock, and what it notes in a cancelled record without it is emptied by the exit it takes
(`PrivateInv`); of notes in a record that is out of the store nothing is claimed;
a record that a canceller holds was never started (`CancelInv`), so that no worker ends
it as well. `RecordFits` states once what each position of a worker implies about its
record (only an answering turn rotates a preview, a staged turn has its result). The
claim of a question names a turn that has still a step to make that releases it
(`Releases`), and an open question a turn that showed or is going to show it (`Shows`). The
actions fall into four groups with a lemma each: a worker's step that keeps the
record's end, one that ends a turn, a step that touches no turn, and a
cancellation. The proof also shows that `drop_session` never doubts which turn to guard: an
active session has exactly one unfinished turn (`brain_turns.py:2026-2034`).

`BrainClarifications_proofs`, for any sessions, turns, requests, keys, assumptions and
limits, from `NoneIsNobody`, `LimitsAreNumbers` and `FiniteData` (finitely many keys,
which makes a question a finite set of slots):

| Theorem | States |
|---|---|
| `StoreSafety` | `[]StoreInv`, the inductive invariant |
| `IndexesAgree` | `[]StoreConsistent` |
| `QuestionsCanBeAnswered` | `[]QuestionResolvable` |
| `DecisionsLast` | `DecisionsAreKept` |
| `ClaimsAreHonoured` | `ClaimIsHonoured` |
| `GuardsOutliveReplays` | `ReplayGuardLasts` |
| `LedgerIsImplemented` | `ImplementsLedger` |

That a question can be answered is not inductive: a version-1 question names no predecessor,
so its key must not have been decided, which holds because what is decided in a version-1
conversation is listed as asked (`Sound`) and is not asked again. A version-2 question that
is answered in part leaves slots on other keys (`OneSlotPerKey`), whose predecessors the
answer does not touch, and moves as much from the question to the decisions as it takes
from the room for them (`DecisionsAdd`). A discarded question takes its own slots from the
list of what was asked, never one that is decided (`NextIsNew`). For the guards, the one that
is dropped is never the one just added, because the guards of a session are older than its
question (`GuardsFit`), and an answer that first sweeps and then retires costs its session
at most one guard: what expired belongs to other sessions (`RetireAfterSweep`). One lemma
for each method shows that it keeps `StoreInv` and has the effects that the action
properties and the ledger allow (`Effects`); the ledger's step is proved session by session.
The ledger says nothing of when a question may lapse: that a claimed one does not is
`ClaimIsHonoured`.

`ModelWorker_proofs`, for any callers, requests per process and faults, from
`LimitsAssumption`:

| Theorem | States |
|---|---|
| `WorkerSafety` | `[]WorkerInv`, the inductive invariant |
| `NoWorkerIsStray` | `[]NoStrayWorker` |
| `OnlyRealFaultsBreak` | `[]OnlyFaultsBreak` |

`WorkerInv` says that only the named process is alive and none after a close
(`OneProcess`), that being inside an exchange and holding the lock are the same
(`HolderInv`), what the holder knows of the process before its start and during its
exchange, and what everybody may read while nobody holds the lock. A close kills
without the lock, so none of these may say that the process of an exchange is alive.
`OnlyFaultsBreak` adds what is true as long as no fault has happened and no close runs
(`CalmInv`): the process is healthy and within its limit (`HealthInv`), and its pipes hold
nothing but the lines of the exchange under way (`PipeInv`), also after a cancelled
one. A call that failed then had a fault (`OutcomeFits`).

`Rollback_proofs` about `SemanticPatch`, for any number of files and faults and any edits,
from `WaveAssumption` (an edit is none of the images):

| Theorem | States |
|---|---|
| `PatchSafety` | `[]PatchInv`, the inductive invariant |
| `VerdictsAreTrue` | `[]VerdictIsTrue` |
| `WavesStayApart` | `[]WavesDoNotMix` |
| `RollbacksSucceed` | `UndisturbedRollbackSucceeds` |

An apply never finds or writes a reviewed image, a promotion never the commit's: while
either is under way that image is nowhere (`ApartInv`), which is why whatever ends it
leaves no mix; the next operation starts only from files that are all alike. That the
files already recorded have no old bytes is in `ProgressInv`. As long as nobody else has
saved or committed anything, the bytes are known exactly: the first files have the new ones, the
others the old ones (`QuietInv`), and the rollback's list names just the former, the last one
first, the file in hand included if it was published (`UndoFits`).

`Rollback_proofs` about `InstallTransaction`, for any number of installations, recoveries,
kills and failing calls and any objects on the host before, from no assumption at all:

| Theorem | States |
|---|---|
| `InstallSafety` | `[]InstallInv`, the inductive invariant |
| `JournalRead` | `[]JournalReadable` |
| `OutcomeTrue` | `[]OutcomeIsTrue` |
| `RemovedIsOwned` | `OnlyOwnedIsRemoved` |
| `SecretsKept` | `SecretsAreRetained` |

`InstallInv` has a durable half, which is what a kill leaves, and one about the process.
The durable half begins with the shape of the journal (`JournalInv`): a row of the plan
has one place in it, which its step and unit determine (`Position`), it follows a row
that the plan puts before it (`Follows`), and once a rollback has begun nothing but
rollbacks comes. As a row has one place, no operation is completed twice. On this shape
rests what the rows say of the host, object by object (`HostInv`): an object is absent,
was there before, has a durable receipt, or belongs to the operation in flight, which is
the last row (`InFlightIs`), and only the last of these may be half made. A foreign
object in the way stops the plan at its preflight (`ForeignInv`); a rollback whose
completion the journal holds has cleared its objects for good (`RolledInv`); and the
last row of a transaction is true (`EndInv`). The rest relates the process to the last
row (`PlaceInv`, `LoopInv`) and says what it has done without a row so far (`WorkInv`),
for instance that without a failure all rollbacks up to the current one have cleared.
`JournalRead` goes further than the invariant: `ReadUpTo` is a recursion, and the proof
gives it a closed solution, what the reader knows after a row of the plan
(`StateAfter`), shows that each row leads from one to the next (`ReadFollows`,
`ReadOn`), and that a first row where the recursion differs cannot exist (`ReadIs`).

`TurnRecord_proofs`, for any clients, journal size, phases and broken connections, from
`TurnRecordAssumption`:

| Theorem | States |
|---|---|
| `RecordSafety` | `[]RecordInv`, the inductive invariant |
| `StreamIsImplemented` | `ImplementsEventStream` |

The journal is a window of consecutive numbers that ends with the last one published and
has lost events only if it is full (`JournalInv`). What a client has yet to receive of an
answer is a run of numbers that goes on where it is, or begins with an event the journal
has outlived by now (`AnswerFits`), so that every event received is the next one or one
after a hole that eviction made. That the events after a number are the rest of the journal
is a lemma (`AfterIsTheRest`) that counts positions. The terminal event is the last because
a thread that publishes anything has looked at the terminal under the same lock, or is
the worker, which is past its end when there is one (`WorkerInv`).

**Only model-checked:** the liveness properties, which are out of the prover's reach with
their fairness: `RevokedIsCleaned`, `ShutdownDrains`, `AdmittedTurnEnds`,
`RetriedIsAccepted`, `EveryCallEnds` and `TheEndIsLearned`. Every other property of a
passing run is stated by a theorem.

## 5. Not modelled

* **HTTP service**: request slots, token file, routes other than the event stream, and
  the order of `close` (turns before models). Apply tickets: the code does nothing with
  them that a property could rest on.
* **Model workers**: what a prompt or an answer contains; the digest of the worker's
  source is a start that may fail.
* **Installer**: the real plan has more objects of each kind than the one
  representative; the kind decides the code path. Attestation of the complete
  plan and the verification units are the `preflight` and `final` units. Another root
  process that changes the host meanwhile is outside the boundary the documentation
  draws (`docs/13` §14.6); the outcome `rollback-retained-ambiguous` cannot
  be reached with `MacOSInstallBackend`; the backend that simulates the plan with
  argument vectors has no state. The check of a retry that retained
  ledgers are still empty is left out: the model has no service that writes to them.
* **Replacement of files** under a running broker or anchor, and the checks against it; the
  validity of signatures and keys; the sizes of records.
* The pure code of Brain, the encodings, the broker's planner, materializer and
  qualifier, the oracle bridge: functions of documents, covered by unit tests.
* **Semantic patches**: how the text of a file is edited, and the modes, links and paths of
  files, whose checks are among the failures. The other video tooling, training,
  benchmarks and datasets: single-use sequential commands. They
  are most of the repository's lines, and hold no state between calls that a
  state machine could say something about.

## 6. Plan

1. `SessionLifecycle`, `BrainSessions` and their proofs: done.
2. `QuestionLedger`, `BrainClarifications` and its proofs: done.
3. `BrainTurns` and its proofs: done.
4. `ReceiptChain`, `ProtectedBroker`, `ReceiptDelivery` and their proofs: done.
5. `ModelWorker` and its proofs: done.
6. `InstallTransaction` and its proofs: done.
7. `EventStream`, `TurnRecord` and its proofs: done.
8. `SemanticPatch` and its proofs: done.
9. `BrainService` (request slots, reaper and the order of `close` over
   `SessionLifecycle`): open.
