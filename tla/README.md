# Formal specification of Better Hermes Hindsight

Better Hermes Hindsight is a Hermes memory provider. It admits conversation turns to a durable
local outbox and retains them in a remote Hindsight bank, plans and performs recall before a turn,
and exposes the bank's mental models as tools. This directory holds TLA+ models of it, the TLC
configurations that check them on small instances, and proofs for TLAPS. Paths below are relative to
`src/better_hermes_hindsight/` unless they start with `docs/`.

`PROJECT.json` holds the details a reader may want beside this text: the lines of the source every
definition stands for (`map`), what each run checks (`runs`), the faulty variants each property
was tried against (`mutants`), the hazards (`hazards`) and the findings.

Contents: 1 the system, 2 the modules, 3 what the runs check, 4 fairness, 5 what is proved,
6 disagreements found, 7 abstractions and what is left out, 8 plan.

## 1. The system

Several gateway processes may share one Hermes home, hence one outbox database. In each process
there is one runtime, with one event loop, one sender thread and one client, shared by any number
of provider handles whose hooks and tools run on threads of the host. Beside the gateways an operator
or a scheduler starts short-lived commands.

| Component | State | Operations | Interacts with |
|---|---|---|---|
| Outbox store (`outbox.py`) | rows (pending or sending, attempt count, deadline, fingerprint), the schema version, the profile lock and the identity of its file | open, admit, recover_sending, claim_due, complete_claim, reschedule_claim, lock, probe, inspect | every process of the home, through SQLite and `flock` |
| Outbox sender (`runtime.py`, `OutboxSender`) | its claim, stop flag, retry delay | election, owner loop, one attempt, settlement, stop | store, runner, client |
| Async runner (`runtime.py`, `AsyncRunner`) | live tasks, unsettled tokens, shutdown flag, the loop | run, wait_for_settlement, shutdown | every thread that calls the client |
| Process runtime (`runtime.py`) | active calls, finalizing, closed, the process singleton | acquire, call, admit, finalize | runner, sender, store, client |
| Plan mailbox (`plan_mailbox.py`) | activations, current turns, plans, tombstones, redirects | activate, rebind, begin_turn, reserve, finalize, cancel, consume, clear | planner hooks, provider handles |
| Planner hook (`planner.py`, `jev.py`, `rewrite.py`) | the stage of each `on_pre_llm_call`, its deadline | begin, gate, ask Jev, rewrite, publish or cancel | mailbox, Jev, the host's model |
| Shadow rewrite (`shadow_rewrite.py`) | one slot per process | submit, run in a daemon thread, release | planner, evaluation |
| Provider (`provider.py`) | session id, activation, pending switches, seen sessions, configuration, flags, runtime handle | initialize, shutdown, on_session_switch, prefetch, sync_turn, tools | mailbox, runtime |
| Mental models (`mental_models.py`) | reservations, ambiguous and unconfirmed refreshes, one lock | create, refresh, status, list, read, pages | runner, client, the bank |
| Operator's writing commands (`summary_management.py`, `knowledge_pages.py`, `management.py`) | what one command has read, written and heard | summaries create, edit, refresh and delete, pages create, missions apply | mental models, client, the bank |
| Status (`outbox.py`, `management.py`, `operator_cli.py`) | none | passive snapshot, lock probe, verdict, compact answer | store |
| Diagnostics and evaluation (`diagnostics.py`, `evaluation.py`) | bounded queues, writer threads, a directory of records under a file lock | record, write, prune, replay | planner, provider |
| Watchdog (`watchdog.py`) | persisted active reasons and recall outcomes | evaluate, write, print | status, canary, the journal |
| Canary (`canary.py`) | one probe document, two deadlines | retain, poll, clean up | client |
| Client (`client.py`) | the remembered version check | recall, reflect, retain, mental models, missions | the remote |
| Attachments (`multimodal.py`) | an open file, what was read of it | read, encode, decode | outbox |
| Pure parts (`retention.py`, `formatting.py`, `config.py`, ...) | none | cut a turn, fit memories into the prompt, validate | all of the above |

What is hard in it, and hardly reached by a test:

* **Several processes, one queue.** Any process may die between its claim and its completion; the
  rows of one configuration are in the table of a process that must not send them; a turn may be
  admitted again while half of it was delivered; the lock file may be deleted under its owner.
* **Deadlines without an end.** A synchronous call returns at its deadline while its task lives on
  the loop. Such a task must always be tracked, the tracking must end with the task, and finalization
  may tear things down only behind the last user, however often it is given up and retried.
* **Owner-fenced handoff.** A hook may be slow, duplicated or abandoned; sessions rotate and rewind
  under it; the prefetch may name the old session. Only the decision of the hook that owns its
  session's current turn may be consumed, once, for its query; and no failure of the planner may
  cost a recall.
* **Callbacks and reads in any order.** The provider learns of session rotations by callbacks which
  overtake one another. Its calls read its fields without the lock under which `initialize` and
  `shutdown` change them one by one.
* **Writes of unknown outcome.** A request whose answer was lost may be performed at any later time.
  It must be counted, not be repeated while in doubt, not be reported as refused, and, where it is a
  probe, not be left behind.
* **Files shared by processes.** Records are written and pruned by all gateways; attachments change
  while they are read; the watchdog's state is written before its line is printed.
* **Verdicts from several reads.** Status reads clock, rows and lock one after the other.

## 2. The modules

| Module | Lines of code it stands for | What it is |
|---|---|---|
| `Outbox` | `outbox.py`, `OutboxSender` in `runtime.py`, fingerprints of `config.py` | processes, profile lock, table, senders, remote, clock |
| `Delivery` | | abstract: at-least-once delivery of whole turns; `Outbox` implements it |
| `OutboxProofs` | | theorems about `Outbox` |
| `Runtime` | `AsyncRunner`, `ProcessRuntime`, `finalize_process_runtime` in `runtime.py` | threads, loop, deadlines, settlement, finalization |
| `RuntimeProofs` | | theorems about `Runtime` |
| `MailboxProofs` | | theorems about `PlanMailbox` |
| `ModelsProofs` | | theorems about `MentalModels` |
| `ProviderProofs` | | theorems about `ProviderCalls`, `PlannerDecision`, `SessionSwitch`, `Records` and their composition `MCProvider` |
| `OperationsProofs` | | theorems about `OperatorCommands`, `QueueStatus`, `Canary`, `Watchdog` and their composition `MCOperations` |
| `LocalProofs` | | theorems about `OutboxFile`, `BinaryRow`, `RetainedTurn`, `RecallContext`, `Backoff` and their composition `MCLocal` |
| `Induction` | | induction and recursion over the naturals, numbered steps and sums, as facts about sets, for the proofs |
| `PlanMailbox` | `plan_mailbox.py`, the hook of `planner.py`, `prefetch` of `provider.py` | mailbox methods as actions, hooks and prefetches between them |
| `PlanHandoff` | | abstract: one slot per session, handed out once; `PlanMailbox` implements it |
| `PlannerDecision` | `planner.py`, `shadow_rewrite.py`, outcomes of `jev.py` and `rewrite.py` | how a hook decides under its deadline; the shadow rewrite |
| `SessionSwitch` | session callbacks of `provider.py` | following rotations out of order |
| `ProviderCalls` | tools, `prefetch`, `sync_turn`, `initialize`, `shutdown` of `provider.py`; handles of `runtime.py`; version check of `client.py` | calls against a handle that changes under them |
| `Records` | `diagnostics.py`, `evaluation.py`, replay in `management.py` | bounded queues, writers, pruning, replay |
| `MentalModels` | `mental_models.py`, its call in `runtime.py` | create, refresh, status under deadlines and late writes |
| `OperatorCommands` | `summary_management.py`, `apply_missions` in `management.py` | one write and its verification, against a bank that others change |
| `QueueStatus` | `inspect_outbox` in `outbox.py`, `status` in `management.py`, `better_hindsight_status` in `provider.py` | a verdict from reads at different moments |
| `Canary` | `canary.py` | one probe after another, with late and lost retains |
| `Watchdog` | `watchdog.py` | alerts on transitions of a state file that is written first |
| `OutboxFile` | opening, schema and owner checks of `outbox.py` | the lock file and its identity |
| `BinaryRow` | `multimodal.py`, policy limits of `config.py` | reading attachments, encoding, decoding |
| `RetainedTurn` | `retention.py`, limits of `config.py` | cutting a turn into rows |
| `RecallContext` | `formatting.py` | fitting memories into the prompt |
| `Backoff` | `_retry_delay_seconds` of `outbox.py` | the doubling delay |
| `Sums` | | sums of sequences, for `RetainedTurn` and `RecallContext` |
| `MCOutbox`, `MCPlanMailbox`, `MCMentalModels` | | constants and symmetry for TLC |
| `MCProvider` | | `SessionSwitch`, `ProviderCalls`, `PlannerDecision` and `Records` in one run |
| `MCOperations` | | `OperatorCommands`, `QueueStatus`, `Canary` and `Watchdog` in one run |
| `MCLocal` | | `OutboxFile`, `BinaryRow`, `RetainedTurn`, `RecallContext` and `Backoff` in one run |

`Runtime` needs no MC module. The parts of `MCProvider`, `MCOperations` and `MCLocal` share no state,
each module says why; a behaviour of the run follows one of them, chosen by the variable `part`, so
that nothing is lost and no product of independent states is explored.

In each component module the definitions named *faulty variant* are used by no action. They are
what a plausible mistake in the code would make of the definition after them; replacing that
definition by the variant must break a property.

### Outbox

A row is its state, attempt count, deadline, creation time and destination. The destination is
the fingerprint the code computes: schema, target (endpoint, bank, tags, scopes) and, for binary
rows, the admission policy. A document id is a hash of its content, so a document is its own
payload. Each SQLite transaction is one step and so is each lock operation:

| Code | Action |
|---|---|
| runtime constructed, sender started | `Start` |
| `finalize` asks the sender to stop; its thread ends | `RequestStop`, `Exit` |
| process death | `Crash` (lock dropped, table kept, a sent request may still land) |
| `admit` | `Admit`: all new segments of a turn or none, within both limits, no segment queued elsewhere |
| `try_acquire_sender`, `recover_sending`, release | `TryAcquireProfileLock`, `RecoverSending`, `Release` |
| the owner loop | `LeaveOwnerLoop`, `ClaimIfRunning`, `ClaimEmpty`, `ClaimDue` |
| one attempt through the runner | `Dispatch`, `DispatchRefused`, `ReplyConfirmed`, `ReplyFails`, `CallTimesOut`, `TaskSettles`, `SettlementObserved` |
| `complete_claim`, `reschedule_claim` with their guards | `CompleteClaim`, `RescheduleClaim` (`Transition`) |
| a local failure of a transition | `TransitionFails` |
| status command's probe of the lock | `ProbeSenderOwnership`, `ProbeReleases` |
| the server performs a request, whenever | `Store` |
| wall clock, forwards and set back | `Tick`, `ClockStepsBack` |

### Runtime

`pc` says where each thread is: provider threads, the sender, and the one finalizer that
`finalize_process_runtime` admits at a time. A task is named by its thread and call number.
`Run`, `RunRefused`, `GetResult`, `TimesOut`, `PublishUnsettled` and `Complete` are the points of
`AsyncRunner` between which other threads run; the two that race are `PublishUnsettled` (the token
is published) and `Complete` (the token is discarded). `BeginOperation` and `FinishOperation`
count operations. The finalizer goes through its waits one by one and may give up at each
(`SenderStops`, `ClientCloseFails`: `SenderStopError`), after which it can be called again.
Deadlines have no duration: a wait that has one may expire whenever it is not satisfied.

### PlanMailbox, PlanHandoff and SessionSwitch

Every mailbox method holds the registry lock and is one action. A hook is
`BeginTurn`/`BeginBridging` (or is refused), then `Reserve`, then `Finalize` or `Cancel`; between
these, other hooks, prefetches and session changes run. The clock carries the expiry of plans and
tombstones. `PlanHandoff` forgets turn ids, redirects, tombstones and time; a mailbox step is one
of its steps or invisible.

Turn ids are unique over the sessions of a host: `consume` pops a plan by its turn id alone, so
two sessions with one turn id could take each other's plan. `SessionOf` states this assumption.

`SessionSwitch` numbers the sessions of a conversation. `Deliver` is `on_session_switch` with a
callback that may be late, repeated or early; `Drain` and `DrainEnds` are the loop over the
switches that waited; `Bridge` is the step of `BeginBridging` that moves the activation while the
provider still has the old session id. Two assumptions about the host are in it: a hook runs only
in the host's current session (docs/configuration.md:364, the turn lease), and a switch without
a parent, which the provider cannot order, arrives before the next one. With hooks of sessions the
host has already left, `Converges` fails; that is why the first one is stated here.

### PlannerDecision

One record per hook says where `on_pre_llm_call` is, whether its deadline has passed and what it has
decided. `BuildCapsule`, `SkipInternal` and `CapsuleFails` are what happens before anybody is asked;
`JevDecides` and `JevFails` the one request to Jev; `RewriteInPlan` the rewritten query when the rewrite
is on; `Conclude` drops a late decision; `PublishPlan`, `PublishRefused` and `CancelPlan` the handoff.
In the shadow mode `TakeSlot`, `StartShadow`, `ShadowReturns` and `ReleaseSlot` are `submit_shadow` and
its thread, whose call may never end. Every step appends to `stages` what the code stages for
evaluation. What the mailbox makes of the calls is `PlanMailbox`.

### ProviderCalls

Each thread's `call` is one operation of the handle: the point it has reached, what it has read of the
handle so far and how it was answered. `initialize` and `shutdown` are `Deactivate`, `Disable`,
`DropRuntime`, `CloseHandle` and `Authorize`, `Enable`, `Publish`, in the order of the assignments of
the code; every unlocked read of a call (`Enter`, `SeeEnabled`, `SeeRuntime`, `Reread`, `ReadRuntime`,
`CheckEnabled`) is an action of its own between them. `Reach` is the check of the runtime handle,
which alone sees that the authorization is over.

### Records

A behaviour follows one of the two stores, which differ in when a record gets its id, in whether the
writer waits for the lock and in the age limit. `Note` and `Enqueue` are a recall thread, `TakeJob`
to `PruneEnds` the writer thread under the file lock, `LoadRecord` to `SaveReplay` the replay command,
which takes the lock only to save. Ids are times, so that `Newest` is a matter of order.

### MentalModels and OperatorCommands

A task's step is what it does between two awaits. In `MentalModels` a request that writes is a member of
`Request` which the server performs, refuses or never answers; a performed one starts an operation. A
call whose deadline has passed is in `late`; its task may finish, be cancelled, or outlive its thread
(`gone`), and while one does, no call begins: the refusal `Runtime` describes in detail.

An operator's command is a process of its own. `stage` is the await it is at: it reads (`ReadModel`,
`ReadTree`, `ReadInventory`, `ReadMissions`), submits one write (`Submit`), hears of it
(`Acknowledged`, refused, ambiguous) and verifies by reading back. `write` keeps what each command sent:
the bank performs a sent write at any later moment, also after the command has ended. Other clients
change the bank between any two requests.

### QueueStatus, Canary and Watchdog

`QueueStatus` has as much of the gateway as the snapshot can see. `BeginStatus` reads the clock,
`ReadSnapshot` the rows in one transaction, `Report` probes the lock and gives the verdict; between
them the gateway claims, completes, reschedules, stops or dies, and the clock may be set.

`Canary` has two clocks in one variable: the operation's deadline and the time reserved for the
cleanup. `BankStores` performs or loses the retain at any time. `Watchdog` reads, writes and prints in
three steps between which it can be killed; what a reader of its lines believes is `shown`.

### OutboxFile, BinaryRow and the pure functions

`OutboxFile` has what `Outbox` leaves out: a lock file is numbered by its creation, and its inode number
may be that of an earlier file once nothing refers to it. Opening captures the inode number; each
transition checks it before and inside its transaction (`CheckOwner`, `RecheckOwner`).

`BinaryRow` reads an attachment block by block (`OpenAttachment` to `TakeAttachment`) while
`WriteFile` and `ReplaceFile` change it, and decodes the row again before it is sent.

`RetainedTurn`, `RecallContext` and `Backoff` are functions. Their variable is their input, with one
initial state for each; the functions are translated as the code computes them (the cutting loops, the
loop over the ranked results with its binary search, the doubling) and compared with a definition that
says what the best result is. `RecallContext` also counts the checks of the deadline, four for a result of
which a line is made, one for each round of the search, one behind the loop: its input says which check is the
first to come too late (`late`), and which results are malformed (`form`). Whatever raises, in whichever
step, empties the context (`Consider`, `Fails`), as `except Exception` does. A loop is a recursive function of the number of its round, whose value is what the
loop has by then: that is the form in which an induction can speak of it (section 5).

## 3. What the runs check

All runs use at most two or three of each kind of actor. Deadlock is not checked: in every module
the faults, calls, sessions or clock ticks are bounded, so runs end, and the program itself is idle
when nothing is asked of it. Progress is stated by liveness properties instead.

| Run | Instance | Distinct states |
|---|---|---|
| `outbox_safety` | 2 processes that may be restarted for either of 2 targets, 2 turns with 3 segments, limits that hold only some of them, 3 attempts, 2 faults | 692,150 |
| `outbox_liveness` | 2 processes, one target, the policy on or off, a legacy turn left in the table and a binary turn | 249,885 |
| `outbox_mixed_configurations` | 2 processes, 2 targets, no faults; a violation is expected | |
| `runtime` | 2 callers with 2 calls each, sender, finalizer given up once, 2 runtimes in a row | 250,590 |
| `mailbox_safety` | 2 handles, 3 hooks, 2 sessions, 3 turns, 2 queries, plans that live 2 ticks | 242,942 |
| `mailbox_replay` | 1 handle, 2 hooks of one turn; a violation is expected | |
| `provider` | 6 sessions, 2 waiting switches, 2 remembered sessions; a host and a tool thread, 2 authorizations; 2 hooks; 2 gateways with a queue of 1 job, 2 of 4 records kept, a replay, 1 kill | 546,245 |
| `models_safety` | 2 callers, 3 models of which one exists, allowance 2, 2 writing requests | 2,890,085 |
| `models_deadline`, `models_status` | 1 or 2 callers, 1 model, 1 request; violations are expected | |
| `operations_safety` | 2 commands out of 8, 3 models, 1 page, 1 change by others; 2 rows, 2 hours; 2 polls; 3 recall outcomes, 2 kills or losses | 1,559,286 |
| `local_safety` | 2 processes, 3 lock files with 2 inode numbers, 1 crash; 2 files, 3 writes, 2 policies; 9 texts and 72 limits; 3 results of 2 memories, sound, oversized or malformed, 6 deadlines; delays up to 16 | 224,158 |

* **`outbox_safety`**: a claim is held until it is settled (`ClaimHeld`); no row is stranded in
  'sending' behind an owner that recovered (`NoStrandedRow`); a task that outlives its deadline
  never overlaps the next attempt (`NoOverlap`); nothing accepted is lost (`NoLoss`) or sent
  elsewhere (`Isolation`); turns stay whole when one is admitted again half delivered
  (`WholeTurns`); the two limits hold over all rows (`WithinCapacity`); the persisted attempt
  count never falls behind what was sent (`AttemptsCounted`); and all of it implements `Delivery`
  (`ImplementsDelivery`).
* **`outbox_liveness`**: a queued row is delivered if from some time on a process configured for it
  keeps running and none runs that is not (`MatchedRowsDrain`); a stop request ends the sender
  (`StopCompletes`).
* **`runtime`**: a live task is awaited or tracked by a token, and a token stands for a live task: the
  two sides of the publication race (`TasksTracked`); the outbox stays open for its users
  (`OutboxOpenInUse`); closed means quiet, also for the construction of the next runtime
  (`ClosedIsQuiet`); operations return even if the remote never answers (`CallsReturn`), and a
  finalization that is retried completes (`FinalizeCompletes`).
* **`mailbox_safety`**: plans belong to the current turn and its last hook, in sessions an active handle
  owns (`PlanIsCurrent`); redirects lead to their own turn (`RedirectIsCurrent`); consumed turns
  are not planned while their tombstone lives (`ClosedIsNotPlanned`); and the mailbox implements the
  handoff (`ImplementsHandoff`).
* **`provider`**: the provider never moves back (`NeverBackward`) and ends in the host's session when
  all callbacks have arrived, unless more switches waited than the table holds (`Converges`); a call
  reaches the runtime only for what the authorization it goes through allows
  (`CapabilityBindsCall`); no failure suppresses a recall and nothing observed in the shadow reaches
  the mailbox (`FailuresRecall`); the stages of a turn and the count of its memories are what happened
  to it (`TurnIsReported`); the record store keeps the newest, in whatever order the processes write,
  and a slow replay brings nothing back (`NewestAreKept`).
* **`models_safety`**: with every creation in doubt performed, the bank is within the allowance
  (`WithinAllowance`); no creation is sent a second time (`NoSecondCreation`) and no model is
  refreshed a second time (`OneUncertainRefresh`) while the first outcome is unknown.
* **`operations_safety`**: a command that says nothing was written is right for ever
  (`OutcomesAreHonest`), and one that says verified is right at that moment (`VerifiedIsTrue`); a
  canary that does not name its document has left none and none will come (`CanaryLeavesNothing`);
  the watchdog's lines show what its file holds (`AlarmsAreShown`); the status verdict is neither
  healthy over blocked work nor degraded over a first attempt that a sender is seen to be making,
  though its reads are of different moments (`StatusIsHonest`).
* **`local_safety`**: once an owner of a newer lock file has moved a row, no owner of an older one moves
  another (`StaleOwnersAreFenced`); an attachment is the content of one file at one moment
  (`SnapshotIsWhole`) and a row that is claimed can be decoded (`ClaimedRowsDecode`); a turn is cut into
  as few rows as possible and rejected only when it must be, and a configuration that loads admits the
  smallest turn (`PackingIsBest`); the prompt shows no evidence twice, evidence
  being the text, the dates and the handles that are shown, and leaves out nothing there is room for; it is
  never shown after the deadline, and is empty against these rules only when a result is malformed or the
  deadline came before the checks of the results and of one search were over (`ContextIsBest`); delays double up to their maximum (`DelayIsCapped`).

Why these bounds are enough to be interesting. Two processes suffice for every conflict over the
lock, as it has one holder; a third can only repeat the part of the second. Three documents in two
turns give a turn of two segments whose halves are in different states beside another turn that
competes for the limits. Two faults allow a crash of the recovering owner after a crash, or a timeout
and a lost reply in one attempt history; three attempts reach the cap of the retry delay. For the
runner, the publication race needs two threads and one call each, a late token needs a second
call. For the mailbox, a third hook is needed to begin a turn while a duplicate of the first one
still holds its token, and the second session for bridges and redirects. A call of the provider can
outlive one authorization and meet the next: two are enough. Two hooks are what the shadow slot
needs to be busy. Four records of which two are kept let a replay's record be pruned and two gateways
write in the wrong order. The allowance needs a creation in doubt while another one is decided;
deletions empty the bank under both. An operator's second command meets the late write of the first.
Three lock files and two inode numbers make the third file's number that of the first. Three results
are at most 16 checks of the deadline here: the six of `Lateness` fall on the second check, on later
results, on the search, on the last check, and behind them all. One result that is too large and one
that is malformed are enough (`Received`), since nothing else of them is read. Each property is
broken on its instance by the faulty variant it is paired with.

Bounds which the code does not have: `MaxAttempts`, `MaxAdmissions`, `MaxFaults`, `Horizon`
(`Outbox`); `MaxCalls`, `MaxExpiries`, `MaxRuntimes` (`Runtime`); `MaxTime` (`PlanMailbox`);
`LastSession` (`SessionSwitch`); `MaxGrants`, `MaxMemories` (`ProviderCalls`); the number of `Hook`s
(`PlannerDecision`); `MaxIssued`, `MaxKills` (`Records`); the size of `Request` (`MentalModels`);
`MaxCommands`, `MaxChanges` (`OperatorCommands`); `Horizon` (`QueueStatus`); `MaxEvents`,
`MaxMishaps` (`Watchdog`); `MaxFiles`, `MaxCrashes` (`OutboxFile`); `MaxWrites`, `MaxBlocks`, the number
of `Inodes` (`BinaryRow`); the inputs `Text`, `Prefix`, `Limits`, `Chars`, `Handle`, `Received`,
`MaxResults`, `Budgets`, `Lateness`, `Attempts` and `Seconds` of the functions. `MaxPending`, `MaxSeen`, `QueueMax`, `MaxRecords`,
`MaxPolls`, `Window`, `MinSamples`, `Percent`, `AgedAfter` and `Allowance` stand for constants and
settings of the code which are larger there, so that the tables overflow and the thresholds are
reached.

## 4. Fairness

* `Outbox`: a running sender thread is scheduled, a cancelled task ends, the server performs what it
  was sent, the status probe closes its descriptor, the clock runs. Each is weak fairness of an
  action no other party can disable for ever. Nothing makes a process start or a turn be admitted,
  and faults are bounded: an endpoint that is down for ever delivers nothing.
* `Runtime`: threads and the loop are scheduled; deadlines pass (`TimesOut` of callers and of the
  sender is part of their fair step); a task that was cancelled ends, and so does the client's
  `close`; a finalization that was given up is called again (`atexit` and the next shutdown
  call it). The remote may leave any other task waiting for ever.
* The other modules state safety only. In particular the call of a shadow rewrite may never end, and
  then its slot is never free again: see docs/configuration.md:277.

## 5. What is proved

`OutboxProofs` proves for every set of processes, targets, configurations, turns and documents, every
delay function and every value of the bounds, from `OutboxAssumption` alone:
`TypeCorrect`, `ClaimSafe`, `RecoveryComplete`, `AttemptsDisjoint`, `NothingLost`,
`DestinationsIsolated`, `TurnsWhole`, `AttemptsNeverForgotten`, `RowsAreKept` and
`OutboxImplementsDelivery`. `OutboxAssumption` says that segments of different turns differ (a
document id hashes its turn), that a configuration is a target and perhaps a policy, that only the turns
found in an older database have the legacy schema, and that delays are natural numbers. From
`CapacityAssumption` too (sizes and limits are natural numbers, a turn has finitely many segments and an
older database finitely many rows) it proves `AdmissionsAreBounded` and `QueueIsBounded`.

The argument. The properties are not inductive by themselves. `OutboxInv` adds:

* `LockDiscipline`: a sender past its election holds the lock. It makes owners unique, so no other
  sender's recovery, claim or completion can touch the row that `ClaimHeld` speaks of.
* `ClaimsADocument`: a delivering sender's claim names a document, so that the guard of a transition
  has a row to look at.
* `ConfirmedIsStored`: only a document the bank holds is completed. It is what carries `NoLoss` over
  the deletion of a row.
* `TurnAccepted`: beside a queued segment, every segment of its turn was accepted for the same target.
  `WholeTurns` follows from it and `NoLoss`: a segment that is missing was accepted, hence stored.
* `AttemptAhead`: between the claim and its request the counted attempt is ahead of the requests,
  which is the room the request then uses up in `AttemptsCounted`.

The invariant is split in three: `TypeInv` (types) is preserved alone, `SenderInv` (the owner's hold
on its claim) with the help of `TypeInv`, and `QueueInv` (what is owed and what was sent) with the
help of both. Each has one step per action. For the refinement every step is mapped to an
`Accept`, `Receive`, `Retire` of `Delivery` or to no change, under `OutboxInv`. `RowsAreKept` (no step
rewrites a queued row's destination or creation time, or lowers its attempt count) is stated by the
theorem alone, and so is `PolicyIsBinding` (a binary row is sent only under the policy it was admitted with).

The limits are settings: a process may start with lower ones than its queue was filled under. What holds in any case is `AdmissionsFit`: a step adds rows only if the queue is then within both
limits. `WithinCapacity` follows by `QueueIsBounded` for a queue that began within them (`BacklogFits`).
The byte count is a sum over a set. That the sum does not depend on the order of its summands, and that
removing a row lowers it by the row's size, is proved from the recursion of `MapThenSumSet` with
`Induction` (`SumsExist`, `OrderIsFree`, `SumsAgree`).

`RuntimeProofs` proves for every set of provider threads and every bound, from `RuntimeAssumption` alone
(the callers are finitely many, the sender and the finalizer are none of them): `RuntimeTypeCorrect`,
`NoTaskIsLost`, `OutboxOutlivesItsUsers`, `ClosedRuntimeIsQuiet`, `NobodyIsStranded` and
`AttemptsOfAThreadAreDisjoint`. Their common invariant is `RuntimeInv`, which adds to the properties:

* `Counted`: `_active_calls` is the number of threads that are in an operation. It lets the finalizer,
  which reads zero, conclude that nobody is inside; that is a fact about cardinalities (`NoneBusy`).
* `Waited`: what the finalizer has waited for stays so behind it. Callers stay idle because `_finalizing`
  is set before the first wait, and the sender stays ended because nobody starts it again; together they
  leave nobody who could run a new task once the unsettled ones are gone.
* `Deserted`: once the runner is shut down no task lives and nobody is inside `run`. With it the loop
  may stop without stranding a call, and a finalization that is given up afterwards can be repeated.
* `Lifecycle`: a process without an active runtime has a closed one, and a runtime that is not
  finalizing has its outbox open; the next runtime is constructed upon the first half.

Each conjunct is preserved by a lemma of its own with one step per action.

`MailboxProofs` proves for every set of handles, hooks, sessions and turns and every timeout, from
`MailboxAssumption`, what `mailbox_safety` checks (`PlansAreCurrent`, `RedirectsAreCurrent`,
`ClosedAreNotPlanned`), `DecisionsAreHandedOnce` and the refinement `MailboxImplementsHandoff`. The
properties lean on each other and on four facts:

* `TurnsAreTheirs`: a turn is planned in its own session only, so that a plan popped by its turn id alone
  is a plan of the session.
* `DecisionsAreFinal`: a plan's decision is its owner's, and this hook is done; a hook that lost its turn
  can neither put its decision in another's plan nor come back.
* `OwnersHaveBegun` and `HandedHaveBegun`: a hook owns one turn, and none once its decision was handed
  out. With them `HandedOnce` survives a hook that is retried after its turn was consumed.

For the refinement each method is a step of `PlanHandoff` or invisible; a purge is a `Lapse`.

`ModelsProofs` proves for every bank, cap and set of threads and requests, from `MentalModelsAssumption`:
`CapIsKept`, `CreatedOnce`, `RefreshedOneByOne` and `ModelsTypeCorrect`. Their invariant says what holds
inside the lock between two awaits:

* `Creations`: whatever may still be created is reserved and not in the bank; a task that goes on to
  create a model has found it neither there nor reserved.
* `Allowance`: the bank with all creations in doubt performed is within the cap, and a task that decides
  knows of all of them, from its inventory or from the reservations. That the inventory was read before
  is harmless because nothing but a reserved creation joins the bank meanwhile.
* `Refreshes`: a refresh of unknown outcome is remembered, is the one its task waits for and the one
  recorded for its model.
* `Calls` and `Operations` tie the arguments of a call to the request it sent.

`ProviderProofs` has the four parts of `MCProvider`, each by its own invariant, and at last `PartsBehave`
(a behaviour of the whole is one of each part), `TurnsAreReported` and `ProviderIsSafe`.

* `ProviderCalls`: `CallsInv`. At most the latest authorization is open, and the flags that are set are
  what it allowed (`LatestIsOpen`); a call knows the authorization it goes through, and what was checked
  for it holds as long as that is open (`KeepsToItsGrant`). Hence `CapabilityBinds` and
  `CapturesStagedOnce`. `StatusIsOfThePrompt` needs no strengthening.
* `PlannerDecision`: `PlannerInv` says for each hook, by the place it is at, who was asked and what
  warrants its decision (`DecidesWithReason`), which stages it has staged (`AsksInOrder`,
  `HandsOffInOrder`), and that the slot is taken exactly by its shadow thread (`ShadowHoldsSlot`).
  `OnlyAnswersDecide` is the first of these.
* `SessionSwitch`: `SwitchInv` orders the sessions. Every waiting switch goes one session forward
  (`EntriesAreChildren`), the seen ones are passed (`SeenArePassed`), and a callback that has arrived but
  lies ahead is waiting, as long as nothing was dropped at the limit (`DeliveredWait`). Then
  `SwitchesGoForward` and `SwitchesConverge`, for any number of sessions and limits of both tables. In
  between, a bridge may be ahead of the callbacks; `BridgeIsFirst` and `BridgedIsDrained` say by how much.
* `Records`: `RecordsInv`. The writer between its write and its last unlink is the one excess there
  is (`LeftTidy`, `SurplusIsBehind`), and whatever was unlinked is older than all that is left
  (`PrunedAreBehind`): `NewestRecordsAreKept`. `WrittenOnce` (an id is on its way to the store once, and
  not when it is there or was pruned) carries `PrunedIsGone`.

`OperationsProofs` has the four parts of `MCOperations` in the same way.

* `Canary`: a document in the bank was sent, and nothing was sent before the retain (`CanaryShape`).
* `Watchdog`: what the file holds was told unless a line was lost (`Honest`), and the line of the
  run under way says what changed from the state it found to the state it writes (`Says`).
* `QueueStatus`: the aggregates tell of the rows read what the status later says of the queue
  (`AggregatesTell`): a count is positive exactly if such a row was read.
* `OperatorCommands`: the place a command is at tells what became of its write (`StageTells`), hence
  `CommandsAreHonest`. For `VerifiedHolds` the deletion needs `DeletionLasts`: a model read as absent stays
  absent, and gets no page, unless a creation makes it anew. The attempt to prove it found that the
  exception is needed: with one command more than the run has, an earlier creation that was reported
  as ambiguous may be performed between a deletion's last reads. `VerifiedIsTrue` names it now.

`LocalProofs` has the five parts of `MCLocal`.

* `OutboxFile`: two files in use never share an inode number (`InodesDiffer`), so that a process
  whose descriptor compares equal inside its transaction is at the file named, and nobody commits
  meanwhile (`Fenced`): `OwnersAreFenced`. `SchemaIsOurs` gives `SchemaAdvances`, which no run names.
* `BinaryRow`: between the first status and the last, as long as the stamp stays, the blocks read are
  those of the file where they were read (`ReadInPlace`): `AttachmentsAreWhole`. A row's parts decode under
  the policy its fingerprint names (`RowInv`): `RowsDecodeWhenClaimed`.
* `Backoff`: that the capped doubling is the cap of the doubling, for every attempt count and all
  settings, is an induction over the attempts (`DelayIsDoubled`).
* `RetainedTurn`: for every text and all limits, a packed turn keeps each paragraph that is not blank, in
  order, each content within its limit; it has the fewest contents any cutting has; and a turn is rejected only
  when no cutting fits the queue (`TurnsArePackedBest`). The packing is greedy, so the invariant of its loop
  (`PackInv`) compares it with every other cutting of the same paragraphs: it never has more contents, and
  with as many its last content begins no earlier (`Ahead`). When the loop rejects, a paragraph that is too
  long alone or a content beyond the last one allowed, every cutting has too many contents (`Hopeless`).
* `RecallContext`: for every list of results, every budget, every deadline and any sizes of characters, the
  memories shown are in rank order, within the budget, no evidence repeated, and none was left out for which
  there was room; or nothing is shown, for a reason (`RoomIsSpentBest`). `ContextSound` says it after each
  result: what the lines spent is what the bytes counted say, a line shows as much of its result as there was
  room for, a cut line is the longest prefix that fits, and the loop is still open or has ended at a result by a
  cut or for lack of room. As the room only shrinks, a result that comes twice and is shown twice lost its
  handles the second time (`HandlesGivenUp`). `Counted` bounds the checks of the deadline from both sides: from
  below it shows that no line is shown after the deadline, from above that only a deadline that is early
  enough empties the context (`Excused`). That the binary search finds the longest prefix is its own
  invariant (`Searching`): the best so far fits, nothing above the interval does, and the interval shrinks
  with each round.

Induction. The induction theorems of the library take an operator as a parameter, which the provers cannot
instantiate. `Induction` proves `SetInduction`, where a set takes its place, from the well-foundedness of the
order (`WFMin`), `Recursion` (a function that starts with a base and takes a step at a time exists) and
`StepsExist` (the same when the step depends on its number, as a loop over a sequence does). So
facts about a recursively defined function can be proved here, and are: of the delay, of
`SessionSwitch`'s `Without`, of the sum in `WithinCapacity`, of the sums of a sequence (`SumOfIs`), of the
packing and of the loops over results and characters.

The type invariants of all modules that have one are theorems. `OperatorTypes` has the hypothesis that there
is a command to give: without one the variable `command` has no value.

All assumptions are the named ones of the modules. They say that the model values which mean "none" are
none of the others, that limits are natural numbers (positive where `load_config` requires it), that
what the server of an instance starts with is within its cap, and that the scripted commands are commands.
TLC evaluates them in every run.

Left to TLC: the liveness properties, as fairness and ENABLED are out of reach of the prover; and the four
runs that expect a violation. Every invariant and every action property of a passing run is a theorem.


## 6. Disagreements found

* **Rows of a restored configuration may never drain** (`outbox_mixed_configurations`). Operators are
  told to restore the original configuration (docs/operations.md:52). An owner that has nothing to
  send keeps the lock for ever (`runtime.py`, `_run_as_owner`), so the restored process
  must be the only one of its home; the text does not say so.
* **A consumed turn can be planned and consumed again** (`mailbox_replay`). The tombstone that
  docs/configuration.md:361 promises for the lifetime of a plan is deleted with the other entries of
  its session by a rewind, a rebind or the last handle's shutdown (`plan_mailbox.py`,
  `_clear_session`).
* **A deadline may lose an acknowledged refresh** (`models_deadline`). If a refresh verifies its
  operation after `AsyncRunner.run` has given up on it and before its task is cancelled, the
  result is discarded and `refresh_unconfirmed` is empty already: the caller is not told of the
  operation (against docs/mental-models.md:280). In TLC's trace the deadline passes early; it
  is enough that it passes before the last step.
* **A status call may pull the record from under a refresh** (`models_status`). `refresh` reads
  `refresh_unconfirmed[model_id]` when it cannot verify the status. A status call for the same
  operation, which takes no lock, may have removed it, and the lookup is a `KeyError`. The operation
  can be known to a second caller: its own refresh reached the deadline while it waited for the lock
  and was answered with the recorded operation.
* **An exact duplicate may be shown again.** DESIGN.md:66 has the formatter remove later exact duplicates. It
  compares what is left of a result once its handles were given up for lack of room
  (formatting.py:334-345), and handles are part of the fingerprint: a result that comes twice is shown
  with its handles and, when the room left does not hold them, once more without. In the instance of
  `local_safety`, two results with the memory `a` and handles of 2 bytes are both shown, the second cut
  short at a budget of 10 to 12 bytes and whole at 13 or 14. No run of its own expects this:
  `ContextIsBest` states what the code does guarantee, that the same evidence (text, dates and the
  handles shown) never comes twice, and an identical result a second time only without the handles
  its first line has.

## 7. Abstractions and what is left out

* Text, JSON, hashing, redaction, logging, file modes and schema validation are left out. What they
  decide is a choice or a constant: a fingerprint is the tuple it is computed from, an answer that
  fails validation is a failed request, a text is the bytes of its paragraphs or characters.
* HTTP is a set of requests the server performs at any time; retries inside a request do not exist
  in the client.
* `Outbox` leaves the profile lock intact: a file that is replaced is seen by the code before each
  commit and is a `TransitionFails` there; `OutboxFile` has the files. There, two owners of different
  lock files may send at once until one of them commits, which `StaleOwnersAreFenced` does not deny.
* `MentalModels` has one process and no other creator of models. Reservations are process-local and the
  documentation says so (docs/mental-models.md:136); across a restart `WithinAllowance` does not
  hold and is not claimed.
* `PlanMailbox` does not model how a hook decides, `PlannerDecision` not what the mailbox does between
  its calls. Their interface is the calls of `begin_turn`, `reserve`, `finalize` and `cancel`.
* `purge_stale` of the mailbox has no caller, and every method purges what it looks at.
* `ProviderCalls` remembers that the server's version was verified, as the client does: nothing looks
  at the version again while the process lives, whatever the server becomes.
* `BinaryRow` assumes that a write changes the file's times; on a file system that does not, a write
  that keeps the size goes unseen.
* `RecallContext` does not tell apart what makes a result malformed (a text or date of another type, a failing
  redaction or serialization): each raises before a line is made of the result. Without a deadline, no
  check is late; the early returns, for a `max_bytes` that is not positive and for results that are no
  sequence, give what a budget below zero and a response without results give, an empty context.
* `Watchdog`: its runs do not overlap (a timer starts them one by one), and its outcomes fit the file's
  8,192 bytes. `Records`: an unlink does not fail. `QueueStatus`: the snapshot is one transaction.
* Not modelled: private output and telemetry (file publication, log wording), the scripts (offline
  benchmarks, evaluation, release tooling), the validation of configuration documents field by field,
  the HTTP transport and the decoding of responses, the text of the planner's capsule and prompts,
  cleaning and redaction of retained text, construction failures of the runtime and the operator's
  runtime without outbox. They are plain input and output, or checks of one document without state,
  of which a model would be a copy.

## 8. Plan

Done, in this order: the outbox and its sender with the abstract delivery promise; the runner and the
runtime's finalization; the mailbox and the handoff it implements; sessions; mental models; the
planner's decision, the provider's calls, records, the operator's commands, status, canary, watchdog,
the lock file, attachments and the pure functions; the proofs of `Outbox` and of `Runtime`; those of the
mailbox and its refinement, of mental models, of the four parts of the provider and of the operations, of
the lock file, attachments and delays, and of the limits of the queue; the cutting of turns and the fitting of
memories as recursive functions, and the proofs that both are the best possible; the types that were left.

Models that could be added: the construction of a runtime that fails halfway and its cleanup, and the
operator's runtime without an outbox, as further actions of `Runtime`. (A failed construction closes its
client by a call without a deadline, under the lock every acquisition takes, `runtime.py:967`.)

Some definitions are stated for proofs and named by no run: `OneTaskPerThread` and
`ShutdownStrandsNobody` (`Runtime`), `PolicyBinds` (`Outbox`), `HandedOnce` (`PlanMailbox`),
`PrunedStaysPruned` (`Records`) and `SchemaOnlyAdvances` (`OutboxFile`) are proved, as they follow from the
same invariants as the properties their runs check.
