# Verification of Paseo SLP

Paseo SLP is a plugin of the Paseo host.  It organises agents as a Supervisor, Leads and
Peers, keeps a durable *desk* of assignments and work for every repository, lets a Lead run
*managed tasks* on workers that the host creates, and manages the provider configuration
under which those agents start.  This directory holds TLA+ models of the parts of it where
processes, crashes and late answers meet, the TLC configurations that check them, and
TLAPS proofs about nine of them.  Paths below are relative to `src/`.

## 1. Inventory

Everything runs in the host process (one daemon per machine), except the relay and the role
launchers, which run beside each agent, and the operator's recovery command, which is a
process of its own.  Two daemons may work on one repository.

| Part | State it keeps | Operations | What is hard |
|---|---|---|---|
| Desk store (`plugin/server/desk-store.ts`) | `ledger.json`, segment files of hash-chained events, one lock file for each repository | `transact` (lock, read, replay or decide, rename segment, rename ledger, release), lock-free `read` | two processes, a crash or a failed write between any two file operations, a retry of a request that took effect |
| Desk recovery (`runtime/desk-recovery.ts`, `runtime/lock-holder.ts`) | `recover.lock`, the audit file | classify the lock's holder twice, audit, unlink | judging a file that somebody else may replace |
| Lifecycle manager (`manager.ts`, `journal.ts`, `config-transaction.ts`, `injection-binding.ts`) | `receipt.json` with the journalled operations, the single operation in flight; beside it the host's `config.json` and live configuration | activate, deactivate, inspect, complete, restore-before | a patch whose outcome is unknown, recovery of a recovery, restarts, edits by others |
| Task decisions (`desk-task.ts`, `desk-assignment.ts`, `desk-ownership.ts`, `desk-seat.ts`) | rows of the ledger: task declarations, attempts, actions, holds, seats | define, update, reserve, hold, stop, reconcile, discharge; intent, issue, observe and bind of an effect | stops, amendments, holds and successions that land between two steps of an effect |
| Task execution (`desk-task-execution*.ts`) | nothing durable of its own; one tool call in progress for each request | bootstrap, reuse, send, archive, integrate; action and turn observers | the call times out, is repeated, or dies with the daemon while the host goes on |
| Integration (`desk-task-execution-git.ts`) | staging trees, backups, cleanup permits | stage, check, land, discharge | two trees and a ledger that must agree after a crash |
| Scopes, rollouts, checks (`desk-scope.ts`, `desk-rollout.ts`, `desk-check-runner.ts`) | ledger rows | declare, transition, review, run a check | evidence measured before an await and committed after it |
| Handback, settlement (`desk-handback.ts`, `desk-settlement.ts`) | ledger rows | submit, capture, observe, record | two commits around a subprocess |
| Formation, placement (`desk-formation.ts`, `desk-placement.ts`, `desk-operation.ts`) | write-once operation records | create a seat once, replay its record | two calls of one operation, a crash between phases |
| Bridge and relay (`desk-bridge.ts`, `bin/slp-desk-mcp.mjs`) | the bridge's lock and socket, connections, requests in flight | start and stop one listener, answer seats' calls; relay lines both ways, reconnect, answer EXECUTION_UNKNOWN | two plugin instances over one socket path; back-pressure in both directions, end of input while paused |
| Supervision (`supervision/*.ts`) | cases, evidence lanes, delivery ring | observe turns, judge, alert once | every await invalidates what was read before it |
| Client (`plugin/client/*`) | display state of the Manager screen | switch targets, poll, start, retry, save | late answers for a target left and entered again |
| Published assets (`materializer.ts`, `launchers.ts`, `publication-files.ts`) | content-addressed directories: the runtime candidate and a launch set | stage, write, set modes, sync, seal, rename into place, verify | two publishers of one content, power loss between any two file operations |
| Configuration plans (`config-transaction.ts`, `config-view.ts`, `executables.ts`) | none: they compute on `config.json`, the daemon's config and the binding | plan an activation, a rebind, a deactivation; classify a configuration; patch forward and back; resolve and probe executables | both documents change between the plan, the patch and its undoing |
| Wire schemas, role injection, capabilities, scripts, generated payload | none that outlives a call | – | data, formatting and I/O |

How they interact: every tool call of an agent goes relay → bridge → a decision module, and
every decision commits through the desk store, one `transact` each.  Task execution commits
before and after each call to the host.  The create hook of the host calls back into the
seat module, which commits too.  The manager shares nothing with the desk except that
`injection-binding.ts` reads its receipt when an agent is created.  Observers get turn
events from the host.

What makes each part correct: the desk has one writer, loses no acknowledged outcome, does
no request twice and can be read after any crash.  The manager never claims a configuration
that is not there, never has two patches of one chain running and never strands an
operation.  Task execution starts each effect at most once, lets nothing start after a stop,
and never gives two writers one surface.  An integration never overwrites a target it could
not restore and frees nothing that still has something behind it.  Scopes, rollouts and
settlements accept only rows that read back and that were right when they were written.  A
formation happens once for each request and its receipts do not lie.  A final name never bears
a directory that is not whole, and a directory that was reported stays, as far as the
directories above it do.  A patch arrives where it was planned to and takes away nothing
that somebody still names.  The path of a call
answers every request once, and says "unknown" rather than guess.  The supervisor alerts
once, about what is still so.  The screen starts nothing while it does not know what became
of what it started.

`PROJECT.json` lists, under `hazards`, the places where each of these can go wrong and the
property that would notice.

## 2. Modules

| Module | Models | State |
|---|---|---|
| `DeskLock` | the lock file, its record, the judgement of its holder's process | `lock`, `live` |
| `DeskStore` | one store instance per process: `acquireLock`, `commit`, `releaseLock`, each file operation one step | `ledger`, `segments`, and per instance `pc`, `job`, `draft`, `reply`; `acks` records what callers were told |
| `DeskRecovery` | the operator's recovery, each file operation one step | `recoverLock`, `rpc`, `seen`, `audit` |
| `Desk` | the two above over the same lock file; properties and inductive invariant | – |
| `DeskLedger` | the abstract promise: an append-only log with one outcome per key | `log`, `shown` |
| `DeskReader` | a reader that takes no lock | `view` |
| `Receipt` | the journal's receipt, its refinement check, plans, classification of a configuration, settling of chains | none (operators) |
| `Manager` | the manager's requests and workers, the host that runs patches, restarts, edits from outside | `receipt`, `disk`, `live`, `flight`, `boot`, `dead`, `worker`, `faults` |
| `Task` | task decisions, the tool calls that run effects, the host and the workers | ledger rows (`task`, `brief`, `owner`, `ownership`, `held`, `att`, `act`, `last`), tool calls (`run`), host (`calls`, `done`, `made`, `archived`), `seat` |
| `Integrate`, `Discharge` | an integration's stage, check, backup and landing; its reconciliation and its cleanup permits | the ledger's row, history and disposition of each action, the target, the directories, tool calls |
| `Custody`, `Scope`, `Rollout`, `Settlement`, `Release` | who owns an assignment, its hand-backs and candidates; scopes; rollouts and check runs; settlements; their composition | ledger rows, work trees, runs and recordings under way |
| `Publish` | the publication of both directories by several activations, each file operation one step, with power losses | `publisher`, `staged`, `published`, `announced`, `parents` |
| `ConfigPlan` | the planner: its plans, its checks, its patches and their inverses on documents with profiles, references and routing | `disk`, `live`, `binding`, `operation`, `routing`, `candidate`, `found`, `own` |
| `Formation` | one formation under one request id, as a path of guarded steps taken by rival calls | `receipt`, `call`, `shown`, `world`, `host`, `registered` |
| `Relay` | one relay process between the client's pipe and the bridge's socket, with its flow control | pipes, buffers, in-flight ids, connection |
| `Bridge` | plugin instances around one lock and one socket path; a seat's calls | per instance `at`, `lockHeld`, `stopped`; lock, socket; the seat |
| `Observer`, `Alerts` | what the supervision observer knows; what it asks, records and sends | registers, queue, cases, the drain's place and locals; `attempts` on disk, `sent` |
| `Screen` | the administrator's screen with its targets, tickets, polls and retries | client state, calls in transit, managers |
| `MC…` | instances for TLC: symmetry sets, stories, constraints | – |
| `…Proofs` | theorems about `Desk`, `Manager` and `Screen` (in `ManagerProofs`), `Task`, `Alerts`, `Release` and its parts, `Publish`, `Formation` and `ConfigPlan` (in `ProvisionProofs`), `Relay` and `Bridge` (in `SessionProofs`), `Integrate` and `Discharge` (in `IntegrateProofs`) | – |

**Desk.**  An instance's `pc` names the next file operation of `transact`: `acquire`
(`openSync` with O_EXCL), `writeLock`, `locked` (read, idempotency, guards and decide, which
touch no shared file but the ledger the lock protects), `segment`, `commit`, `release`.
Each operation has a failing variant where the code handles one, and a crash may fall before
each.  What a decide returns is abstracted to rejected, or committed with a number of events.
A digest is the event itself, so equal digests mean equal events.  A ledger may start fresh
or as one an earlier release left, whose first commit migrates it.

**Manager.**  One step for each stretch between two awaits or two journal writes.  The host
owns patches in `flight`: it may apply one to file and daemon, to the file only, or not at
all, and may do so after the call has been answered with an error.  `Restart` ends worker
and host together, because the plugin runs inside the host (`docs/operations.md` states that
assumption); a reload of the plugin alone under a running worker is not modelled.
Configurations are projections onto the entries the plugin owns; runtime files, launchers
and executables are checks that pass or fail: what they are is in `Publish` and `ConfigPlan`.

**Task.**  A ledger commit is one step; that the store makes it one is what the Desk modules
show.  A runner (`run`) is a tool call between two commits: `intent`, `issue`, `observe`,
`bind`.  It may end at any of them.  The host performs a call (`HostCreate`, `HostSend`,
`HostArchive`) at any time after the permit was used, also after the runner is gone.  `last`
stands for the ledger revision: it is the action whose intent is the latest commit, which is
all that `task.effect.issue` asks of the revision.  `Repinned` does the same for requests
whose caller pinned the revision.

**Integrate, Discharge.**  The rows an integration leaves in the ledger, the directories it
makes, and calls that stop between any two of their effects.  The three-way merge is an
outcome: what a landing writes is named by the action it belongs to, and a foreign commit or
an edit changes the target to something else.  `RecoverableTarget` and `FreedMeansClean`
relate rows to directories; `SettledStaysSettled` is about steps.

**Release.**  Each of its parts is a set of commands over the ledger, each command one step
with the checks of its decision; what is measured outside (a work tree, a check process, an
exported transcript) is read in one step and committed in a later one.  The properties apply
the loader's own predicates to what the commands produced.

**Formation.**  `Path(shape)` is the sequence of steps one invocation takes: a phase writes
a durable record, a check compares what was pinned with the world as it is, an effect is a
host call that may fail or expire and still happen later.  Calls under the same request id
meet the same receipt.  A route decision is one invocation of the Jev client, whose transport
sends its paid request once more when it times out, meets no network or is answered 429 or
5xx (`runtime/cli/jev.ts:417–443`, one retry by default, as `seat-selection.ts:109` says):
`DecisionRetried` takes the step `"decide"` over into `"decide-again"`, after which there is no
third.  What may happen at most once is the decision, not the request.

**Publish.**  A file consists of bytes and a mode; `has` is what a reader sees of it, `kept`
what survives a power loss, which leaves of the rest any part.  The two kinds of directory
differ in the order of their operations (a launch set is synced before its modes are set, a
candidate after), and the model keeps that.  A rename is atomic, and may be lost until the
parent is synced.

A name lasts no longer than the directory it is in.  `launchers/` is made by a plain `mkdir`
when the first launch set is published (`launchers.ts:585`), and nothing syncs the stable root
after it: `launchers.ts:598` syncs `launchers/`, the journal syncs `state/`, and the sync in
`materializer.ts:486` came before.  The stable root is made by `ensureStableRoot`
(`materializer.ts:297`), which syncs no parent either; `.staging`, of which nothing is kept, is
the one directory that gets such a sync (`materializer.ts:304–309`).  `parents` holds which of
the two there are and which names are durable, `MakeParent` and `Begin` make them, and an
`Outage` may take one that is not synced with all that is under it.

**ConfigPlan.**  A configuration is a document: provider entries, the list of profiles (absent
or present, with the user's own between the plugin's), the injection flag, references from
metadata generation, and the rest.  The planner's actions are `Activate` (fresh or rebind) and
`Deactivate`; then `Dispatch` or `NothingToSend` or `PlanIsStale`, `Settle`, and `Complete` or
`RestoreBefore`.  Users edit either document, the daemon reloads, receipts get lost, programs
come and go, routing changes.  The journal is one operation here; its life is `Manager`'s.

**Session.**  `Relay` counts lines, bytes by their owner only, and back-pressure; `Bridge`
has one step for each file operation of start and stop.  `MCSession` puts the two side by
side as three stories that share no variable.  `Bridge` also follows one seat's connection,
membership and commits through stops and crashes; no property is stated about that part, it is
there because `stop` hangs up a call that has not been accepted.

**Alerts.**  The observer is one thread: hooks run to their end and the drain yields only
where it awaits the host, so an action is one stretch between two awaits.  A message body is
what a case holds, marked with the archive generations it was captured under.  The judge and
the host answer anything of the right shape.

**Screen.**  Every call of the screen carries the ticket of the visit it was made in; the
manager's end is one tracked operation for each target.

## 3. Runs

| Run | Instance | Distinct states | Shows |
|---|---|---|---|
| `desk_exclusion` | 2 instances, 2 recoverers, 1 key | 37,960 | `OneWriter`, `RecoveryOnlyOfTheDead`, `CallsReturn`†.  Two store instances and two recoverers race over the lock file with crashes and failed writes: one writer at a time, recovery only of the dead, and under weak fairness of each process's own steps every transaction and every recovery returns or dies with its process. |
| `desk_promise` | 2 instances, 1 recoverer, 1 reader, 2 keys, 2 bodies | 488,652 | `AcknowledgedIsRecorded`, `LocklessReadVerifies`, `ImplementsLedger`.  Repeated and conflicting requests over two keys and two bodies, with a reader that takes no lock: acknowledged outcomes are never lost, each request takes effect once, the desk implements the abstract idempotent log, and the ledger stays readable while every commit writes the same number of events. |
| `desk_orphan` (violated) | commits of 1 or 2 events | – | `LedgerReadsBack` fails: With commits of one or two events, a segment orphaned by a failed commit overlaps the segment of a later commit of another length and the committed ledger no longer verifies. |
| `manager` | 3 operations, 2 boots, 1 fault | 435,762 | `SettledMatchesConfig`, `ChainsSettle`, `JournalIsSound`, `InjectionIsCurrent`, `RequestsEnd`†.  Three operations over two boots with a crash between any two steps, a patch that lands late, half or not at all, and one fault: a receipt write that fails, one whose directory sync fails after the rename, or somebody else's edit of the config. What the receipt says is settled is what file and daemon hold, recoveries settle their chains, a patch that may still run is journalled as such and no other of its chain runs beside it, and under fairness of the worker and the host every accepted operation gets an outcome or is known to be interrupted. |
| `task_effects` | 1 attempt, 2 sends, 1 archive, 2 tool calls | 197,497 | `CallsOnce`, `ObservedHappened`, `StoppedNeverWorked`, `NoWorkAfterTheEnd`, `PendingSeatBinds`†.  One attempt, two sends, an archive and two concurrent tool calls that may be repeated and may die anywhere: each effect is called once, nothing is recorded that did not happen, neither a stop nor an archive is outrun by a late answer, an attempt is ruled stopped only if it never had a worker, and a worker that registers late is bound by reconciliation. |
| `task_rivals` | 2 tasks, 1 surface, 1 reusable worker, 2 Leads, 1 change | 696,902 | `OneWriter`, `OneAttemptPerWorker`.  Two tasks that want the same surface and may reuse the same worker, with one amendment, new brief, change of owner or open question on the way: at most one of them is ever allowed a writer on the surface, and only one live attempt is bound to the worker. |
| `release` | 2 scopes, 1 rollout, 2 owners, three stories | 145,603 | `LedgerReads`, `RowsAreTimely`.  Three stories of one assignment. Two scopes that share a surface, two owners, a reviewer that is revoked, a brief that is amended and a handback measured late or never; a rollout of a reviewed candidate with two check runs in flight under one request id; settlements of exported transcripts that change while they are recorded: every row the decisions let through is one the loader reads back, and was right at the event that wrote it. |
| `alerts` | 1 Peer turn, 1 Lead turn, 1 disturbance | 349,781 | `AlertedOnce`, `HeldBodiesAreWanted`, `RoomIsLater`, `AnswersFitTheirEvidence`, `AlertsAreCurrent`, `EveryCaseCloses`†.  A Peer's handback and the Lead's answer to it, judged and reported while one thing goes wrong at any await: a seat is archived and comes back, the gate goes down, the route changes, or the process restarts. No alert is repeated or sent on stale grounds, no message body outlives its seat or the gate, and every case closes. |
| `integrate` | 1 action, 2 calls, 3 requests, four beginnings | 1,609,228 | `RecoverableTarget`, `FreedMeansClean`, `SettledStaysSettled`.  Two calls on one integration from its first request, staged, landed or half cleaned up, with a retry, an edit, a foreign commit or a crash anywhere: what a landing replaced stays recoverable, a settled landing writes nothing more, and a freed target has nothing left behind. |
| `session` | 2 frames each way, 2 instances, three stories | 213,527 | `AnswersAreHonest`, `OneListener`, `EveryRequestEnds`†, `StopsClean`†.  The path of a seat's call, in three stories: a relay between a client that floods, stalls and closes and a socket that drops; two instances of the plugin that start, stop, crash and recover around one lock and one socket; and one instance with a seat whose membership, agent and desk change under its calls. |
| `screen` | 2 targets, 2 operations, 2 visits | 222,821 | `NoBlindReplacement`, `ScreenUnblocks`†.  An administrator who switches between two targets, starts, retries and saves while replies come late, not at all, or for the visit before, and the manager restarts: no second operation is started before the fate of the first is known, and the screen never stays busy or tracks an ended operation. |
| `provision` | 2 publishers, 2 files, 1 outage; 3 operations, 2 edits; 2 calls, 4 bodies, 2 epochs; three stories | 862,379 | `PublicationHolds`, `ConfigIsSound`, `PatchesAreSafe`, `FormedOnce`, `ReceiptsTellTheTruth`.  What must be in place before a seat works, in three stories. Three operations of the planner on a config that is edited twice by others, reloaded, patched whole or half, recovered either way. Two activations that publish the same directories, in a home that has their parents or not, with a power loss at any moment: what bears a final name is whole, and what was reported is gone only with a parent whose own name nobody synced. Two calls under one requestId that race through a formation, with drift, timeouts, late effects, a repeated decision request, failed writes, a second epoch of the caller and restarts: one executes, each effect is issued once (a decision's request at most twice), and what the receipt says stays true. |

† liveness, under the fairness below.

**Bounds.**  The desk's defects are between two processes: a third adds no new pair, and the
proofs remove the bound.  Two keys give a commit another
commit to collide with.  `RequestsLimit = 2` makes the table fill.  Three manager operations
are a mutation, its recovery and a recovery of that or a second one of the root; one fault
reaches every single-fault path, and the proofs cover longer chains and more faults.  Two
sends are needed for a late answer to the first to invite the second, two tool calls for an
archive to be performed between the check of a send and its intent.  In `task_rivals` one
surface decides overlap and `OneChange` lets one thing be amended, withdrawn, rebriefed,
handed over or held in a behaviour; `OneWriter` and `OneAttemptPerWorker` are proved without
it.  `integrate` starts at the first request and at three later points that answered
requests leave behind, so that three requests, a retry and one of each disturbance reach
every phase.  `release` is three stories (two scopes that share a surface; a reviewed
candidate's rollout with two check runs in flight; settlements), and `InStory` leaves out,
in each, what the story is not about; the whole product is out of TLC's reach.  `alerts` has
one Peer turn, one Lead turn that answers it and one disturbance; two routes and a shadow
mode let the recipient change.  `session` lets two frames wait on each side, two ids be in
flight and the plugin start twice.  `provision` tells three stories that share no variable:
two publishers of two files, with every beginning of their parents and one power loss; a plan
of two families, three operations and two edits; and a formation with four request bodies
under one id and two epochs of the caller, where a seat with explicit pins is left out, since
it takes the inherited Peer's steps less some of its checks.  `screen` has two targets, one of
them managed from elsewhere, two visits and one manager restart.

**What an instance is too small for.**  The binding of `manager`'s run has one shape, so a
rebind to another one is covered by `InjectionStaysCurrent`; `task_rivals` has one tool call,
so that two which both reserved before either binds is covered by `WorkerServesOne`; the bound
on repeated check requests, which the one request of `release` does not reach, by
`LedgerAlwaysReads`.  These hold for any binding,
number of runners and of requests.

**Deadlock** is not checked: requests, commits and faults are bounded, so every instance may
come to rest; that nothing rests too early is what the liveness properties say.

**Symmetry** permutes instances, keys and bodies (`desk_promise`), tasks and Leads
(`task_rivals`), publishers (`provision`), calls (`provision`, `integrate`); the code only compares them.  Runs with
liveness properties use none.

**Fairness.**
* *Desk*: weak fairness of each instance's and each recoverer's own steps, because an
  accepted call is an async function whose awaited file operations return or throw while its
  process lives; a crash ends the obligation.  Nobody is assumed to remove a stale lock.
* *Manager*: weak fairness of the worker, for the same reason, and of the host working off a
  patch, which it does synchronously (`docs/operations.md` names this as an assumption).
  Nothing is assumed about restarts or requests.
* *Task*: the worker's seat is confirmed and registers (the adapter in the worker does it
  when it starts), and the Lead reconciles an attempt that waits, which the documents tell
  it to do.  Tool calls get no fairness.
* *Alerts*: weak fairness of the drain, which is one async loop, and of the timer; strong
  fairness of a case's checkpoint and expiry, which are times that pass and can only be
  taken while the drain awaits.  Hooks and files get none.
* *Relay*: weak fairness of its timers, of both ends of its pipes and of the peer closing a
  dropped connection; strong fairness of reading from standard input and of its end, because
  Node emits `readable` again after every pause.  *Bridge*: weak fairness of each instance's
  own steps.
* *Screen*: weak fairness of timers, answers and the end of operations; strong fairness says
  that repeated reads do not fail for ever.
* *Release*, *Integrate*, *Formation*, *Publish*, *ConfigPlan*: safety only, no fairness.

## 4. Proofs

TLAPS proves the theorems below for every value of the constants.  The assumptions are the
named ones of the modules (`ProcessAssumption`, `StoreAssumption`, `TaskAssumption`,
`ScreenAssumption`, `FilesAssumption`, `RelayAssumption`, `FormationAssumption`,
`IntegrateAssumption`, `PlanAssumption`, `CustodyAssumption`, `ScopeAssumption`,
`RolloutAssumption`, `SettlementAssumption`, …): null values are not members of the sets they stand beside, bounds
are numbers, tables of constants have the shape the code gives them.  Each argument is an
inductive invariant, found by strengthening a checked property and checked by TLC first.

| Module | Theorem | States | |
|---|---|---|---|
| `DeskProofs` | `DeskInvariant` | – | The inductive invariant of the desk holds in every reachable state. |
| `DeskProofs` | `TypeCorrect` | – | Type correctness of the desk. |
| `DeskProofs` | `WriterExclusion` | `OneWriter` | The lock file and the recovery protocol together exclude a second writer for any number of processes and crashes. |
| `DeskProofs` | `Durability` | `AcknowledgedIsRecorded` | Every acknowledged outcome stays in the ledger, and every request takes effect at most once. |
| `DeskProofs` | `AppendOnly` | – | No step changes or drops a ledger row or moves the event tip back. |
| `DeskProofs` | `RecoverySound` | `RecoveryOnlyOfTheDead` | A lock disappears only by its owner's release or by recovery of a dead, audited holder. |
| `DeskProofs` | `Refinement` | `ImplementsLedger` | The desk implements the abstract append-only idempotent log. |
| `ManagerProofs` | `NothingReplacedBlindly` | `NoBlindReplacement` | However replies, targets, polls and restarts interleave, for any targets and operations, the screen starts no second operation and forgets none before it was told the fate of the one it tracks. |
| `ManagerProofs` | `Bookkeeping` | – | The inductive invariant of the screen: what its tickets, its tracked operation and the calls still in transit say of each other. |
| `SessionProofs` | `AtMostOneListens` | `OneListener` | For any number of plugin instances at most one listens on the socket path, except after a chmod failure removed a successor's socket. |
| `SessionProofs` | `LockDiscipline` | – | The inductive invariant of the bridge: who owns the lock file, how much of it is written, and who may hold the socket path. |
| `TaskProofs` | `EachEffectOnce` | `CallsOnce` | For any tasks, attempts, runners and requests, each external effect of an attempt is called at most once, whatever is retried or dies. |
| `TaskProofs` | `PositiveEvidenceOnly` | `ObservedHappened` | The ledger says of no create, send or archive that it was observed unless the host performed it. |
| `TaskProofs` | `WorkerServesOne` | `OneAttemptPerWorker` | A registered worker is the member of at most one live attempt, reused or created, bound at once or by reconciliation. |
| `TaskProofs` | `DisjointWriters` | `OneWriter` | Two attempts that were ever allowed a worker own no surface in common, whatever is amended, withdrawn, stopped or handed over. |
| `TaskProofs` | `StoppedIsClean` | `StoppedNeverWorked` | An attempt ruled stopped never had a worker and never gets one, also from a call under way. |
| `TaskProofs` | `NothingAfterTheEnd` | `NoWorkAfterTheEnd` | No create or send is started after a recorded stop, and no send after an observed archive, whatever late answers say. |
| `TaskProofs` | `Bookkeeping` | – | The inductive invariant of task execution: what rows, actions, permits, runs and the host say of each other. |
| `ManagerProofs` | `NoReceiptRefused` | – | For any operations, boots, host answers, failed writes and outside edits, every receipt in the journal is one its schema and assertReceiptRefinements accept, and one operation at most is pending. |
| `ManagerProofs` | `PatchesAreGuarded` | – | A patch the host may still be running is of this boot, recorded as perhaps still running and open, and the only one of its recovery chain, however often operations are recovered. |
| `ManagerProofs` | `RecoveryMayTrustTheJournal` | `JournalIsSound` | The two together: what recovery reads in the journal is well formed, and open where a patch may still run. |
| `ManagerProofs` | `RecoverySettles` | `ChainsSettle` | A recovery that succeeded has settled everything it recovered, for chains of any length, as long as no receipt is written that its writer thinks was not. |
| `ManagerProofs` | `JournalInvariant` | – | The inductive invariant of the lifecycle manager: what the journal says of plans, recoveries and patches, and where the worker may be with its operation. |
| `ManagerProofs` | `SettledIsTrue` | `SettledMatchesConfig` | For any operations, recoveries, boots and patches that land late: as long as nobody else edits the config, every receipt written is known to be, and no recovery is left behind, a settled state is true of file, daemon and binding, and no patch is still to land. |
| `ManagerProofs` | `InjectionStaysCurrent` | `InjectionIsCurrent` | Under the same premises, the binding a new managed seat is given is what the daemon runs with, or what a pending activation replaces, with the daemon at an endpoint of its plan. |
| `ManagerProofs` | `CalmInvariant` | – | The inductive invariant of an undisturbed manager: all that is open is one line of recoveries with one plan and the config at its endpoints, and what a worker has read is still so. |
| `AlertsProofs` | `SentOnce` | `AlertedOnce` | For any cases, Supervisors, disturbances and restarts, no finding of a case is sent twice to a Supervisor. |
| `AlertsProofs` | `NoBodyOutlivesItsWelcome` | `HeldBodiesAreWanted` | No message body outlives a gate that was seen down, or the archive of a seat, in a case or in the queue; nobody buried is known or a member. |
| `AlertsProofs` | `Chronology` | `RoomIsLater` | A message that may carry the disposition of a handback was sent in a turn that really began after it. |
| `AlertsProofs` | `AlertsRevalidated` | `AlertsAreCurrent` | An alert leaves only while the gate is up, for the recipient the route names then, about live seats and a finding that is still open, with its attempt on disk. |
| `AlertsProofs` | `AnswersFit` | `AnswersFitTheirEvidence` | A judge's answer is taken only for the evidence it was asked about, in the same lives, with nothing queued for the Lead. |
| `AlertsProofs` | `TypeCorrect` | – | The observer's registers, queue and cases have their types and ceilings. |
| `AlertsProofs` | `Invariance` | – | The inductive invariant of the observer: generations of queued captures never decrease, drift tells every change under a question, and what was sent is on disk. |
| `SessionProofs` | `AnsweredHonestly` | `AnswersAreHonest` | For any number of frames and ids and any buffer bounds: every request is in one place or answered once, a refused one never reached the desk, a result is of a request that ran once, frames keep their order, and a relay that ends leaves nothing behind. |
| `SessionProofs` | `EachFrameInOnePlace` | – | The inductive invariant of the relay: the pipes as increasing sequences each before the next, and how often a frame ran and what was said of it at each place. |
| `ProvisionProofs` | `PublicationCorrect` | `PublicationHolds` | For any publishers, files and power losses: what bears a final name has all its entries and bytes on disk, a candidate its modes too, and what its publisher reported is taken away by nothing but a power loss that takes a directory above it whose own name was never synced. |
| `ProvisionProofs` | `PublicationLasts` | – | The second half of it, AnnouncedStays: what can take a reported directory away, from the sync before its verification and the parents that are there. |
| `ProvisionProofs` | `PublishInductive` | – | The inductive invariant of publication: what is durable of a staged directory at each step, of a published one from the rename on, and that the name of a reported one is synced. |
| `ProvisionProofs` | `ExecutedOnce` | `FormedOnce` | For any calls and shapes of requests: only the winner of the intent executes, nothing is asked of the host twice, the request of its decision is repeated at most once, and nothing happens before its phase is on disk. |
| `ProvisionProofs` | `ResultsAreTrue` | `ReceiptsTellTheTruth` | For any calls and shapes of requests: a recorded result stays true whatever the host does later, and a journal never outgrows its budget of phases. |
| `ProvisionProofs` | `PathsFollowed` | – | The inductive invariant of formation: what is on disk and what was asked of the host lie before what is left of the one executing call's path. |
| `ProvisionProofs` | `ConfigStaysSound` | `ConfigIsSound` | For any operations, candidates, edits and interruptions: each owned seat of a binding names a provider the binding has, and the injection flag the user set is in the file or the binding. |
| `ProvisionProofs` | `FlagAndSeatsKept` | – | The inductive invariant of the configuration: the seats a plan or binding has, and where the flag the user set is kept from a plan to its end and back. |
| `IntegrateProofs` | `OriginalsRecoverable` | `RecoverableTarget` | For any integrations, paths, calls, retries, edits and crashes: as long as the target holds content of an integration that is not proved fully applied, the complete backup of what it replaced is on disk. |
| `IntegrateProofs` | `FreedIsClean` | `FreedMeansClean` | For any integrations and calls: a target is free for another integration only when nothing of the last one's stage and backup is left on disk. |
| `IntegrateProofs` | `SettledForGood` | `SettledStaysSettled` | For any integrations and calls: once a landing is proved applied or undone, no call that still runs for it writes the target again. |
| `IntegrateProofs` | `IntegrationFits` | – | The inductive invariant of an integration: one landing planned and applied by one call, what each running call relies on, and what the rows say of plan, resources, proof and disk. |
| `ReleaseProofs` | `LedgerAlwaysReads` | `LedgerReads` | For any agents, scopes, checks, rollouts, transcripts and requests, and whatever changes while a check runs or a settlement is on its way: every ledger the commands produce is one the loader accepts; in particular no two moving scopes claim one surface and the scopes' dependencies have no cycle. |
| `ReleaseProofs` | `RowsTimely` | `RowsAreTimely` | For any agents, scopes, checks and rollouts: every row was right when it was written, by the owner of that moment, for the current declaration and brief, and an approval or promotion rests on reviewers who are independent then. |
| `ReleaseProofs` | `LedgerFits` | – | The inductive invariant of assignments, scopes, rollouts and settlements: what each row refers to in the ledger, and why what is written since cannot take it away. |
| `DeskProofs` | `OnlyOrphansMislead` | `LocklessReadVerifies` | For any processes, keys, event counts, crashes and failed writes: as long as no orphaned segment starts where a file of another length starts, a read without the lock verifies however late it opens the segments, and so does the present ledger. |
| `DeskProofs` | `AlikeCommitsReadBack` | `LocklessReadVerifies` | When every commit has as many events as any other, the orphan of a crashed commit is replaced by the next one, and every read without the lock verifies. |
| `DeskProofs` | `ReadersInvariant` | – | The inductive invariant of commits and their readers: what was committed is chained in the segment files, every draft continues it, and an orphan starts where the next commit will. |

**Desk.**  All follow from `DeskInv` (`DeskInvariant`).  `OneWriter` alone is not inductive,
because a recoverer about to unlink the lock could hit a new holder's.  `RecovererJudged`
excludes that: what the recoverer has seen is the record of a dead process, and from its
recheck on the lock file is still that record, for nobody else can remove it while
`OneRecoverer` holds and nobody can create one while it is there.  `RequestsOnce` needs
`CommitsFollow`: the ledger a commit is about to write is the one on disk with one row more,
which is true because of `OneWriter`.  `AcknowledgedIsRecorded` needs `RepliesRecorded`, the
same for outcomes not yet delivered.  The step proof is split into what an instance and what
a recoverer does to the lock files and to the ledger, with one case for each action.
`Refinement` shows that initial states and steps map to the abstract log's.
`ReaderInv` (`ReadersInvariant`) adds the segment files and a reader that holds an older
`ledger.json`.  Whatever the failures, a file has the events its name says (`SegmentsWhole`), an
orphan starts exactly where the next commit will (`OrphansFit`), and a draft continues the
digest of the tip (`Drafted`).  What was committed is then one chain (`Chained`), *unless* two
files start with the same event.  `OnlyOrphansMislead` says just that, for any sizes of commits:
the defect of §5 is the only way to a false "corrupt".  `AlikeCommitsReadBack` draws the
consequence for commits of equal length, the premise under which `desk_promise` checks
`LocklessReadVerifies`.  `BuildEvents` is a recursion over the events of one commit; that it has
a solution is shown by taking the least number of events for which it had none (`EventsExist`).

**Task.**  All follow from `TaskInv` (`Bookkeeping`): the ledger's side (`Numbered`,
`Unreserved`, `Permits`, `StoppedUnissued`, `Reservations`, `AgentKnown`, `ArchiveKept`), and
what a call in progress may still assume (`RunsOK`, `SendsClear`).  `CallsOnce` is not
inductive alone: a second call would need a second permit, which `Permits` and the life of
an action exclude.  Most commands do one of two things: they move one action forward in its
life, or they advance an attempt (`Moves`, `Advances`).  One lemma shows that a step of that
shape preserves the ledger's side (`AdvancesInv`), and each command is then shown to have
it.  `OneWriter` needs `Reservations`, and that amendments keep the surfaces a reservation
is of.

**Manager.**  `ManagerInv` (`JournalInvariant`) has five parts.  `JournalOK`: each operation
fits its kind and phase, recoveries point back at something with a plan, one operation at
most is pending.  `FlightOK`: a patch that may run is journalled as perhaps running, is open
and of this boot, and is the only one of its chain.  `WorkerOK`: the worker's operation, its
place, and that no *other* patch of its chain runs.  That last part is what makes
`OneGuardedPatch` (half of `JournalIsSound`) inductive: the gate of a same-boot recovery
looks at the chain before the worker starts, and nothing else can start a patch until it ends.  `Synced` implies that ends
and phases agree and that a recovered operation is never a no-op, without which `settle`
would skip a link.  Chains are least closed sets (`Receipt!Chain`), so that their facts
(`ChainStep`, `ChainSame`, `ChainOld`, …) need no induction over their length.

`CalmInv` (`CalmInvariant`) adds what holds as long as nobody else edits the config, no
receipt is written that its writer thinks was not, and no recovery was left behind
(`Undisturbed`).  `OneLine`: what is open and has to do with the config is either one mutation
without a plan, or a line in which each later operation recovers the earlier ones, all with one
plan, and file and daemon are each at an endpoint of it; so a patch of any of them, however
late, keeps that.  `MutationOK`: a mutation under way started from the binding, and the config
is what its plan says it was until the patch is sent.  `StateOK` and `ReturnsOK`: a settled
state is true of binding, file and daemon, and an operation that ends without a plan brings
back a state that is still true.  `WorkerKnows`: what a worker has read is still so where it
acts on it.  `SettledIsTrue` and `InjectionStaysCurrent` follow.  The premises are looked back
from: a step after which nothing is left behind started where nothing was (`LookBack`).  That
a recovery is admitted only for the last of the line is where `NothingLeftOpen` is needed
(`Recovers`), and the gate on the whole chain is why no patch runs beside it.

**Bridge.**  `BridgeInv` (`LockDiscipline`): who owns the lock file and how much of it is
written, that a server is bound, served and closed under the lock, and that the socket is
given up with it.  `AtMostOneListens` follows, except after the failure path that may remove
a successor's socket (§5).

**Screen.**  `ScreenInv` (`Bookkeeping`): what the screen was not told the fate of is what
its target waits for, and only calls of the visit in progress are live.
`NothingReplacedBlindly` is a property of steps and follows from it.

**Alerts.**  `AlertsInv` has five parts.  *Generations* (`QueueOK`, `AwaitOK`): a seat that
is buried gets a new generation, so every job that is queued or in a refresh is of a
generation that was once current, and of the present one as long as the seat was not buried
since; no body of an earlier seat can therefore be attached to a seat that was restored.
*Bodies* (`NoBodies`): once the closed gate was seen, nothing holds a body until it is
opened again.  *Time* (`TimelyJob`, `StartsOK`): the turns a job counts as later than its
finding did start after it.  *Once* (`SentOK`): an alert that was sent is on disk as
attempted, also after a crash, and what was attempted is never eligible again.  This is what
makes `AlertedOnce` inductive: the property alone does not exclude a case that was written
before the send and read back after it.  *Currency* (`CurOK`): the evidence and the eras a
question to the recipient was built from are those of the case, unless drift was recorded.
The hooks share one shape (`HookShape`), for which the invariant is shown once; the steps of
the drain either let cases fade (`Faded`) or take a capture in.  `AlertsAreCurrent` and
`AnswersFitTheirEvidence` are properties of steps: only the recipient's step sends, and only
a hook answers.

**Publish.**  `PublishInv` (`PublishInductive`) follows a staged directory through its stages:
files before the current one are settled, the current one is as far as its stage says, and a
directory about to be renamed is sealed with all its files settled.  What settled means differs
for the two kinds, which is why a candidate keeps its modes after an outage and a launch set
need not.  `PublicationHolds` is both halves: `PublishedIsWhole` always, and `AnnouncedStays` of
every step.  That a report lasts (`AnnouncedStays`) needs `FlushedOK`, that a publisher which did
not reuse flushed the name before it verified, and a second invariant beside the first,
`ParentsOK`: whatever is under a parent has it.  A step of a publisher takes no name away
(`MovesKeepNames`), and a power loss takes one that was reported only with a directory above
it (`OutageTakesParent`).

**Formation.**  `FormationInv` (`PathsFollowed`) needs no knowledge of the shape of the request.
Every step has a place (`Order`) that is the same on every path, and every path is `Sorted` by
it: a lemma per piece of a path says which places it takes, and joining pieces keeps the order.
At most one call executes (`OneRuns`), and what is left of its path *fits* (`Fitting`): the
phases on disk and the effects asked of the host lie before it (`Past`), an effect that is still
to come has its phase before it or on disk (`Owed`), and the result at the end says what will
have happened by then (`Promised`).  A step only takes the first element off, or turns to a
path that ends in a refusal or an uncertain result (`TurnStep`, `CloseOff`); the request that is
sent again has a place of its own, right behind the first one, and no path plans it
(`AskedOnce`).  That the journal
never has more than 16 phases follows from the place of its last one (`JournalOK`).  Both
properties hold for any number of calls and any table of request shapes.

**Relay.**  `RelayInv` (`EachFrameInOnePlace`) says where a frame can be.  The socket, the splitter
and the pipe (`desk`, `wire`, `carry`, `native`) are increasing sequences, each before the next
(`LinesOK`), so that a step only moves the first frame of one to the end of another; the lemmas on
lines (`TailLine`, `ConcatLine`, `SplitLine`) say that once.  A frame on its way to the desk has not
run, one on its way back has and is still remembered (`RanOK`); a request waits in one place or
was answered (`AnswersOK`).  The delicate part is the end of a session: what the desk had received
goes to `orphans` and may still run, so `AnswersOK` must keep every orphan from being one that was
refused as never sent.  The theorem is about a relay that starts (`RelaySpec`).

**Integrate, Discharge.**  `Inv` (`IntegrationFits`) ties together four things that different
code keeps: the row, its history, the disk and the calls that run.  `Over` says that a landing
has been applied or never will be: there is a plan, every landing intent of the action was
issued, and no call stands before its apply.  `PlannedOnce` (a row with a plan takes no second
intent), `OneRuns` (an issue commits once, so one call performs a landing) and the journal's
sub-requests give that.  `RowFits` says that a proof of the landing, or any backup on disk,
comes only after `Over`; that is `SettledForGood`, and it lets a discharge trust the candidate
it accounted for: a removal of the backup is admitted, issued and still under way only for a
settled landing (`DischargeFits`).  `DiskFits` then says what is on disk: whatever of an
integration is in the target without a proof has its whole original in the backup, and what is
released is gone.  The second needs `SettleFits`, because a settlement is written after an
await: what was found gone stays gone, for no removal brings anything back.  Each kind of step has a lemma for the calls
that merely go on (`GoStep`), end (`EndStep`), commit (`CommitStep`, `ObserveStep`), or touch
the disk (`DirStep`), and for what no call does (`WorldStep`).

**ConfigPlan.**  `ConfigInv` (`FlagAndSeatsKept`) is about two things that must survive every
way an operation can end.  *Seats*: the profiles a plan wants are of families that are
available and effective (`SeatsHaveEntries`, from `Resolves` and `FirstIsOne`), so the entries it
generates hold every provider its slots name (`Bound`), and a binding only ever comes from a
plan.  *The flag* (`FlagKnown`): what the user set is in the file while nothing of SLP is there,
else in the binding, or, while a first activation is under way, in its plan.  For that the
invariant says of an operation under way that its plan was made from the present binding and
that its ends have, or lack, SLP's entries (`PlanFits`, `ActivationFits`, `DeactivationFits`);
`EndsKnown` then decides from what is found on disk which end it is.  A patch that was taken
leaves exactly the entries and the flag of the end it was made for (`PatchTaken`).  That the
first of a set of families exists needs a least element of a set of numbers, which `Least` gets
from the library's theorem on well-founded relations, because the induction rules themselves
take an operator as a parameter.

**Release.**  `ReleaseInv` (`LedgerFits`) says of every row in every table what the loader will
ask of it, written with what the ledger held *when the row was written*: a move carries the
numbers of the declarations, reviews and briefs it was decided under, and these numbers select
the same rows for ever, because the ledger only grows (`Grown`).  So each command is shown to do
two things: the row it appends fits (`MoveStep`, `ReviewStep`, `CommitRunStep`,
`CommitSettlementStep`, …), and every older row still does (the lemmas `…Stay`).  Three parts are
not about single rows.  `GraphFits`: a declaration is only accepted when the graph with it has no
cycle.  `SurfacesRead`: two scopes that move claim disjoint surfaces; the delicate step is a
scope that was advanced, which no declaration of another one has to respect, and that comes back
to review (`SubmitStep`).  `StreamFits`: a run is measured in one step and committed in
a later one, and its attempt is counted, and its rollout, definition and retries are checked, at
the commit; so attempts have no gap and no double, although runs measured side by side race.
`LedgerReads` and `RowsAreTimely` follow.  What the code looks for from the end of a list
(the round in progress, the last approval) is the greatest of a set of places; that there is one
comes again from the theorem on well-founded relations.

**Only model-checked.**  Liveness (fairness and ENABLED are beyond the prover).
`PatchesAreSafe`: that a patch arrives compares lists of profiles which `ConfigPlan`
filters and rebuilds with folds, and what a fold computes for every sequence needs induction
over data that the provers cannot do.

## 5. Where the code and its texts disagree

* **Orphan segments** (run `desk_orphan`).  A commit that fails between the rename of its
  segment and the rename of the ledger leaves an orphan segment.  A later commit of another
  number of events starts at the same sequence number under another file name; `verifyChain`
  then meets two segments with the same first event and calls the committed ledger corrupt.
  The header of `desk-store.ts` says an orphan has no authority.  `OnlyOrphansMislead` (§4) shows
  that nothing else makes a committed ledger unreadable.

The following were found while modelling and have no run of their own.

*Manager.*
* `settleChain` (`plugin/server/manager.ts:2118`) settles from the named operation to its
  root.  An operation recovered twice leaves the first recovery open when the second
  succeeds: the receipt becomes ACTIVE with an unresolved operation, which the comment at
  `manager.ts:694` says keeps blocking mutations.  If the patch of a new mutation then ends
  outcome-unknown, the left-open recovery can be reconciled and dispatches a second patch
  while the first may still run, because the same-boot gate (`manager.ts:1379–1410`) looks
  at the chain only; `docs/operations.md:110` says such a patch blocks complete and
  restore-before.  To see it, give `MCManager.cfg` `MaxOps = 5`, `MaxBoots = 1`, no faults
  and the invariant `Cardinality(flight) <= 1`.  `OneGuardedPatch` states what does hold, one
  patch for each chain, and `SettledMatchesConfig` and `InjectionIsCurrent` carry the premise
  `NothingLeftOpen`: no recovery was passed by before it had ended.
* When the directory sync of a receipt write fails after its rename, the code takes the write
  for failed: an accepted operation is left pending without a worker and every request is
  BUSY until the process restarts, and a terminal outcome may be set back to
  recovery-required with a phase that `settleChain` skips.  Removing `Synced` from
  `ChainsSettle` shows it.  The same failure can leave a seat with a binding that the daemon
  does not run with: an activation commits, its directory sync fails and it is marked for
  recovery; complete settles it, a deactivation ends outcome-unknown, the activation is
  completed once more, and the patch of the deactivation lands under the state ACTIVE.
  `InjectionIsCurrent` therefore asks for `Synced` too (`Undisturbed`).
* A recovery dispatches after its asset checks without reading the configuration again
  (`manager.ts:2264`).

* A fresh activation without a routing file does not ask whether the family of
  `profiles.<role>.family` is available; a rebind does (`config-transaction.ts`, about 1262),
  and the comment at 708–711 says requests already follow the rule.
* The removals that routing causes in `planActivation`, and `complete` of an activation, do not
  run `assertMetadataGenerationAgreement`, although `config-view.ts:415–423` says that paths
  which remove must refuse.  `PatchesAreSafe` therefore asks the daemon's side of deactivations
  and restores only.
* `writeExclusive` (`launchers.ts:338–348`) syncs a file before it sets its mode.  After a power
  loss a launch set may be there with wrong modes; every later publication of the content
  then fails with RUNTIME_INTEGRITY.  `PublishedIsWhole` asks for the modes of candidates only.
* `materializer.ts:501` says recovery reconciles a staging directory that a crash left, but
  `discardStaging` is only called by the failure path of the same run (`manager.ts:1097`), and
  a published launch set leaves an empty `.staging/<operation>`.  A publisher that reuses a
  directory does not sync its parent, so its report may be lost with a power loss
  (`announced` holds what a publisher renamed itself).
* The first launch set of a home is not safe against a power loss: its own name is synced, that
  of the new `launchers/` above it is not until a candidate is published later
  (`launchers.ts:585–598`, `materializer.ts:486`), and that of the stable root never is
  (`materializer.ts:297`).  No document promises otherwise, so this is no finding;
  `AnnouncedStays` says what does hold: a reported directory goes only with a directory above
  it that was made and not synced.

*Tasks and integration.*
* A worker that exists and has registered cannot be attached by reconciliation when the tool
  call that created it did not record it, because the observer's receipt does not carry the
  agent's identity where the decision looks for it (`desk-task.ts:2311`;
  `docs/task-execution.md:77,86`).
* Reconcile does not move a landing whose intent was never issued (`desk-task.ts:2040`;
  `docs/task-execution.md:141`).
* An integration admitted with conflicts, or whose stage failed or crashed after admission,
  reserves its target for ever (`desk-task-execution.ts`, about 1152).  A reconcile as
  "original" of a landed and observed action is decided but refused by the history's edge
  predicate.  A late check observation is accepted on a row whose discharge was issued and
  wedges the cleanup; a check on a fully discharged stage-only action reserves its target
  again.  An unissued remove-resource intent can never be continued.  A reconcile that races
  a removal records "held", and the later preflight finds the resource gone.
* After a succession the new owner's bootstrap of a task declared by the former one never
  gets a seat (`desk-seat.ts`, `validateTaskMembershipClaim`).  A reconciliation that leaves
  a stopped attempt's effect uncertain blocks its archive until it is stopped once more.

*Release.*
* `decide` accepts a passed run without the required `evidenceRef`, and the store's image
  check refuses it.  The recovery text of COHORT_DRIFT (`desk-rollout.ts`, about 567) cannot
  work.  Two owners that swap three times could commit two runs under one request id.  A
  retried settlement after the exported file changed is IDEMPOTENCY_CONFLICT.

*Supervision.*
* A deferred delivery whose time has come wakes the observer at once again instead of
  backing off (`observer.ts:2054`; `docs/spec/supervision-integration.md:431`).
* A gate that goes down and up again during a recipient's refresh still sends, with empty
  excerpts (lines 403–407 of the same document).  A turn start repeated after a purge is
  taken for a first one.

*Path of a call.*
* When `chmod` of a bound socket fails, the path is unlinked unconditionally
  (`desk-bridge.ts:2238`), after `stop` may already have released the lock: another
  process's fresh socket can be removed (`strayed` in `Bridge`).
* A rival that reads the lock between its open and its write becomes RECOVERY_REQUIRED for
  good.  A failed write of the lock leaves the file.  The state stays "listening" from
  `stop` to the close event, so that a call in its identity await may still run.
* Standard input that was paused because the socket is full is resumed by every `drain` of
  standard output, so queued socket bytes can exceed what the header of
  `bin/slp-desk-mcp.mjs` (lines 19–24) bounds.

*Screen.*
* An interrupted operation keeps the outcome "pending" (`manager.ts:107,400`), so that
  `canMutate` (`ManagerSurface.tsx:479`) and every Reconcile control refuse, although the
  screen (about line 944) and `docs/architecture.md:466` say that `complete` finishes it.
* A retry that is rejected while the first copy is still in transit drops its tracking, and
  the first copy may be accepted later.

## 6. Not modelled

* Loader checks between tables of the ledger beyond those named in `Release`, row schemas,
  canonical hashing, formatting of reports: data, without order or concurrency of their own.
* Of task execution: results and their adjudication, dependencies, external deliveries, the
  composition of a scope at bind (a refusal of it ends the tool call, which `End` allows
  anywhere), capacity and grants.
* The host: modelled by what it may do to a call (`HostCreate`, `HostSend`, `HostArchive`,
  `HostPatch`, the effects of `Formation`, the answers of `Observer`).
* Of the relay: a partial unterminated frame at the end of a stream, destroying standard
  input while it is held, an id in a frame that lacks the version.  Of the bridge: the
  connection limit and the handshake budget, and open errors other than EEXIST.  Of a
  publication: wrong bytes under a right name other than by power loss, foreign files in a
  tree.  Of a plan: historical provider ids, the choice of Node, the fields of a profile other
  than its thinking option.  Of a formation: a torn phase file, the read-only `slp_operation_get`, the bounds of the legacy
  scan.  Of the observer: redaction, texts, the ceilings on open cases and the display-only
  probe.  Of the screen: remounting, foreign administrators, a changed polling interval.
* Role launchers, gate and shim (exec and exit), the Jev client behind a decision (payload,
  receipt and answer checks; that one decision may take two requests is in `Formation`), the
  peer-pool card, generated payload, scripts, the provider adapters.

## 7. Plan

Built, checked and proved: the desk store and its recovery, the lifecycle manager and its
screen, task execution, integrations, assignments with scopes, rollouts and settlements,
supervision, the relay and the bridge, publication, formation and the configuration planner.
Next, in order:

1. Opening and closing bundles of documents with an assignment (`desk-assignment.ts`), and the
   dependencies between tasks.
