# TrashPal: a TLA+ verification of the recovery lifecycle

TrashPal prepares, approves and dispatches recovery pickups for waste
collection exceptions. This directory holds formal models of its lifecycle, the
durable one and the one in memory, of the provider's store behind it, of the
operator's requests and the dispatcher's browser in front of it, of the bounded
Pal run that prepares a recovery, and of the quote its route rests on: the parts
where a mistake means a truck sent twice, a truck nobody authorised, a recovery
proposed on evidence that does not carry it, a screen that offers what is no
longer so, or a record that says something the provider never did. The models
are checked with TLC on small instances, and the theorems are proved with TLAPS
for instances of any size.

Paths below are relative to the repository. "The repository" with a capital R
is the class `PostgresLifecycleRepository`.

## 1. Inventory of the system

| Component | State it keeps | Operations | What is hard, and what makes it correct |
|---|---|---|---|
| State machine (`packages/lifecycle/src/state-machine.ts`, trigger in `drizzle/0000_durable_lifecycle.sql`) | none; a table held twice | `assertLifecycleTransition` | The two copies must let the same moves through. |
| Postgres Repository (`packages/lifecycle/src/postgres-repository.ts`) | cases, proposals, approvals, principals, capabilities, reservations, snapshots, operations, events, outbox, assignments, evidence, receipts | prepare, approve, three revocations, reserve, claim, mark unknown, mark failed, complete, evidence, receipt | Each call is one SERIALIZABLE transaction; calls come in any order, a COMMIT's answer may be lost. Rows agree; one operation per proposal; withdrawn decisions stay withdrawn; a receipt stays true. |
| Outbox worker (same file, `PostgresOutboxWorker`) | its place in a run (claim, send, record) | `dispatchNext`, `dispatchOperation`, `reconcile` | Crash between any two steps, lost acknowledgement, lease expiry while still sending, two workers on one operation. At most one send; no false conclusion; every assignment is recorded in the end. |
| Simulated dispatch connector (`packages/adapters/src/dispatch/simulated-dispatch.ts`) | provider's assignments, in memory or in a locked file | `send`, `lookup`, store's `createOrGet` | Fails before or after it writes; a lock file left by a dead process. One assignment per key, never overwritten. |
| In-memory engine and connector (`lifecycle-engine.ts`, `connector.ts`) | the same records in `Map`s | the same calls, without transactions | `await connector` sits between the checks and the writes of one call; other calls run in between. Same promises as the Repository. |
| Session authority (`session-authority.ts`) | tokens and capabilities of one process | issue, resolve, revoke | Revoked after the database commits; forgotten at a restart. A revoked principal may not act again. |
| Context compiler and envelope (`packages/context/src`) | none | `assembleModelContext`, `compileStaticContext` | Required evidence survives the token budget, and what is left out is named, although the names cost tokens too. |
| Pal harness and skill host (`packages/agent/src`) | one run: messages, budgets, trace; the evidence, quote and proposal the skills built | `runBoundedPal`, six skills | Reasoner and sources race a timer, and a call that exceeds its deadline is abandoned while it runs on. A recovery is prepared only on sound, current, uncontradicted evidence; budgets hold; a late result changes nothing. |
| Routing (`packages/adapters/src/routing`) | one quote: where it stands, two answers, two timers | eligibility, encoding, two solves by VROOM, the check of each answer | The solver is a separate process and not trusted: it may hang, fail, or answer nonsense in either solve. A quote is one the host can stand by; a fault is not taken for an infeasible recovery. |
| Composition, Pal runtime, operator facade, API (`apps/server/src`) | operator sessions, prepared packets | HTTP calls that become lifecycle calls | Facade guards check a state, await, then act. One live recovery per case. |
| Web workspace (`apps/web/src/App.tsx`, `api.ts`) | load state, action state, the case on the screen, the receipt on the screen | `loadWorkspace`, `runAction`, `updateAccess`, queue, retry | Each is a chain of awaits; answers are lost, refused, or come in any order, while others move the same case. The screen never goes back to something older; waits end. |
| Contracts, evals, testkit, scripts, black boxes | nothing the server relies on | | |

Components interact by direct calls: browser -> API -> operator facade -> Pal runtime ->
Repository; the worker between the Repository and the connector; the session
authority is asked by every Repository call. The only shared state between
processes is the database and the provider's store. No loop in the server
drives dispatch or reconciliation: `POST /v1/dispatch/next` and the operator do.

`PROJECT.json` lists every component with its status and every hazard with its
line and the properties that watch it.

## 2. Modules

| Module | Models |
|---|---|
| `LifecycleStates` | The two transition tables, evidence kinds and their targets. |
| `DurableLifecycle` | The Repository with its triggers, any number of outbox worker runs, the provider behind the connector, time and crashes, composed. |
| `DispatchKnowledge` | The abstract promise: what the database may believe about a provider it cannot share a transaction with. |
| `ProviderStore` | `FileProviderAssignmentStore`: the lock file, read, write and rename of the simulated provider, system call by system call, in processes that fail and die. |
| `AssignmentRegister` | The abstract promise of a provider's store: an atomic create-or-get. |
| `SessionAuthority` | `ProcessSessionAuthority`: tokens, expiry and revocation. |
| `LifecycleEngine` | The in-memory `LifecycleEngine` and its connector, with `SessionAuthority` composed in (it EXTENDS it and takes its actions as steps). Also implements `DispatchKnowledge`. |
| `ContextAssembly` | `assembleModelContext` as a pure operator: what a budget of tokens includes, omits and names. |
| `PalContext` | The context of a run: what `PalHarness` assumes of `assembleModelContext`, against `ContextAssembly` (EXTENDS both). |
| `RecoverySkills` | The recovery skill host: six skills over one state, split where they await a source, the planner or an external receipt. |
| `PalHarness` | `runBoundedPal`: one run from start to result over `RecoverySkills` (EXTENDS it), with deadlines, budgets, and the handing over of the result by the Pal runtime. |
| `OperatorFacade` | The browser's routes: sessions, prepare, evidence, approve, reserve, dispatch and reconcile as interleaved requests over `DurableLifecycle` (EXTENDS it and takes its actions as steps). |
| `OperatorWorkspace` | The browser: what is on the screen, the load or the action under way with the fetch it is at, and the routes as they look from there. |
| `RecoveryRouting` | One quote of `VroomRecoveryRoutePlanner`: request, two solves, the checks of both answers, timers. |
| `MCDurableLifecycle`, `MCProviderStore`, `MCLifecycleEngine`, `MCPalHarness`, `MCOperatorFacade`, `MCOperatorWorkspace`, `MCRecoveryRouting` | Values of the constants for TLC. |
| `DurableLifecycleProofs` | Type correctness of the durable lifecycle, the inductive invariant of dispatch, the safety theorems, and that it implements `DispatchKnowledge`. |
| `ProviderStoreProofs` | The invariant of the file store, and that it implements `AssignmentRegister`. |
| `LifecycleEngineProofs` | The invariant of the engine, and that it implements `DispatchKnowledge`. |
| `ContextAssemblyProofs` | What `assembleModelContext` promises for candidates of any length, any known evidence and any budget. |
| `PalHarnessProofs` | The invariant of a Pal run, what follows from it, and that its contexts are those of `assembleModelContext`. |
| `OperatorFacadeProofs` | The routes implement the durable lifecycle, and a case has one recovery at a time. |
| `OperatorWorkspaceProofs` | That the browser waits for one thing at a time, that what it shows never goes back and is the truth while nobody else moves, that a receipt fits the case beside it, and its types. |
| `RecoveryRoutingProofs` | What a quote and a refusal may rest on. |

### How `DurableLifecycle` corresponds to the code

* **One method, one action.** Every method of the Repository runs in one
  SERIALIZABLE transaction (`#transaction`), so it is one atomic step. A call
  that is refused rolls everything back and is no step at all. The exception is
  a refusal the worker reacts to: `CompleteFails` leads into the catch.
* **One worker run, several steps.** `worker[w].pc` is where a run of
  `#dispatchClaim` or `reconcile` stands: `claimed` (claim committed, not sent),
  `accepted` / `ack_lost` / `rejected` / `failing` (what `connector.send` gave,
  or what a catch has to deal with), `looking_up` (snapshot read, provider not
  asked yet), `found`. Anything may happen between two of them. `Abandon` ends
  a run anywhere: the process died, or a call outside the try threw.
* **Lost COMMIT.** `CompleteAssignment` may leave the worker in `failing`
  although the rows are written: the acknowledgement of the COMMIT was lost and
  the catch calls `markUnknown` on an accepted operation. Elsewhere a lost
  COMMIT looks like the call followed by a crash or a repetition, which the
  model has anyway.
* **Time.** `expired`, `lapsed` and `authority[u].lapsed` say that
  `clock_timestamp()` has passed a proposal's `valid_until`, an outbox row's
  `lease_expires_at`, a principal's `expires_at`. Time may pass at any moment.
  An approval is only accepted while evidence and quote are valid at least as
  long as the proposal, so one expiry per proposal covers all three.
* **Authority.** `#persistPrincipal` runs first in most transactions: it
  renews the caller's lapsed row (`Persisted`) and fails on a revoked one
  (`MayCall`). `markUnknown`, `markFailed`, `completeAssignment` and
  `snapshotForReconciliation` do not call it. Nothing is assumed of the in-memory
  session authority, which is told of a revocation after the database has
  committed it, or never: a revoked principal's calls reach the model's
  Repository at any time and are refused by its rows alone.
* **Claim.** `#claim` first recovers at most one expired lease and then takes
  one pending row, or none: `ClaimCurrent`, `ClaimStale` and `ClaimNothing`,
  all with the recovery in the same step. SKIP LOCKED behaves like a claim that
  ran before the lease lapsed.
* **Provider.** `provider` is what its store holds, `sends` counts calls of
  `connector.send` per operation (a history variable; `Send` is its only
  writer). The store may write and then fail. `SendRejected` is the definitive
  rejection of an external provider: the catch handles `ConnectorRejectedError`
  although no connector in this repository throws it.

Abstracted: tenants (one), digests and payloads (a proposal's identifier stands
for everything it binds), identifiers of evidence, the case's own revision
counter, receipts' digests, the authority of administrators and workers (their
calls may be refused, which is no step). The clock of the connector is taken to
be the database's.

### How `ProviderStore` corresponds to the code

Every call of the store runs `#withLock`. `pc[c]` is the system call it makes
next: `opening` (the loop over `open(lockPath, 'wx')`), `locked` (holds the lock,
reads and decides), `writing` and `renaming` (`#write`), `closing` and
`unlinking` (the finally block). Each may fail with its own consequence, and
`Crash` ends the call anywhere and leaves the lock file. The function a caller
passes to `#withLock` is synchronous in effect and is one step with the read:
nobody else writes in between, which is what `HolderUndisturbed` states and the
proof shows. `answer[c]` is what the caller was told and remembers. A temporary
file is never read, so writing it only moves `pc`. `MaxAttempts` is 200 in the
code. A record is its key, its operation (with its tenant, as the code always
pairs them), what the snapshot binds, and `acceptedAt`, which
`sameAssignmentBinding` leaves out. Delays and directory creation are left out.

### How `LifecycleEngine` corresponds to the code

* **One synchronous call, one action**, named like the method. JavaScript does
  not interrupt it, so `#evidenceTransition` and the six public methods that
  lead to it are one action with the kind as a parameter.
* **dispatch and reconcile** are split where they await the connector: `dispatch`
  and `reconcile` up to the call of the connector, then `dispatchAccepts`,
  `dispatchMismatches`, `dispatchRejected`, `dispatchUnknown` or
  `reconcileAbsent`, `reconcileMismatches`, `reconcileFound` when the promise has
  settled. `calls[k]` says where call `k` is and with which operation. After the
  await nothing is checked again except by `#transition`, which throws where the
  move is not allowed; `Transition` keeps what the call had written before that
  (`providerAssignmentId`).
* **Connector.** `ProviderTakes`, `SendSettles`, `SendRejects` and
  `LookupSettles`. `InMemoryDispatchConnector` takes an assignment and answers or
  loses one answer; the interface, and the engine's catch, allow for more: the
  request arrives after its sender gave up, is refused, or is bound to something
  else. `sends` is a history variable that only `dispatch` writes.
* **Decision inputs.** `assertCurrentInputs` ties the digests, the work order and
  `validUntil` together, so one `version` stands for all of them, for
  `sameBinding` and `sameExecutableBinding` alike. `expired` has the versions
  whose `validUntil` has passed.
* **Reasons.** A stale snapshot cancels with the code of the error that was
  thrown; the three codes are one reason here.
* **Sessions.** A token is live until it expires or is disabled. Worker tokens,
  and the capabilities for recording evidence, reading and confirming, are left
  to the inputs: a call without them is refused and is no step.

### How `PalHarness`, `RecoverySkills` and `ContextAssembly` correspond to the code

* **Tokens.** `PalHarness` counts them by a sum (`ContextTokens`, `ContextUnusable`);
  `PalContext` says that the sum is what `assembleModelContext`, modelled in
  `ContextAssembly`, makes of the same evidence.
* **One behaviour, one run** of `runBoundedPal`, with the step of
  `LocalCompositionRuntime.prepare` that takes its result. The head of the loop
  (`AskReasoner`, `StopAtHead`) and the treatment of an answer
  (`ReasonerAnswers` with its refusals) are each synchronous and one step.
* **Two awaits, each racing a timer.** The reasoner's and the skill's answer may
  come before or after what is left of `maxLatencyMs`. `ReasonerTimesOut` and
  `SkillTimesOut` end the run; the abandoned skill goes on in `RecoverySkills`
  and still writes to the state it shares with the run.
* **Skills.** `execute` is split at its awaits. Preflight checks, the change of
  the state and the push to `completed` are one step up to the next await.
  Without an external receipts port the receipt is the host's own and follows
  in the same step.
* **Evidence.** Items are known by the part they play (agreement, access, field
  attempt, policy); an item is sound or not, current for a while, and may
  contradict another. Every item, omission record and completed skill costs a
  number of tokens; text and digests are left out. The policy item is made by
  the runtime for each run and is always fresh.
* **Merged.** The reasons of a failed preflight are one reason; provider metering
  is the sums it feeds. The abort signal is a new controller's, so it is never
  set when a call starts.

An observation from reading: the step limit `maxSkillCalls + 2` never ends a run,
because one of the budgets does so before; and a run that escalates may still
carry a proposal, which is why `prepare` looks at the outcome as well
(`HandedOverIsPrepared`).

### How `OperatorFacade` corresponds to the code

* **A request is a process** that runs alone between its awaits. `request[w].pc`
  is where it stands: `guarding` (the latest operation was read, its state not
  yet), `running` (Pal runs on a snapshot of `second`), `approved` (approve
  committed, reserve not yet), `dispatching` and `working`, `reconciling` and
  `receipting`. A request that dispatches creates an outbox worker, so requests
  are the lifecycle's `Workers`, and each repository call is that module's action.
* **Sessions.** `observed[s]` is what `#accessUpdates` holds under the session's
  cookie. `Issue` is a new session in the same browser: what the old one
  reported is forgotten. All sessions act for the one dispatcher, whose row is
  renewed with them, so it does not lapse here.
* **Pal.** A run ends with decision inputs at the revisions of the snapshot it
  took when it started, or in `RequestEnds`. `PalHarness` is about what happens
  in between. A report that access is blocked or unknown always leads to a hold.
* **Snapshots.** Revisions are seconds since an epoch. Two runs in one second
  commit only if their snapshots are identical (same millisecond); otherwise a
  UNIQUE key refuses the later one, which is no step.
* `captured` orders operations by `captured_at`. `overtaken` is a history
  variable that nothing reads but the property.

Left out: notes beside a report, displays, and help articles. The model also has
what the browser's hints advise against, as no route enforces them.

### How `OperatorWorkspace` corresponds to the code

* **The screen** is `loadState`, `actionState`, `caseView` and `receipt`, the
  state variables of `App`. What the server holds is kept as far as a case view
  shows it: proposals, approvals, operations, and each session's reports.
* **A load or an action is a process** that runs alone between its awaits;
  `load.pc` and `action.pc` say which answer it waits for and how far its route
  has come. A route writes in as many steps as it has transactions, and reads
  the case it answers with in a step of its own, so anything may come between.
  `LoadFails` and `ActionFails` are possible at every point: refused, failed,
  or carried out and the answer lost. They end the browser's wait (`GivesUp`),
  not the handler in the server. What that handler still writes of proposals,
  operations and receipts, after its browser has given up, is a move of
  `Elsewhere`, at any later time. The one thing it writes that nobody else does
  is the session's report of access: a report whose fetch fails before the route
  has passed its guard is kept in `late` (`GivesUpReport`), and `LateReport`
  records it when the guard lets it, in the session it was made in.
* **What is offered** is the server's `nextAction`, filtered as
  `nextOperatorAction` does; the buttons are enabled as in the code. Every load,
  also a click in the queue, starts a new session.
* **Elsewhere** is everybody else, another browser, a worker, the field, the
  clock, one transaction at a time. It may write what the Repository allows.
* `disturbed` and `overtaken` are history variables. `disturbed` says that a view
  may be old for a reason the browser cannot see; `overtaken` is the set of
  operations that others have made since a load last read its case.

Left out: the queue's own list, which is only displayed and whose failure is an
`ActionFails`; notes, notices and layout; the help drawer; orientation.
Development's double mount under StrictMode (`web/src/main.tsx:6`) runs two
loads at once and is not modelled.

Observations from reading, none against a promise of the repository: an operation
left in `sending` by a crash offers a receipt and then only `monitor`; after a
cancelled or failed operation `prepare` is not offered again; a failure to list
the queue drops a receipt that had come with the answer before it; `reserve` is
offered for cases whose route refuses it; and an older proposal that outlives a
newer one is offered for approval again and then refused.

### How `RecoveryRouting` corresponds to the code

* **One behaviour, one call** of `quoteRecovery`. `Start` is the check of the
  request and the eligible vehicles; `FullSolved` and `BaselineSolved` take an
  answer and run every check on it, in the code's order, up to the next await.
* **The solver** answers with any member of `Answers`, or `Garbage` for what
  `parseVroomResponse` refuses, or not at all. `TimerFires` aborts the fetch of
  the solve at hand, and `TransportFails` is its rejection, by the abort or by
  itself. An answer that is there when the timer fires may still be lost.
* **Order of work.** `validateSolverProof` stops at the first committed work it
  finds something wrong with, in an order the model leaves open
  (`proofFailures`).
* Times are seconds, loads kilograms, as in the encoded problem. Locations, the
  travel matrix, breaks and the numbering are left out, as nothing checks them
  in an answer. A driver's other errors are `TransportFails`.

Observations from reading: the remaining capacity is taken from the load at the
recovery's step, so committed pickups that follow it are not in it; that load is
not compared with the recovery's own weight; and the arrival is checked against
access, but neither against the end of the shift nor against the time at which
the quote is issued. `QuoteSound` claims none of these.

## 3. Runs

| Run | Instance | Shows |
|---|---|---|
| `dispatch` | 2 proposals, 2 operations, 2 workers, 1 user, 1 revision pair | `RowsCoherent`, `SentAtMostOnce`, `RejectionRecordable`, `OneOperationPerProposal`, and that the model implements `DispatchKnowledge` (`KnowledgeSpec`). |
| `decisions` | 2 proposals of one case, 2 users, 1 worker, 1 operation, 3 revision pairs | `DoomedStaysDoomed`: a decision withdrawn before the claim is never revived. |
| `outcomes` | 1 operation, 2 workers, all six evidence kinds, 1 receipt, fair | `TypeOK`, `RecordTrue` (trail and receipts), `EvidenceFollowsAssignment`, `NothingForgotten`, and `DispatchSettles` (liveness): what the provider holds gets on record, and nothing stays in `sending`. |
| `withdrawal` | 2 proposals, 1 operation, 1 worker, 3 revision pairs | Violation of `NoAssignmentAfterWithdrawal`, see below. |
| `store` | 2 callers, 4 records over 2 keys and 2 operations, 2 attempts, fair | `HolderUndisturbed`, `AnswersStand`, `OrphanFailsSafe`, that the store implements `AssignmentRegister` (`RegisterSpec`), and `CallsEnd` (liveness). |
| `engine` | 2 tokens, 1 user, 1 proposal, 2 versions, 1 operation, 2 calls, 3 evidence identifiers, all six kinds, 1 receipt | `OneSender`, `AssignmentRecorded`, `RecordTrue`, `WithdrawnNeverSent`, and that the engine implements `DispatchKnowledge` (`KnowledgeSpec`). |
| `pal` | 6 skill calls, 14 context tokens, latency 2, 3 ticks, cost 52; fair | `PreparedIsSound`, `HandedOverIsPrepared`, `TraceTrue`, `WithinBudget`, `AssemblyAgrees`, `EnvelopeHonest`, `AcceptedWhileCurrent`, `ResultStands`, and `RunEnds` (liveness). |
| `facade` | 1 case, 2 requests, 2 proposals, 2 operations, 1 session, 2 seconds | `OneRecoveryUnlessOvertaken`. |
| `reported` | 1 request, 1 proposal, 1 operation, all three reports | Violation of `NoReservationOverReport`, see below. |
| `workspace` | 2 cases, 2 proposals, 2 sessions, revisions to 3, 2 moves elsewhere or late reports, reports of blocked access, fair | `TypeOK`, `OneTaskAtATime`, `ShownIsCurrent`, `ReceiptBesideItsOperation`, `OperationNeverGoesBack`, and `WaitsEnd` (liveness). |
| `forgotten` | 2 cases, 1 proposal, 2 sessions, 1 move elsewhere | Violation of `NoRecoveryOverReport`, see below. |
| `routing` | 3 vehicles (one of another tenant), 2 committed works, 5 requests, some 3,000 answers, fair | `QuoteSound`, `FaultsAreNotInfeasible`, and `QuoteEnds` (liveness). |

**Bounds.** Two workers are enough for every race of the code: a worker
competes with one that recovers its lease or reconciles. The invariant that is
proved allows any number. Two operations are needed because a claim of one
recovers the lease of another. `decisions` needs two users (an approver and
another caller, or an approver and an administrator's victim) and three revision
pairs, two of which cannot follow each other, because case truth moves in two
coordinates. Its single operation is enough, since a proposal's decision is only
read by that proposal's operation. `Kinds` is empty where evidence plays no part
and `MaxReceipts` bounds only the receipts kept. Counters need no bound: the
state machine has no cycle that the code walks, so every behaviour of an
instance is finite up to stuttering and lapsing sessions. The instances
of the lifecycle, the store and the engine explore their full state space; none
stops (sessions lapse and are renewed), so deadlock is checked in all of them.
For `workspace` two moves let somebody else take a recovery away from under the
dispatcher, or overtake a report of hers; `WaitsEnd` is stated as one formula,
that again and again nothing is waited for, which is the same as that each wait
ends. For others to make an operation of the case on the screen takes three
moves, to prepare, approve and reserve it, so in this run a receipt always stands
beside its own operation; that the exception of `ReceiptBesideItsOperation` is
the only one is what the theorem `ReceiptsFit` adds.
A Pal run and a quote end, and a dispatcher may be done (the sessions of
`workspace` are bounded, too), so it is not checked in `pal`, `routing`,
`workspace` and `forgotten`.

For `store` two callers suffice because the lock admits one and the other meets
each state it can leave behind; the four records are an assignment, its retry at
a later time, one at odds with both in the key and one in the operation, so
every outcome of `assignmentConflict` happens and two assignments can stand side
by side. For `engine` two calls meet in every pair of awaits; the two versions
let inputs be replaced and put back, and the second token is the session issued
after a revocation. Four identifiers of evidence lead an operation through
report, attachment or reconciliation, confirmation and dispute; three of them,
as in `engine`, do without the attachment, which the reconciliation replaces.

For `pal`, six calls are the whole workflow, which completes in some runs and in
others ends at an unusable context, at the token or cost budget, at either
deadline or at a refused call. The limit on skill calls and the one on reasoning
steps end none of them: after six calls that succeeded the run is over, and a
call that fails ends it. Three ticks let a validity window close before, during
and after the planner's answer. `EnvelopeHonest` asks of every
loaded case what the assembler makes of it, whichever of its evidence is required
and for budgets from tight to ample: among them an item fits and the record of its
omission does not, and more is known than the descriptors hold.

For `facade` two requests are the two browser tabs; two proposals and operations
are what two recoveries of one case take; two seconds make one snapshot older than the other. The run stops looking (`CONSTRAINT`) where the
case is already one of the two the property excuses, which is for good.

For `workspace` two cases are the one on the screen and the one chosen next; two
proposals and operations make an older and a newer one, of one case or of two;
two sessions are one load and a second one at any point of the first's actions;
two moves elsewhere put something between any two steps and once more later.
Three revisions take an operation through claim, unknown and reconciliation; the
long tails of evidence only add monitor. In `forgotten` the move
elsewhere is not needed and not taken. For `routing` two vehicles of the
tenant let work move, a third tells the tenant apart, and the requests and
answers bring about each code a quote can be refused with.

**Symmetry.** Identifiers are interchangeable, and in the instances all
proposals belong to one case. In `engine` tokens, calls, versions and identifiers
of evidence are. The liveness runs use no symmetry.

**Fairness (`FairSpec`).** No scheduler in the server retries anything, so
fairness is an assumption about the environment and is kept small: leases run
out (a fact about clocks); somebody keeps claiming, on any worker; somebody
keeps starting reconciliations of an unknown operation, as
`docs/help/check-an-uncertain-dispatch.md` tells the operator to; and a run that
gets as far as the lookup or its recording is not cut off every single time.
Nothing is assumed of the sending worker: it may die each time, and the provider
may be slow for ever.

In `ProviderStore` a live process keeps running its call (`WF` of `Step`); a
death ends the call, and nothing obliges anybody to remove a lock file.

In `PalHarness` the event loop keeps running what is ready, timers fire, and time
goes on. Nothing is assumed of the reasoner, the sources or the planner: they may
never answer, and the run still ends. The same holds of `RecoveryRouting`: its two
timers fire and an aborted fetch rejects, and nothing is assumed of the solver.

In `OperatorWorkspace` a fetch is answered or fails in the end. The code sets no
timeout, so this is an assumption about the browser and the server: a request
that neither is answered nor fails would hold the buttons. Nothing is assumed of
the dispatcher or of anybody else.

**What is not promised.** A case can have two unresolved operations: when one is
reserved while another request's Pal run is under way, or when two runs take one
snapshot. Both are reachable (`OneRecoveryUnlessOvertaken` without either
exception is violated); each operation still is sent at most once.
An unknown operation the provider does not hold stays unknown: no call of this code moves it on, and no property says otherwise. A
lock file that a dead process left stops the file store until somebody removes
it by hand; `OrphanFailsSafe` says that this does no harm. A token issued after
`revokePrincipal` is a new grant, and makes the in-memory engine accept that
subject's approvals again; `WithdrawnNeverSent` speaks of revoked approvals and
of expiry, which are final.

### Finding: a decision withdrawn between claim and send

`docs/architecture/CORE_BUILD_CONTRACT.md`, scenario C08, says that when access
is revoked "between reservation and connector send", "no assignment is created",
and that the worker's final revision check cancels "a stale, revoked, or raced
condition ... before an assignment is created". The check is part of the claim's
transaction. Between its COMMIT and `connector.send` (`#dispatchClaim`) nothing
looks at the decision again, so a revocation or a newer case revision in that
window still ends in an assignment; only a passed `validUntil` is caught, by the
connector. The run `withdrawal` gives the trace. What does hold is
`DoomedStaysDoomed`: withdrawn before the claim, it is cancelled.

### Finding: approval over a contradicting access report

`docs/help/review-and-approve-a-recovery.md` says that TrashPal "checks that the
case is still current before it creates the dispatch operation", and that a
recovery whose evidence or access has changed "needs a fresh review". A
dispatcher's report that access is blocked or unknown is kept in the session
store and makes Pal hold, so no decision inputs are committed and the case's
revisions stay. `approve` and `reserve` compare nothing else: a proposal prepared
before the report can still be approved in the same session, and an operation is
created. The run `reported` gives the trace.

### Finding: an access report that a reload forgets

`docs/help/resolve-a-missed-collection.md:7` says that a report of clear access
"does not erase a more recent conflicting field report". What a dispatcher reports
is kept under the session (`operator.ts:248`), and every load of the workspace,
also every click on a case in the queue, starts a session (`App.tsx:53`). So the
dispatcher's report that access is blocked makes Pal hold; after the case is
opened again, `prepare` is offered, Pal is told of no report, and a recovery is
prepared over the more recent conflicting one from the recorded source alone.
The run `forgotten` gives the trace.

## 4. Theorems

Every theorem is about all values of the constants, from the assumptions the
modules name. `DurableLifecycle`: `CaseOf` maps proposals to cases, `Revisions`
are pairs of naturals, `Kinds` are evidence kinds, and `None` is no row.
`ProviderStore`: `MaxAttempts` is positive, and `Candidates` are records over the
keys and the operations. `OperatorFacade`: the dispatcher is a user, Greenleaf is a case,
and what the clock counts is a revision. `LifecycleEngine`: `Kinds` are evidence kinds, and
`None` is none of the records or identifiers. `PalHarness` and `RecoverySkills`:
the budgets but the cost's are positive, the latency budget fits the clock, the
sources list and answer what the schemas allow, and `None` is no item, proposal,
skill or result. `ContextAssembly`: tokens of a record and the number of descriptors are
naturals, and ids are unique, since the source is a map. `PalContext`: the
descriptors hold the eight kinds of evidence a run can know of, and an omission counts
one token. `OperatorWorkspace`: the home case is a case, `None` is neither a
case nor a receipt, and the bounds are naturals. `RecoveryRouting`: requests and answers have the types
the parsers let through, and the recovery is no committed work. No set needs to be
finite.

| Theorem | Module |
|---|---|
| `TypeCorrect`: `Spec => []TypeOK`; `RowsStayCoherent`, `NeverSentTwice`, `ConclusionsStayTrue`, `RejectionStaysRecordable`, `OneOperationEver`; `RecordsStayTrue`, `NothingIsForgotten`, `EvidenceComesAfter`, `DoomedForGood`, `ClosedForGood`; `ImplementsKnowledge`: `Spec => KnowledgeSpec` | `DurableLifecycleProofs` |
| `TypeCorrect`, `LockHolds`, `AnswersStayTrue`, `ToldOnce`, `OrphansFailSafe`, `AssignmentsStand`; `ImplementsRegister`: `Spec => RegisterSpec` | `ProviderStoreProofs` |
| `TypeCorrect`, `SendsOnce`, `AssignmentsOnRecord`, `RecordsStayTrue`, `WithdrawalsStand`, `ClosedForGood`; `KeepsKnowledge`: `Spec => KnowledgeSpec` | `LifecycleEngineProofs` |
| `TypeCorrect`, `PreparesSoundly`, `HandsOverPrepared`, `TracesStayTrue`, `StaysWithinBudget`, `AcceptsWhileCurrent`, `ResultsStand`, `ContextsAgree`, `ContextsAreHonest` | `PalHarnessProofs` |
| `NothingDisappears`, `RequiredAreKept`, `OmissionsAreTrue`, `FlagsAreEnough`, `CostOfRequired` | `ContextAssemblyProofs` |
| `FacadeImplementsLifecycle`: `FacadeSpec => Spec`; `FacadeKeepsPromises`; `OneRecoveryAtATime` | `OperatorFacadeProofs` |
| `TypeCorrect`, `TasksTakeTurns`, `ViewNeverGoesBack`, `ReceiptsFit`, `ScreenIsTrue` | `OperatorWorkspaceProofs` |
| `QuotesAreSound`, `FaultsStayFaults` | `RecoveryRoutingProofs` |

Most of them prove a property some run checks. The type correctness of the store,
the engine and the Pal run, `ConclusionsStayTrue` (which `KnowledgeSpec` implies),
`ToldOnce` and `AssignmentsStand` (which `RegisterSpec` implies) and `ClosedForGood`
(which `KnowledgeSpec` implies) need no run of their own; `FacadeKeepsPromises` says
what the refinement carries over. The theorems of `ContextAssemblyProofs` are about
an operator, not about behaviours: for every input the compiler can be given, where
`pal` checks the inputs its run produces.

**The argument for the durable lifecycle.** `TypeOK` alone is not inductive: a worker inside a run must
name an operation (`WorkersNamed`). The safety properties need to know what each
worker knows. Why is a second send impossible? Because a claim needs a pending
row, which an operation leaves for ever with its first claim
(`ProviderAgrees`: absent, reserved and cancelled operations have never been
sent); so an operation has one dispatching worker at most (`OneDispatcher`), and
while that worker has not sent yet, nobody else has (`WorkerKnows`, `claimed`).
Why is a conclusion true? A failure is recorded only by the one dispatching
worker, which saw the rejection, and an assignment only by a worker that saw the
provider hold it. Why can a rejection be recorded after the lease was recovered?
The operation is then unknown, its reservation is consumed only together with an
assignment (`RowsCoherent`), an assignment is one the provider holds, and the
rejecting provider does not. `IInv` is the conjunction of these;
`SafeInit`, `Inductive` and `Invariance` prove it, with one lemma per group of
actions. TLC checked `IInv` on the instance of `dispatch` before it was proved.
The refinement proof adds, for each step, which step of `DispatchKnowledge` it is; and
since no step of `DispatchKnowledge` gives up a belief that nothing was assigned, or
lets the provider take such an operation, what is closed is closed for good.

**The argument for the file store.** The lock file exists while one caller is
between `locked` and `unlinking`, because it is created only where there is none
and removed only by its holder; so what the holder has read stays the file
(`HolderUndisturbed`). `WriterKnows` keeps what it decided from that reading: the
record it is about to add shares no key and no operation with the file. The file
therefore stays well formed and only grows, which is why answers stand, and two
records told as created differ. `AttemptsLeft` makes the count of attempts
inductive. In the refinement the read is the instant of every call but one: a new
assignment is made by the rename. A call that dies, or whose `close` fails after
the rename, is one that was cut off.

**The argument for the engine.** `DispatchKnown` says what an operation's state
tells of the provider and of the sends, `CallKnows` what a call under way may
rely on: a dispatch call that awaits finds its operation in `sending` (nothing
else leaves that state), a reconciling one only knows that it was sent and is
not in `sending`. Two senders cannot meet, since the second finds the state
changed in the same turn in which the first called the connector
(`SenderAlone`). `ResumeKeeps` then covers the seven ways a call goes on at once:
where `#transition` throws because another call was faster, what had been written
before agrees with the state the faster call left. `AllTrailed` is needed for the
type of a receipt, which reads the last event.

**The argument for a Pal run.** A prepared recovery is sound because each skill
finds what the earlier ones established still in place. `Fits` says what that is
at every point: the call under way is the next of the workflow, and what is
completed is a prefix of it; all access items were loaded by one answer, so every
contradiction among them has been compared; nothing adds evidence once the quote
is done; and what was metered covers every exchange with the reasoner. A skill
that was abandoned is still the one call under way, and since the run is over
nobody starts another, so its late writes reach only the shared state and never
the result (`ResultsStand`). Currency is different: it is a fact about the
instant at which the proposal is accepted, an action property
(`AcceptsWhileCurrent`).

**The argument for the context.** The loops of `assembleModelContext` are recursive
functions, and the library's induction takes an operator the provers cannot
instantiate. So a set stands in its place: of the rounds for which a fact fails the
least is looked at, and the round before it gives the contradiction (`Least`,
`Rounds`). `LoopExists` and `OnlyLoop` give a loop its recursion equation. From
there: after any round what is included and what is omitted are the candidates seen
so far, disjoint, and nothing required is among the omitted (`PassProgress`); the
tokens of the required candidates are a lower bound of what is counted
(`DemandLoop`, `RequiredCost`). Whatever the two cuts take away afterwards, they
only shorten the omission records and raise the flag when they do (`AssembleIs`),
which is why a context without a flag names everything (`NothingDisappears`). Where
every item is required and costs one token, the flags and the count are those of a
sum (`CostOfRequired`), and with the reachable evidence of a run that sum is what
`PalHarness` counts (`ContextsAgree`).

**The argument for the record.** Whatever a step does to an operation, it leaves its
row and its trail alone, creates both, or advances both by one event (`Trails`; a
recovery of leases advances several operations, each by one). So revision and
length of the trail stay equal, what is there stays a prefix, and a receipt, which
names the last event of its time, stays true (`RecordInv`). Moves only climb
(`rank`): no state is entered twice, so no kind of evidence is used twice, and
none is accepted where no assignment is on record (`EvidenceInv`). A withdrawn
decision stays withdrawn because a snapshot names the approver of its proposal's
approval (`SnapshotsBind`), revocations are for good, and case truth only moves
forward: a case that has left the version a snapshot binds does not return to it.
The engine's proofs go the same way, with two differences: an operation may be
noted as assigned while its trail stays (a transition that throws after the note),
and an identifier of evidence is in one trail at most because every identifier of a
trail is in use (`EvidenceKnown`) and a new one is not.

**The argument for the routes.** Each request is at one place and knows what its next
step relies on (`Knows`): a target that exists, and for a run the second of its
source snapshot, which makes its decision inputs ones the sources produce. So each
step is one of the lifecycle or none (`StepKinds`), and `IInv` holds behind the
routes. `OneRecoveryUnlessOvertaken` is not inductive: what is unresolved now says
nothing of what may still be reserved. `RecoveryInv` adds two facts. The operation
that a run's guard read is settled, and what is settled stays so (`RunsGuarded`,
`SettledStays`). And of a case's operations only the latest captured can be
unresolved; while a proposal without an operation binds the present truth of the
case, none is (`OnlyLatest`). Committing a proposal establishes the second, since
the guard's target was then the latest or the run counts as overtaken. Reserving
that proposal uses it up: its operation becomes the latest, and any other proposal
that binds the same truth is a twin.

**The argument for the browser.** A load begins only where nothing works and an
action only where the case is ready, so `OneTaskAtATime` needs one more fact to be
inductive (`ActsWhenReady`): an action under way means that the screen is ready,
since nothing but a load, which cannot begin meanwhile, takes that away.
For what is shown, the server is taken apart from the screen: every step only
makes it grow (`ServerGrows`: proposals and operations are added at the end, and
an operation's revision and receipt only go forward). So an answer that was sound
when it was read stays sound, and `ViewInv` says of each place a task can stand
at what it knows: its case, a proposal and an operation that exist, and, since a
task begins on the case on the screen and only one is under way, that its answer
is not behind the screen. A load asks for a receipt only of the operation it has
just read. For `ReceiptBesideItsOperation` a second invariant says of the
operations shown, asked for and answered, and of every receipt under way, that
what is newer of its case was made by others (`LaterInv`). Only two steps could
take that away. A load's read of the case forgets what others made, but nothing is
newer than what it has just read. The dispatcher's own reservation adds an
operation that is nobody else's, but she is offered one only where the case shows
no operation, and so no receipt. For `ShownIsCurrent` the same places carry one more fact (`CurrentInv`):
while nobody else has moved and no report came late, what was read is what the server would answer now, up
to the receipt that the action itself is about to put on record or to read.

The types need a count. Every operation has a proposal of its own (`OneEach`), so
by the pigeonhole principle there are never more operations than proposals, and the
number that the screen shows stays in its bound. What an action on offer names is
there because a browser that has read a case holds a session, and what it has read of
the case names a proposal and an operation the server has (`SessionHeld`,
`BrowserTyped`).

**The argument for a quote.** What an answer was accepted for stays true of it,
since neither the request nor an answer changes once it is there. The invariant
says that a quote under way in its second solve has a first answer that every
check has passed, and a third part says what each result may rest on. The proofs
show from the code's checks that a step that occurs once is on an eligible
vehicle, and that a refusal which says infeasible came from the request or from
what the solver itself said.

**Only model-checked.** Liveness (`DispatchSettles`, `CallsEnd`, `RunEnds`, `WaitsEnd`,
`QuoteEnds`): it rests on fairness, which is outside the prover's reach. Every other
property of a passing run is a theorem or follows from one.

## 5. Plan

In order of what matters most:

1. *(done)* The durable lifecycle with worker and provider; the abstract
   specification; dispatch safety and refinement proved.
2. *(done)* `ProviderStore` against `AssignmentRegister`: modelled, checked, proved.
3. *(done)* `LifecycleEngine` with `SessionAuthority`: modelled, checked, and its
   safety and refinement proved as far as the table says.
4. *(done)* `PalHarness` over `RecoverySkills`, with `ContextAssembly`: modelled,
   checked, and its safety properties proved.
5. *(done)* `OperatorFacade` over the durable lifecycle: modelled, checked, shown to
   implement the durable lifecycle, and its safety property proved.
6. *(done)* `OperatorWorkspace`, the browser in front of it: modelled, checked,
   and its safety properties proved.
7. *(done)* `RecoveryRouting` with its untrusted solver: modelled, checked, proved.
8. Left: the server as the browser sees it (`OperatorWorkspace`) as a refinement of
   `OperatorFacade`, so that one theorem reaches from the screen to the provider.
9. The evidence events of `SimulatedDispatchConnector`; the static context compiler
   against a reference definition.

## 6. Not modelled

* **Recorded Salesforce sources**: fixtures read once and checked by schemas; what
  they may answer is `RecoverySkills`' input.
* **Static context compiler**: a pure function over documents that are part of the
  build; nothing changes while the server runs.
* **Evidence events of the simulated connector**: the events a demonstration plays
  back; the lifecycle takes evidence from anybody, in any order, and the models
  have it so.
* **Core API and bootstrap**: routing of HTTP calls, reading of the configuration,
  one-time setup. What a call does is the action it leads to.
* **Contracts and the recovery program, evals, testkit, scripts, black boxes**: types
  and schemas, and programs that drive the system from outside in tests.
* **The help drawer and the orientation of the browser**: they change nothing in a
  case. Topics are loaded without regard to one another, so an earlier topic's
  article can be shown under a later one's name; it is listed as a hazard.
* HTTP parsing, SQL payload comparison and hashing are data, not control.
