# Jobops: verification project

TLA+ models of the parts of Jobops where several processes, a browser, a human
and a crash can meet over one job application, their model checking with TLC,
and proofs with TLAPS. Jobops finds jobs, ranks them, prepares application
materials and, with permission, fills and submits forms on employers' sites.
What must never go wrong is at the end of that chain: **nothing is submitted
twice, nothing is submitted that nobody authorised, and nobody is told the
wrong thing about what was submitted.** The project starts there and follows
the chain back to the postings.

## 1. The system

`development_doc/ARCHITECTURE.md` names four business components (Job
Discovery, Job Prioritization, Application Preparation, Application Execution).
They sit on a small set of foundations that they all share.

### 1.1 Foundations

| Part | State | Operations | What makes it hard | What makes it correct |
|---|---|---|---|---|
| **Leases** `core/leases.py` | rows `resource, owner, token, expires_at` in SQLite; per holder a heartbeat task | `acquire`, `hold`, `hold_renewing`, `renew`, `assert_current`, `release`, `clear_expired` | the clock is read apart from the transaction; the heartbeat ends at the first error; holders die; successors | one holder per resource; "fresh" is never wrong; nobody removes a live row of another; a dead holder does not block for ever |
| **Event ledger** `core/event_ledger.py` | SQLite tables `runs` (versioned), `submission_intents`, `submission_evidence`, consumed permits, events, artifacts | `create_run`, `compare_and_set_state`, `create_submission_intent`, `transition_…`, `mark_…`, `consume_permit` | two unique keys of different scope; old hashes of the same posting; several processes; crash between two transactions | at most one standing intent per posting; transitions only forward |
| **Permits** `core/permits.py` | signing key; consumption rows in the ledger | issue, verify, consume for Gate A and Gate B; plan-scoped permits | expiry by the clock while life starts at a command's time; consumed before the intent is reserved | one consumption each, for one Review of one run |
| **Application Engine** `core/application_engine.py` | none of its own; writes ledger and leases | `submission_preflight`, `execute` with the callback `validate_and_reserve` | concurrent executions; a callback in the middle of an adapter; every await may fail; outcome and intent are written apart | one click per posting, authorised, reported honestly, leases given back, every execution ends |
| **Adapters** `adapters/` | a browser page | inspect, map, fill, validate, submit, verify | may stop, raise, or claim success anywhere | they press Submit only after the callback says so |
| **Record repositories** `core/private_home.py` and 56 `PrivateHome…Repository` classes | one JSON file per content-addressed record | `get`, `save` (`write_bytes_if_absent`), `list_for_subject` | in-process lock only; several processes; create, write, flush, fsync; a failure after the flush takes away what others have read; crash between | who is told it is created finds it for good, who is told it was there finds it or its writer has failed; one creator |
| **Production browser runtime** `core/production_browser_runtime.py` | state, context, count of pages, one row of the lease table | `start`, `lease`, `close` | one event loop, but cancellation at every await; `close` waits with a timeout for pages whose requests may never end and swallows the failures of what it closes; the row can be lost under a page | shutdown spares pages that were out, requests do not close each other's pages, everything that is opened is closed or its closing was tried, nobody hangs |
| **Browser broker** | lent sessions | lend, take back | | part of the engine's model |

### 1.2 Application Execution (P2c3 to P2c10)

`run_application_execution` (P2c7) calls four public stages in order: P2c3 fills
the form to Review under Gate A; P2c4 decides who may submit; P2c5 issues a
plan-scoped permit; P2c6 replays the form, compares Review and permit, consumes
the permit and submits through the engine. Each stage leaves an immutable
record whose name is a hash of what it is bound to. P2c8 derives from the run
records whether a Plan is READY, DEFERRED, FAILED, SUBMITTED or
SUBMISSION_UNCERTAIN; P2c9 works off one snapshot of that queue; P2c10 runs a
whole cycle on one timestamp. Stages of different processes share the records
and the ledger and nothing else. Hard here: every stage reads, awaits and
writes; the time is the command's, not the clock's; a spent permit without a
record; a crash between any two records; a new bundle while an old run is on
its way. Correct is: a click is backed by the chain permit → decision →
execution → approvals; COMPLETED means clicked and proven; all completed runs
of a Plan tell of one submission, and after the first nobody starts another.
The queue is not what ensures that: it knows run records only, so a Plan whose
call clicked and died before its run was recorded is READY again, and the next
run is stopped by the ledger (the posting has a standing claim).

### 1.3 From a posting to a bundle

| Part | State | Operations | What makes it hard | What makes it correct |
|---|---|---|---|---|
| **Single-job prioritisation** `core/single_job_priority.py` | one orchestration record per binding (the claim), proposals, decisions | claim, call the Agent, gate, complete; release or fail the claim | the claim is created before a long model call; its file is written in place; crash | one Agent at a time per binding; a completed claim has its decision and is never taken back |
| **Application preparation** `core/application_preparation_orchestrator.py` | one run record per call | find the current run, 18 stages in order, record | every stage may refuse; two calls prepare one Plan; the current run is the latest by the command's time | COMPLETED means every stage and every role; only a stored, completed run is handed on |
| **Bundle assembly** `core/application_bundle_assembly.py` | assembly record and envelope | check inputs, replay, save, seal | two writes, the second may fail or never come | who is told "assembled" finds both; a lost envelope is reported, not papered over |
| **Batches and queues** `core/selective_*.py`, `core/*_queue.py` | none; views of the records | refresh priorities, create Plans, prepare, assemble, execute | a batch works off a snapshot while records change | each item rests on what the snapshot said |
| **Automation cycle** `core/automation_cycle.py`, **Job Library refresh** `core/job_library_refresh.py` | one run record per invocation | the stages with their budgets on one timestamp; the record is written last | the same invocation in two servers; crash before the record; a record that is whole and then fails its fsync | one outcome per invocation; the chain bundle → preparation → Plan → decision holds whatever overlaps |

### 1.4 The rest

Discovery reads job boards; the dashboard and `jobctl.py` are front ends;
corrections and facts transform documents; `main.py`, `utils/` and some of
`adapters/` are the legacy pipeline. `PROJECT.json` lists every component with
what is modelled of it and why the rest is not, and 40 hazards, each at its
line, with the properties that would notice.

## 2. The modules

```
LeaseTable  <-- Leases .................. LeasesProofs
                 (LeaseTable's holders, seen without clocks)
SubmissionPromise <-- ApplicationEngine . ApplicationEngineProofs
       ^---- <-- ApplicationExecution ... ApplicationExecutionProofs
                 (its ledger is SubmissionPromise)
WriteOnce   <-- RecordStore ............. RecordStoreProofs
BrowserRuntime .......................... BrowserRuntimeProofs
Calls - PriorityScoring, Preparation, BundleAssembly ... ComponentProofs
          \_______________|_______________/
Evidence    <--       Automation ........ AutomationProofs
```
`A <-- B`: B is shown to implement A. MC modules add constants and symmetry.

**LeaseTable** is what everybody else may assume of leases: grant, extend,
lapse, vacate, sweep. **Leases** has one sequential Worker per process, because
everything in a process runs on one event loop and LeaseManager is synchronous.
`acquire` and `renew` capture the clock in one action (`AcquireStart`,
`RenewStart`) and commit in another; `assert_current` reads the row
(`AssertRead`) and then the clock (`AssertCheck`). `pc`, `mine`, `at` and
`seen` are the locals of `hold_renewing`, the guard's token, the captured clock
and the row just read; `beating` is the heartbeat task.

**SubmissionPromise** says what a submission ledger is for: stake a claim,
press, confirm, withdraw. **ApplicationEngine** is `execute`, one Call per
invocation, with `pc` at each SQLite transaction, read or await. `RunLease` and
`BrowserLease` enter the lease stack, `ReadRun`/`WriteRun` are
`_record_outcome` (a read and a compare-and-set, apart), `ReachReview` the
first run of the adapter, `Decide` Gate B, `CheckLease` to `Start` the callback
`validate_and_reserve`, `Click` to `MarkUnknown` the adapter's submit and the
settling of intent and outcome, `Unwind` the stack. `Fails` is an exception
that `execute` does not catch (section 5), from any of these places. `Abort`
and `Attest` are the human at the command line. Leases are LeaseTable's without
a clock: a held lease may lapse at any time.

**ApplicationExecution** is the pipeline: `Begin` (a batch with its snapshot,
or a direct call), `Open` (replay of a terminal run), `C3…`, `C4…`, `C5…`,
`C6…` (the stages up to the point where another process can interfere), `End`
(the run record). Its ledger is SubmissionPromise, instantiated for one
posting, so nothing it relies on in the engine is more than ApplicationEngine
is proved to keep. Records are functions or sets that only grow: a
save is one step here, which leaves out what RecordStore shows can happen
within it (section 5).

**WriteOnce** and **RecordStore**: one record file; `Create`
(`O_CREAT|O_EXCL`), `Write` (write and flush: whole, and visible to all), `Sync`
(fsync and close), `WriteFails` (any exception in these: unlink, of a torn file
or a whole one), `Look` and `Read` are the file-system calls of
`write_bytes_if_absent` and of `get`; `lock` is the RLock of the repository, one
per process; a `Crash` leaves what is there. In WriteOnce a content is offered,
then settled or withdrawn; its creator is told when it is settled, others may
be told before.

**BrowserRuntime**: an action is what happens between two awaits. `Start`,
`Drive`, `Launch`, `Tidy`, `StartFails` are `start` under its lock; `Ask`,
`PageAppears`, `NewPage`, `EndUse`, `ClosePage`, `CountOut`, `Release` are
`lease` from the row to the row; `Close`, `DrainTimesOut`, `TakeContext` are
`close`, and `CloseContext`, `StopDriver` are `_close_resources`, which a
failed start and a close go through alike; each may raise, which the code
swallows, and leave its browser or driver running (`jammed`, `stalled`).
`CancelCaller` and `CancelRequest` cancel whoever awaits something, and skip
what the code's `finally` blocks skip. `active` is `_active_count`, `baseline`
the set of pages open when a lease began, `holder` the lease row.

**PriorityScoring** goes through the record file of one binding: `ReadClaim`,
`CreateClaim`, `WriteClaim`, `RereadClaim`, then `AgentAnswers`, `GateDecides`,
`CompleteClaim`, each of which can fail and then release or fail the claim.
**Preparation** finds the current run (`FindCurrent`), succeeds or stops stage by
stage and stores one run. **BundleAssembly** checks, replays, saves and seals,
with the two writes apart. Each has its own `Spec` over its own variables.

**Automation** owns the postings, Plans, cycle records and the state of its
calls, and composes the three: a call hands one job, Plan or run at a time to a
component and awaits the answer; a crash (`Crash`) ends the call and whatever
component call it was in. The run of an invocation is saved as RecordStore
says: `CreateRun`, `WriteRun`, `SyncRun`, `SaveFails`, `CompareRun`; `torn` are
the files that are not whole, `withdrawn` the whole ones that were unlinked
again. `serves` says which invocations a server is asked for. Queues are taken
in one step from all records and kept while the records go on changing.
**Evidence** is what it leaves behind, without calls, queues, files, failures
or crashes: decisions, Plans, completed preparations, assemblies and sealed
bundles, each established once and resting on the one before it, and one
outcome per invocation. `Decided`, `PreparedInputs` and `Settled` are the
refinement mapping: a decision counts once its claim is COMPLETED, a
preparation once a COMPLETED run is stored, an outcome once its file is whole
and its save over.

Definitions named `Slip…` are mistakes one could make in the definition they
precede. They are used by no specification; `PROJECT.json` pairs each with the
property that notices it ("mutants").

## 3. What is checked

| Run | Question | Bounds, and why they suffice | States |
|---|---|---|---|
| `leases` | are the promises of the table kept by split clocks and transactions, and is a dead holder replaced? | 1 resource (rows do not interact), 2 workers, TTL 2, time 0..3, 1 crash: a row can be born, renewed, expire, be replaced and swept while a slow worker still holds an old clock value; 4 tokens are two per worker | 1,174,088 |
| `engine_one_run` | safety of two overlapping executions of one run | every Gate B mode, 2 Reviews (so that one can change), lent browser; crash, cancellation, failing ledger and human at every step | 2,368,953 |
| `engine_two_runs` | the same when run leases no longer exclude, and does every execution end? | 2 runs of one posting, 1 of a posting submitted under an old hash; `TwoRunsSpec` drops the half of the behaviours in which the two calls change places | 426,785 |
| `engine_unknown`, `engine_verified` | findings, see below | | |
| `record_store` | what may a caller rely on with two processes, failures before and after the flush, crashes; does every caller get an answer? | 4 calls (two in one process), 2 contents | 458,967 |
| `record_store_torn` | finding | | |
| `execution_batch` | two batches that both saw READY; a human's Gate A | 2 calls, 2 Reviews, 2 bundles, no passing of time | 2,861,612 |
| `execution_approved` | a human's Gate B, permits that expire; does every run end? | 2 direct calls, 2 bundles, time 0..1, TTL 1 | 344,824 |
| `execution_uncertain` | finding | | |
| `automation` | do cycle, refresh and the three components keep the evidence chain, and implement Evidence, when they overlap and fail? | 1 job in 2 revisions, 1 cycle and 1 refresh; 2 servers, one asked for the cycle and the other for the cycle, too, or for the refresh, so that two prepare, assemble and save at once; 1 mishap, 3 stages with one role, budget 1 | 1,214,541 |
| `browser_runtime` | what do shutdown, cancellation and a lost row do to pages? | 2 requests, 1 starter, 2 closers, 2 mishaps: one to lose the row or be cancelled, one to fail after it | 212,949 |

Two actors are enough for the properties of pairs (two claims, two clicks, one
permit spent twice, two pages); a third contributes only a repetition of either
role. The smallest interesting values are used for the rest: two of whatever
can change (Review, bundle, content, revision), TTL at least one tick. The
theorems of section 4 remove all these bounds from the safety properties.

The properties that carry the project:

- `AtMostOneClick`, `KeepsThePromise` (engine): one posting, one unaborted click.
- `ClickIsAuthorised`: in the engine, permit, intent and approval of the very
  Review; in the pipeline, the chain of records back to the humans.
- `OutcomeIsHonest`, `ClickIsNotDeferred`, `CompletedIsProven`: what callers
  and records say of a click is true, also after exceptions and conflicts.
- `PlanSubmittedOnce`: repeated commands, stale snapshots, new bundles and two
  permits for one decision end in one submission of a Plan.
- `FreshMeansHeld`, `LiveRowIsItsHoldersOwn`: leases under unlucky clocks.
- `ToldIsStored`, `OneCreator`, `StoredStays`: records. What a creator was told
  holds for good. What a reader or a second saver was told holds unless the
  save that wrote the file fails its fsync or close after them.
- `EvidenceChain`, `ScoringInv`, `PreparationInv`, `AssemblyInv`,
  and the `ToldIsStored` of cycles: what a bundle rests on still stands, whatever
  overlaps, fails or crashes. `KeepsTheEvidence` says it at once, as the
  refinement of Evidence: links appear one at a time and in order, and none is
  ever changed or taken back.
- `DrainSparesLeases`, `PagesKeepApart`, `ShutdownIsComplete`,
  `LeaseCleansUp`: the browser.
- liveness: `DeadHolderIsReplaced`, `EveryCallEnds` (twice),
  `EveryCallAnswers`, `NobodyHangs`.

**Fairness.** Executions and stages: weak fairness of each call's own steps.
Everything they wait for has a timeout in the code (page timeouts, SQLite's
busy timeout) or raises, and one event loop runs them. Nothing is assumed of
humans, of crashes or of how an adapter ends. Leases: time passes, an opened
transaction ends, a dead process is restarted and somebody keeps asking;
holders need not renew or leave. Record store: each thread runs; the calls are
finitely many, so that an RLock that is given back is in the end free. Browser:
the event loop runs, the browser answers or its timeout fires; the body of a
lease may go on for ever and nobody need ask, start or close. Automation is
checked for safety only: its calls wait for Agents and compilers of which the
model assumes nothing. `CHECK_DEADLOCK FALSE` is set because all calls may have
ended.

**Findings** (quoted in `PROJECT.json`):

1. `engine_unknown`: a run recorded SUBMIT_UNKNOWN without an intent is not a
   hard stop for the engine, which asks only for intents.
2. `engine_verified`: executing a SUBMITTED_VERIFIED run again overwrites its
   state (SKIPPED_POLICY, or FAILED_RETRYABLE for want of a lease).
3. `record_store_torn`: "create atomically" is create-then-write; a reader in
   between, and everybody after a crash in between, gets INTEGRITY_FAILURE. For
   the same reason ("Create one private file atomically", private_home.py:604)
   a reader can be told of a record that is then unlinked because its writer's
   fsync failed; the properties of `record_store` say so instead of promising
   more.
4. `execution_uncertain`: when the adapter raises after the intent was
   reserved, P2c6 compares an absent Review hash with the permit's and answers
   FAILED with no record, where the rules promise SUBMISSION_UNCERTAIN. The
   engine's intent guard still prevents a second click; the queue does not know.

Differences met while modelling that no run is devoted to; the models follow
the code, and the properties above say what holds instead:

- "Shutdown … waits boundedly for active leases" (DOMAIN_AND_RULES.md:866): a
  lease between its row and its first page is not counted and not waited for
  (hence `late` in `DrainSparesLeases`).
- "The page is closed … on success, failure, exception or cancellation" (:858):
  a cancellation during `new_page` or during the closing of a page leaves the
  page, and in the latter case the count, behind (hence `cancelled` in
  `LeaseCleansUp`; the shutdown's timeout is then what ends it).
- A runtime that says CLOSED may have left a browser or a driver behind whose
  closing raised: `_close_resources` counts that and goes on (hence `jammed` and
  `stalled` in `ShutdownIsComplete`).
- "Replay is UNCHANGED" for decisions (:897): the content hash includes the
  time, so deciding again later answers an integrity failure (`C4Decide`).
- A cycle with a stage that FAILED as a whole can be COMPLETED, because only
  failed items are counted (`OverallOf`).

## 4. What is proved

For every value of the constants, from the `ASSUME`s in the modules (types, and
that `None` is not a member of the sets it is used beside; Ttl ≥ 1; finitely
many requests, jobs and calls where they are counted). Every safety property of
every passing run is a theorem, and beyond them what the liveness properties
rest on and a few consequences no run is devoted to:

- **LeasesProofs**: `TypeOK`, `LeaseInv`, `FreshMeansHeld`,
  `LiveRowIsItsHoldersOwn`, and that Leases implements LeaseTable.
  "Fresh" is not inductive: between reading the row and the clock others act.
  `LeaseInv` adds that tokens of workers differ, that a worker's row expires no
  later than the clock its worker captured plus Ttl, and that what was seen and
  is still in the future is still there, since nobody may replace a live row,
  and only its owner, who is busy asserting, may renew it. `OrphansRunOut`: no
  row outlives the clock by more than Ttl, and a dead process's row is neither
  prolonged nor replaced nor swept before it has expired.
- **ApplicationEngineProofs**: `TypeOK`, `AtMostOneClick`, `ClickIsAuthorised`,
  `OutcomeIsHonest`, `VerifiedRunHasProof`, `NothingLeftSubmitting`,
  `LeasesReturned`, and that the engine implements SubmissionPromise.
  `EngineInv` walks back from the click: an intent before it, one standing
  intent per posting, a consumed permit and an approval before the intent, an
  earlier invocation's Review before the approval. `ReportInv` goes forward
  from the click: what an invocation knows of its intent at each line until it
  has written its outcome, which another may meanwhile abort, attest or
  contend for. `StackIsUnwound` says which leases are held at which line.
  `OnlyAHumanReopensAPosting`: what a dead or finished invocation left standing
  is moved on by a human alone, nobody reserves beside it, and what is proven
  stands for good.
- **RecordStoreProofs**: `TypeOK`, `StoreInv`, `ToldIsStored`, `OneCreator`,
  `StoredStays`, and the implementation of WriteOnce. The strengthening: whoever
  works inside holds its process's lock; from creation to fsync a writer is the
  only one, the file is partial before the flush and its content after it, and
  nobody has been told CREATED. `TornRecordsAreLost` is the price: a file whose
  writer died before the flush stays torn, and no call under that id ever
  answers a value.
- **ApplicationExecutionProofs**: `TypeOK`, `ClickIsAuthorised`,
  `CompletedIsProven`, `ClickIsNotDeferred`, `PlanSubmittedOnce`, and that the
  pipeline implements SubmissionPromise. `ChainInv` follows the records from
  the Gate A receipt over execution and decision to the permit a call holds;
  each link is written once and stays, so what was true when one call passed it
  is true when another clicks. `ClickInv`: a permit is paid with by one call,
  for the Review it names, before a claim is staked. `RecordInv` goes back from
  the click to the engine's answer, the submission record, the result of P2c6
  and the run record; that they speak of the same permit follows from the order
  in which stages get results. `PlanSubmittedOnce` needs records, permits and
  the ledger's promise together: all completed runs of a Plan name one permit,
  and after the first of them nobody stakes a claim and none is taken away.
  `UnspentPermitsSubmitNothing`: an outcome judged without a spent permit is
  never a submission, so the check of P2c6 for that case guards against an
  engine that breaks its contract.
- **BrowserRuntimeProofs**: `RuntimeTypeOK` and the four safety properties.
  `BrowserLife` is browser and driver by who holds the lock (starting, running,
  stopping) or what is left of them (`Left`), `RowIsHeld` says who holds the
  row at which line, `PageIsCovered` that an open page is in use, about to be
  closed, or excused, and `CountIsSound` that the count is at least the number
  of pages that are out and at most the number of requests that got one,
  whatever a cancellation skipped.
- **ComponentProofs**: the type invariants, `ScoringInv` with
  `CompletedIsFinal`, `PreparationInv`, `AssemblyInv`, that a lost envelope
  stays lost, and that a claim nobody is at work on is never taken over
  (`AbandonedClaimsStay`). For scoring, a lemma lists the effects a step can
  have on a claim (create, complete, give up); for assembly, `SealingInv` adds
  what a call has written at each line.
- **AutomationProofs**: every step of the composition is a step or a stutter of
  each component, so their invariants carry over; with them `IInv` shows
  `EvidenceChain` and `ToldIsStored`. `SaversAreAlone` is what the latter needs:
  from creation to fsync one server is at work on the file of an invocation,
  and nobody has been told that he stored it. `CallsFollowTheChain` is the
  strengthening: what a call has in hand is already backed by the stores, which
  never lose what a later stage rests on; `TakenJobsAreListed`: a posting never
  leaves the library. `AutomationKeepsTheEvidence` is the refinement of
  Evidence: a step of a call changes one kind of fact at most (`OneKindOfFact`),
  and each of these changes is a step of Evidence because `IInv` has what it
  rests on. `BudgetsAreKept` is about numbers the runs do not reach: no batch
  has more to take than its budget, and as no stage comes twice and no batch
  grows, none takes more. `FirstAreFew` counts the first n of a queue by what
  is before each, which needs the queues' orders to be strict and total; for
  bundles, which are ordered by Plan, that takes an invariant of its own
  (`BudgetInv`): a call has one run ready for a Plan, because a Plan leaves the
  preparation batch with its answer.

**What keeps things moving.** The provers have no rule for fairness or ENABLED
here, so the liveness properties themselves are only model-checked. What they
need of the code beside fairness is proved: a rank, bounded for every value of
the constants, that falls with every step of whoever is waited for and rises
with no step of anybody.

| Property (TLC) | What is proved | The rank |
|---|---|---|
| `EveryCallEnds` (engine) | `EveryStepLeadsToTheEnd` | 28 places of `execute`, and the rows still on the lease stack; `_record_outcome` is passed twice at most |
| `EveryCallEnds` (pipeline) | `EveryStepLeadsToTheEnd` | the places of P2c3 to P2c7 |
| `EveryCallAnswers` | `LocksComeFree` | four file-system calls; a held lock has a holder at work |
| `NobodyHangs` | `ShutdownsAndLeasesGoOn` | the awaits of `close` and of a lease, and the pages still to be closed |
| `DeadHolderIsReplaced` | `OrphansRunOut` | the ticks until the row's expiry, at most Ttl |

So nothing can go round in circles, whatever number of calls take part; what is
left to TLC is that a call that has not ended always has a step it can take.

Theorems that state no property of a run were checked with TLC, too, under the
configurations of the runs of their modules or similar ones (`BudgetsAreKept`
with two jobs, two cycles and budgets of one and two, 3,323,107 states); two of
them also for being about something: torn records, and two completed runs of
one Plan, do occur.

Only model-checked: the liveness properties. Hash functions, signatures and
JSON are taken to be injective and total; recursive data is not used.

## 5. Abstractions

- A Review is its fingerprint, a bundle its number, a permit and a Gate A
  receipt the call that made it, a posting its durable hash.
- Adapter results that the engine treats alike are one.
- ApplicationExecution looks at one Plan of one posting. Its inputs (Plan,
  posting, bundle envelope) are readable; a run that fails on reading them
  changes nothing. Time of a batch is the time of its snapshot.
- Whether an outcome that stopped early carries the Review's hash is a free
  choice; so is every failure of a token store, a database or a browser.
- What escapes `execute` as an exception: a failing ledger (reads, writes of the
  run row, `mark_submission_unknown` and `mark_submission_verified` at lines 721,
  795, 802) anywhere but inside the adapter's second run, whose exceptions are
  caught at line 705; a cancellation at any await, also of that second run,
  since CancelledError is no Exception; and a status a human has changed in
  between. `Fails` is all of these at once, and leaves what was committed. Hence
  `NothingLeftSubmitting` is about invocations that answer. A release of a lease
  that fails is like a crash: the row stays until it expires, as in Leases.
- Saves are step by step in RecordStore and for the run records of Automation.
  Elsewhere (Plans, preparation and assembly records, decisions, the records of
  P2c3 to P2c7) a save is one step that happens or does not. So `AssemblyInv`,
  `PreparationInv`, `EvidenceChain`, `KeepsTheEvidence` and the properties of
  ApplicationExecution assume that no fsync or close fails after its flush; where
  one does, a record another process has already read may be gone.
  PriorityScoring has the torn claim and the reader in between.
- Claims are confirmed by evidence or by a human; evidence itself is not looked
  at.
- A priority binding is a job, the revision of its posting and the command's
  time; policy and candidate summary are fixed. A Plan is the decision it was
  made of. What an Agent, a compiler or a check returns is a free choice.
- The 18 stages of preparation are a number of stages; those the orchestrator
  treats by name keep their position (layout revision after the visual check,
  three that complete a role).
- Automation's last stage answers anything; ApplicationExecution is its model.
- The browser's row is its holder, and its loss is a mishap; Leases is its
  model. Pages a site opens by itself are left out.
- `MaxTime`, `MaxCrashes`, `MaxMishaps`, `MaxRevision`, `MaxAssembly` are
  bounds of the models, not of the code.

## 6. Not modelled

- **Dashboard** (`src/dashboard/`): an HTTP and websocket front end over the
  services that are modelled; its controllers join requests of one invocation
  that are in flight in one process, and Automation has the harder case of two
  processes.
- **Corrections, facts, profile**: single-step transformations of documents
  and forms, each stored by the record protocol of RecordStore; what could be
  wrong in them is in the content.
- **What the stages of preparation do** (tailoring, fact checks, LaTeX,
  visual checks), **what adapters do with a form**, **what discovery reads**:
  functions of model output, pages and PDFs. Their outcomes are free choices,
  which covers the control around them and says nothing of their content.
  They are most of the code, so the share of its lines that the definitions
  stand for is small although the control above them is complete.
- **Scheduler, node worker, legacy pipeline, authentication, mail**: apart from
  the chain of evidence; see `PROJECT.json`.
- Several Plans in one batch are modelled and proved about, but no run has
  them: Plans share nothing but budget and time, and `BudgetsAreKept` holds for
  any number of them.

## 7. What could come next

A run on "Replay is UNCHANGED" for decisions; a run with several Plans per
batch, for the order in which they are served; the browser's row as an instance of
LeaseTable, so that the loss of the row is Leases' and not a mishap; the
dashboard's joined invocations above Automation. Proofs that suggest themselves:
that a call of the engine or the pipeline that has not ended has an enabled step,
stated without ENABLED as a disjunction of guards, which together with the ranks
leaves only the fairness rule itself unproved; and a refinement between
ApplicationEngine and the ledger half of ApplicationExecution's C6 steps.
