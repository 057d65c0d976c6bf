# A TLA+ model of the carbon platform's backend

The backend (`src/backend/app`) keeps greenhouse-gas inventories of many
tenants: activities are entered or imported, a calculation run resolves emission
factors and computes results, people review, approve, lock, restate and report.
Long work runs through a durable queue in PostgreSQL. Processes share nothing
but the database, and almost every handler is a READ COMMITTED transaction that
reads, decides and writes without row locks. What could be wrong is therefore
less in any one handler than in what other transactions commit between its read
and its commit, and in sequences of legal calls. The models are about that.

## Inventory

| Component | State | Operations | What makes it correct | Modelled in |
|---|---|---|---|---|
| Durable queue and worker loop (`services/workloads.py`, `workers/registry.py`, `api/routes/workloads.py`) | `durable_workloads` rows | enqueue, recover leases, lease, mark running, heartbeat, succeed, fail, cancel | bounded attempts, fencing of late workers, tenant limit and scope, outcomes that stay, every job settles | `Workloads`, `WorkloadDelivery` |
| Governance (`services/inventory_governance.py`, `scope3_governance.py`) | approvals, locks, restatements, reports, dispositions, `inventories.status`, audit events | submit, review, decide, lock, restate, report | segregation of duties, a recorded approval behind every released status, immutable locks, one final report, restatements that end | `InventoryGovernance`, `GovernanceLedger` |
| Activities (`services/activities.py`), calculation runs (`services/calculations.py`) | activity records with versions, runs | create, update, calculate | one current version of a source record, results that belong to today's values | `Activities`; their guard in `InventoryGovernance` |
| Totals (`services/workflows.py`, `calculations.py`, `inventory_governance.py`) | none | dashboard, run summary, report | one number, whichever place works it out | `Totals`, `DataReview` |
| Review and conversion (`services/data_review.py`), comparator (`services/data_comparisons.py`) | reviews, comparisons, converted results | start, decide, convert, compare | one conversion per emission and group, references that stay | `DataReview` |
| DATa integration (`services/data_integration.py`), accounting connections (`services/accounting_connections.py`) | mappings, batches, errors, upserted rows, connections, sync jobs | map, process a batch, replay, connect, queue a sync | idempotency, whole batches, rows that are what their hash names | `DataIntegration` |
| Sessions and identity (`services/session_auth.py`, `services/identity.py`, `api/routes/security.py`) | accounts, memberships, roles, invitations, refresh sessions, challenges, resets | log in, verify, rotate, log out, unlock, reset, enrol, onboard, invite, accept, assign roles, deactivate | rotation that ends the old token, invitations accepted whole, roles as assigned | `Identity` |
| Methodologies (`services/methodologies.py`, `methodology_packs.py`, `methodology_governance.py`) | versions and packs with a status | draft, submit, review, approve, activate, retire | three people, one active version, approved packs that do not overlap | `Methodologies`, `MethodologyPacks` |
| Factor sets (`services/emission_factors.py`) | sets, import jobs, persisted resolutions | import, approve, supersede, resolve | a chain of supersession that ends in a set in force | `FactorSets` |
| Factor resolution (`factors/resolution.py`, `services/factor_resolution.py`) | none | score, select, classify the outcome | the best fitting factor, and only when one is best | `FactorResolution` |
| Boundaries (`services/boundaries.py`) | a boundary and its memberships | add, update, change the approach, approve | shares that follow from approach and facts | `Boundaries` |
| Periods and inventories (`services/workflows.py`) | reporting periods, inventories | create | one base year, versions without gaps | `ReportingSetup` |
| Controlled migrations (`db/migration_control.py`, `scripts/run_controlled_migrations.py`, `alembic/env.py`) | schema revision, advisory lock, evidence | validate, lock, upgrade, check, record | one upgrade at a time, evidence that is true | `MigrationControl`, `SchemaHistory` |
| Connection budget, rate limit, engine and units, dual runs, exports, e-mail, health, UI, deployment | | | | not modelled, see below |

How they interact. `data_review.convert_review`, `calculations` and
`inventory_governance` all write `inventories.status`; `activities`,
`calculations`, `data_review` and `scope3_governance` read it as a guard. A batch
of `data_integration` writes the emissions that `data_review` converts. Factor
resolution reads the sets that `emission_factors` approves. Worker processes
and the API share the queue's rows only. Migrations touch the schema while
nothing else of the program runs in their process. Calls are HTTP requests;
the order in which they arrive is up to people, so nothing about them is fair.

The hard behaviours, by line, are the `hazards` of `PROJECT.json`: counts that
are stale when acted on, a row loaded before it is locked, lease expiry racing
a late result, crashed workers and jobs, two requests of one kind between read
and commit, a DELETE that does not see another transaction's INSERT, guards that
are stale at commit, tokens and batches that are sent twice, and sequences of
requests that undo an earlier guarantee.

## Modules

| Module | Models |
|---|---|
| `Workloads` | the queue, its worker processes, producers, the cancel route and the clock |
| `WorkloadDelivery` | the abstract promise of the queue for each job: submit, try, report, give up, cancel |
| `WorkloadsProofs` | theorems about `Workloads` |
| `MCWorkloads` | values for TLC: tenants of the jobs, symmetry of the processes |
| `InventoryGovernance` | one inventory and its replacements from data entry to audit report |
| `MCInventoryGovernance` | symmetry sets for the three runs that contradict a document |
| `GovernanceLedger` | the abstract promise of governance: a book of approvals, locks, replacements, completions and reports |
| `MCGovernance` | five small instances of `InventoryGovernance` in one run |
| `Requests` | requests in flight: what they loaded, the partial UPDATE, the rollback |
| `DataReview`, `DataIntegration`, `Identity`, `Methodologies`, `MethodologyPacks`, `FactorSets`, `Boundaries`, `Activities`, `ReportingSetup` | one component each, on top of `Requests` |
| `FactorResolution`, `Totals` | two algorithms, over every small input |
| `MigrationControl`, `MigrationControlProofs` | migration jobs, their lock and subprocess; theorems about them |
| `SchemaHistory` | the abstract promise of controlled migrations: a schema that goes up, and what is claimed of it |
| `DataPlatform` | what brings data in and adds it up, side by side: review, import, boundaries, activities, setup, resolution, totals |
| `ControlPlatform` | what controls the platform, side by side: identity, methodologies, factor sets, packs, migrations |
| `MCDataPlatform`, `MCControlPlatform` | values for TLC |
| `InventoryGovernanceProofs` | theorems about `InventoryGovernance` |
| `ImportedDataProofs`, `RecordedDataProofs` | the parts of `DataPlatform`: review and import; boundaries, activities, setup, resolution |
| `DataPlatformProofs`, `ControlPlatformProofs` | theorems about `DataPlatform` and `ControlPlatform` |
| `NumberLemmas` | least and greatest numbers, induction as a lemma about sets, sums over finite sets |

Operators whose comment begins with *Mutant:* are not part of the
specifications. Each is one definition with a plausible bug, listed under
`mutants` of `PROJECT.json` with the property that breaks when it replaces the
definition.

### Workloads

A row of `durable_workloads` is one entry of `status`, `attempts`, `owner`,
`expires`, `scheduled`. A job is a (tenant, idempotency key) pair, numbered in
claim order (`priority desc, created_at asc`). Time is relative: `expires` and
`scheduled` are distances from now, `Tick` moves all of them, and `age` is how
long ago a worker's lease call read its clock (it uses that one reading, `current`,
to the end). `Older` cuts distances off where no comparison can tell them apart.

A worker's `pc` follows `run_one`: `Recover`, `SelectCandidates`
(`FOR UPDATE SKIP LOCKED`: rows in any worker's `held` are skipped), `CountActive`
(one candidate at a time, as the code counts anew for each) and `Claim` are the
statements of one `lease_next_workload` transaction, in which other workers'
commits are visible (READ COMMITTED). `MarkRunning`, `Heartbeat`, `Succeed`, `FailFinal`
and `FailRetryable` each re-read the row under a lock and are atomic; they act
only if `HoldsLease`. `Crash` ends a process at any point: what was not committed is
gone, the row locks are released, a committed lease stays. `EndCall` is the return from `run_one`, with which the
session, and with it every row lock, is gone; tests and the capacity harness are its only callers here.
`CancelRead`/`CancelCommit` are the two selects of the cancel route; the second waits for the row
lock, but decides on the status the session loaded first. `EnqueueRead`/`EnqueueInsert` are the
check and the insert under the unique index.

Left out: payload signing and schema validation (they end in `FailFinal`), the
workload type scope (it is a filter of the same form as the tenant scope), result payloads.

### InventoryGovernance

Each handler is a read action (its guards; what it loaded stays in
`request[s]`) and a commit action (its writes, from what it loaded). Between the two anything may be
committed by other sessions. SQLAlchemy's unit of work (`autoflush=False`, one
commit) writes only the attributes that differ from what was loaded, which is
`Write`. Unique constraints are guards of the commit (`VersionFree`, `LockFree`, `Reported`); a
violated one is `Fail`, a rollback. Submission and reports have a middle
step, because they look for an existing row first and take a version number
later. `trail` is the audit events of decisions; those of a restatement
name its replacement, as their `event_data` does (`inventory_governance.py:796-818`, `:862-872`). `lock[i].data` is
history: the activities at the time of the lock, to compare with later ones.

Inputs: who calls, which decision, whether a calculation completes, whether the
evidence, boundary and lineage controls hold, whether a report is to be final and on which Scope 2 basis
(which is in its hash, so that each basis has its report). Activities are
two counters (how many, how often edited): no property tells more apart. Roles
and the materiality threshold decide only whether a request is accepted and are
left open. CALCULATING is flushed and overwritten in one transaction, so no one sees it.
`MaxActivities`, `MaxEdits`, `MaxPreparations` and the sets of ids are bounds.

`GovernanceLedger` knows no requests. Its book is read from the tables and the trail:
`ApprovedPairs` (which approvals were decided for which inventory), `LockedOn`, `Replacements`
(of which restatement and which original an inventory is the replacement), `Completions`
and `Editions` (the reports). An entry is made only on the strength of what is in the
book: a lock, a report and a restatement need an approved pair, a completion needs a
replacement that has been released, a replacement is new, a number follows the last.

### Requests and the modules on it

`Receive` puts what a handler has loaded into `request[s]`, `Done` ends it with
its commit, `Fail` rolls it back, `Continue` is a step in between, where the code
flushes, waits for a row or reads once more. `Update` is the UPDATE of the
unit of work: of the attributes a handler sets only those are written that
differ from the *loaded* row, the rest keeps what was committed since.
`ServeAtOnce` is for handlers whose commit depends on nothing that another one
could change in between. `MaxRequests` bounds the requests received in all.
A request that is refused changes nothing and has no action. Variables called
`contested`, `torn`, `stale`, `overlapped`, `overlaps`, `collisions`, `crossings`
are history, not state of the program: they record *which* rows two requests
wrote across each other, so that a property can be exact about everything else.

* **DataReview.** `LoadUpsert`/`CommitUpsert` and `LoadClassify`/`CommitClassify`
  are an emission's row, changed by a batch or by a reviewer. `CreateReview` is the
  commit in the middle of `get_or_create_review`; `LoadSync`/`CommitSync` create the missing
  reviews in one commit, refused whole by the unique constraint. `LoadStart`,
  `LoadDecide`, `CommitReview` are start and decision. A conversion is
  `LoadConvert` (rows), `CheckConvert` (the scope, the date, the group, the
  activity, and the version of the run) and `CommitConvert` under
  `uq_calculation_run_inventory_version`, `uq_activity_source_version` and the two
  unique constraints of comparisons. Activity, run, result and
  comparison are one row of `results` each time, since they are one commit. The
  comparator is `LoadCompare`, `CompareRun`, then `CommitReady` or
  `CommitUnavailable`. `Govern` stands for the approval and lock of `InventoryGovernance`,
  the composition through `inventories.status`.
* **DataIntegration.** `Map` maps a customer. `LoadBatch` reads with the guard
  on the idempotency key, `CommitBatch` inserts batch, errors and rows under the
  unique constraints (`KeyFree`, `InsertsFree`); `LoadReplay`/`CommitReplay` mark a repeated one.
  `ObjectAfter` folds the records of the batch over a row in order, as the
  session's identity map does. `LoadConnect`, `Authorise`, `LoadSync`, `CommitSync`
  are accounting connections and their queued jobs.
* **Identity.** One unit of work per request: what it sets of the account, the
  sessions it revokes, what it issues (`Work`, `CommitAccount`). The role
  assignment is a DELETE, INSERTs and a commit (`DeleteRoles`, `CommitRoles`), where the
  DELETE waits for another transaction's rows (`Blocked`) and does not see those inserted after its
  snapshot (`Remaining`). Rotation revokes and issues at once.
  Requests that revoke all sessions of a user reach those of the current tenant (`LiveIn`): row-level security hides the rest. Whether a
  password or code is right, and whether a lock has run out, is a choice.
* **Methodologies, MethodologyPacks.** Status changes with the principals they record.
  An activation loads its version first (`Activate`) and looks for the one in force in a second statement
  (`FindActive`), which may find the version it is about to activate; it supersedes what it found. A pack's approval checks the
  overlap, flushes under the row lock and the trigger of revision 0020
  (`GuardLetsTouch`, `Guard`), and commits later; two flushed approvals do not see each other.
* **FactorSets.** An import ends as duplicate, faulty or a draft set, each with
  its job; approval; supersession with a replacement that is read, not locked.
* **Boundaries.** A membership's share is `Computed` from approach and facts; a change
  of approach recalculates the memberships it has loaded.
* **Activities.** Versions of a source record, the supersession of the loaded
  current one, normalisation on update, the run that marks activities calculated.
* **ReportingSetup.** The checks of a reporting period, the partial unique index on base years, and
  both ways in which an inventory comes about: on request, with the highest version of its period plus one
  (`LoadInventory`, `CommitInventory`), and as the replacement of a restated one, with the version
  after the original's (`Restate`, from `decide_restatement`). No constraint guards the version.
* **FactorResolution.** `Score`, `Strength` and `Resolution` are the code's weights
  and outcomes; `Candidates`, `ComparatorCandidates`, `CalculationCandidates` what its three callers load.
  `BestSelected` compares with a reference definition that knows no weights: a
  factor is better if it fits as well in every criterion and not conversely.
* **Totals.** The three implementations of the sum over the results of a run, each on the groups it is given
  in the code: `AggregateInventoryTotals` of (scope, method) rows, `CalculateInventoryTotals` of items by
  scope, category and method, and `ReportTotal` of the results themselves. `OneTotal` compares them with each
  other and with the plain sum of the results that count.
* **MigrationControl.** `job[j].pc` follows the script: `Check` reads the revision under the lock, `Unlock` is
  the `finally` of `migration_lock`, and `Report` the outer `finally` that writes the evidence, with other jobs free to lock,
  upgrade, check and report between any two of them. `alembic[j]` is the subprocess *and* its
  transaction on the server, which outlives the process: a COMMIT that was sent is carried
  out (`CommitUpgrade`) although `Timeout` or `Crash` has killed the job. `LoseLock` ends the connection
  that holds the advisory lock. Each upgrade step expects the version it found, so an upgrade that was
  overtaken can only roll back. `SchemaHistory` keeps of all that the revision, which job has found under its lock
  that it brought the schema to which revision (`Confirmed`), and which one has reported so (`Claims`, from
  the evidence). A confirmation is of the revision that is there and higher than every earlier one; a claim is of something
  confirmed, in any order and however far the schema has gone on by then.

## Runs

| Run | Question | Bounds |
|---|---|---|
| `wl_race` | Do rows, locks and leases agree when workers race, and how far can a tenant limit be exceeded? (`TypeOK`, `QueueConsistent`, `TenantOvershootBounded`) | 3 jobs of one tenant, 2 workers, limit 1, batch 2, 1 crash |
| `wl_cancel` | Are attempts bounded, late workers fenced, tenants outside the scope untouched, outcomes kept, and does the queue implement `WorkloadDelivery`? | 2 jobs (one out of scope), 2 producers, 2 workers, 1 canceller, 2 attempts, 1 crash |
| `wl_live` | Does every queued job settle, behind a full tenant, another tenant's job and the lease of a crashed worker? | 3 jobs of 2 tenants, 2 workers, limit 1, batch 2, 2 attempts; begins after a crash, below |
| `wl_limit` | violation: `TenantLimitRespected` | as `wl_race`, 2 jobs |
| `wl_terminal` | violation: `TerminalNeverCancelled` | 1 job, 1 canceller |
| `governance` | Locks rest on approvals and stay, one report is final, nobody decides on their own request, statuses rest on decisions, completions on released replacements of their restatement; and requests that load, decide and commit later implement `GovernanceLedger` | five parts, below; 241 000 states |
| `gov_locked` | violation: `LockedUnchanged` | 1 session |
| `gov_unlocked` | violation: `LockedUntilRestated` | 1 session, 2 runs, 2 approvals |
| `gov_reviewer` | violation: `DecidedByAssigned` | 2 sessions, 3 users |
| `platform_data` | What brings data in and adds them up: is each thing counted once, are rows whole, do derived values follow from what they are derived from? | seven parts, below; 521 000 states |
| `platform_control` | What controls the platform: do roles, tokens, versions, packs, sets and schema revisions keep their rules when requests and jobs overlap or fail? Migration jobs implement `SchemaHistory` (`HistorySpec`) | five parts, below; 542 000 states |
| `headline` | violation: `HeadlineExcludesComparators` | part `review` |

**Parts.** A run may check several small instances side by side: the first state
chooses a part, no step changes it, so the state graph is the disjoint union of
the parts' graphs and their sizes add up. In the platform's runs the parts are
components that share no state; the variables of the others stay `None`, and a property of the run is the
property of its component under `part = ...`.

`governance` has *approval* (two overlapping requests, two approvals up to the lock),
*reports* (two reports on one approval), *race* (up to a restatement's
replacement), *history* (one request at a time: two approvals, a restatement,
two reports) and *lifecycle* (one at a time through a whole restatement). A part bounds
the requests served at once and the rows of each table; its steps are steps of
`InventoryGovernance!Next` within these bounds, and all properties hold in all parts.
`CompletionBacked` names the replacement by the trail: two overlapping approvals of
one restatement may put a second replacement in place of the first, and each completion is
still recorded for one that was released and that the restatement created.

`platform_data` and `platform_control` have two sessions, three principals, two
legal entities, and this many requests in all:

| Part | Requests | Values |
|---|---|---|
| `review` | 6 | 2 emissions that report one activity, one of them in 2 contents; 2 inventories; 2 results |
| `import` | 4 | 2 keys, 3 batches, one with a record twice, one with a link to a record of another batch |
| `boundary` | 4 | 2 entities, 4 kinds of facts, 3 approaches |
| `activities` | 3 | 2 source records, 2 amounts, 2 units, 2 runs |
| `setup` | 4 | 2 organisations, 2 days, 2 periods, 3 inventories |
| `resolution` | - | pairs of 48 and of 36 factors and triples, a limit of 2 loaded candidates, 8 + 4 queries |
| `totals` | - | 3 results, amounts 1 to 3, 5 kinds, both bases: every run |
| `identity` | 4 | 1 user, 2 tenants, 2 role sets |
| `methods` | 5 | 3 principals, from no version or from two approved ones |
| `factors` | 6 | 3 workbooks, one faulty; 2 principals |
| `packs` | 7 | 3 packs, 2 of which overlap, 2 owners |
| `migrations` | - | 2 jobs, revisions 21 to 24, two reviewed targets and one that is not, every way to be refused |

Why these bounds: a race needs two parties, and one more job than a batch holds
makes batches differ; two attempts are the least that tell a retry from a last
attempt; a lease of one tick already has a valid, a boundary and an expired
state; one crash leaves a lease behind while the other worker goes on. In
governance two overlapping requests make every read-commit race of a pair of handlers,
two approvals let one be decided after the other was locked, and a third user
is needed only for two reviewers who are not the requester. The platform's
requests are as many as the longest story of the component needs (create, start, decide,
convert, compare takes five, and one more overlaps), with two sessions for every
pair; amounts 1 to 3 in three slots tell a lost or doubled result from the right sum; two
candidates loaded of three show what the limit of the database query hides.

Deadlock checking is on in the queue's and the governance's runs: a session can always
receive or fail and the clock can always tick. The platform's runs switch it
off, because their requests are bounded and run out, and a migration job ends.

Fairness: only `wl_live` and `wl_terminal` assume any. A worker is a loop that calls
`run_one` again and again, so each takes its next step if it can (`WF(WorkerStep(w))`), and time
passes (`WF(Tick)`). The repository has no such loop outside tests and the capacity
harness (`scripts/workload_capacity.py`): the assumption is what a deployment has to
provide. Requests, crashes and heartbeats beyond those steps are not assumed. No other
component has a loop of its own that would justify fairness: they act when they are asked.

`wl_live` begins in `WorkerDied`, a state of `Workloads` (found by TLC from `Init`): a worker has
crashed while it ran job 2, whose lease fills tenant *tA* until it runs out; jobs
1 (*tA*) and 3 (*tB*) are in the queue after a failed attempt each. From there on every
schedule of two workers is checked: a worker passes over job 1 to reach job 3
while *tA* is full, job 2's lease has to be recovered, on its last attempt or
not, and jobs are tried again or given up. To begin at the crash instead of at
an empty queue is what keeps a liveness check of three jobs within the bounds;
how jobs enter the queue is checked by the other runs.

## Findings

* `wl_limit`: the per-tenant count and the claim are two statements, so two
  workers with different candidate batches exceed the limit
  (`workloads.py:346`), which the docs say they enforce. The excess is at most
  the number of workers less one (`wl_race`).
* `wl_terminal`: the cancel route loads the row, then selects it again `FOR
  UPDATE` in one session; the ORM keeps the first load, and a job that finished
  in between is cancelled (`workloads.py:486`).
* `gov_locked`: requesting a restatement makes a locked inventory editable;
  rejecting the request locks it again, edits included
  (`inventory_governance.py:798`). No concurrency is needed.
* `gov_unlocked`: two runs of one inventory can both be under approval; the
  decision on the second, taken after the lock, sets the locked inventory back to
  APPROVED (`inventory_governance.py:567`). No concurrency is needed.
* `gov_reviewer`: two reviewers who start on one pending approval both succeed;
  the later one replaces the first, also under a decision in flight
  (`inventory_governance.py:511`).
* `headline`: a government comparator's run takes the inventory's next version,
  and lists, dashboard and detail show the total of the run with the highest
  version (`workflows.py:193`), so the comparator's figure stands where the
  inventory's own should. No concurrency is needed.

What the properties had to except, and so what the code does allow, when two
requests overlap: a role set that is the union of two assignments
(`RolesAsWritten`); two active versions of a methodology (`OneActive` counts
them), and an approver who became the reviewer afterwards (`ThreePeople`);
supersessions that cross, or an approval that commits late and puts a set back in force
that was superseded meanwhile, so that two sets lead to each other (`SupersessionEnds`; the
proof asked for the second, which needs seven requests where TLC's bound is six);
approved packs that overlap (`PeriodsDisjoint`); shares of an older approach
(`AllocationCurrent`); a normalised value of another unit, or an activity marked
calculated with an older value (`NormalMatches`, `FreshResults`); a row that is
a mixture of two batches under the hash of one (`HashNamesRow`); two inventories
with one version (`SetupConsistent`). Two inventories also share a version without any overlap, when one that has a
successor in its period is restated: its replacement takes the version after its own, whichever others there are
(`inventory_governance.py:786`), and `SetupConsistent` excepts exactly that. They are listed here and not as findings, because
what the documents say of these rules is about one request at a time. Each property shows that *only* an overlap, or such a replacement, does it.

## Proofs

The theorems hold for every value of the constants that the named assumptions
allow: any number of users, sessions, rows and workers, and any bounds, where TLC looks at
small instances. Every safety property of the passing runs has a theorem, and so has every refinement.
`ClaimedOnce` follows from `HistorySpec` (each job and each revision is confirmed once), so only the proofs state it by itself (`ClaimsSingle`).

**Assumptions.** `WorkloadAssumption` (jobs are numbered, jobs and workers are finitely many,
bounds are positive),
`GovernanceAssumption` (a first inventory; ids of approvals and restatements differ, as UUIDs do),
`ReviewAssumption`, `ImportAssumption` (a record is not linked to itself), `BoundaryAssumption`,
`SetupAssumption` (bounds are numbers), `FactorAssumption` (a database holds finitely many factors, years are
numbers), `IdentityAssumption` (finitely many memberships to start with), `PackAssumption` (dates
are ordered like numbers), `MigrationAssumption` (revisions are numbers), `TotalsAssumption` (a run has
finitely many results, of activities as `activity.py:51-60` validates them); and
`NoneAssumption`, `NullAssumption`: NULL is no row and no id. TLC evaluates all of them.

**Queue** (`WorkloadsProofs`): `TypeCorrect`, `QueueSafe`, `AttemptsSafe`, `FencingSafe`,
`ScopeSafe`, `OutcomesSafe`, and `Refinement` (the queue implements `WorkloadDelivery`).
They rest on `Invariance`: `IInv` is inductive. `AttemptsBounded` alone is not: a claim
raises `attempts`, and nothing in the bound says that the claimed row was
still queued. `QueueConsistent` adds that rows held by a
worker are queued, that no row is held twice, and that queued rows have
attempts left; `RowsClean` ties statuses to attempts; `WorkersFenced` relates
a worker's local lease number to the attempt of the row it would report on,
which is what fencing and the outcome property need. Each action has one step
per conjunct it can disturb. An action property is proved from `IInv` and one
step; the refinement maps each action to a step of
`WorkloadDelivery` or a stutter (recovery that dead-letters several rows is its `GiveUp`).

`OvershootSafe` bounds how far the limit of a tenant can be exceeded because it is counted before the
rows are locked. `TenantOvershootBounded` is not inductive: it says nothing of the workers that have
counted and not yet claimed. `OvershootInv` counts them too: live leases of a tenant and workers that
stand before a claim of one of its rows (`Claiming`) are together at most the limit plus all workers but one.
A worker joins `Claiming` only when it has counted fewer live leases than the limit, and the others
that stand there are at most all workers but it; a claim turns one of `Claiming` into
a lease; every other step adds to neither.

**Governance** (`InventoryGovernanceProofs`): `TypeCorrect`, `DutiesSegregated`,
`StatusesBacked`, `LocksBacked`, `LocksPermanent`, `ReportsFinalOnce`,
`ReportsNumberedInOrder`, `HistoryKept`, `CompletionsNamed`, `LedgerKept`, `LineagesEnd`. The difficulty is the request in flight: it
decides on what it loaded, and anything may have been committed since. The argument is that what
it relies on cannot be taken back. `Grows` says so of the tables: runs and locks stay as they are,
the trail of decisions only gets longer, an approval keeps its inventory, run,
controls and requester, a set of dispositions is prepared anew under a higher number or not at all, and so
on; `HistoryKept` proves that every step has it. `Holds(q)` says of each kind of request what it
relies on, read by it or found when it began, and survives whatever `Grows`.
The inductive invariant `IInv` is `TypeOK`, `Backed` (what each table has in the others and in the trail) and
`RequestsHold`. A commit then needs only what its own request holds.

`CompletionsNamed` needs more than `IInv`, because a completion decides on the restatement as it was
loaded, and its row may name another replacement by then. `CompletionInv` therefore says of the trail
that each completion names a released replacement which an approval of its restatement created (`EventInOrder`), of each
restatement that what it names was created by one of its approvals (`RowInOrder`), and of a completion in flight
that the replacement it loaded is released and in the trail (`CompletionHolds`).

`LedgerKept` is the refinement: the commit of an approval, a lock, a restatement's decision, a
completion and a report are the entries `Approve`, `Lock`, `Replace`, `Complete` and `Publish`; loads,
failures, first reviews, rejections and everything about activities and runs are stutters.
The guard of each entry is what the request holds at its commit, from `IInv` and `CompletionInv`.
`LineagesEnd` is then proved of the book alone and carried over: originals have been
released (`BookInv`), and an inventory is entered as a replacement before it is. So a new one is nobody's
original, and a set of inventories that it joins keeps the member that replaces none of the others.
No constraint of the database says this of `original_inventory_id`.

**Imported and recorded data** (`DataPlatformProofs`, with a module for the parts): `TypesKept`,
`CountedOnce`, `ReferencesStay`, `KeysAppliedOnce`, `BatchesWhole`, `HashesTell`, `SharesFollow`,
`LatestCounts`, `NormalsMatch`, `ResultsFresh`, `SetupStaysConsistent`, `BestFits`, `TotalsOne`. Each part has an
inductive invariant of its own that says what holds of its tables and of each request
in flight; a step of one part leaves the variables of the others, so the
invariants stand side by side (`Invariant`). What they had to add to the properties:

* *Review*: versions of runs have a bound, so there is always a next one, and a review that was
  converted when a request loaded it has a result by now (`Known`).
* *Import*: batches of any length. `ObjectAfter` is a recursive function of the
  number of records; `ObjectOfBatch` shows that what it leaves of an item is what was loaded, if no
  record was for it or the row was there already, or what one of the records made of it.
* *Boundaries*: every row in flight is what `Computed` makes of its facts under the approach
  the request goes by (`Settled`), and a member stays one.
* *Activities*: the versions of a source record are contiguous, one activity each, and the last is the
  current one (`LedgerVersions`); a version in flight follows that of the activity it supersedes.
* *Setup*: the versions of a period have no gaps: with two requests that overlap, or a replacement, a number is
  given twice, but never left out, since the original of a replacement has the number before it.
* *Resolution*: a factor that fits as well on every criterion scores as much, and one that fits
  better scores more, unless years tie (`ScoreOrder`); scores have a bound, so one of finitely many factors
  has the greatest (`GreatestScore`).
* *Totals*: each of the three totals is the sum of the results that count on the basis (`CountedKg`),
  whichever groups it is taken from: a sum of the sums of groups is the sum of what is in them (`KgOfGroups`),
  and rows of different keys are different rows, so a set of rows loses none of equal kilograms
  (`KgByKey`). `SumsOnBasis` says so of the rows the two grouped implementations select, and
  `TotalOfDashboard`, `TotalOfSummary` and `TotalOfReport` of each implementation by itself.

**Control** (`ControlPlatformProofs`): `TypesKept`, `RolesReplacedWhole`, `AcceptancesWhole`,
`SessionsLinked`, `RolesSeparated`, `ActivationsCounted`, `SupersessionsEnd`, `PacksDisjoint`,
`UpgradesApart`, `ClaimsSingle`, `HistoriesKept`; of the migrations alone (`MigrationControlProofs`), `EvidenceStands` and
`HistoryRefined`. Again one inductive invariant for each part:

* *Accounts*: `AccountInv` says of each table what it has in the others (a membership has its account and
  tenant, an exchanged session is revoked and leads to one that descends from it, an accepted invitation
  has its account and membership) and of each request what it may rely on. `AccountGrows` is what every step
  keeps: rows stay, and so do owners of sessions, challenges and invitations; roles change only with
  another stamp. `RolesAsWritten` rests on the stamps: as long as a membership's is still the one that a
  request found, nobody else has written its roles, and the DELETE saw all of them (`WriteHolds`).
* *Methods*: `MethodChange` says what a transition in flight may set, given the version as it was loaded;
  a version in force beyond the first is paid for by an activation that was overtaken (`overlaps`).
* *Factor sets*: as long as nothing has crossed, there is a numbering of the sets, no number twice and each below
  their number, that goes down along every supersession (`Order`). So the way from a set ends within
  as many steps as there are sets, and it ends in a set that leads nowhere, which is an approved one.
* *Packs*: approved packs of an owner are apart, and a pack whose approval is flushed is apart from the
  approved ones (`Apart`), which is what the trigger carries from the check to the commit.
* *Migrations*: `MigrationControlProofs` proves its invariant for any number of jobs, any manifest, any
  requests and any revision to start from; `ControlPlatformProofs` takes it over by INSTANCE.
  `ClaimedOnce` is not inductive: a job that finds its target reached must not meet an earlier one that found the
  same, and evidence is written when the lock is long gone. Its `IInv` is therefore about what jobs have *found*
  (`Passed`: the last look under the lock saw the target), which does not change between the look, the unlock
  and the report. It says that the revision never falls below what a job found when it started (`Found`,
  which needs that upgrades only go up: `Upward`) or what a passed job saw (`Kept`), that a job which
  still holds its lock started after every one that has passed (`Seen`), so what it found is not below any of their
  targets, and that two which passed on one target did not both bring it there (`PassedOnce`).
  `Reported` ties evidence to what its job has seen.
  `Guarded` says that a subprocess at work belongs to the
  holder of the lock or to a job that lost it, timed out or was killed, and that is
  `OneUpgrade`. `EvidenceStands` follows from `Kept` and `Reported`: however late a job reports,
  the schema is not below what it reports.
  `HistoryRefined` maps the commit of an upgrade to `Upgrade`, the look of a job that finds its target reached by itself
  to `Confirm`, and the writing of its evidence to `Claim`. By `Seen`, what that job found when it started is no lower than anything
  confirmed earlier, so its target is higher than all of it. Every other step is a stutter: a success that found the
  target reached before it started, an unlock, and the crash of a job that has confirmed but not reported.
  `HistoriesKept` is the same of `ControlPlatform`, where the part `migrations` runs beside others.

**Induction.** The library's induction theorems take an operator as a parameter, which the installed
provers cannot instantiate. `NumberLemmas` derives from its theorem about well-founded relations that a set
of natural numbers which is not empty has a least member, that a set with 0 and every successor holds all of them, and that a
bounded one has a greatest. A property of a recursive function is then a
set of arguments. For sums it goes on to induction over the parts of a finite set (`PartInduction`):
the fold of the community modules takes whichever member `CHOOSE` gives it, and `SumRest` shows that taking any
other first gives the same, from which the sum of two sets apart, of an image and of groups follow.

**Only model-checked.** `EventuallySettled` (liveness and ENABLED are beyond the prover) and
the violation runs, which are counterexamples and need no proof.

## Not modelled

* **Connection budget, rate limiting**: arithmetic over settings at start-up;
  one atomic Redis script per request.
* **Calculation engine, units, operators, importers**: decimal arithmetic and
  parsing without state; whether they succeed is an input.
* **Methodology dual runs**: a job handler that reads two methodologies and writes one comparison;
  to the queue it is a handler that succeeds or fails.
* **Reports and exports, e-mail, health, release evidence, preflight, frontend, deployment**: rendering,
  I/O, and scripts without a state machine of their own.
* **Organisations, entities, sites, tenants**: single inserts without a rule
  between rows (onboarding of a tenant is in `Identity`).

What the models say of the code where it may surprise, or leave out:

* A conversion does not check again that the emission is still confirmed; what
  it loaded is converted. A conversion of an inventory loaded as
  `review_required` writes no status, so that an approval committed meanwhile stays.
  `emission.activity_id` is left out (a new classification unlinks it).
* Nothing in the services sets an accounting connection to active; `Authorise`
  is external. A row whose source hash has not changed keeps its old organisation after
  a customer has been mapped anew. A replay overwrites the batch's outcome with DUPLICATE. An older record
  that arrives later replaces a newer one, whatever its `source_updated_at`
  (a hazard no property is stated of: the code promises no order).
  The rows a batch needs are read at one moment.
* Factors that are six years old or more tie on the year and so may be ambiguous. The label EXACT is
  about the score, not about every level. The candidate query has a limit of 5000 without an order, so
  beyond it *which* factors are compared is the database's choice; `BestSelected` is stated of the loaded
  ones. INCOMPATIBLE_UNIT cannot be reached through the callers.
* No code replaces a base year, though an error message points to a restatement workflow.
* Only the first 200 inventories of a tenant are looked at when one is
  asked for; creating the 201st may answer 500 after its commit.
* The release policy of revisions that an upgrade skips is not looked at, and evidence of failure
  may belong to an upgrade that was committed (a killed job).
* How many open restatements an inventory has is not limited
  (`inventory_governance.py:668`), and a decision looks at the controls stored with the request
  (`inventory_governance.py:554`): both are in the model, neither is promised otherwise.
* `identity.py:82-250` and some functions of the pack service have no route and are left out.

## Plan

1. Abstract specifications of further parts and their refinement, as `WorkloadDelivery`, `GovernanceLedger`
   and `SchemaHistory` are: first the accounts and their sessions, then the review and conversion.
2. The calculation engine as an operator, where a property tells results apart.
