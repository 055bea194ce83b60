# Procurement Parser: TLA+ models and proofs

These modules describe the parts of Procurement Parser whose correctness
depends on the order in which things happen: a durable queue in PostgreSQL
shared by many worker loops, discovery runs that crawl catalogs page by page,
scheduler processes that share periodic jobs, session lanes with circuit
breakers and proxies, the strategies and captchas behind a request, the files
that browsers share, and the transactions that write entities and export them.
TLC checks small instances of each; TLAPS proves the central safety properties
for any number of loops, tasks, processes, lanes, sessions and jobs. Every definition that stands for code is mapped to its lines in
`PROJECT.json` ("map"); `P` below is `src/procurement_parser`.

To run: `tlc -config MCWorkersCrash.cfg MCWorkers` (and likewise for each
configuration in the table of runs), `tlapm WorkersProofs.tla` (and likewise
for each `*Proofs.tla`).

## 1. The system and its parts

| part | state it keeps | operations | talks to |
|---|---|---|---|
| Frontier (`P/infrastructure/persistence/postgres/repositories.py`) | `crawl_frontier`, `crawl_task_history` | enqueue, enqueue_refresh, claim, extend_lease, release, release_by_owner, complete, retry, fail, activity; release_stale_leases | called by workers, discovery, scheduler, CLI |
| WorkerService (`P/application/pipeline.py:370-792`) | per process: shutdown event, `_empty_since`, worker ids; per loop: batch, task in hand | claim, process, heartbeat, drain, release on every way out | Frontier, EntityStore, a source adapter |
| DiscoveryService (`pipeline.py:60-367`) | semaphore and persistence lock of the service; `discovery_checkpoints` | windows of concurrent pages, classification, enqueue, checkpoint | Frontier, a source adapter |
| Scheduler (`P/entrypoints/scheduler.py`, `maintenance.py:291-383`) | `scheduler_job_state`; running tasks of the process | claim a job, run it, complete it, stop | DiscoveryService, Frontier, maintenance |
| Zakup lanes (`P/infrastructure/sources/zakup_sk/adapter.py`, `strategies.py`) | lanes, `_lane_in_use`, next lane, generations, breakers, proxy pool cursor and cooldowns | acquire a lane, request, release, rotate | browser session, proxy pool, runtime state |
| Zakup strategy stack (`zakup_sk/strategies.py`, `browser.py`) | request profiles, browser identity and page, response cache | direct request, capture, fetch in the page, interception, DOM | breakers of the lane and the source, bundle cache |
| Circuit breaker (`P/infrastructure/network/circuit_breaker.py`) | state, block count, opened_at, probe flag | allow, is_available, record_status, record_success, record_transport_failure, restore | lanes of both sources |
| EEP client lanes (`P/infrastructure/sources/eep_mitwork/client.py`) | lanes with locks, next lane index | acquire, request, rotate | breaker, proxy pool, runtime state |
| Entity store (`repositories.py:529-840`) | source entities, typed rows, revisions, children, relations | persist | workers |
| Runtime state (`P/infrastructure/persistence/postgres/runtime_state.py`) | `session_lanes`, `captcha_challenges` | load and save lanes, advisory lock, spend | lanes, captcha |
| Captcha solvers (`P/infrastructure/captcha/solvers.py`) | budget, lock per solver | check the budget, create, poll, record | runtime state, an external provider |
| Bundle cache (`P/infrastructure/sources/zakup_sk/bundle_cache.py`) | cached file, part file, lock file | read, lock, download, replace | browser session |
| Adapters and parsers | none between requests | page to entities; the lots of a notice over several pages | lanes |
| Exporter, CSV validator, bulk replay, pruning, CLI, settings, metrics | files, configuration, counters | reporting and wiring | everything |

What is hard in it, part by part, and what makes each part right:

* **Frontier and workers.** A lease may run out while its owner still works,
  a process may be killed between the three transactions persist, enqueue and
  complete, discovery enqueues tasks that are being worked on, and complete
  and fail are a read and a write. Right means: no task is lost, the attempt
  number fences a slow loop from its successor, a recorded success is durable,
  leases are given back on every way out, a drain ends and only on an empty
  queue, every task is settled in the end.
* **Discovery.** Pages arrive in any order, some are speculative, any may
  fail, several catalogs share a semaphore and a lock, the enqueue and the
  checkpoint are two transactions, and the catalog grows in front while it is
  crawled. Right means: the checkpoint never passes an entry that was not
  queued, a completed checkpoint covers the catalog, the source never sees
  more requests than allowed, and every run ends.
* **Scheduler.** Several processes race for one row per job; leases carry no
  owner and are not renewed; processes stop at any point. Right means: a job
  does not run twice at a time, and is started again whatever happened to its
  last run.
* **Lanes and breakers.** Concurrent requests share sessions that are
  replaced under them, half-open probes are flags that some later step has to
  clear, and waiters depend on the notifications of releases. Right means: one
  user per session, cooldowns honoured, no probe flag without a probe, no two
  lanes on one proxy, every request ends.
* **Strategy stack.** One request goes through up to four strategies over a
  browser that may be half started, and both breakers hear of it. Right means:
  the caller sees one request with one result.
* **Entity store.** Several workers write overlapping batches of entities,
  children and relations under READ COMMITTED, each in many statements. Right
  means: each batch is written as if alone, every replaced content becomes a
  revision, and no two transactions wait for each other.
* **Captcha solvers.** Solutions cost money, browsers of several processes
  share a lane and a budget that is read before a purchase and charged after
  it. Right means: one challenge of a lane at a time, a bounded overshoot, and
  locks released on every way out, the fallback to a human included.
* **Bundle cache.** Processes share a directory, lock it with a file that may
  be left behind, and continue each other's downloads. Right means: no browser
  is served a torn file.
* **Exporter.** Many statements count and copy while workers commit, and the
  files are replaced one by one. Right means: the files of an export and its
  manifest are of one state.

Every hazard is listed with its line and its properties under "hazards" in
`PROJECT.json`; those without a property carry a note.

## 2. Modules

    Frontier          the queue, one operator per transaction
      ^ extends
    Workers           loops, processes, failures; the composition of both
      ^ MCWorkers     instances        ^ WorkersProofs   theorems
    FrontierProofs    theorems about the queue alone

    Crawl             what a crawl promises (abstract)
      ^ INSTANCE ... WITH
    Discovery         runs, windows, checkpoint
      ^ MCDiscovery   ^ DiscoveryProofs

    Scheduler         processes and scheduler_job_state
      ^ MCScheduler   ^ SchedulerProofs

    CircuitBreaker    the breaker as operators on its state
    ProxyPool         the ring of proxies as operators
      ^ extends
    ZakupLanes        requests, lanes, rotations         ^ LanesProofs
    StackRequest      what a stack promises (abstract)
      ^ INSTANCE ... WITH
    StrategyStack     the strategies behind a request    ^ StackProofs
      ^ MCZakupLanes  instances of ZakupLanes and StrategyStack

    EepLanes          calls, lanes, rows of session_lanes
    CaptchaSolvers    locks, budget, audit rows
      ^ SourcesProofs theorems about these two
    BundleCache       bundle, part file, lock file       ^ MCBundleCache
      ^ MCSources     instances of the three

    EntityBatches     what persist promises (abstract)
      ^ extends, and INSTANCE
    EntityStore       transactions, statements, row locks ^ StoreProofs
    Exporter          an export, beside the EntityStore it reads
    NoticeLots        the paged lots of a notice
      ^ MCStore       instances of the three

`MCZakupLanes`, `MCSources` and `MCStore` put parts side by side that share no
variable, and a behaviour is one of one part: the initial budgets say of which,
and those of the others are zero. `Exporter` is the exception, it reads the
`hash` that `EntityStore` writes, and the two run together.

**Frontier.** `frontier[t]` is the row of task `t` (a source entity and task
type, the unique key of the table), `NoRow` when there is none; `births[t]`
numbers its insertions and gives the primary key. `history` is
`crawl_task_history`. The clock appears only through the comparisons the SQL
makes with `now()`: `lease` is none, live or expired, `due` says whether
`available_at` has passed, `urgent` whether the priority is positive, which is
all that `backfill_only` asks. `Claim`, `Extend`, `Release`, `ReleaseByOwner`,
`Retry`, `EnqueueAll` and `ReleaseStale` are one transaction each. `complete`
and `fail` read the row with a plain SELECT and delete it by primary key
afterwards, so they are two: `Current` and `Remove`. `FrontierSpec` is the
queue under any sequence of these operations by anybody: the abstract
specification the workers implement.

**Workers.** A loop is `pc[w]`, the await it stands at. Between two awaits a
coroutine runs without interruption, so the code between them is one step:
`ClaimTasks` / `ClaimNothing`, `StartBatch`, `NextTask`, `Extract`,
`ExtendLease` (the fence before persistence), `Persist`, `EnqueueFound`,
`CompleteRead` / `CompleteWrite`, `ScheduleRetry`, `FailRead` / `FailWrite`,
`ReleaseRest`, `CloseLoop`, `ReapOwner`, and the drain in two steps because the
activity is read before the lock is taken. `held` and `cur` are the tokens
(task, row id, attempt) by which every later statement matches its row.
`Heartbeat` runs beside the task in hand. The environment kills processes,
signals them, fails statements, blocks requests, lets leases run out under
live loops, enqueues, refreshes and changes content. A statement that fails
leaves no trace (`Fault`); one that committed before its answer was lost is a
kill right after it, or a cancellation (`Cancel`), which may come at any await.
Content is a version number: `source[t]` is published, `seen[w]` was
extracted, `saved[t]` is persisted.

**ZakupLanes.** `_request` with `_acquire_stack` and `_release_stack`: `Seek`
is the scan for a lane and everything up to the await of the stack's request,
`Answer` is its result through the breakers, the release of the lane, the
rotation in pool mode and the notification. With a provider URL the lane stays
in use until the provider has answered (`KeepLane`, then `ProviderRotates` or
`ProviderRefuses`); the wait for `_rotation_lock` is part of that await, since
what the lock protects touches only the lane of its holder. One proxy without
a provider URL behaves as no proxy does. A lane's stack is identified by lane
and generation, which is what `id(stack)` stands for while the stack lives. `Block`, `Gateway` and `Raise` differ in what they record on the two
breakers and are kept apart for that reason.

**StrategyStack** is what happens between `Seek` and `Answer`.
`ZakupStrategyStack.request` and the browser session are one label each:
`Ask` (the two breakers, the profile the stack or the browser knows), `Direct`,
`Launch` and `Started` (a browser that stops between them is kept),
`Refreshed` and `Capture`, `Intercept`, `Fetch`, `Again`, `Dom`. An endpoint's
last response stays in `cache` and may answer a later request; a page loads
things by itself (`PageLoads`). **StackRequest** is the promise: a request is
refused, or sent and then succeeds, is blocked or raises, and each changes both
breakers once. `StackIsOneAwait` says that the stack implements it with
`sent <- strategy # "idle"`; this is what entitles `ZakupLanes` to take a
request for one await. (`ZakupLanes` takes the answer of a gateway error apart,
which the adapter records behind the stack.)

**CircuitBreaker.** What `allow`, `is_available` and the record methods
return and leave behind. No method awaits while it holds the breaker's lock.

**Discovery.** `window[r]` holds the reply of each page of run `r`: asked,
sent, an entry, empty, an error. A page carries one entry; pages are numbered
in the order of the listing (newest first), and `Publish` moves every entry
one page back. Enqueue and checkpoint are two steps under the persistence
lock; a run that fails or is killed leaves both tables as they were committed.
**Crawl** is the promise: entries are handed to the queue without gaps, and
the checkpoint never goes past what was handed over. `LeavesNoGap` says
Discovery implements it, under the refinement mapping of `Promise`.

**Scheduler.** `row[j]` is the row of a job, with `last_started_at` and
`leased_until` reduced to their comparisons with `now()`. `ClaimJob` is
`claim_scheduler_job` with its insert and its conditional update, `StartJob`
the first step of the task, `FinishJob` and `CompleteJob` the finally clause
in its two parts. `Stop` cancels the running tasks: a task that had not taken
its first step never reaches its finally clause and leaves its lease behind.

**EepLanes.** `EepHttpClient.get` in its four configurations, `network`: no
proxy (attempts on one client, `Curl` behind them), one proxy, one proxy whose
provider changes its address on request, and a pool. A lane object is
`<<l, gen[l]>>`: a call that waited for the lock of a lane may find another
object there. `LoadRows` takes over the rows of `session_lanes` before the first
request and `SaveRows` saves them again, `AcquireLane` is one round of the polling loop, `Answer` the result on
the lane, `Save` its row (a failed statement is an exception of `get`),
`RotateInPool`, `AskProvider` and what follows the rotation under its lock,
`CloseOld` the close of what was replaced. `row[<<l, p>>]` is the row of a lane
and proxy. `Kill` ends the process and starts it again with nothing but the
rows. The module is one client. The worker, the scheduler and each of its jobs
have one of their own, which write the same rows when their proxies are the
same: `OtherSaves` is such a save, with any breaker that a client may have, at
any moment, between `LoadRows` and `SaveRows` too.

**CaptchaSolvers.** `stage[c]` is the await of the solve of challenge `c`. The
lock of the process' solver is held while the advisory lock of the lane is
polled for (`EnterSolver`, `LockLane`); `CheckBudget` reads the costs of the
last hour, `Solve` and its failures are the provider's, `RecordSuccess`
and `RecordError` the audit row, `FallsBack` the way to the human prompt, which
takes the lane's lock again without the process'. `recorded` is what the costs
of the hour sum up to; that an hour passes only lowers it and is left out.

**BundleCache.** A file is the sequence of the ranges appended to it. `CheckCache`
is `cached`, `TryLock`, `FindStale` and `UnlinkStale` the loop of
`_download_lock` (the age is read in one step and the file unlinked in
another), `Recheck` the second look at the cache, `Measure` the size of the part
file, `FetchRange` and `AppendRange` one request and its append, `Publish` the
replacement, `Unlock` the removal of the lock file on every way out.
`LockAges` is `stale_after` going by; under an owner that is still inside the
lock's block (`Holding`) it is the event `slow`, which has a budget.

**EntityStore.** A transaction's statements: `Ensure` is an upsert into
`source_entities`, which waits for the row's lock and keeps it to the end;
`ReadHash` and `WriteEnvelope` an entity of the batch, `SelectStale` and
`DeleteStale` the relations of a parent, `Commit` makes visible what was
written, `RollBack` is a failure anywhere. A batch of enqueue only ensures rows,
and is there for its locks. **EntityBatches** is the promise:
a batch is written in one step. `PersistsAreAtomic` says that EntityStore
implements it.

**Exporter.** The requests of layout `both` in turn: `CountRows` (the first
takes the snapshot of the REPEATABLE READ transaction), `CopyRows`, behind the
transaction `ReplaceFile`, then `WriteManifest`. A failure leaves the files
that are in place.

**NoticeLots.** The extraction of a notice: `Details`, then `AttachPage` for
each page of lots in ascending id, while lots are added to and removed from the
notice. `AfterPage` is how the code decides whether the list has ended, is
broken, or goes on; the total may be missing in a page.

## 3. Runs

| run | instance | what it shows |
|---|---|---|
| workers_crash | 2 processes of 1 loop, 2 tasks (the first discovers the second), 1 kill, 1 lease running out | SingleHolder, NoTaskLost, SuccessIsDurable, EveryTaskSettles |
| workers_refresh | a daemon and a once process on 1 task; 2 leases run out, content changes once, 1 enqueue, 1 signal | LiveLeaseIsExclusive, CurrentHolderNeverRegresses |
| workers_drain | 1 draining process of 2 loops, 2 tasks, 1 failed statement, 1 block | DrainExitsEmpty, StoppedHoldsNoLease, DrainEnds |
| workers_stale_delete | 2 processes, 1 lease running out | StaleDeleteSparesNewClaim is violated (finding) |
| lanes | 2 concurrent requests, 2 lanes, thresholds 1 and 2: without rotation (3 calls), with a provider (3 calls, ageing, any number of refusals) or with a pool of 3 (failures, ageing); a stack with a list and a plan item, 3 requests | LaneHeldByOne, DistinctProxies, LaneProbeIsRunning, LaneCooldownHonoured, RequestEnds, StackIsOneAwait |
| lanes_probe | 2 lanes with the thresholds of the code, 2 and 5 | SourceProbeIsRunning is violated (finding) |
| discovery | 3 runs, 3 catalogs, 2 services (windows of 2 and 1), 1 failure, 1 kill, 1 repeated run, 1 publication | RequestsCapped, CompletedCoversCatalog, LeavesNoGap, RunsEnd |
| scheduler | 2 processes, 2 jobs (immediate, deferred), 1 each of overrun, fault, stop, kill | JobRunsAlone, JobsRecur |
| scheduler_lease | 2 processes, 1 job, 1 overrun | LeaseExcludes is violated (finding) |
| store | 3 sessions with 4 transactions and 1 failure; 1 transaction beside 2 exports with 1 failure; a notice with up to 5 lots in pages of 2, 1 added, 2 removed, 1 failed request | PersistsAreAtomic, TransactionsEnd, ExportIsOneSnapshot, MissesOnlyForRemoved |
| sources | EEP: 2 calls, 2 lanes, 3 proxies, threshold 1; 2 blocks, or 1 with a lost answer, and each failed statement and rotation, or a restart, or (one proxy, pool) a restart and a save of another client; captcha: 3 challenges in 2 processes, 4 solves, each failure and a kill; bundle: 2 loaders, 3 ranges, 2 failures, 1 kill | LaneHeldByOne, DistinctProxies, CooldownOutlivesRestart, GetEnds, CaptchaSolvedAlone, SpendStaysBounded, CaptchaSolvesEnd, ServedBundleIsWhole, LoadsEnd |
| bundle_race | 2 loaders of which one is killed and comes back | ServedBundleIsWhole is violated (finding) |

Each passing run but `workers_refresh` and `workers_drain` also checks the
type invariant of its modules.

**Bounds.** `Budget` (`LaneBudget`, `CaptchaBudget`, ...) bounds each kind of
event of the environment; the loops, runs and processes themselves are
unbounded in how often they repeat. The hazards are races of two parties over
one row, lane, file or job, with one event (a lease running out, a kill, a
failed statement) between two steps of one of them, which is what the instances
contain. Where a second event is needed the budget has two: `workers_refresh`
lets the lease of the successor run out as well, so that a loop may meet its
own earlier claim; the EEP lanes may be blocked twice, so that a rotation meets
another and a pool runs out of proxies. The third session of `store` is there
for rings of waiting transactions, the third challenge of `sources` for two
that share a lane across processes while two share a solver, the third proxy
for a rotation with something to choose, the second removal in `store` for a lot
that comes back and goes again. `Children` has one edge: deeper trees
repeat the same steps. `MaxAttempts = 2` reaches both the retry and the
exhausted attempt. In `lanes` the lane threshold is 1, so that one failure
opens a lane and the budget suffices for probes that succeed and fail.
In `discovery` a catalog has two pages and the window two, so windows end
before, at and behind the end of the catalog. `CalmSpec` of `workers_crash`
starts with no urgent task, since the order of claims is not what that run is
about. Every safety property that a passing run checks is also proved without
these bounds (section 5), five of them under the conditions named there; the
runs are what liveness rests on.

**Deadlock** is checked for the scheduler, whose processes are restarted for
ever. The other systems may come to rest: every loop of Workers may be
stopped or killed, every discovery run has an end, and calls, solves, loads,
transactions and exports are bounded. What must not rest is stated as liveness
instead (DrainEnds, EveryTaskSettles, RequestEnds, RunsEnd, GetEnds,
CaptchaSolvesEnd, LoadsEnd, TransactionsEnd). `TransactionsEnd` is the one about
deadlocks proper: PostgreSQL's detector is left out, so that a ring of waiting
transactions would stay for ever and violate it.

**Fairness.** Weak fairness of the steps of each coroutine, by asyncio's event
loop: an await that has been answered is resumed, and every answer comes
because requests and statements have timeouts. `WF(Cancel)` is separate since
a cancelled loop could otherwise keep working. Time is fair: a delay and a
grace period elapse, a lock file ages (`WF(LockAges)`); a lease runs out only
where nobody is left who renews it (`LeaseExpires /\ UNCHANGED budget`), so no
liveness rests on a live loop being late. A `Heartbeat`, a `Fault`, a signal
and a kill are never fair. `EveryTaskSettles` follows under the given budgets
because a claimed task is settled or released by its loop, or its loop was
killed and its lease runs out; `Extract` may block only as often as `Budget`
allows, since a source that blocks for ever retries for ever by design.
`WF(Restart)` of the scheduler is `restart: unless-stopped` in `compose.yaml`.
The lock and semaphore of Discovery, the locks of the captcha solvers, which are
polled, and the row locks of the store need no strong fairness because those
that compete are finite in number and each holds them for finitely many steps.
For the same reason weak fairness of `Proceed(c)` is enough for the polling of
`_acquire_lane`.

## 4. Findings

Four statements of the documents, comments or tests differ from what the code
does; each is a run that ends in a counterexample, described with its lines in
`PROJECT.json` ("findings"):

1. `workers_stale_delete`: complete and fail check the attempt without a lock
   and delete by primary key, so a stale complete can delete a newer claim.
2. `lanes_probe`: the probe flag of the source breaker stays set when the
   probing request raises.
3. `scheduler_lease`: a job run that outlived its lease clears its successor's
   lease, so that a third run starts beside a run within its lease.
4. `bundle_race`: the lock file of a killed load is found stale by two loads,
   and the second unlinks the lock the first has just taken. Both append to one
   part file, a range is there twice, and the file is published and served,
   because nobody compares its size. `ServedBundleIsWhole` holds as long as
   only one process at a time finds the lock stale, which is how the `sources`
   run has it: the killed loader does not come back.

## 5. Proofs

All theorems hold for any values of the constants that satisfy the named
assumptions (`FrontierAssumption`, `WorkersAssumption`, `SchedulerAssumption`,
`DiscoveryAssumption`, `LanesAssumption`, `StackAssumption`, `EepAssumption`,
`CaptchaAssumption`, `BatchesAssumption`, `SessionsAssumption`,
`ExporterAssumption`, `NoticeAssumption`, `BundleAssumption`), which say no
more than that functions have the right domains, that limits are positive, that
the proxies of a pool differ and outnumber no lanes, and that the captcha
processes, the entities of a database and the lots of a notice are finitely
many; TLC evaluates them in the runs. No module declares a RECURSIVE operator.

**FrontierProofs.** `QueueLosesNothing`: NoTaskLost for the queue under any
operation by anybody. NoTaskLost is inductive together with the types of the
tables (`FrontierType`). The module also holds the lemmas the workers need about
`RowsCounted`: the id of a row is never beyond its task's number of births, so
that a new row is never taken for one that was there before.

**WorkersProofs.**
* `TypeCorrect`: []TypeOK.
* `ImplementsFrontier`: every step of Workers is an `Operation` of the queue
  or leaves its tables alone, hence `Spec => FrontierSpec`; `NoTaskIsLost`
  inherits NoTaskLost from the queue through it.
* `LeaseInvariant`: the invariant `LeaseInv`, in four parts. `RowsCounted`
  again; `Fenced`: no token in a loop's hands is of a future row or attempt;
  `CurrentOwner`: a token of the current attempt belongs to the loop in
  `lease_owner`, or the row has been given back; `SingleHolder`. None is
  inductive alone: a claim preserves SingleHolder only because the attempt it
  gives out is greater than every attempt held (Fenced), and that needs ids to
  be counted (RowsCounted). `AttemptHeldOnce` and `LiveLeaseExclusive` follow.
* `SuccessesAreDurable`: SuccessIsDurable, from `DurableInv`, which carries
  the chain persist, enqueue, complete through the labels of the loop.
* `HolderNeverRegresses`: CurrentHolderNeverRegresses, from `FreshInv`: nobody
  has read, and nothing saved is, newer than what was published, and the loop
  that holds the current attempt has read after all that was saved or is about
  to be saved by loops that had the row before. `CurrentBefore` (an attempt that
  is current was so when it was given out) and SingleHolder at the fence carry
  it; without `extend_lease` in front of `persist` its step fails.
* `StoppedReleased`: StoppedHoldsNoLease is inductive with the types; the
  lemmas say that only a claim makes a loop own more rows (`OwnsNoMore`) and
  that every way to stop goes through `release_by_owner` (`StopsByReleasing`).
* `DrainsExitEmpty`: DrainExitsEmpty, from `DrainInv`. While the budgets it
  names are untouched (`Calm`), what a loop has in its hands is a row in the
  queue, its own and under a live lease (`Safe`): that is why a queue that a
  loop counts as empty leaves nobody with a task that could discover another
  one (`EmptyStays`), in whatever process.

**SchedulerProofs.** `TypeCorrect`, and `JobsRunAlone`: as long as no run has
outlived its lease no job runs twice at a time. The invariant `AloneInv` adds
why: every run's lease is live in the row (`RunsUnderLease`), so no claim can
succeed. It is conditional on the overrun budget being untouched, and the
lemma `BudgetShrinks` shows that what is spent never comes back.
`OverrunsBounded` says what is left of it once runs do outlive their leases:
finding 3 shows that a late run clears the lease of its successor, so that a
third one starts, but the number of processes that run a job at a time never
exceeds one plus the number of times a lease ran out under a run. The invariant
`Paid` counts: the row pays for one run while its lease is live, each overrun for
another, and so do the runs whose own lease is over (`Late`). That second
count is what makes it inductive: a lease that runs out costs no overrun when all
that run are late already.

**DiscoveryProofs.** For any set of runs, finite or not:
* `TypeCorrect`: []TypeOK, from `TypeInv`, which adds that a window is a
  stretch of pages starting at `page[r]`, at most as long as the semaphore is
  wide.
* `RequestsStayCapped`: the invariant `CapInv` counts the pages in flight per
  service.
* `CompletedCovers` and `ImplementsCrawl`, under `FromTheStart`: every run
  starts at the first page or at the checkpoint, and a catalog that grows is
  crawled with windows of one page. The invariant `CoverInv` says of a catalog
  that everything in front of its checkpoint, moved back by what was published
  since, was queued (`CatalogCovered`), of a run the same of the page it stands
  at, and of every reply in its window which entry it holds (`RunCovered`,
  `ReplyCovered`). The step that needs it is the enqueue: the entries in front
  of the first page that ends the crawl follow without a gap what was queued.
  Both conditions are necessary: a `--start-page` behind the first skips pages
  by request, and the wider window over a growing catalog is listed under
  "hazards".

**StackProofs.** `TypeCorrect` (StackTypeOK), and `OneAwait`: StrategyStack
implements StackRequest, step by step, a strategy that hands over to the next
one being a stutter. The initial states and each action are mapped; the type
invariant is all the invariant it needs.

**LanesProofs.** `LaneInvariant`, from which `TypeCorrect`, `HeldByOne`,
`ProxiesDiffer` and `ProbesRun` follow, and `CooldownsHonoured`, an action
property. `LaneInv` joins them with two facts: a request on a lane has a stack
(`StackOnLane`), and the lane of a request that was sent is never open
(`UsedIsNotOpen`); one that waits for the provider may be. Without the second a
breaker that cools down under a request could become half-open with nobody
probing. Every way off a lane is one lemma, `LeavesStep`, with `FreedKeeps` for
a lane that is freed and `KeptKeeps` for one that waits for the provider. `FirstLaneTakes`, the lemma about
the scan, and `NextProxy`, the one about the proxy pool, carry the steps.

**SourcesProofs**, for EepLanes: `EepInvariant`, with `TypeCorrect`,
`HeldByOne`, `ProxiesDiffer` and `CooldownsOutlive`. `EepInv` says where calls
and locks are (`Placed`, `LocksPlaced`): a call on a lane holds the lock of the
object that is there now, and a call that closes an object is on an older one
than the lane has. `Resting` says that only an open breaker cools, in a lane, a
row or what is about to be saved, and that no lane is rotated before the rows are
loaded. `CooldownsOutlive` follows action by action (`Spared`): a lane cools by
its breaker once the client has started, and by its row before; what cools is
open, so `AcquireLane` takes another lane, and the other steps of a call change
the breaker of the lane it holds. What is loaded is what was stored, and after a
kill the client reads the rows it would have read. It holds in all
configurations, whatever other clients save; that the row is kept as well is
said for one proxy and the client's own steps (section 6 has what this leaves
open). For CaptchaSolvers:
`LocksInvariant`, with `SolvedAlone` and `SpendBounded`. That the costs exceed
the budget by less than the number of processes needs a count: every purchase
that is not recorded yet holds the lock of another process, so what is recorded
and what is being bought stay within the budget and one per process. The proof
ties `Cardinality` of the challenges that buy to that of the processes.

That no lock is left behind is `NoLockIsLeft`: each lock, of a process or of a
lane, is held by a challenge that works under it. Who waits for a process
therefore waits for one that waits for a lane at most, and who waits for a lane
for one that waits for nobody; the rest of CaptchaSolvesEnd is fairness.

For BundleCache, where finding 4 shows that ServedBundleIsWhole does not hold
without a condition, three theorems say which one it needs. `UnlinksAbandoned` is what
stale_after is meant to ensure: no lock file is unlinked as an old one while its
owner works. Under it `BundleInvariant` holds, that one loader at a time works
(`LoaderIsAlone`) and that the part file is a prefix of the bundle as long as its
loader believes (`BundleFiles`), and from it `ServedWholeUnlessLockIsTaken`,
whatever fails, is killed or comes back. `ServedWhole` replaces the condition
on steps by one on the constants (`Patient`): no download outlives stale_after,
and nobody is killed, or there are two loaders and a killed one stays away.
`Aging` carries it: a lock file is old only if its owner is dead, and with two
loaders only one is left to find it. The condition is tight: with three loaders
and one kill TLC finds two of them that both take the dead one's lock file for
stale, and a bundle with a range twice. `BundleTypes` needs no condition, since
even two loaders that append to one part file ask for ranges of the bundle only.

**StoreProofs.** `StoreInvariant`, `TypeCorrect`, and `PersistsAtomic`:
EntityStore implements EntityBatches. `StoreInv` says of every transaction that
the rows of its batch are locked from the upsert on, and that all it has read of
them since (hashes, revisions to write, stale relations) is what is committed
now. Each read is good for nothing without the lock, so the invariant has to
carry the locks along; two lemmas then do the work: `Undisturbed` (what others
commit is of rows that they have locked) and `CommitOwnsItsRows` (the commit is
the abstract `Persist`).

`NoDeadlock` is the safety half of TransactionsEnd: of any finite number of
transactions one waits for none of the others. `LocksInOrder` says that the
rows a transaction holds come before those it has not reached, so that who waits
for one that waits itself asks for a lower row than that one (`WaitsUpwards`);
among those that wait, one with the fewest above it then waits for none of them.
With the rows in the order of the batch the invariant fails at the first upsert.

For Exporter, `ExportInvariant` and `OneSnapshot`, over `ExportSpec`: what is
committed between two statements is anything at all. `ExportInv` says that the
files the turn has passed are taken from the snapshot, counted (`Taken`), then in
place, and that the manifest has their counts. The row count of the combined
file is a sum over the sources; `SumOfSizes` shows that it is the size of the
union of their rows. The sum is a fold over a finite set, so the lemma is an
induction; it is proved for this sum by taking the smallest set of sources for which it fails
(`WFMin` with the cardinality as measure).

For NoticeLots, `LotsInvariant` and `MissesForRemoved`, for any lots and page
size. `LotsInv` says that the lots which were there all along, stand before the
page asked for next and were not attached are no more than the removals, and
neither are those attached which are not listed any more; a removed lot in front
of the page moves one lot across its edge and none further (`Below` counts the
lots before one, `PositionIn` and `PositionsDense` relate the counts to the
page). The removals are counted, not collected: a lot that is removed, added
again and removed again may cost two others their relation, as TLC shows with
eight lots.

**Model-checked only.** Liveness (the prover has no ENABLED): EveryTaskSettles,
DrainEnds, RequestEnds, RunsEnd, JobsRecur, TransactionsEnd, GetEnds,
CaptchaSolvesEnd, LoadsEnd. The counterexamples of the findings are TLC's. The
safety properties proved under a condition are DrainExitsEmpty and JobRunsAlone
(their budgets untouched, as the properties themselves say),
CompletedCoversCatalog and LeavesNoGap (`FromTheStart`), and ServedBundleIsWhole
(`UnlinksAbandoned`, or `Patient`).

## 6. What is abstracted, and what is not modelled

* Row order inside a claim beyond the priority threshold, and SKIP LOCKED:
  statements on the queue are atomic, so nothing is locked when a claim looks.
  For the same reason the order in which enqueue and enqueue_refresh lock queue
  rows is not there (a hazard with a note); a deadlock victim would be the
  `Fault` of Workers.
* Payloads, error texts, fetch failures and last success times, which no
  query of the queue uses for a decision. In Workers the entity store is one
  write of a content version, which is what `PersistsAreAtomic` shows it to be;
  in EntityStore the columns of a content are one value, and the type, payload
  and time of a relation are left out.
* The rows of the Zakup lanes in `session_lanes`; EepLanes has the table with
  the rows of its own lanes. A provider URL without a proxy, which the
  documents do not allow (a hazard with a note). That an address which the
  provider changes may be that of other lanes too (`NETWORK_MAX_LANES` above 1,
  which no profile with a provider sets).
* The other clients of EEP are only their saves to the rows of `session_lanes`.
  Rows of two lanes are loaded and saved together; what a start writes that fails
  between two lanes is among what another client may save.
* CooldownOutlivesRestart is about what a client has loaded and the lanes it
  acquires. The code lets a stored cooldown be lost in the row, although
  `ARCHITECTURE.md:274-275` says that a restart does not reset it: `save_lane`
  overwrites the row unconditionally, so a client that loaded it while it was
  closed ends the cooldown another has stored, and so may the save of a
  replacement, of a state it read before another call was blocked (a hazard with
  a note; no property promises the rows). In a pool a row is found by lane number
  and proxy: after a restart a proxy that another lane number has now starts
  closed. And the curl fallback takes no lane: it sends through the last proxy,
  cooling or not.
* In EepLanes `curl` is one step, and waiting and jitter are left out; in
  CaptchaSolvers every solution costs the same, and the spend that a process
  without runtime state counts in memory is not there; in BundleCache the portal
  keeps its bundle, no append outlives its cancelled task, and a kill does not
  cut a range in two; in StrategyStack header classification, SPA routes and
  the DOM query are data.
* The other layouts of the exporter copy fewer files the same way. Cells and
  encodings are data.
* Zakup's CLI crawls its catalogs one after the other; Discovery allows any
  interleaving, of which the sequence is one.
* Parsers are pure functions of a page. prune_history deletes history rows that
  no operation of the queue reads. The rest of the CLI, settings, metrics and
  migrations are wiring, configuration, reporting and DDL; see "components".

## 7. Plan

Done, in this order: Frontier and Workers, CircuitBreaker and ZakupLanes, Crawl
and Discovery, Scheduler; EntityStore, Exporter and NoticeLots; EepLanes,
CaptchaSolvers and BundleCache; StrategyStack. Proofs for all of them.

Left, most important first:

1. The rows of `session_lanes` in ZakupLanes, with the hazard that needs them.
2. The lock order of the rows of `crawl_frontier`, as EntityStore has that of
   `source_entities`.
3. A portal that publishes another bundle, and torn ranges, in BundleCache.
