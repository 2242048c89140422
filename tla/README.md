# bids-service in TLA+

bids-service finds the bid schedules that are due, collects a report from
Amazon Ads and the user's policies for each of them, evaluates the policies,
changes bids, and moves the schedule to its next state. It is one Go process: a
receiver goroutine, `NUM_PROCESSORS` processor goroutines, two more goroutines
for every job, and a `main` that starts them and shuts them down on SIGTERM.

The modules here describe that control: who may do what, in which order, and
what is left behind when a call fails, the process is told to stop, or it dies.
TLC checks small instances; TLAPS proves the safety properties for all of them.

## Inventory

| Component | State | Operations | Module |
|---|---|---|---|
| `main` (`main.go`) | the signal context; how far start-up and the deferred shutdown are | create processors and receiver, fail to, wait for them, close cache and clients; die and be started again | `Dispatch` |
| receiver (`internal/receiver`) | the due list of this poll, the schedule at hand | `Run`, `handleTick`, `handleSchedule`, `Interrupt`, `Wait` | `Dispatch` |
| processor loop (`processors/processor.go`, `group.go`) | a buffered channel, the message taken from it | `Run`, `Notify`, `Interrupt`, `WaitAll` | `Dispatch` |
| schedule states (user service) | state and due date per schedule | `GetDueSchedules`, `SetProcessing`, `DriveSchedule` | `ScheduleLedger` (promise), `Dispatch` |
| a job (`processors/handler.go`, `report_worker.go`, `preparation.go`) | work context, the shared Ads client, two result channels, `state` | `handleMessage`, `runReportWorker`, `handleReport`, `runPreparationWorker` | `TaskGroup` (promise), `HandleMessage` |
| profile cache (`internal/profile_cache`) | bigcache, the coordinator's `loads` map, load states | `GetProfile`, `Load` and the loader | `SingleFlight` (promise), `ProfileCache` |
| preparation (`preparation.go`) | attachments, policies and ad groups as they were fetched, the lookup made of them | `prepareProfileData`, `buildPreparedAdGroupLookup` | `Preparation` |
| publishing (`processors/publish.go`) | none of its own; Amazon's bids and the bid record | `publishChange`, `updateAdGroupBid`, `updateTargetBids`, `createBidChange` | `Publish`, `Amazon` |
| rows and bids of a job (`handler.go:93-163`, `eval.go`) | `state`, the row at hand | `evaluate` (its result), the new bid, the loop over the rows | `ProfileJob` |
| service clients (`services/common.go`) | none | `executeServiceRequest` | `ServiceCall` |
| configuration, logs | none that decides anything | | not modelled |

How they interact. The receiver calls the user service and the cache, and sends
a message to one processor with a plain channel send. A processor receives it in
a `select` against its context, and `handleMessage` starts the two workers, joins
them over two one-slot channels, and in a deferred function drives the schedule
at the user service. Everything shares one context made by
`signal.NotifyContext`; the workers have a child of it that either side cancels.
The Ads client is one object per processor whose token and region `handleMessage`
overwrites for every message and which the workers use from their own goroutines.

What is hard here. The due list ages while the receiver works it off. A request
to the user service can be applied and its answer lost, and the drive is retried.
A channel is full exactly when processors are slow, and then one receiver waits
for all. SIGTERM reaches every goroutine at an arbitrary point, but sends and
queued messages do not look at the context. Both workers of a job can fail at
once, each because of the other. Start-up can fail half way with some goroutines
running. In the cache several goroutines can miss at once, and the waiters depend
on one owner that can fail or be cancelled. A change of a bid is several calls to
Amazon and one to the user service, each retried, none undone; it is decided with
a snapshot that is as old as Amazon took for the report, while the seller may
change the same bids. And the process keeps nothing: after a crash all that is
left is what the user service and Amazon were told before.

What correct means, per component:

- dispatch: a schedule has at most one job; what is marked PROCESSING is not
  forgotten; no late drive takes the mark of a running job; two processors never
  work on one schedule; a full channel holds nobody up for ever; resources outlive
  their users; shutdown ends; what a dead process left PROCESSING is taken up again;
- job: Amazon is called with the right user's credentials; the error that is
  blamed is a cause and not a consequence; a failed row shows in the state; the
  job ends on all error paths; failure waits an hour; nothing is left running;
- bids: Amazon is changed only for live attachments; a job that reports success
  left nothing half done; what is recorded was done, and the record follows the
  bids; a job records a change once; what is skipped needed nothing;
- cache: one fetch per user; nobody waits for ever; all who share a load get its
  one outcome; what was fetched can be read.

`PROJECT.json` lists the hazards behind these, each at its line.

## Modules

### `ScheduleLedger` and `Dispatch`

`ScheduleLedger` is the promise of the whole service: a due schedule is claimed
by at most one job, and only the holder of the claim moves it on. It has three
variables and four actions and knows of no receiver, channel or processor.

`Dispatch` is the process. Each variable stands for state the code has: `rcv`,
`batch` and `cur` are the receiver's position, the rest of the due list and the
loop variable; `buf`, `pc`, `job`, `outcome`, `tries` are, per processor, its
channel, its position, its message, `handleMessage`'s `state` and the attempts
`retries.Retry` has left; `status` and `due` are the user service's; `stranded`
is history: schedules that were left PROCESSING by a lost answer, a drive that
gave up, or a process that died.

`Crash` is the end of the process at any moment: a panic in any goroutine, or a
kill. `Restart` starts it again after either end. Both reset everything the
process holds in memory (`Forget`) and nothing at the user service; there is no
other recovery in the code, and so none in the model. In the ledger a crash is
`Abandon`: claims are given up, and their schedules stay as they are.

An action ends where another goroutine can observe something. `Poll` is one
request, with the listing as an atomic snapshot; `LookupSucceeds` and
`LookupFails` stand for the profile, the tokens and the regional token, of which
only the success matters to the rest; the mark has three outcomes (answered,
applied but unanswered, failed). `Send` puts a message into a channel with room,
`Handoff` gives it to a processor that is in its select, which is what an
unbuffered channel does too. `Take` and `ProcessorExit` are both enabled when the
context is done and messages wait, because Go's `select` chooses freely. `Work`
is the body of `handleMessage` with any of `Results`, which dispatch hands on and
never looks at. That `Work` ends is assumed nowhere, because the polling loop of
the report worker has no limit (`ProcessorGoesOn`): properties that need it say so
(`WorkEnds`). The drive is repeated up to `MaxAttempts` times, each attempt
answered, unanswered or failed. A cancelled context makes each request fail unless
it was carried out before.

A due schedule may be looked up in any order: `batch` is a set, since nothing
the service does depends on the order the user service happens to list.

### `TaskGroup` and `HandleMessage`

`TaskGroup` is what the comment at `handler.go:58` promises of the parallel part of
a job: tasks run side by side, one is stopped only by an interrupt of all or by
another's failure, nothing goes on before every task has ended, results are used
only when all are there, and who is blamed did fail. It knows of no channel,
context or kind of error. An interrupt leaves two outs, both of which the code
takes: to blame nobody, or a task that was only stopped.

One processor, message after message. `hm`, `rep` and `prep` are the positions
of the three goroutines, `repRes` and `prepRes` the one-slot channels, `client`
the token and region the Ads client has now. `Start` also covers the early
return when `SetRegion` rejects a region, after the token was set. The report
worker requests, refreshes, sleeps, fetches, and cancels the report on a failed
refresh or a done context; `report` is Amazon's side, which moves by itself.

Errors are what `errors.Is(err, context.Canceled)` tells apart: `nil`,
`canceled`, `other`. That needs two details of the source: `errors.Join` is
`canceled` when one part is, and `preparation.go:80` and `:91` wrap with `%v`, so
a cancellation there becomes an `other`. The flag `own` in a result is history:
the worker failed by itself. It is what makes a result `failed` rather than
`stopped` to `TaskGroup`.

Rows are counted and not named; each succeeds or fails. What a row does is in
`ProfileJob`, whose jobs have no goroutines in turn.

### `Preparation`, `Publish` and `ProfileJob`

`ProfileJob` is one profile's jobs, one after another (which `Dispatch` shows they
are). It composes `Preparation`, `Publish` and `Amazon`: their variables are
disjoint, and `ProfileJob` says which of them a step leaves alone.

`ServiceCall` is what the code learns of a request to the user or policy service.
A reply that is an error does not mean that nothing was done, and a reply of 2xx
with an empty body is a success with zero data (`common.go:88`).

`Amazon` (external) has the enabled ad groups, their default bids, the bids of
their enabled targets, and `seller`: where the seller changed something since
the service did. Which targets take over a new default bid is left open, as
`publish.go:227` does. `Edited` is the set of ad groups the seller changes. An ad
group is `Aligned` when its targets follow its bid; before the service has done
anything, one that is not was made so by the seller, and begins in `seller`.

`Preparation` fetches attachments, policies and ad groups one after another, and
joins them in a loop, one attachment per step. `Publish` has one action per call
of `publishChange` and outcome: carried out, carried out without an answer, in
part, answered with another bid, refused, or not carried out (`CallFails`). A
retry is `Again`. Bids are integers, and the ones Amazon accepts are `Bids`;
`NewBid` may leave them, because the code does not clamp.

In `ProfileJob` a policy yields any of `Results`: evaluation computes metrics in
floating point and runs an external interpreter. The rows of a report come in any
order, one per ad group, since the report asks for a summary by ad group
(`report_worker.go:31`). `Crash` loses the job; the seller moves between any two
steps. `touched`, `unrecorded`, `unchanged`, `job` and the `job` and `attempt` of
a record are history.

### `SingleFlight` and `ProfileCache`

`SingleFlight` is the contract of `profileLoadCoordinator`: one flight per user,
everybody in it gets its one outcome.

`ProfileCache` is `GetProfile` and `Load` for any number of callers. The first
critical section under the mutex (`Own` or `Join`) is one step. The second is two,
`SetError` and `Publish`, with the mutex held in between (`Unlocked`): a waiter
looks at channel and error without the mutex, so the order in which they are set
matters. Everything else interleaves. Load states are heap objects in Go; here they are
members of a pool, which a caller takes when it becomes owner and which is as new
when nobody refers to it any more. As many as there are callers always suffice
(`PoolSuffices`).
`refill` is history: what the fetch behind a load state listed. A store of
several profiles is one `Store` per `Set`, and readers see the cache in between.

### MC and proof modules

`MCDispatch` fixes profile ids such that all schedules but one share a
processor, `MCHandleMessage` names the messages, `MCProfileCache` adds symmetry,
`MCProfileJob` fixes bids and results. `Dispatch_proofs`, `HandleMessage_proofs`,
`ProfileCache_proofs` and `ProfileJob_proofs` hold the theorems. Operators marked
"Mutant:" are plausible bugs, used to make sure that each property can fail; they
are not part of any specification.

## External parts and what is assumed of them

- User service: keeps state and due date per schedule and applies a request at
  most once per attempt. `ListsProcessing` says whether it lists PROCESSING
  schedules as due, `RetriesOutliveInterval` whether a schedule may come due
  again while the drive of its last run is still being retried. The repository
  does not show the service, and nothing in it rules either out. The second is
  FALSE only if the service counts the interval from the drive it applied, and no
  interval is shorter than the retries: three attempts of 15 seconds each
  (`main.go:170`), two seconds apart, end within the shortest interval of a minute.
  The properties that need both to be FALSE are the ones about one job per
  schedule; their theorems have the premise `OneRunAtATime`. `SerialHandling`,
  `DrivesSpareRunningJobs`, `ProcessingHasOwner`, the shutdown properties and the
  type invariant do not need it. In particular a repeated drive may take the
  mark of the schedule's next job while that job waits in the channel behind it,
  where the premise does not hold. `StrandedIsRecovered` needs `ListsProcessing`:
  of a user service that does not list PROCESSING schedules it says nothing.
- A request of a process that died is applied before the next process starts, or
  never.
- Context: a call made under a done context is not carried out and fails with
  `context.Canceled`. Go's HTTP client does so; of the Ads SDK it is assumed.
- Amazon keeps bids per ad group and target, changes them when asked (`Amazon`),
  and may, under `Faults`, change part of what was asked or another bid than the
  one asked for. Percentages of bids are rounded down here; nothing depends on it.
- `retries.Retry` returns at the first success or after the last attempt.
- bigcache: an entry is dropped only `profileCacheLifeWindow` (15 minutes) after
  it was stored, so never between a refill and the reread that follows it
  (`Evict`). It may fail with other errors at any access (`CacheFaults`).
- Configuration: `NUM_PROCESSORS` is at least 1 and profile ids are not
  negative; with other values the routing would panic. No code of the repository
  checks either: the tag at `user_service_contracts.go:20` is on an outgoing
  request, and no validator runs.
- The receiver is the only caller of the cache today, and its calls are
  sequential. `ProfileCache` is checked for the concurrency it is written for.

## Runs

| Run | Instance | Shows |
|---|---|---|
| `dispatch_safety` | 3 schedules, 2 processors, 1 slot per channel, 2 drive attempts, outages | `AtMostOneJob`, `ListingStaysTrue`, `ProcessingHasOwner`, `NoUseAfterClose`; implements `ScheduleLedger`; `QueueBounded`, `StuckNeedsSmallChannel`, `ShutdownIsNotBlocked`, `ShutdownWindsDown` |
| `dispatch_recovery` | 2 schedules, 2 processors, 1 slot, 2 drive attempts, outages, PROCESSING ones listed again, drives retried past the next due date, crashes and restarts, fairness | `StrandedIsRecovered`; `SerialHandling` and `DrivesSpareRunningJobs` although one schedule then has several jobs |
| `dispatch_liveness` | 4 schedules, 3 of them on one of 2 processors, 1 slot, 2 drive attempts, outages, crashes, fairness | `ProcessingResolves`, `ListedIsReached`, `OnlyFullChannelBlocksShutdown` |
| `dispatch_shutdown_tight` | channel smaller than its schedules | violates `ShutdownCompletes` |
| `dispatch_sigterm` | no outages | violates `HandledIsDriven` |
| `job` | 2 good messages and 1 bad region, up to 2 rows, all faults, fairness | `CredentialsMatch`, `BlameIsOwn`, `StateMatchesRows`, `OneResultEach`, `FailedWorkWaitsAnHour`; implements `TaskGroup`; `CancelStopsPolling`, `JobEnds` |
| `job_region` | a bad region, no other fault | violates `FailureWaitsAnHour` |
| `job_report` | the services' calls fail | violates `ReportNotLeftRunning` |
| `cache_safety` | 3 callers, 2 users, 1 profile, cache faults | `OneFetchPerUser`, `WaitersHaveOwner`, `RefillIsReadable`, `CallsWindDown`; implements `SingleFlight` |
| `cache_liveness` | 2 callers, 1 user, 2 profiles, fairness | `CallsReturn` |
| `publish` | 1 ad group, 1 target, 2 policies, up to 2 attachments, 2 attempts, 2 jobs, faults, crashes, a seller | `LookupIsFirst`, `OnlyLivePoliciesChangeBids`, `SuccessIsComplete`, `RecordedIsDone`, `LogFollowsBids`, `OneChangePerJob`, `OnlyUnfinishedMisaligns` |
| `publish_skip` | as above with 1 policy and 1 attachment, without the seller; targets begin at the ad group's bid | violates `SkippedNeedsNothing` |

Why these bounds. Two processors with two schedules on one of them and one on
the other give full channels and an idle processor at the same time. A third
schedule on the busy one (`dispatch_liveness`) makes the receiver wait for room,
with one job at work, one in the channel and one in its hand, and others listed
behind. Two drive attempts are the least with a repetition. `dispatch_recovery` has
two schedules because listing PROCESSING ones makes many more states; they fill a
channel with repetitions. The two runs with fairness give `Results` one value:
`Dispatch` hands it on and looks only at whether a status is PROCESSING. Two good
messages show what one leaves behind for the next, two rows an order among rows.
Three callers are an owner, a waiter and one that arrives while the load ends;
two users show that loads do not mix. The safety runs start from every
combination of states and due dates the user service may hold.

In `publish` two attachments of one ad group give a first and a later one that
differ in policy and in being live, two attempts a retry after a call that was
carried out, two jobs a job that finds what a failed or dead one left. Bids 1 and
2 with the results "= 2", "- 1" and "+ 100 %" reach no change, a change, and bids
below and above what Amazon accepts. One target is changed, left or followed by
itself; that some of several targets are updated is covered by the theorems,
which hold for any number, and one instance larger in each direction (two
targets; two ad groups with one job) was checked as well but takes too long to be
a run.

The bounds that cut behaviour the code has are `MaxRows`, `MaxAttached` and
`MaxJobs`; the rest are sizes of sets. The proofs remove all of them for the
safety properties.

Deadlock is checked in the dispatch, job and cache runs. In the dispatch runs it
means little, because a process may always crash and be started again; that a
shutdown does not get stuck is `OnlyFullChannelBlocksShutdown`. The publish runs
switch it off, because `MaxJobs` ends them.

## Fairness

- `Dispatch!FairSpec`: weak fairness of main, of the receiver, and of each
  processor except for the end of its work. Each is one goroutine that the Go
  scheduler runs on whenever it can go on, and each request to the user service
  ends by the HTTP client's timeout. The work of a job is more than its requests:
  the loop at `report_worker.go:79` polls for as long as Amazon leaves the report
  pending. So `ProcessorGoesOn` leaves `Work` out until the context is done, which
  ends the loop (`CancelStopsPolling`, and `JobEnds` of `HandleMessage`).
  `ProcessingResolves` has the condition that the processor of the schedule does
  not work for ever, `ListedIsReached` and `StrandedIsRecovered` that none does,
  since a full channel of one holds up the receiver of all. The shutdown property
  has no such condition. Nothing is owed by the signal, or by the clock that makes
  schedules due. Which request fails is not constrained: `ProcessingResolves`
  therefore admits a schedule whose answer was lost, one whose drive was given up,
  and one whose process died, as `stranded`.
- `Dispatch!RecoverSpec` adds, for each schedule, weak fairness of the clock and
  strong fairness of its successful lookup, its answered mark and its answered
  drive: every interval ends, and of infinitely many requests about a schedule one
  succeeds. Crashes and restarts owe nothing and are not bounded;
  `StrandedIsRecovered` is about a process that from some point on stays up.
- `HandleMessage!FairSpec`: weak fairness of the handler and the two workers.
  Amazon owes nothing, so `JobEnds` is conditional: if Amazon does not leave a
  report pending for ever, every job ends. The condition is the code's own, for
  its polling loop has no limit. `CancelStopsPolling` needs no such condition.
- `ProfileCache!FairSpec`: strong fairness of each caller. A caller that needs the
  mutex may find it taken again and again, but `sync.Mutex` hands it over to one
  that has waited for a millisecond; all else is the same as for weak fairness,
  and fetches end by the HTTP client's timeout.
- `ProfileJob` has no liveness: that a job ends is `JobEnds` of `HandleMessage`, and
  what it does to bids must hold at any point at which it stops.

## Disagreements between code and documentation

Five runs are expected to fail. Each checks a sentence of the repository.

1. `dispatch_shutdown_tight`: `Notify` (`processor.go:50`) is a send that does not
   look at the context. If its processor has left its loop and its channel is full,
   the receiver is stuck, and `main` waits for it for ever. `dispatch_liveness`
   shows that this is the only way in which a shutdown does not end. It is proved
   that nothing but the death of the process frees it (`StuckIsForEver`), that it
   needs a channel with fewer slots than schedules routed to it
   (`StuckNeedsSmallChannel`), and so that a `WORKER_BUFSIZE` of at least the number
   of schedules per processor rules it out (`RoomyNeverStuck`).
2. `dispatch_sigterm`: the deferred drive (`handler.go:34`) runs under the context
   SIGTERM has cancelled, so a job in flight leaves its schedule PROCESSING.
3. `job_region`: a rejected region returns before `state` is set
   (`handler.go:47`), so the failed job is driven to PENDING without the hour the
   comment at `handler.go:15` asks for. It is the only one: `FailedWorkWaitsAnHour`
   is proved of every failure of a worker.
4. `job_report`: the report is cancelled under the context that is already
   cancelled (`report_worker.go:108`), so it goes on at Amazon.
5. `publish_skip`: whether a bid needs a change is decided by the ad group's default
   bid (`publish.go:26`). When an earlier job set it and then failed or died before
   the targets, the next job that arrives at the same bid skips the ad group
   without an error: the targets keep the old bid and the change is never recorded.
   `OnlyUnfinishedMisaligns` is proved and says how far this goes: apart from the
   seller's own changes, only ad groups with such an unfinished change have targets
   at another bid.

Smaller observations. A failed report request does not call `cancel`
(`report_worker.go:53`), although `handler.go:58` says that either side can stop
the other so; the job ends and is blamed rightly all the same. The message
"Published bid change to Amazon, failed to update change in platform database"
(`publish.go:55`) is also written for a change that is not live, and its ad group
name is always empty. The receiver compares regions in upper case
(`receiver/handler.go:100`) and hands the region on as it came, so that a region
can pass there and be rejected at `handler.go:43`. `reportDaysLength`
(`report_worker.go:24`, 30 days) is unused; the report covers 14.

Another observation is in a property that holds: `BlameIsOwn` allows the branch
"just for completeness" of `selectProcessingError`'s caller (`handler.go:75`) and
a wrongly blamed preparation only after SIGTERM, and after SIGTERM both happen.

## Proofs

All theorems are for any sets, sizes and fault flags the named assumptions
(the `ASSUME` of each module) allow.

`Dispatch_proofs`. Three layers, each inductive relative to the one before:
types with `Occupied` (who is where holds a schedule, needed because the actions
index by `cur` and `job[p]`); `Phases` for shutdown, giving `NoUseAfterClose`;
`Routed` (each job is where the modulo puts it), giving `SerialHandling` and, with
`OnlyDrivesUnmark` (only the drive of a schedule takes its mark),
`DrivesSpareRunningJobs`. None of them assumes anything of the user service. `Claims` adds that a listed schedule
is due and not PROCESSING, and a schedule with a job is PROCESSING until its job
drives it and from then on not due, so that the two sets stay disjoint. It is
what makes `AtMostOneJob` inductive, which alone it is not: `Poll` could list a
schedule that has a job. `AtMostOneJob` and `ListingStaysTrue` follow under `OneRunAtATime`;
that a waiting job stays marked (`WaitingIsMarked` there) is a part of `Claims` and
no result of its own, since the premise excludes what could break it. `LedgerView` says what each step looks like to the
ledger; `ProcessingHasOwner` follows without, and `ImplementsLedger` with,
`OneRunAtATime`.

From `Claims` also follows that what processor `p` has ahead of it are different
schedules, all routed to `p`. With `FiniteAssumption` (the user service has finitely
many schedules) a count of them is `QueueBounded`, hence `StuckNeedsSmallChannel`
and `RoomyNeverStuck`. `Made` (the receiver is made after all processors, and
`main` has its deferred function wait only under a cancelled context) with the types
gives `ShutdownIsNotBlocked` and `StuckIsForEver`. `ShutdownWindsDown` is shown
goroutine by goroutine: each has a rank that its steps lower under a cancelled
context, and which no other goroutine raises except the receiver by sending.

`HandleMessage_proofs`. `Joined` says a worker that runs belongs to the message
the handler waits for, which gives `CredentialsMatch`. `RowsInv` ties `state` to
the history of rows. `CausesKnown` is the strengthening for `BlameIsOwn`: while
the handler waits, each cancellation is SIGTERM or has a worker with a failure
of its own in its channel, and only then may an error be a consequence.
`ResultsInv` adds who has left a result where (`Posting`) and that a failed worker
stays known until the job is driven (`FailureKnown`). It gives `OneResultEach` and
`FailedWorkWaitsAnHour`, and with `CausesKnown` the refinement: a step of a worker
is an `End` of its task or a stutter, `Collect` one of the joins, and all else
closes the group or leaves it alone. `PollingWindsDown` needs `Joined`: no new message
starts while the report worker runs.

`ProfileCache_proofs`. `IInv` adds to the types `Locals` (who has a user and a
load state), `Ownership` (map entries and owners correspond), `LoadStates`
(what is held and open is in the map, what is free is new) and `Refilled` (what a
load listed is cached or still to be stored). It gives the three safety
properties, and with the step lemmas that every step of the cache is a step of
`SingleFlight` or a stutter: `SetError` is a stutter, and needs that the error is
set before the channel is closed. `CallsWindDown` has two parts: each step of a call
lowers its stage or what it has still to store, and the steps of all others leave
the call's own variables alone. `PoolSuffices` counts: every load state in use
belongs to a call, and the one at `load` holds none.

`ProfileJob_proofs`. `TypeOK` needs `Working` (a call is made with an attempt left,
and targets are set to a bid Amazon accepted) and `Fresh` (the loop over the
attachments begins with an empty lookup). `LookupIsFirst` is inductive given the
types. `Phases` says which part of the job may be at work, and that what is being
published belongs to an entry of the lookup that is not dealt with; `LiveOnly`
that Amazon is called about live entries only. Together they are `Core`, which
gives `OnlyLivePoliciesChangeBids`, and on which three independent arguments rest:
`Progress` (how far a change has come at Amazon if no seller interferes) gives
`RecordedIsDone` and, with the log, `LogFollowsBids`, and with `Unfinished`
(while targets are fetched or updated their ad group has no record yet)
`OnlyUnfinishedMisaligns`; `Numbered` (the records of this job are of rows
dealt with, or of earlier attempts at this change) gives
`OneChangePerJob`; `Succeeding` (as long as no error was noted every row dealt
with is accounted for) gives `SuccessIsComplete`. Crashes are steps like any
other: what they may leave is what the invariants do not forbid.

Only model-checked: everything about liveness (`ProcessingResolves`,
`ListedIsReached`, `StrandedIsRecovered`, `OnlyFullChannelBlocksShutdown`, `CancelStopsPolling`,
`JobEnds`, `CallsReturn`), since fairness and ENABLED are out of the prover's reach,
and the counterexamples. What three of them rest on is proved for every instance:
that steps lead to the end and never away from it (`ShutdownWindsDown`,
`PollingWindsDown`, `CallsWindDown`), and that somebody can take one
(`ShutdownIsNotBlocked`, `OneResultEach`, `WaitersHaveOwner`). What stays with
TLC there is that fair goroutines then do so.
`ProcessingResolves`, `ListedIsReached`, `JobEnds` and `StrandedIsRecovered` have no
such part proved: they need a measure over jobs and repeated polls.
`PollingWindsDown` is proved and not part of a run: TLC checks what it is for,
`CancelStopsPolling`.

What some properties leave out on purpose. `LogFollowsBids` and
`OnlyUnfinishedMisaligns` exempt ad groups the seller changed and those in
`unrecorded`, whose change a failure or a crash cut short: what is left there
is the subject of `publish_skip`. That a retry overwrites a bid the seller set in
between is not forbidden. `OneChangePerJob` allows a change to be recorded more
than once and bounds the copies: the same change, once per attempt.
`ProcessingHasOwner` counts a message in the channel of a processor that has exited
as held until the process ends, and excuses what `stranded` has; that the stranded
come back is `StrandedIsRecovered`.

## Not modelled

- Evaluation of metrics: floating point handed to an external interpreter; its
  result is any result. That acos and roas are -1 without sales, and roas infinite
  without cost, is listed as a hazard without a property.
- HTTP request building and JSON decoding: a call is its reply.
- Configuration and logging: read once, respectively without effect; all
  callers drop the errors of the user log.
- Marketplaces, campaigns and names, which are only passed on.
- Failures of start-up before the deferred function is installed: they end the
  process with nothing running.

## Plan

Order of work, the most important behaviour first.

1. Done: `ScheduleLedger` and `Dispatch`, `HandleMessage`, `SingleFlight` and
   `ProfileCache`, with their proofs.
2. Done: crash and restart in `Dispatch`; `ServiceCall`, `Amazon`, `Preparation`,
   `Publish` and `ProfileJob`, with their proofs.
3. Done: `TaskGroup`; ranks and absence of blocking behind the liveness properties,
   the bound on channels, `OnlyUnfinishedMisaligns`, with their proofs.
4. Done: no end of work is assumed any more (`ProcessorGoesOn`, `WorkEnds`); what a
   late drive can and cannot do (`DrivesSpareRunningJobs`); what is behind a full
   channel (`ListedIsReached`); the second critical section of the cache in steps.
   Still worth having: what the join and the arithmetic of a job keep for the
   operators taken by themselves (`NewBid`, `TargetBidUpdates`).
5. A refinement of `Dispatch`'s `Work` and drive by `HandleMessage` was considered and
   left out: the two share only the three results of a job and the repeated drive,
   and nothing a property speaks about would follow.
