# Verification of parlay-platform: the soccer engine and the MLB lock

TLA+ models of the concurrent core of `soccer_auto` and of the MLB daily lock in
`hello_world`, checked with TLC on small instances and proved with TLAPS for
every value of the constants, but for what section 5 leaves to TLC. All definitions
are translated from the Python source and, for schedules and timeouts, from the
deployment templates (`src/soccer-auto-template.yaml`, `src/template.yaml`).
`PROJECT.json` maps each definition to the lines it models.

## 1. Inventory of the system

The repository is a family of sports-prediction services on AWS Lambda,
DynamoDB, SQS and S3. `soccer_auto` has the most explicit concurrency control:
leases, compare-and-swap rows, generations, put-if-absent evidence, one
transactional publish, and written promises about all of them in
`docs/SOCCER_AUTO.md`. It is what this project models first. The second system
is the MLB lock of `hello_world`: rows written once that decide each game at its
own T-45, and a coordination row through which past slates are replayed beside
the live one.

| Component | State it keeps | Operations | Interacts with | What is hard |
|---|---|---|---|---|
| Fixture inventory (`collector.inventory_handler`) | authority row (state, revision, generation, lease), Events table | claim a generation, refresh each competition, count omissions, finish | dispatcher and API read its rows; settlement writes the same rows | overlapping runs, lapsed leases, Lambda death, answers out of order |
| Dispatcher (`collector.dispatch_handler`) | dispatch manifest, `last_dispatched_at` stamps, QUEUED rows | scan, bind, publish manifest, enqueue discoveries, stamp | inventory, queue, coverage row, API | non-atomic scan, stale stamps, death between row, message and stamp |
| Coverage workers (`collector.worker_handler` and below) | coverage row, discovery and fetch leases, certificates, SQS messages | discover, publish plan, fan out, fetch, split, merge, certify | queue, limiter, quota, inference | at-least-once delivery, crashes, overtaking split children, superseded generations |
| Request limiter (`odds_api.DistributedOddsApiRateLimiter`) | one row `next_allowed_ms` | acquire, retry | every Lambda that calls the provider | CAS race, deadlines, contention |
| Final decision (`inference.freeze_handler`, `predict_lock`) | T-10 locks, predictions, public bindings | build lock, run every model, publish champion | coverage certificates, controller state, inventory, API | overlapping invocations, stale reads, deadline |
| Autonomous controller | AUTONOMY/STATE row | judge health, persist if newer | publication, promotion | overlapping cycles |
| Trainer and registry | CHAMPION alias, model states | train, promote, reject | publication | promotion inside a decision window |
| Settlement | settlements, admissibility certificates, `completed` flag | settle, certify, migrate | Events table, trainer | conflicts, resumable migration |
| Quota admission, collection windows | quota snapshots, LATEST row, window rows | admit, record, open a window | every paid call | stale quota, windows that may only move earlier |
| Snapshots and canonical slots | attempts, slot pointers | put attempt, promote pointer by rank | locks, historical jobs | CAS by attempt id |
| DLQ recovery, historical backfill, LLM analyst, health | queue, S3 checkpoints, reports | requeue, resume, report | queue, S3 | send-before-delete, checkpoints |
| MLB per-game lock (`mlb_daily_per_game_lock_patch.run_lock`) | stage, canonical row and NO_PREDICTION outcome of each game, daily card, post-window markers, execution lease | observe, generate, close the source window, stage, store, index, reconcile, repair | pull store, predictor's snapshots, EventBridge, the replay | reads before a write, repair beside the next run, rows that land late, writes whose answer is lost |
| MLB cooperative replay (`mlb_daily_pick_lock_protected`, `mlb_prospective_row_repair`) | one coordination row (request, claim, checkpoint, receipt, history), execution lease, terminal outcomes | request, claim, process or verify one game, checkpoint, review, complete, acknowledge | callers of the replay route, the minutely invocation, today's slate | one slot for many requests, claims that lapse, Lambda timeouts, receipts nobody saw |
| Public API | none (read-only) | serve coverage, manifest, picks | all of the above | serving only what is still bound |

The other subsystems (the rest of `hello_world`, the `mlb_*` packages, `nfl_auto`,
tennis, cfb, nba, arbitrage in `inqsi-arb`, the engineering console, frontend and
scripts) are listed in `PROJECT.json` with the reason they are left for later or
left out.

**What makes each modelled component correct**

- *Inventory*: only the holder of the generation writes; a COMPLETED authority
  names a run that refreshed everything; an older answer never repaints a
  newer one; an omission is a provider answer of its own.
- *Dispatcher*: an accepted manifest describes the Events table; a stamp
  belongs to the current schedule revision.
- *Coverage*: certificates are honest; no batch, split or generation is lost
  while its event is collectable; evidence is only added; generations end.
- *Limiter*: requests own spaced slots, inside the caller's wait; contention
  means progress; acquire ends.
- *Publication*: one lock, one whole immutable pick per revision, made under a
  current authority and schedule, in time, and always servable by the API.
- *Per-game lock*: a game ends one way, decided by the last valid snapshot that
  landed by its cutoff and the pulls up to that one's source; the daily card is
  whole; nothing is promoted behind a marker.
- *Replay*: one replay at a time; no request and no receipt is lost; nobody is
  told what is not so; a review is lifted once; today's slate comes first.

## 2. Modules

| Module | What it is |
|---|---|
| `InventoryAuthority` | inventory runs, the Events table, the dispatcher's scan, manifest and stamps, settlement's `mark_completed` |
| `InventoryAuthorityProofs` | its proofs |
| `CoverageCycle` | dispatcher and workers over one event's coverage row, its leases, queue and certificates |
| `CoverageCycleProofs` | its proofs |
| `CoverageGenerationProofs` | what can strand a generation, and what a split |
| `CoverageLedger` | abstract specification of the coverage row and its certificates |
| `CoverageLedgerProofs` | `CoverageCycle` implements it |
| `RateLimiter`, `RateLimiterProofs` | `acquire` and the provider retry loop, and proofs |
| `PublicDecision` | abstract specification of the public pick |
| `PublicPrediction` | freeze, predict, publish transaction, controller, promotion; refines `PublicDecision` |
| `PublicPredictionProofs` | its proofs, the refinement included |
| `PerGameLock` | the feeds, `run_lock` and its repair: stages, canonical rows, outcomes, card, markers |
| `PerGameLockProofs` | its proofs |
| `CooperativeReplay` | callers and invocations over the coordination row and the execution lease |
| `CooperativeReplayProofs` | its proofs |
| `MC*` | instances for TLC; they add constants only |

The components share tables, not messages, so each module carries the other
components' writes to its tables as actions: `RewriteEvent` and `CompleteEvent`
of `PublicPrediction` are the inventory's and settlement's writes of
`InventoryAuthority`; `Close` of `CoverageCycle` is the schedule moving on;
capacity granted or refused by limiter and quota is the choice in
`DiscoveryDeferred` and `FetchUnanswered`. `ServeCurrent` of
`CooperativeReplay` stands for a whole run of `PerGameLock`. The handler's lease
of the former (`MLB_LOCK_EXECUTION#V1`) spans the invocation; `run_lock` takes one
of its own inside it (`#V2`), gives it back before the repair and checks no other.
`PerGameLock` has the inner lease only and so allows more overlap than the
deployed handler: what it shows does not rest on the caller.

### InventoryAuthority

`authority` is the EVENT_INVENTORY_AUTHORITY row, `events` the METADATA rows,
`run` and `dispatch` the local variables of the Lambdas, `manifest` the
dispatch manifest. `BeginRead`/`BeginWrite`/`BeginLost` and
`FinishRead`/`FinishWrite`/`FinishLost` are the read and the conditional write
of `begin_` and `finish_event_inventory_generation`; a lost condition goes back
to the read, as the loop does. Each row of a competition is stored
(`PutEvent`) or counted as omitted (`OmitEvent`) by a step of its own. The
dispatcher reads the authority, scans row by row, reads the authority again
(`BindingOf`), publishes the manifest and stamps the events; the same record
then serves the next invocation or a retry of this one. A run past its Lambda
timeout takes no further step (`Alive`).

### CoverageCycle

One event. `row` is COVERAGE_LATEST; sets stand for the digest lists, and all
split groups' leaf sets are kept together (`RootOf` tells the group).
`dispatch` is the dispatcher: `due` (the event will be picked up), `send`
(QUEUED was written), `mark` (sent, not yet stamped). `queue` counts visible
deliveries of each message, `lease` the two execution-lease tables, `worker`
the invocations with their place in the code. `AfterAttempt`, `AfterPlan`,
`AfterExpected`, `Merged` are the pure mutations that the store applies under
its revision CAS, which is one step here because it retries until no writer
came between. Merging follows `_merge_latest_coverage_attempt`: leaf frontier
(`Leaves`), verdict of the split root (`RootVerdict`), pair classes
(`Pairwise`), batch sets (`Settled`). Clocks appear only as an order:
`row.late` and `worker.older` record who read the clock before whom, which is
what `discovery_status_observed_at` compares.

`CoverageLedger` is what readers of the row may rely on: generations move forward,
each gets one plan, entries under it are only added and only for what the provider
answered, a certificate is of a plan whose batches and required pairs were all
answered. A batch counts as answered when each of its parts is, in the least set
closed upwards (`Settles`); the frontier of leaves by which the code finds that
out is no part of the promise. `Ledger` in `CoverageCycle` reads it off the row.

### RateLimiter

`next` is `next_allowed_ms`. A caller's loop is `Observe` (clock and deadline),
`ReadRow`, then `Wake` after a sleep or `Grant`/`LoseRace`/`TableFails` for the
update; `UpdateUnanswered` is the update that is applied but whose answer is
lost. `CallProvider` sends the request of an attempt and goes back to acquire
for the next. `Skew` gives each caller its own clock.

### PublicPrediction and PublicDecision

One fixture with its schedule revisions. A freeze goes through
`ReadLock`/`BuildLock`, `ListModels`, and per model `RereadEvent`,
`RereadAuthority`, `Stamp` (last clock read and deadline check), then
`WriteShadow` or `Publish`. `MayCommit` is the condition of the transaction
(autonomy state and fixture row unchanged, both rows absent); a refused
transaction is diagnosed by `Judge`, which rereads. `PublicDecision` says what
is promised: at most one decision per revision, taken while the revision is
current, the fixture open and the authority allowing, never changed.
The refinement maps the decision to `Served`, the pick the API would show.

### PerGameLock

`pulls` are the provider's answers (dated when answered, stored later),
`predictions` the acknowledged predictions, each with its source pull and the state
of its snapshot;
`late` and `landed` note which came after a cutoff and are only for the
properties. The rows `stage`, `canonical`, `outcome`, `card` and `markers` are
each written once. A run is one invocation of `run_lock`: `Begin` takes the
lease and reads the pulls; `AfterWindow` answers from a marker or records one;
`Observe` has the early returns and orders the games, those with a stage but no
canonical row first (`TakeUp`). Per game, `Generate` promotes the last valid
snapshot whose source pull the run has read, and binds the window up to that
source (`BoundWindow`, `_source_pull_for_candidate`): pulls that come after it, also
before the cutoff, are not bound. `CloseWindow` reads the pulls again and starts over
when the source window moved, be it after that source, `PutStage`, `CheckCanonical` and `StoreCanonical` write, and
`PutOutcome` records NO_PREDICTION where no snapshot exists, valid or not.
`Final`, `RecheckPulls` and `PutCard` end in the daily card, `Release` gives the
lease back, and `RepairRead` to `RepairPut` are the repair of missed games, which
runs after that. Any write may fail or lose its answer, and a run may die
between any two steps.

### CooperativeReplay

`row` is the coordination row, `lease` the execution lease, `outcome` the terminal
rows of past slates, `worker` the invocations, `caller` the calls of the replay
route. Callers: `AskReplay`/`PutRequest`/`RecheckRequest`,
`AskAcknowledge`/`Acknowledge`/`Confirm` and `LiftReview`, each a read or one
conditional write with its answer possibly lost. Invocations: `StartOwner`, the
early claim on a persisted proof (`LookEarly`), today's slate
(`ServeCurrent`), the late claim (`LookLate`, `PersistProof`, `Claim`), one game
of the chunk (`ProcessGame`, `WriteOutcome`, `VerifyGame`, `ProveComplete`) and the
end of the claim (`SaveCheckpoint`, `SaveReview`, `SaveComplete`, `Requeue`,
`Release`). Time is in timers that `Tick` runs down, so there is no horizon.

## 3. Runs

Twelve runs, two of which show a disagreement; the ten others make 40 checks of
properties, each with a mutant of the code that breaks it.

| Run | Instance | What it shows |
|---|---|---|
| `inventory_fenced` | 2 runs, 1 dispatcher, 1 event, 2 identities, lease 2 > timeout 1, 3 ticks | types, the fence, and that an accepted manifest is true, in the deployed regime (600 s lease, 300 s Lambda) |
| `inventory_slow` | 2 runs, 1 dispatcher, 1 event, 2 identities, lease 1 < timeout 2, 2 ticks | what the conditional writes give without the fence: whole generations, fresh stamps, no repaint, honest omissions |
| `coverage_fanout` | 2 batches, 2 workers, 1 fault, leases may lapse | no batch lost, verdicts exclude each other |
| `coverage_generations` | 2 generations, 1 batch, 2 workers, 1 fault, no lease lapses under a live worker (an assumption, see below) | no generation stranded, honest certificates, late workers harmless |
| `coverage_split` | 1 batch halved by region, 2 workers, 1 fault among the fetches, leases may lapse | no half omitted, a batch stranded only behind a wrong leaf record, `CoverageLedger` implemented: partial answers count for nothing |
| `coverage_liveness` | 1 generation, 2 workers, 1 fault, fairness, no lease lapses under a live worker (assumed) | every generation settles |
| `coverage_resplit` | a half halved again, 2 workers, no fault | **violated**: finding 1 |
| `limiter` | 2 callers, skewed clocks, 2 attempts, 1 table failure, fairness | spacing, deadlines, progress, termination |
| `publish_race` | 2 freezes, 2 controllers, 2 models, 2 revisions | one lock, one whole immutable pick in time, forward-moving authority, refinement, under rescheduling and promotion |
| `publish_promoted` | 2 freezes, 2 models, promotion | **violated**: finding 2 |
| `game_lock` | 2 runs, 2 games (the second's cutoff is the first's start), rosters {1} and {1,2}, 2 pulls, 2 predictions, 2 attempts, 1 fault, 4 ticks | one terminal state, nothing overlooked, whole card, final markers |
| `replay` | 2 invocations, 2 callers, 2 slates, 3 requests, 1 game, timeout 1, crashes anywhere | no request lost, true acknowledgements and receipts, one lifted review, today first |

Deadlock checking is off in all of them: invocations end and bounded clocks
stop, so every behaviour may come to rest.

**Bounds and why they are enough.** Two invocations of each kind give every
pairwise race; the conflicts in this code are between one writer and one stale
reader, and the rows are compared by revision, so a third adds no new kind of
conflict. `MaxTime`, `MaxMeta`, `MaxGen`, `MaxFaults` and `MayClose` are the named bounds:
time is long enough for a lease to lapse, a second run to take over and a
manifest to age out; one fault at any place covers every crash point of every
handler; two generations give supersession and every late worker of it. Two
batches and a two-level split tree give every order in which a merge may meet
the frontier. The event may close (`MayClose`) where progress is checked and
where a finding is shown; a closed event only adds early returns, so the larger
safety runs keep it open. Leases lapse under live workers (`LeasesLapse`) in `coverage_fanout`
and `coverage_split`, as deployed: 300 seconds (`storage.py:41`) against a Lambda of
900 (`soccer-auto-template.yaml:600`). `coverage_generations` and
`coverage_liveness` assume that they do not: `NoGenerationStranded` needs it (section
4), the other properties are proved without (`CertificatesSound`, `EvidenceKept`),
and a generation that can be stranded need not settle. `coverage_split` is cut down so that lapses fit:
`FaultsWhileFetching` lets the one fault fall on the fetches only
(`coverage_fanout` has it fall on the discovery too), the two halves are
interchangeable (`SplitSymmetry`), and the view `Essential` leaves out what neither
a step nor a property reads (the owner of a lease that is over, and which pairs came
with which answer). Events share nothing but
the authority row, so one event suffices in the inventory runs; its two
identities are the provider changing its answer. Constants are ordered as in the
deployment (lease and timeout, window and deadline), not in seconds.

`game_lock`: the second game's roster may be reported late, so one run may see a
smaller slate than the next; with its cutoff at the first game's start there are
instants in which one game is due while the other is not, is missed, or has
started. `MaxFeed` bounds pulls and predictions together at three, which gives a
late pull beside a late snapshot; an answer of the provider may already be on its
way at the start, so that a prediction may rest on the older or the newer of two
pulls and the newer may land between a run's reads. That an older prediction is
promoted because the newer one's source was not read takes a fourth feed and is
covered by the proof only. `MaxBegins` is two, so every overlap is
between a run and the next (or its repair and the next). Giving up after the
last attempt of the source window needs a third late pull and is not reached by
this instance; it only sets `failed`, as the roster change does, and the proofs
cover it. `replay`: with three requests the slot is given on twice, so a caller may be
two requests behind; one game already has processing, verification and
completion in separate invocations. Its other constants are the smallest that
keep the order of 900, 960, 660 and 180 seconds.

**Fairness.** `CoverageCycle`: a running Lambda takes its next step (weak
fairness of `Progress`), the dispatcher runs every minute, SQS redelivers a
visible message (strong, as other deliveries may come first), a lease held by a
dead worker expires and can be taken (strong, as others may take it), and the
provider and the quota do not refuse the same work for ever. The last is an
assumption about the outside; the code cannot give it, and a provider that
always answers 5xx keeps a generation open, by design. Crashes are never fair,
and redelivery is not bounded here (see below). `RateLimiter`: callers step and
time passes; nobody is owed a start, nor a failure.

## 4. Findings

1. *A split part that nobody will fetch* (`coverage_resplit`). The root's
   SPLIT_PENDING, merged after its half was itself halved, puts that half back
   into the frontier although it is terminal.
2. *A promoted challenger meets its own shadow row* (`publish_promoted`).

Both are quoted against the source's own words in `PROJECT.json`.

Other disagreements met while modelling, without a run:

- *A complete cycle without a certificate.* The merge that completes a cycle mints
  its certificate, and a duplicate delivery heals a lost one
  (`storage.py:1065`, `2529`, `3105`). When the last batch is merged before
  `complete_coverage_fanout` has recorded the fanout, neither happens, no crash
  needed. The next cadence starts a new generation, so the loss is one
  generation's evidence; before T-10 that can be the one the lock wanted.
- *A half that is waiting although its work is over.* A half's answer is merged, and
  its worker fails before it completes the lease (it dies, or the certificate at
  `storage.py:3105` cannot be written and the handler at `collector.py:1448` gives the
  lease back). A duplicate that read the row before that merge (`storage.py:1059`)
  takes the lease, is deferred for quota, and its merge takes the half out of the
  completed leaves (`storage.py:2855`) while its digest stays terminal. Every later
  delivery is then acknowledged as a duplicate, so the batch gets no verdict in this
  generation. That takes two faults; if the lease lapses under its live holder (300
  seconds against 900, as deployed), the duplicate alone is enough, and TLC finds that
  with two workers on the instance of `coverage_split`. That run therefore does not
  claim that the batch gets its verdict: it claims that no half is omitted, and that
  nothing but such a leaf record strands a split. Both are theorems
  (`HalvesNotOmitted`, `StrandedOnlyByRecord`), and so is the list of causes
  (`WhatStrandsASplit`). The row has lost no evidence (`EvidenceIsKept`,
  `KeepsLedger`); the next cadence starts a new generation.
- *A snapshot that lands late.* `mlb_game_winner_engine.py:739` acknowledges a
  prediction before the cutoff and writes its snapshot afterwards; a run in
  between promotes the one before, or records NO_PREDICTION, although the stage
  states that the last prediction persisted by T-45 is promoted
  (`mlb_daily_per_game_lock_patch.py:5668`). `NothingOverlooked` is therefore about
  the snapshots that landed in time.
- *A marker's missed count goes stale.* The marker is written once
  (`mlb_daily_per_game_lock_patch.py:1105`) and later runs answer from it, but the
  repair that follows may declare a game it counts as missed NO_PREDICTION. The
  locked games stay exactly those, and no missed game is promoted; that is what
  `MarkersStayTrue` says, and no more.
- *A pull between the source and the cutoff.* A stage's source window ends with the
  source pull of the promoted prediction, so a pull answered and stored before the
  cutoff but after that source is not in it. Nothing is bound wrongly:
  `NothingOverlooked` speaks of the pulls up to the source.
- *An ambiguous completion is requeued.* The comment at
  `mlb_daily_pick_lock_protected.py:5802` says that it is "never overwritten or
  requeued"; the handler's except path (near line 7119) calls
  `_requeue_cooperative_replay`, whose condition makes it harmless: a completed
  row is no longer CLAIMED. `Requeue` is modelled as the code has it.
- *The canonical row may land after first pitch.* The docstring at
  `mlb_daily_per_game_lock_patch.py:6951` promises a store before the start; the
  clock is checked before the write, so a run stalled in between writes later
  (`CheckCanonical`, then `StoreCanonical`).
- *A generation stranded behind a lapsed lease.* `NoGenerationStranded` is checked
  with leases that outlive their worker. The discovery lease is 300 seconds
  (`storage.py:41`) and the worker Lambda may run 900
  (`soccer-auto-template.yaml:600`): a worker stalled before `put_coverage_plan`
  may wake after another one has taken the lease, been refused by the provider
  and completed the lease. `put_coverage_plan` looks at the plan only, so it
  reopens the settled generation as PLAN_READY; if that worker now dies, its
  redelivered message meets the completed lease and is acknowledged as a
  duplicate. TLC finds this with three workers and three faults; the next
  cadence starts a new generation. That it takes a completed lease, and a lease taken
  from a live worker, are theorems (`StrandedOnlyByLease`,
  `StrandedOnlyByOvertaking`).
- `docs/MLB_ML_PRODUCTION_MILESTONES.md:218` speaks of a 360-second execution
  lease; the code's is 960.

## 5. Proofs

Theorems hold for any number of invocations, events, models, revisions and any
values of the time constants; what they assume is named.

- `InventoryAuthorityProofs`. `TypeInvariance`. `Fenced` and `ManifestTruth`
  assume `LeaseOutlivesRun` (`FunctionTimeout < LeaseSeconds`, 300 < 600 as
  deployed). `MutatorsAreFenced` is not inductive: a run about to claim has
  already read the authority, so `FenceInv` also says what a claiming run's
  reading is worth. `ManifestTruth` needs `Snapshot`: under a COMPLETED
  authority nobody can write, so what was scanned since the authority took its
  present revision is still true; `Snapshot` carries that from the scan to the
  binding to the manifest and through stamps and completions. `NoRepaint`,
  `OmissionsDistinct`, `StampsAreFresh` and `GenerationsAreWhole` need no
  assumption on leases: they are what the row conditions alone give.
- `RateLimiterProofs`. `TypeInvariance`, `SpacedSlots`: the row is ahead of
  every slot in use (`RowIsAhead`), slots in use are apart (`SlotsApart`), and
  attempts are made in order (`CallersInOrder`). `TimelySlots` from `TimelyInv`:
  every clock reading a caller still uses lies in its wait (`InWait`).
  `ContentionIsProgress` from `ProgressInv`: without table failures, a caller whose
  expected value is no longer the row's, or who has been told so, saw a grant
  since it started (`Beaten`). No assumption on clocks.
- `PublicPredictionProofs`. `TypeInvariance`, `Immutable`; `Whole` and
  `SameEvidence` from `WholeInv` (who works on a revision has its lock; rows
  come after locks); `Implements`, the refinement of `PublicDecision`: initial
  states map to initial states, `Publish` to `Decide`, fixture writes to
  `Reschedule` or `Complete`, controller writes to `SetAuthority`, and
  everything else to a stutter. `PicksAreServable` from `TimesInv`: locks were
  taken inside the window of their revision (`LocksInWindow`), and a freeze's clock
  readings stay between its lock and the deadline however long it is stalled
  (`FreezesInSchedule`), so what passes the last deadline check passes the API.
  `AuthorityForward` is the controller's put-if-newer.
- `PerGameLockProofs`. `TypeCorrect`, `OneTerminalHolds`, `NothingIsOverlooked`,
  `DailyCardWhole`, `MarkersAreFinal`, from the assumptions on the constants alone
  (each cutoff before its start, rosters nested). The inductive invariant is
  `GamesInv`: types, `RunsInv` (a run's view is of stored pulls, and the places that
  write stages, canonical rows, card and markers are under the one lease) and
  `CoreInv`, which says of each game what its rows and the item in hand rest on.
  A run's view holds
  the source of the prediction in hand and all earlier pulls of the window it has
  read, and a stage's window ends at the source (`SourcesInv`, `Generated`).
  None of the properties is inductive: the repair writes outside the lease, so
  `OneTerminal` needs that a stage in hand rests on a snapshot (`Promotes`), that
  the repair has seen none, and that `Generate` starts nothing after first
  pitch. The lemmas named `...Grow...` say that once a cutoff has passed, new pulls
  and snapshots are late, so what was covered stays covered. The card and the
  markers are proved on top, by layers of their own.
- `CooperativeReplayProofs`. All seven properties of the run (`ReplayType`,
  `OneAtATime`, `RequestsKept`, `ToldTheTruth`, `ReceiptsTrue`, `LiftedOnce`,
  `TodayFirst`), from the order of the timeouts alone (`TimesAssumption`). The
  lease and the claim are longer than the life of their owner and run down with
  it (`LeaseInv`, `WorkInv`), so one invocation is there at a time and the row is
  its own while it works; then its checkpoint is the row's (`AgreementInv`), and
  since outcomes are written once a receipt stays true. Requests are numbered,
  which is what a caller's late answer is judged by (`RequestsInv`); a requeue
  carries the mark of the incident on (`ReviewInv`). `TodayFirst` needs `FreshInv`:
  the proof of today's slate that a claim used is too old by the time the claim
  has lapsed, so a later claim needs another proof.
- `CoverageCycleProofs`. `CoverageType`, `EvidenceKept`, `BatchesKept` and
  `CertificatesSound`, for any tree of split jobs in which every job but a batch
  has one parent (`TreeAssumption`), any number of workers and faults, and leases
  that may lapse at any time. `RootOf` and `Carried` are recursive functions along
  parents; since induction over data is out of reach, their equations are proved
  from the least relation that contains every recursion step
  (`ParentRecursion`), and the rest cites `RootEquation` and `CarriedEquation`.
  `Merged` is taken apart by lemmas on its parts (`LeavesRow`, `PairwiseRow`,
  `SettledRow`, `MergedRow`), and each action has an `...Effect` lemma. Evidence
  only grows, so what makes a delivery superfluous stays (`Ended`). `NoBatchLost`
  is not inductive: a worker that acknowledges must have had a reason that
  stays. `DeliveryInv` says that fetches are of published plans, that a completed
  lease has its evidence, that what is marked, or sent and not yet marked, is
  kept, and that a stale fetch stays stale. `CertificateIsSound` is not
  inductive either: `HonestyInv` says that at any moment the leaves of a split
  cover their root (`Covers`), whatever children overtook, that the row's `done`
  and `returned` were answered, and that a worker on its way to mint has a sound
  cycle in hand.

  `HalvesNotOmitted` and `StrandedOnlyByRecord` assume nothing of leases and faults
  either. The first is the comment's promise that a crash "cannot durably omit a
  child" (`collector.py`): while a halved batch has no verdict, each half has
  terminal evidence or a delivery. The second says what can still strand a batch, at
  any depth: if every leaf that is over is done or bad and no leaf is a part of
  another (`LeavesAreTrue`), `NoSplitStranded` holds. Both rest on `SplitInv`: a
  root with evidence has its verdict or leaves, and its verdict once all leaves are
  decided (`RowIsSplit`); a whole is kept while one of its parts is
  (`FamiliesAreKept`), which is why a part that overtakes its whole does no harm; a
  worker that halves has sent what it need not send any more (`PartsAreSent`), so
  the halves of a batch that is over are kept (`HalvesAreKept`); and a leaf is kept
  or its whole will send it again (`LeavesAreCarried`). TLC checked `SplitInv` on the
  instances of `coverage_split` and `coverage_resplit` with faults before the proof.

- `CoverageLedgerProofs`. `Implements`, the refinement of `CoverageLedger`, from the
  same assumption. The mapping only forgets, so what has to be shown is that a
  step that enters something enters what is there to stay (`EvidenceKept`) and true
  (`HonestyInv`, with `LedgerTerms` for the two ways to say it), that a certificate
  is of a generation already dispatched (`DeliveryInv`), that the row without a plan
  is empty (`PlanlessRow`), and that every other step leaves the ledger alone.

- `CoverageGenerationProofs`. `StrandedOnlyByLease` has no assumption on leases:
  a generation that is neither settled nor left to quota has its message or a
  dispatcher that will send it, unless its discovery lease was completed.
  `StrandedOnlyByOvertaking` says how it comes to that: `NoGenerationStranded` holds
  throughout, or at some step a worker takes a lease that lapsed under a live one
  (`Overtakes`). Leases do lapse as deployed (300 and 900 seconds), so this is not
  assumed away; section 4 says what happens then. The property is not
  inductive: a worker that has the message may have a clock older than the row's,
  and then what it writes is refused and its delivery acknowledged. `CarryInv`
  therefore counts a worker only while it is not late (`Carries`); whoever makes
  others late has just written the row for the current generation, and is never
  older than itself (`WorkersTidy`). `LeaseInv` adds that, as long as nobody
  overtakes, whoever works on a discovery has its lease, and that a completed one is
  of a settled generation. TLC checked both on the instance of
  `coverage_generations` before the proof.

  `WhatStrandsASplit` lists the causes of a stranded split, for any workers, batches,
  generations and leases: in a behaviour in which `NoSplitStranded` fails, a lease is
  taken from a live worker, or a second fault happens, or a worker halves a half
  (`HalvesAHalf`). The code excludes none of the three, and each is enough: TLC has
  a counterexample with any one of them (finding 1; section 4 for the others).
  By `StrandedOnlyByRecord` it remains to show that before all of them a part that is
  over is done or bad (`PartsAreJudged`), so no part may be merged again. `FaultInv`
  has the reason. Before the first fault every fetch of the plan has one delivery
  (`NothingTwice`): a batch that has one is recorded as enqueued or about to be by the
  one worker that fans out, and a part that has one came from the one fetch of its
  whole. After it no holder dies any more, so a delivery that has passed the check of
  its evidence and still waits for the lease of a fetch that is over meets a completed
  one, or a live holder that is about to complete it (`NoLateFetch`). `ShallowInv`
  says that until a half is halved the frontier has batches and their parts only.
  TLC checked the parts of `FaultInv` on the instance of `coverage_split` to the end,
  and with three workers and two generations in part, before the proof.

Only model-checked: the liveness of `CoverageCycle` and `RateLimiter` (fairness is
outside the prover's reach), and which of the causes named by
`StrandedOnlyByOvertaking` and `WhatStrandsASplit` do strand something.

## 6. What is not modelled, and abstractions

- `CoverageCycle` redelivers for ever: `maxReceiveCount` (4) and the dead
  letter queue are left out, so its liveness is about work that SQS has not
  given up. The dispatcher is one at a time and reads its clock when it writes.
- `SUMMARY_SIZE_LIMIT` replacements, `region_split_groups` (the older split
  format), plan-schema upgrades and the digest checks are left out;
  `REQUEST_REJECTED` stands for every terminal refusal of a fetch.
- `put_event`, `_mutate_latest_coverage` and `_merge_latest_coverage_attempt`
  retry a CAS a bounded number of times; a step stands for the try that
  succeeds, and running out of tries is a crash.
- `put_public_prediction`'s recovery branch (binding present, row missing) is
  left out: `PicksAreWhole` shows that the modelled writers never create that
  state.
- The T-45 training lock, other fixtures, model numbers, payload contents,
  sleep lengths, Retry-After and the exact cost of a call are abstract.
- `PerGameLock` has one pull per quarter-hour slot (`canonicalize_pull_slots`,
  `inqsi_pull_history.py:292`, chooses among retries), every reported game is priced,
  and the source of a prediction is any stored pull of its window, where the engine
  takes the newest of those it read (`mlb_game_winner_engine.py:422`). A marker's
  `lock_outcome_count` is the number of its games that are not missed;
  `daily_lock_present` is left out. The roster in each stage alone keeps the card
  whole, so `RecheckPulls` adds an early return and no guarantee.
- `PerGameLock` leaves out readiness and playability checkpoints, attempt
  diagnostics, reschedules, the bridge lease keys of the rollout, the quarantine
  outcome and the field-by-field validation of a stage. A lost lease waits
  for its expiry, which is a step of any length here. The lease outlives the
  Lambda (960 against 900 seconds) and is therefore lost with its run only.
- `CooperativeReplay` leaves out the v2 remediation of candidate reviews (one
  more kind of request with the same protocol), the validation of a
  checkpoint's schema, the multi-read snapshot mode and the writer lease inside
  the chunk, which is one of the reasons of `ChunkDeferred`. A call of an
  invocation that is gone is never taken for another's: request ids are unique.
- The manifest's own age limit is left out of `ManifestAuthoritative`: the
  property is checked for more manifests than the API accepts.
- Times are numbers; the source compares ISO strings in several guards (a
  hazard listed with its own note).

## 7. Plan

Done: the inventory and dispatcher, the coverage cycle, the limiter, the
publication, the MLB per-game lock and the MLB replay, with proofs of all of them.

The runs above are the project's whole budget of model-checking time, so each
further component replaces a run whose question is by then settled by a proof
(`inventory_slow` and `limiter` first). Next, in this order:

1. `QuotaAdmission`: `provider_budget_admission`, `record_quota`,
   `record_provider_429`; the invariant that admitted cost never exceeds the
   allowance, and that an older response never replaces a newer one.
2. `CollectionWindow`: windows that may move earlier, never later.
3. `CoverageCycle`: the DLQ and its recovery, the size limits.
4. `Settlement`: settlements, conflicts, admissibility certificates and the
   resumable migration with its cursor.
5. `PublicPrediction`: the recovery branch and the T-45 lock; controller and
   trainer as modules of their own.
6. `CanonicalSlots`; the final labels of MLB games, which read the rows of
   `PerGameLock`; the engineering console's deployment with rollback; the
   arbitrage controller.

Liveness to come, once a run makes room: a queued replay ends in a receipt or a
review although today's slate always takes too long (that is what the proof on
the row is for), and a game that is due with a valid snapshot gets its canonical
row before first pitch or is reported as missed.
