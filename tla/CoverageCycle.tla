--------------------------- MODULE CoverageCycle ---------------------------
(***************************************************************************)
(* One event's coverage cycle in soccer_auto.                              *)
(*                                                                         *)
(* The dispatcher enqueues a discovery message per cadence: a generation.  *)
(* A worker discovers the event's markets, publishes one immutable plan in *)
(* the latest-summary row, and fans the plan out as one SQS message per    *)
(* request batch.  Workers fetch the batches, split a refused batch into   *)
(* children, and merge every outcome into the row with a revision CAS; the *)
(* merge that completes the cycle mints an immutable certificate, the only *)
(* proof of coverage the lock reads.                                       *)
(*                                                                         *)
(* SQS delivers at least once and in any order, a worker may crash between *)
(* any two steps (its message becomes visible again), and a lease in       *)
(* DynamoDB keeps two workers from paying for the same call.  Reads and    *)
(* CAS writes of the row are one step each.  A generation stands for the   *)
(* pair (dispatch_observed_at, schedule_revision) in its lexical order.    *)
(***************************************************************************)
EXTENDS Naturals, FiniteSets

CONSTANTS
    Workers,       \* concurrent worker invocations
    MaxGen,        \* bound on the generations dispatched
    Batches,       \* the request batches of a plan
    Children,      \* [Jobs -> SUBSET Jobs]: the two halves of a refused job
    Jobs,          \* batches and every descendant
    PartialJobs,   \* jobs that ask for a part of the regions only
    Pairs,         \* bookmaker/market pairs of the plan
    Required,      \* the pairs this discovery saw; the others are probes
    ScopeOf,       \* [Jobs -> SUBSET Pairs]: planned_pairs of a job
    LeasesLapse,   \* whether a lease may expire under a live worker
    MayClose,      \* whether the event may close while its coverage runs
    MaxFaults,     \* bound on crashes, duplicates and repeated dispatches together
    Discover,      \* the job of a discovery message
    NoWorker

Gens == 1..MaxGen
Messages == [gen : Gens, job : Jobs \cup {Discover}]

\* A job is a batch or a part of one other job, and every part asks for less
\* than the whole, so halving ends.
ASSUME TreeAssumption ==
    /\ Batches \subseteq Jobs /\ Discover \notin Jobs /\ PartialJobs \subseteq Jobs
    /\ Children \in [Jobs -> SUBSET (Jobs \ Batches)]
    /\ \A i, j \in Jobs : i # j => Children[i] \cap Children[j] = {}
    /\ Jobs = Batches \cup UNION {Children[i] : i \in Jobs}
    /\ \A S \in SUBSET Jobs : S # {} => \E j \in S : \A i \in S : j \notin Children[i]
ASSUME PairsAssumption ==
    Required \subseteq Pairs /\ ScopeOf \in [Jobs -> SUBSET Pairs]
ASSUME BoundsAssumption ==
    /\ MaxGen \in Nat /\ MaxFaults \in Nat /\ LeasesLapse \in BOOLEAN
    /\ MayClose \in BOOLEAN
    /\ NoWorker \notin Workers

VARIABLES
    open,     \* the event has neither kicked off nor changed its schedule
    dispatch, \* the dispatcher: its last generation and what is left to do
    row,      \* the COVERAGE_LATEST row of the event
    certs,    \* generations whose plan has a certificate
    lease,    \* the discovery and fetch execution leases
    queue,    \* visible deliveries of each message
    worker,   \* the worker invocations
    answered, \* history: jobs the provider answered with HTTP 200
    faults    \* crashes, duplicates and repeated dispatches so far

vars == <<open, dispatch, row, certs, lease, queue, worker, answered, faults>>

\* planned says whether the generation has a plan (plan_observed_at).
\* frontier, done, bad and waiting are the leaf sets of split_batch_groups, all
\* roots together; planPairs is their planned_pairs.  late holds the discovery
\* workers whose clock is older than discovery_status_observed_at (nobody, once
\* HTTP_200 admits no other status anyway).
EmptyRow(g, status, late) ==
    [gen |-> g, status |-> status, late |-> late, planned |-> FALSE,
     expected |-> {}, enqueued |-> {}, succeeded |-> {}, failed |-> {},
     deferred |-> {}, terminal |-> {},
     returned |-> {}, absent |-> {}, incomplete |-> {}, failedPairs |-> {},
     deferredPairs |-> {},
     frontier |-> {}, done |-> {}, bad |-> {}, waiting |-> {}, planPairs |-> {}]

Free == [state |-> "NONE", owner |-> NoWorker]

\* outcome and got are the answer being merged, todo the jobs still to send,
\* sent the batch sent but not yet marked, mint whether the merged row was a
\* complete cycle; older holds the workers of the same discovery that had read
\* their clocks before this one did.
Idle == [pc |-> "idle", msg |-> [gen |-> 0, job |-> Discover], outcome |-> "NONE",
         got |-> {}, todo |-> {}, sent |-> {}, mint |-> FALSE, older |-> {}]

Init ==
    /\ open = TRUE
    /\ dispatch = [gen |-> 0, pc |-> "idle"]
    /\ row = EmptyRow(0, "NONE", {})
    /\ certs = {}
    /\ lease = [m \in Messages |-> Free]
    /\ queue = [m \in Messages |-> 0]
    /\ worker = [w \in Workers |-> Idle]
    /\ answered = {}
    /\ faults = 0

(***************************************************************************)
(* The row.                                                                *)
(***************************************************************************)

\* A plausible bug: a published plan counts as a finished discovery.
DiscoveryTerminal_Early == {"HTTP_200", "REQUEST_REJECTED", "PLAN_SIZE_LIMIT", "PLAN_READY"}

DiscoveryTerminal == {"HTTP_200", "REQUEST_REJECTED", "PLAN_SIZE_LIMIT"}

\* A plausible bug: a late worker brings its older generation back.
AttemptAdmitted_AnyGeneration(r, g, status, tardy) ==
    r.gen = g => ~tardy /\ (r.status \in DiscoveryTerminal => status = r.status)

\* put_coverage_discovery_attempt refuses an older generation, a status older
\* than the one that is there, and a change of a terminal status.
AttemptAdmitted(r, g, status, tardy) ==
    /\ r.gen <= g
    /\ r.gen = g => ~tardy /\ (r.status \in DiscoveryTerminal => status = r.status)

AfterAttempt(r, g, status, tardy, older) ==
    IF ~AttemptAdmitted(r, g, status, tardy) THEN r
    ELSE IF r.gen = g THEN [r EXCEPT !.status = status, !.late = older]
    ELSE EmptyRow(g, status, older)

\* put_coverage_plan: one plan per generation, for the current one only.
PlanAdmitted(r, g) == r.gen = g /\ ~r.planned

AfterPlan(r, g, status, older) ==
    IF PlanAdmitted(r, g)
    THEN [EmptyRow(g, status, older) EXCEPT !.planned = (status = "PLAN_READY")]
    ELSE r

\* coverage_plan_is_current and the conditions of the fanout writes.
PlanCurrent(r, g) == r.gen = g /\ r.planned

AfterExpected(r, older) ==
    IF r.status = "HTTP_200" /\ r.expected = Batches /\ r.enqueued = Batches THEN r
    ELSE [r EXCEPT !.expected = Batches, !.status = "FANOUT_PENDING", !.late = older]

\* A plausible bug: succeeded batches are not required, only answered ones.
CycleComplete_AnyOutcome(r) ==
    /\ r.planned /\ r.status = "HTTP_200"
    /\ Required \subseteq r.returned \cup r.absent
    /\ r.enqueued = r.expected /\ r.terminal \cap Batches = r.expected

\* coverage_cycle_complete, without the digests and the chronology.
CycleComplete(r) ==
    /\ r.planned /\ r.status = "HTTP_200"
    /\ Required \subseteq r.returned
    /\ r.returned \cup r.absent = Pairs
    /\ r.incomplete = {} /\ r.deferredPairs = {} /\ r.failedPairs = {}
    /\ r.expected = Batches /\ r.enqueued = Batches /\ r.succeeded = Batches
    /\ r.failed = {} /\ r.deferred = {}

(***************************************************************************)
(* Merging one fetch outcome: _merge_latest_coverage_attempt.              *)
(***************************************************************************)

ParentOf(j) == CHOOSE i \in Jobs : j \in Children[i]
RootOf[j \in Jobs] == IF j \in Batches THEN j ELSE RootOf[ParentOf(j)]

\* split_expected_leaf_ids: the frontier as the job's own lineage saw it.
Carried[j \in Jobs] ==
    IF j \in Batches THEN {}
    ELSE (Carried[ParentOf(j)] \ {ParentOf(j)}) \cup Children[ParentOf(j)]

Group(r, j) == {l \in r.frontier : RootOf[l] = RootOf[j]}
IsLeaf(j) == j \notin Batches

\* The frontier of j's root before the outcome is applied.
Frontier(r, j) == IF Group(r, j) = {} THEN Carried[j] ELSE Group(r, j)

\* A grandchild that overtook its parent's SPLIT_PENDING is refused.
MergeAdmitted(r, g, j, outcome) ==
    /\ PlanCurrent(r, g)
    /\ IsLeaf(j) /\ outcome # "SPLIT_PENDING" => j \in Frontier(r, j)

\* REQUEST_REJECTED also stands for RESPONSE_INVALID and EVIDENCE_SIZE_LIMIT.
TerminalOutcomes == {"HTTP_200", "REQUEST_REJECTED", "SPLIT_PENDING"}

\* The leaf sets of j's root after the outcome.
Leaves(r, j, outcome) ==
    LET front == IF outcome = "SPLIT_PENDING"
                 THEN (Frontier(r, j) \ {j}) \cup Children[j]
                 ELSE Frontier(r, j)
        done  == CASE outcome = "HTTP_200" -> r.done \cup {j}
                   [] outcome = "SPLIT_PENDING" -> r.done
                   [] OTHER -> r.done \ {j}
        bad   == CASE outcome = "HTTP_200" -> r.bad \ {j}
                   [] outcome \in {"REQUEST_REJECTED", "RETRYABLE_ERROR"} -> r.bad \cup {j}
                   [] OTHER -> r.bad
        wait  == IF outcome = "QUOTA_DEFERRED" THEN r.waiting \cup {j}
                 ELSE r.waiting \ {j}
        other == {l \in r.frontier : RootOf[l] # RootOf[j]}
    IN  [r EXCEPT !.frontier = other \cup front, !.done = done, !.bad = bad,
                  !.waiting = (wait \cap (other \cup front)) \ (done \cup bad),
                  !.planPairs = @ \cup ScopeOf[j]]

\* A plausible bug: a batch has succeeded once no leaf of it is bad.
RootVerdict_Eager(r, j) ==
    IF Group(r, j) \cap r.bad = {} THEN "succeeded" ELSE "failed"

\* What the leaves of j's root say of the root.
RootVerdict(r, j) ==
    LET front == Group(r, j)
        open_ == front \ (r.done \cup r.bad)
    IN  CASE open_ = {} /\ front \cap r.bad = {} -> "succeeded"
          [] open_ = {} /\ front \cap r.bad # {} -> "failed"
          [] /\ open_ # {} /\ open_ \subseteq r.waiting
             /\ \A l \in r.bad : RootOf[l] # RootOf[j] -> "deferred"
          [] OTHER -> "open"

Split(j, outcome) == IsLeaf(j) \/ outcome = "SPLIT_PENDING"

\* How an outcome is entered for the batch: directly for a batch, through the
\* leaf frontier for the root of a split.
BatchVerdict(r, j, outcome) ==
    IF Split(j, outcome) THEN RootVerdict(r, j)
    ELSE CASE outcome = "HTTP_200" -> "succeeded"
           [] outcome = "QUOTA_DEFERRED" -> "deferred"
           [] OTHER -> "failed"

\* The pair classification.  got is what the answer returned; pairs it lacked
\* are absent only if the job asked for every region.
Pairwise(r, j, outcome, got, verdict) ==
    LET scope    == ScopeOf[j]
        group    == r.planPairs \cap ScopeOf[RootOf[j]]
        complete == outcome = "HTTP_200" /\ j \notin PartialJobs
        returned == r.returned \cup got
        absent   == (r.absent \cup (IF complete THEN scope ELSE {})
                     \cup (IF Split(j, outcome) /\ verdict = "succeeded"
                           THEN group ELSE {})) \ returned
        known    == returned \cup absent
        held     == IF Split(j, outcome) /\ verdict = "deferred"
                    THEN group \ known ELSE {}
        incomplete == ((r.incomplete
                        \cup (IF outcome = "HTTP_200" /\ ~complete THEN scope ELSE {}))
                       \ known) \ held
        failed   == ((r.failedPairs
                      \cup (IF outcome \in {"RETRYABLE_ERROR", "REQUEST_REJECTED"}
                            THEN scope ELSE {}))
                     \ (known \cup incomplete)) \ held
        deferred == ((IF Split(j, outcome) THEN r.deferredPairs \ group
                                           ELSE r.deferredPairs)
                     \cup (IF outcome = "QUOTA_DEFERRED" THEN scope ELSE {}) \cup held)
                    \ (known \cup incomplete \cup failed)
    IN  [r EXCEPT !.returned = returned, !.absent = absent,
                  !.incomplete = incomplete, !.failedPairs = failed,
                  !.deferredPairs = deferred]

\* A plausible bug: a failure is added without looking for an earlier success.
Settled_Overlapping(r, j, outcome, verdict) ==
    [r EXCEPT !.succeeded = IF verdict = "succeeded" THEN @ \cup {RootOf[j]} ELSE @,
              !.failed = IF verdict = "failed" THEN @ \cup {RootOf[j]} ELSE @,
              !.terminal = @ \cup (IF outcome \in TerminalOutcomes THEN {j} ELSE {})]

\* The batch sets: a success is never revoked and outranks failure, which
\* outranks deferral.
Settled(r, j, outcome, verdict) ==
    LET root == RootOf[j]
        succ == IF verdict = "succeeded" THEN r.succeeded \cup {root} ELSE r.succeeded
        fail == (IF verdict = "failed" THEN r.failed \cup {root} ELSE r.failed) \ succ
        held == IF Split(j, outcome) THEN r.deferred \ {root} ELSE r.deferred
    IN  [r EXCEPT !.succeeded = succ, !.failed = fail,
                  !.deferred = (IF verdict = "deferred" THEN held \cup {root} ELSE held)
                               \ (succ \cup fail),
                  !.terminal = @ \cup (IF outcome \in TerminalOutcomes THEN {j} ELSE {})]

Merged(r, j, outcome, got) ==
    LET leaves  == IF Split(j, outcome) THEN Leaves(r, j, outcome) ELSE r
        verdict == BatchVerdict(leaves, j, outcome)
    IN  Settled(Pairwise(leaves, j, outcome, got, verdict), j, outcome, verdict)

(***************************************************************************)
(* Messages and leases.                                                    *)
(***************************************************************************)

At(w, place) == worker[w].pc = place
Fetching(w, place) == At(w, place) /\ worker[w].msg.job # Discover
Discovering(w, place) == At(w, place) /\ worker[w].msg.job = Discover
Gen(w) == worker[w].msg.gen
Job(w) == worker[w].msg.job

\* The states in which a worker believes it holds the lease of its message.
Owning == {"attempt", "discover", "plan", "expect", "fanout", "mark", "close",
           "call", "send", "merge", "mint", "complete"}

Goto(w, place) == worker' = [worker EXCEPT ![w] = [@ EXCEPT !.pc = place]]

\* w stops, or begins anew, as r: nobody compares clocks with its old one.
Replaced(w, r) ==
    [v \in Workers |-> IF v = w THEN r ELSE [worker[v] EXCEPT !.older = @ \ {w}]]

\* The delivery is acknowledged.
Acknowledge(w) == worker' = Replaced(w, Idle) /\ UNCHANGED queue

\* The delivery fails, or is acknowledged after a delayed replacement was sent.
PutBack(w) ==
    /\ worker' = Replaced(w, Idle)
    /\ queue' = [queue EXCEPT ![worker[w].msg] = @ + 1]

Released(w) ==
    [lease EXCEPT ![worker[w].msg] = IF @.owner = w /\ @.state = "IN_PROGRESS"
                                     THEN Free ELSE @]

\* The workers of a discovery that have read their clocks.
Clocked(m) == {v \in Workers : worker[v].msg = m /\ worker[v].pc \in Owning \cup {"lease"}}

\* dispatch_handler, one event.  A new cadence slot is a new generation.  The
\* slot it has is dispatched again while the event is still due, in the burst
\* before T-10, or to recover a plan whose fanout is not complete.
Dispatch ==
    /\ open /\ dispatch.pc \in {"idle", "due"}
    /\ \E g \in Gens, status \in {"QUEUED", "QUOTA_DEFERRED"} :
          /\ \/ g = dispatch.gen + 1 /\ UNCHANGED faults
             \/ g = dispatch.gen /\ dispatch.pc = "due" /\ UNCHANGED faults
             \/ g = dispatch.gen /\ faults < MaxFaults /\ faults' = faults + 1
          /\ AttemptAdmitted(row, g, status, FALSE)
          /\ row' = AfterAttempt(row, g, status, FALSE, Clocked([gen |-> g, job |-> Discover]))
          /\ dispatch' = [gen |-> g, pc |-> IF status = "QUEUED" THEN "send" ELSE "due"]
    /\ UNCHANGED <<open, certs, lease, queue, worker, answered>>

SendDiscovery ==
    /\ dispatch.pc = "send"
    /\ queue' = [queue EXCEPT ![[gen |-> dispatch.gen, job |-> Discover]] = @ + 1]
    /\ dispatch' = [dispatch EXCEPT !.pc = "mark"]
    /\ UNCHANGED <<open, row, certs, lease, worker, answered, faults>>

\* mark_dispatched: the event is no longer due.
MarkDispatched ==
    /\ dispatch.pc = "mark"
    /\ dispatch' = [dispatch EXCEPT !.pc = "idle"]
    /\ UNCHANGED <<open, row, certs, lease, queue, worker, answered, faults>>

\* The send fails, which is recorded, or the dispatcher dies before or after
\* it: the event stays due.
DispatchFails ==
    /\ dispatch.pc \in {"send", "mark"} /\ faults < MaxFaults
    /\ faults' = faults + 1
    /\ \/ /\ dispatch.pc = "send"
          /\ row' = AfterAttempt(row, dispatch.gen, "ENQUEUE_FAILED", FALSE,
                                 Clocked([gen |-> dispatch.gen, job |-> Discover]))
       \/ UNCHANGED row
    /\ dispatch' = [dispatch EXCEPT !.pc = "due"]
    /\ UNCHANGED <<open, certs, lease, queue, worker, answered>>

Receive(w, m) ==
    /\ At(w, "idle")
    /\ queue[m] > 0
    /\ queue' = [queue EXCEPT ![m] = @ - 1]
    /\ worker' = [worker EXCEPT ![w] = [Idle EXCEPT !.pc = "begin", !.msg = m]]
    /\ UNCHANGED <<open, dispatch, row, certs, lease, answered, faults>>

\* w reads its clock, after everybody who has read one already.
Clocking(w, place) ==
    [worker[w] EXCEPT !.pc = place, !.older = Clocked(worker[w].msg) \ {w}]

\* begin_coverage_discovery_execution reads the clock and the row: nothing to do
\* for a settled generation or a stale or started event.
BeginDiscovery(w) ==
    /\ Discovering(w, "begin")
    /\ IF ~open \/ (row.gen = Gen(w) /\ row.status \in DiscoveryTerminal)
       THEN Acknowledge(w) /\ UNCHANGED row
       ELSE /\ worker' = Replaced(w, Clocking(w, "lease"))
            /\ row' = [row EXCEPT !.late = @ \ {w}]
            /\ UNCHANGED queue
    /\ UNCHANGED <<open, dispatch, certs, lease, answered, faults>>

\* coverage_plan_is_current, then begin_coverage_fetch_execution's read.  A
\* batch that is already terminal is acknowledged, after healing the
\* certificate of a complete row.
BeginFetch(w) ==
    /\ Fetching(w, "begin")
    /\ IF ~PlanCurrent(row, Gen(w)) \/ Job(w) \in row.terminal
       THEN /\ certs' = IF PlanCurrent(row, Gen(w)) /\ CycleComplete(row)
                        THEN certs \cup {Gen(w)} ELSE certs
            /\ Acknowledge(w)
       ELSE Goto(w, "lease") /\ UNCHANGED <<certs, queue>>
    /\ UNCHANGED <<open, dispatch, row, lease, answered, faults>>

\* A worker still working on the message it leased.  The lease of a worker that is
\* gone can be taken: it has lapsed, or the handler gave it back when it failed.
HolderLives(m) ==
    \E v \in Workers : lease[m].owner = v /\ worker[v].msg = m /\ worker[v].pc \in Owning

LeaseFree(m) ==
    \/ lease[m].state = "NONE"
    \/ lease[m].state = "IN_PROGRESS" /\ (LeasesLapse \/ ~HolderLives(m))

AcquireLease(w) ==
    /\ At(w, "lease")
    /\ LeaseFree(worker[w].msg)
    /\ lease' = [lease EXCEPT ![worker[w].msg] = [state |-> "IN_PROGRESS", owner |-> w]]
    /\ Goto(w, IF Job(w) = Discover THEN "attempt" ELSE "call")
    /\ UNCHANGED <<open, dispatch, row, certs, queue, answered, faults>>

\* A plausible bug: a busy lease is taken for a duplicate and acknowledged.
LeaseRefused_Acknowledged(w) ==
    /\ At(w, "lease")
    /\ lease[worker[w].msg].state # "NONE"
    /\ Acknowledge(w)
    /\ UNCHANGED <<open, dispatch, row, certs, lease, answered, faults>>

\* A busy lease puts the delivery off; a completed one is a duplicate.
LeaseRefused(w) ==
    /\ At(w, "lease")
    /\ lease[worker[w].msg].state # "NONE"
    /\ IF lease[worker[w].msg].state = "COMPLETED" THEN Acknowledge(w) ELSE PutBack(w)
    /\ UNCHANGED <<open, dispatch, row, certs, lease, answered, faults>>

(***************************************************************************)
(* Discovery: _discover_event_impl and _enqueue_coverage_fanout.           *)
(***************************************************************************)

\* The step raised: the lease is released and the message is seen again.
Raise(w) == lease' = Released(w) /\ PutBack(w)

\* The step found newer work, or a stale event: nothing is left to do.
Stale(w) ==
    worker' = [worker EXCEPT ![w] = [@ EXCEPT !.pc = "complete", !.outcome = "STALE"]]

\* put_coverage_discovery_attempt by a worker.
Attempted(w, status) ==
    AfterAttempt(row, Gen(w), status, w \in row.late, worker[w].older)

\* The evidence that the generation was started; an existing plan is resumed.
Attempt(w) ==
    /\ Discovering(w, "attempt")
    /\ IF open /\ AttemptAdmitted(row, Gen(w), "STARTED", w \in row.late)
       THEN /\ row' = Attempted(w, "STARTED")
            /\ Goto(w, IF row'.planned THEN "expect" ELSE "discover")
       ELSE Stale(w) /\ UNCHANGED row
    /\ UNCHANGED <<open, dispatch, certs, lease, queue, answered, faults>>

\* Capacity, or the provider, put the discovery off.  QUOTA_DEFERRED leaves the
\* retry to the dispatcher and makes the event due, the others to the queue.
DiscoveryDeferred(w) ==
    /\ Discovering(w, "discover")
    /\ lease' = Released(w)
    /\ \E status \in {"QUOTA_DEFERRED", "ADMISSION_DEFERRED", "RETRYABLE_ERROR"} :
          /\ row' = Attempted(w, status)
          /\ IF status = "QUOTA_DEFERRED"
             THEN /\ Acknowledge(w)
                  /\ dispatch' = [dispatch EXCEPT !.pc = IF @ = "idle" THEN "due" ELSE @]
             ELSE PutBack(w) /\ UNCHANGED dispatch
    /\ UNCHANGED <<open, certs, answered, faults>>

DiscoveryRejected(w) ==
    /\ Discovering(w, "discover")
    /\ row' = Attempted(w, "REQUEST_REJECTED")
    /\ Goto(w, "complete")
    /\ UNCHANGED <<open, dispatch, certs, lease, queue, answered, faults>>

\* The answer is dated by a clock read of its own.
DiscoveryAnswered(w) ==
    /\ Discovering(w, "discover")
    /\ worker' = [worker EXCEPT ![w] = Clocking(w, "plan")]
    /\ UNCHANGED <<open, dispatch, row, certs, lease, queue, answered, faults>>

\* The plan is published, unless it is larger than a DynamoDB item may be.
PutPlan(w) ==
    /\ Discovering(w, "plan")
    /\ \E status \in {"PLAN_READY", "PLAN_SIZE_LIMIT"} :
          row' = AfterPlan(row, Gen(w), status, worker[w].older)
    /\ IF row'.status = "PLAN_SIZE_LIMIT" THEN Raise(w)
       ELSE /\ IF PlanCurrent(row', Gen(w)) THEN Goto(w, "expect") ELSE Stale(w)
            /\ UNCHANGED <<lease, queue>>
    /\ UNCHANGED <<open, dispatch, certs, answered, faults>>

FanoutExpected(w) ==
    /\ Discovering(w, "expect")
    /\ IF PlanCurrent(row, Gen(w))
       THEN /\ row' = AfterExpected(row, worker[w].older)
            /\ worker' = [worker EXCEPT ![w] =
                  [@ EXCEPT !.pc = "fanout", !.todo = Batches \ row.enqueued]]
            /\ UNCHANGED <<lease, queue>>
       ELSE Raise(w) /\ UNCHANGED row
    /\ UNCHANGED <<open, dispatch, certs, answered, faults>>

Send(g, j) == queue' = [queue EXCEPT ![[gen |-> g, job |-> j]] = @ + 1]

\* Send first, then persist the evidence.
EnqueueBatch(w, b) ==
    /\ Discovering(w, "fanout")
    /\ b \in worker[w].todo
    /\ Send(Gen(w), b)
    /\ worker' = [worker EXCEPT ![w] = [@ EXCEPT !.pc = "mark", !.sent = {b}]]
    /\ UNCHANGED <<open, dispatch, row, certs, lease, answered, faults>>

\* mark_coverage_fanout_enqueued.
MarkEnqueued(w) ==
    /\ Discovering(w, "mark")
    /\ IF PlanCurrent(row, Gen(w))
       THEN /\ row' = [row EXCEPT !.enqueued = @ \cup worker[w].sent]
            /\ worker' = [worker EXCEPT ![w] =
                  [worker[w] EXCEPT !.pc = "fanout", !.todo = @ \ worker[w].sent, !.sent = {}]]
            /\ UNCHANGED <<lease, queue>>
       ELSE Raise(w) /\ UNCHANGED row
    /\ UNCHANGED <<open, dispatch, certs, answered, faults>>

FanoutDone(r, g) == PlanCurrent(r, g) /\ r.expected # {} /\ r.expected = r.enqueued

CompleteFanout(w) ==
    /\ Discovering(w, "fanout")
    /\ worker[w].todo = {}
    /\ IF FanoutDone(row, Gen(w))
       THEN /\ row' = [row EXCEPT !.status = "HTTP_200", !.late = {}]
            /\ Goto(w, "complete")
            /\ UNCHANGED <<lease, queue>>
       ELSE Raise(w) /\ UNCHANGED row
    /\ UNCHANGED <<open, dispatch, certs, answered, faults>>

\* complete_coverage_discovery_execution, and its release when there is no
\* terminal evidence: stale work is acknowledged, other work is seen again.
CompleteDiscovery(w) ==
    /\ Discovering(w, "complete")
    /\ LET m == worker[w].msg
           mine == lease[m].owner = w /\ lease[m].state = "IN_PROGRESS"
           settled == row.gen = Gen(w) /\ row.status \in DiscoveryTerminal
       IN  IF settled /\ (mine \/ lease[m].state = "COMPLETED")
           THEN /\ lease' = [lease EXCEPT ![m] = [@ EXCEPT !.state = "COMPLETED"]]
                /\ Acknowledge(w)
           ELSE /\ lease' = Released(w)
                /\ IF worker[w].outcome = "STALE" THEN Acknowledge(w) ELSE PutBack(w)
    /\ UNCHANGED <<open, dispatch, row, certs, answered, faults>>

(***************************************************************************)
(* Fetching one job: _fetch_event_impl and put_coverage_fetch.             *)
(***************************************************************************)

\* The plan was superseded, or the event started or moved, before the call.
FetchStale(w) ==
    /\ Fetching(w, "call")
    /\ ~open \/ ~PlanCurrent(row, Gen(w))
    /\ Stale(w)
    /\ UNCHANGED <<open, dispatch, row, certs, lease, queue, answered, faults>>

MayCall(w) == Fetching(w, "call") /\ open /\ PlanCurrent(row, Gen(w))

\* No answer with data: capacity was refused, the provider failed or refused
\* the request, or its answer failed the identity and kickoff checks.
FetchUnanswered(w) ==
    /\ MayCall(w)
    /\ \E outcome \in {"QUOTA_DEFERRED", "RETRYABLE_ERROR", "REQUEST_REJECTED"} :
          worker' = [worker EXCEPT ![w] =
             [@ EXCEPT !.pc = "merge", !.outcome = outcome]]
    /\ UNCHANGED <<open, dispatch, row, certs, lease, queue, answered, faults>>

FetchAnswered(w) ==
    /\ MayCall(w)
    /\ \E got \in SUBSET ScopeOf[Job(w)] :
          /\ answered' = answered \cup {[gen |-> Gen(w), job |-> Job(w), pairs |-> got]}
          /\ worker' = [worker EXCEPT ![w] =
                [@ EXCEPT !.pc = "merge", !.outcome = "HTTP_200", !.got = got]]
    /\ UNCHANGED <<open, dispatch, row, certs, lease, queue, faults>>

\* A refused job with more than one market, bookmaker or region is halved.
FetchSplit(w) ==
    /\ MayCall(w)
    /\ Children[Job(w)] # {}
    /\ worker' = [worker EXCEPT ![w] =
          [@ EXCEPT !.pc = "send", !.outcome = "SPLIT_PENDING",
                    !.todo = Children[Job(w)]]]
    /\ UNCHANGED <<open, dispatch, row, certs, lease, queue, answered, faults>>

\* A plausible bug: the parent is recorded as handled after the first child.
SendChild_First(w, c) ==
    /\ Fetching(w, "send")
    /\ c \in worker[w].todo
    /\ Send(Gen(w), c)
    /\ worker' = [worker EXCEPT ![w] = [@ EXCEPT !.todo = {}, !.pc = "merge"]]
    /\ UNCHANGED <<open, dispatch, row, certs, lease, answered, faults>>

\* Every child is sent before the parent is recorded as handled.
SendChild(w, c) ==
    /\ Fetching(w, "send")
    /\ c \in worker[w].todo
    /\ Send(Gen(w), c)
    /\ worker' = [worker EXCEPT ![w] =
          [worker[w] EXCEPT !.todo = @ \ {c},
                            !.pc = IF worker[w].todo = {c} THEN "merge" ELSE "send"]]
    /\ UNCHANGED <<open, dispatch, row, certs, lease, answered, faults>>

\* A refused merge is noticed only by a deferral, which retires a superseded
\* plan at once.
MergeOutcome(w) ==
    /\ Fetching(w, "merge")
    /\ LET r == worker[w] IN
       IF MergeAdmitted(row, Gen(w), Job(w), r.outcome)
       THEN /\ row' = Merged(row, Job(w), r.outcome, r.got)
            /\ worker' = [worker EXCEPT ![w] =
                  [@ EXCEPT !.pc = "mint", !.mint = CycleComplete(row')]]
       ELSE /\ \E outcome \in
                  IF PlanCurrent(row, Gen(w)) THEN {r.outcome}
                  ELSE CASE r.outcome = "QUOTA_DEFERRED" -> {"STALE"}
                         [] r.outcome = "RETRYABLE_ERROR" -> {r.outcome, "STALE"}
                         [] OTHER -> {r.outcome} :
               worker' = [worker EXCEPT ![w] =
                  [@ EXCEPT !.pc = "mint", !.outcome = outcome]]
            /\ UNCHANGED row
    /\ UNCHANGED <<open, dispatch, certs, lease, queue, answered, faults>>

\* _put_coverage_certificate, after the merge: put-if-absent.  A deferral or a
\* retryable failure is then raised.
MintCertificate(w) ==
    /\ Fetching(w, "mint")
    /\ certs' = IF worker[w].mint THEN certs \cup {Gen(w)} ELSE certs
    /\ IF worker[w].outcome \in {"QUOTA_DEFERRED", "RETRYABLE_ERROR"}
       THEN Raise(w)
       ELSE Goto(w, "complete") /\ UNCHANGED <<lease, queue>>
    /\ UNCHANGED <<open, dispatch, row, answered, faults>>

\* complete_coverage_fetch_execution: only with terminal evidence in the row;
\* without it only stale work is acknowledged.
CompleteFetch(w) ==
    /\ Fetching(w, "complete")
    /\ LET m == worker[w].msg
           mine == lease[m].owner = w /\ lease[m].state = "IN_PROGRESS"
           settled == PlanCurrent(row, Gen(w)) /\ Job(w) \in row.terminal
       IN  IF settled /\ (mine \/ lease[m].state = "COMPLETED")
           THEN /\ lease' = [lease EXCEPT ![m] = [@ EXCEPT !.state = "COMPLETED"]]
                /\ Acknowledge(w)
           ELSE /\ lease' = Released(w)
                /\ IF worker[w].outcome = "STALE" THEN Acknowledge(w) ELSE PutBack(w)
    /\ UNCHANGED <<open, dispatch, row, certs, answered, faults>>

(***************************************************************************)
(* The environment.                                                        *)
(***************************************************************************)

\* A crash: the delivery becomes visible again, the lease stays behind.
Crash(w) ==
    /\ worker[w].pc # "idle" /\ faults < MaxFaults
    /\ faults' = faults + 1
    /\ PutBack(w)
    /\ UNCHANGED <<open, dispatch, row, certs, lease, answered>>

Duplicate(m) ==
    /\ queue[m] > 0 /\ faults < MaxFaults
    /\ faults' = faults + 1
    /\ queue' = [queue EXCEPT ![m] = @ + 1]
    /\ UNCHANGED <<open, dispatch, row, certs, lease, worker, answered>>

\* Kickoff, or a change of the schedule.
Close ==
    /\ open /\ MayClose
    /\ open' = FALSE
    /\ UNCHANGED <<dispatch, row, certs, lease, queue, worker, answered, faults>>

\* A step a running worker takes when Lambda lets it run.
Progress(w) ==
    \/ BeginDiscovery(w) \/ BeginFetch(w) \/ AcquireLease(w) \/ LeaseRefused(w)
    \/ Attempt(w) \/ DiscoveryDeferred(w) \/ DiscoveryRejected(w)
    \/ DiscoveryAnswered(w) \/ PutPlan(w) \/ FanoutExpected(w)
    \/ \E b \in Batches : EnqueueBatch(w, b)
    \/ MarkEnqueued(w) \/ CompleteFanout(w) \/ CompleteDiscovery(w)
    \/ FetchStale(w) \/ FetchUnanswered(w) \/ FetchAnswered(w) \/ FetchSplit(w)
    \/ \E c \in Jobs : SendChild(w, c)
    \/ MergeOutcome(w) \/ MintCertificate(w) \/ CompleteFetch(w)

Next ==
    \/ Dispatch \/ SendDiscovery \/ MarkDispatched \/ DispatchFails \/ Close
    \/ \E w \in Workers : Progress(w) \/ Crash(w)
    \/ \E m \in Messages : Duplicate(m) \/ \E w \in Workers : Receive(w, m)

Spec == Init /\ [][Next]_vars

\* Lambda keeps polling and running workers, a lease is free in the end (it
\* expires), and provider and quota do not refuse the same work for ever.
Fairness ==
    /\ WF_vars(Dispatch) /\ WF_vars(SendDiscovery \/ MarkDispatched)
    /\ \A m \in Messages : SF_vars(\E w \in Workers : Receive(w, m))
    /\ \A w \in Workers :
          /\ WF_vars(Progress(w)) /\ SF_vars(AcquireLease(w))
          /\ SF_vars(DiscoveryAnswered(w)) /\ SF_vars(FetchAnswered(w))

FairSpec == Spec /\ Fairness

(***************************************************************************)
(* Properties.                                                             *)
(***************************************************************************)

Row == [gen : 0..MaxGen,
        status : {"NONE", "QUEUED", "ENQUEUE_FAILED", "STARTED", "PLAN_READY",
                  "FANOUT_PENDING", "QUOTA_DEFERRED", "ADMISSION_DEFERRED",
                  "RETRYABLE_ERROR"} \cup DiscoveryTerminal,
        late : SUBSET Workers,
        planned : BOOLEAN, expected : SUBSET Batches, enqueued : SUBSET Batches,
        succeeded : SUBSET Batches, failed : SUBSET Batches,
        deferred : SUBSET Batches, terminal : SUBSET Jobs,
        returned : SUBSET Pairs, absent : SUBSET Pairs, incomplete : SUBSET Pairs,
        failedPairs : SUBSET Pairs, deferredPairs : SUBSET Pairs,
        frontier : SUBSET Jobs, done : SUBSET Jobs, bad : SUBSET Jobs,
        waiting : SUBSET Jobs, planPairs : SUBSET Pairs]

\* Every variable has its type; the verdicts on batches exclude each other, and
\* so do those on pairs and on leaves (the dashboards add these sets up).
TypeOK ==
    /\ open \in BOOLEAN /\ faults \in 0..MaxFaults
    /\ dispatch \in [gen : 0..MaxGen, pc : {"idle", "due", "send", "mark"}]
    /\ row \in Row
    /\ row.succeeded \cap row.failed = {}
    /\ row.deferred \cap (row.succeeded \cup row.failed) = {}
    /\ row.returned \cap row.absent = {}
    /\ row.failedPairs \cap (row.returned \cup row.absent \cup row.incomplete) = {}
    /\ row.done \cap row.bad = {} /\ row.waiting \cap (row.done \cup row.bad) = {}
    /\ certs \subseteq Gens
    /\ lease \in [Messages -> [state : {"NONE", "IN_PROGRESS", "COMPLETED"},
                               owner : Workers \cup {NoWorker}]]
    /\ queue \in [Messages -> Nat]
    /\ answered \subseteq [gen : Gens, job : Jobs, pairs : SUBSET Pairs]
    /\ \A w \in Workers : worker[w].pc \in Owning \cup {"idle", "begin", "lease"}

\* The provider answered every batch of g or, after a split, all of its parts:
\* the batches are in every set of jobs that has the answered ones and, with
\* all the children of a job, the job.
UpClosed(X) == \A j \in Jobs : Children[j] # {} /\ Children[j] \subseteq X => j \in X
AnsweredJobs(g) == {a.job : a \in {x \in answered : x.gen = g}}
Covered(g) ==
    \A X \in SUBSET Jobs : UpClosed(X) /\ AnsweredJobs(g) \subseteq X => Batches \subseteq X

\* A certificate is honest: under its plan the provider answered every batch
\* (or every part of a split one) and returned every required pair, whatever
\* was retried, duplicated, reordered, split or superseded on the way.
CertificateIsSound ==
    \A g \in certs :
        /\ Covered(g)
        /\ Required \subseteq UNION {a.pairs : a \in {x \in answered : x.gen = g}}

\* The message is visible or a worker has it.
Pending(m) ==
    \/ queue[m] > 0
    \/ \E w \in Workers : worker[w].pc # "idle" /\ worker[w].msg = m

\* A batch recorded as enqueued has terminal evidence or a delivery that will
\* bring it: no crash between the send, the mark, the merge and the
\* acknowledgement loses a batch while the event is still collectable.
NoBatchLost ==
    open /\ row.planned =>
        \A b \in row.enqueued \ row.terminal : Pending([gen |-> row.gen, job |-> b])

HasVerdict(r, b) == b \in r.succeeded \cup r.failed

\* While a halved batch has no verdict, each of its halves is over or has a
\* delivery, whatever crashes, is duplicated, overtakes or outlives its lease
\* (collector.py: a crash "can resend children, but their execution leases make
\* that safe; it cannot durably omit a child").
NoHalfOmitted ==
    open /\ row.planned =>
        \A b \in Batches \cap row.terminal :
            ~HasVerdict(row, b) =>
                \A c \in Children[b] :
                    c \in row.terminal \/ Pending([gen |-> row.gen, job |-> c])

\* A split batch that has no verdict yet has a delivery that can still bring
\* one: the batch does not wait for a part nobody will fetch.
NoSplitStranded ==
    open /\ row.planned =>
        \A l \in row.frontier :
            \/ HasVerdict(row, RootOf[l])
            \/ \E j \in Jobs : /\ RootOf[j] = RootOf[l] /\ j \notin row.terminal
                               /\ Pending([gen |-> row.gen, job |-> j])

\* The leaf record agrees with the evidence: a leaf that is over is done or bad,
\* and no leaf is a part of another.
LeavesAreTrue ==
    \A l \in row.frontier :
        /\ l \in row.terminal => l \in row.done \cup row.bad
        /\ \A p \in row.frontier : l \notin Children[p]

\* Only a wrong leaf record strands a split batch: no order of splits, children
\* that overtake their parent, crashes, duplicates and lapsed leases does while
\* the record is right.
StrandedByRecordOnly == LeavesAreTrue => NoSplitStranded

\* A generation that is neither settled nor deferred for quota (the next cadence
\* retries that) still has its discovery message or a dispatcher that will send
\* one: a dispatch or a discovery that crashed half way is resumed.
NoGenerationStranded ==
    /\ open /\ row.gen > 0
    /\ row.status \notin {"HTTP_200", "REQUEST_REJECTED", "PLAN_SIZE_LIMIT", "QUOTA_DEFERRED"}
    =>
        \/ Pending([gen |-> row.gen, job |-> Discover])
        \/ dispatch.pc \in {"due", "send"}

\* Evidence is only added: a late or duplicated worker neither brings an older
\* generation back nor resets the plan, the successes or the terminal evidence
\* of the current one.
EvidenceIsKept ==
    [][/\ row'.gen >= row.gen
       /\ row.planned /\ row'.gen = row.gen =>
             /\ row'.planned
             /\ row.enqueued \subseteq row'.enqueued
             /\ row.succeeded \subseteq row'.succeeded
             /\ row.terminal \subseteq row'.terminal
             /\ row.returned \subseteq row'.returned]_vars

\* The ledger its readers see, and the promise CoverageLedger makes of it: every
\* step of the dispatcher and of the workers, however they interleave, is one
\* step of the ledger or none.
Ledger == INSTANCE CoverageLedger WITH
    gen <- row.gen, planned <- row.planned, handedOut <- row.enqueued,
    over <- row.terminal, succeeded <- row.succeeded, returned <- row.returned

KeepsLedger == Ledger!Spec

\* Every dispatched generation ends: its discovery is refused or left to the
\* dispatcher, or all its batches reach terminal evidence, unless the event
\* closes or a newer generation is dispatched first.
GenerationSettles ==
    \A g \in Gens :
        dispatch.gen = g ~>
            \/ ~open \/ dispatch.gen > g
            \/ row.gen = g /\ row.status \in {"REQUEST_REJECTED", "PLAN_SIZE_LIMIT",
                                              "QUOTA_DEFERRED"}
            \/ row.gen = g /\ row.status = "HTTP_200" /\ Batches \subseteq row.terminal

=============================================================================
