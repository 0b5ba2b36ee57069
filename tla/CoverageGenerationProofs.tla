---------------------- MODULE CoverageGenerationProofs ----------------------
(***************************************************************************)
(* What can strand a generation of CoverageCycle, for any workers,         *)
(* generations, split trees and faults; and, at the end, what can strand a *)
(* split.                                                                  *)
(*                                                                         *)
(* The argument.  A generation that is neither settled nor left to quota   *)
(* has a future: its message is visible, a worker carries it, the          *)
(* dispatcher is about to send it, or its discovery lease is completed.    *)
(* That a worker has the message is not enough, since the clocks in the    *)
(* row may have made it late, and what a late worker has to say is refused *)
(* and its delivery acknowledged.  So a worker carries its generation only *)
(* while it is not late; and whoever makes others late has just written    *)
(* the row, for the current generation, and is not late itself.            *)
(*                                                                         *)
(* A completed lease is what is left.  Until a lease is taken from a live  *)
(* worker, nobody but the holder writes for the message, so a completed    *)
(* lease is of a settled generation; afterwards it need not be.            *)
(***************************************************************************)
EXTENDS CoverageCycleProofs

\* Settled, refused, or left to the next cadence.
Concluded(r) ==
    r.status \in {"HTTP_200", "REQUEST_REJECTED", "PLAN_SIZE_LIMIT", "QUOTA_DEFERRED"}

\* w will write for m, or has not read the clock by which it may be refused.
Carries(w, m) ==
    /\ worker[w].pc # "idle" /\ worker[w].msg = m /\ worker[w].outcome # "STALE"
    /\ worker[w].pc = "begin" \/ w \notin row.late

\* The dispatcher will send the discovery of its generation.
Armed == dispatch.pc \in {"due", "send"}

HasFuture(m) ==
    \/ queue[m] > 0
    \/ \E w \in Workers : Carries(w, m)
    \/ Armed
    \/ lease[m].state = "COMPLETED"

IsCurrent(m) == m.gen = row.gen /\ m.job = Discover

GenerationIsCarried ==
    open /\ ~Concluded(row) => \A m \in Messages : IsCurrent(m) => HasFuture(m)

\* No discovery is on its way that was not dispatched.
DiscoveriesAreDispatched ==
    \A m \in Messages : m.job = Discover /\ Pending(m) => m.gen <= row.gen

\* Nobody is older than itself, and a discovery is found stale only at its end.
Tidy(v, z) ==
    /\ v \notin z.older
    /\ z.pc # "idle" /\ z.msg.job = Discover /\ z.outcome = "STALE" => z.pc = "complete"

WorkersTidy == \A v \in Workers : Tidy(v, worker[v])

CarryInv ==
    /\ GenerationIsCarried
    /\ row.gen = dispatch.gen
    /\ DiscoveriesAreDispatched
    /\ WorkersTidy

(***************************************************************************)
(* Who is late after a write.                                              *)
(***************************************************************************)

\* An admitted attempt makes late whom its writer outran.
LEMMA AttemptLate ==
    ASSUME NEW r, RowOK(r), NEW g, NEW status, NEW tardy, NEW older,
           AttemptAdmitted(r, g, status, tardy)
    PROVE  LET s == AfterAttempt(r, g, status, tardy, older)
           IN  s.late = older /\ s.gen = g /\ s.status = status
<1>1. CASE r.gen = g
  <2>1. AfterAttempt(r, g, status, tardy, older) = Restated(r, status, older)
    BY <1>1 DEF AfterAttempt, Restated
  <2>2. r \in Row
    BY DEF RowOK
  <2> QED
    BY <1>1, <2>1, <2>2 DEF Restated, Row
<1>2. CASE r.gen # g
  BY <1>2 DEF AfterAttempt, EmptyRow
<1> QED
  BY <1>1, <1>2

\* The dispatcher's attempt is never tardy.
LEMMA TimelyAttempt ==
    ASSUME NEW r, RowOK(r), NEW g, NEW status, NEW older, AttemptAdmitted(r, g, status, FALSE)
    PROVE  /\ AfterAttempt(r, g, status, FALSE, older).gen = g
           /\ AfterAttempt(r, g, status, FALSE, older).status = status
<1>1. CASE r.gen = g
  <2>1. AfterAttempt(r, g, status, FALSE, older) = Restated(r, status, older)
    BY <1>1 DEF AfterAttempt, Restated
  <2>2. r \in Row
    BY DEF RowOK
  <2> QED
    BY <1>1, <2>1, <2>2 DEF Restated, Row
<1>2. CASE r.gen # g
  BY <1>2 DEF AfterAttempt, EmptyRow
<1> QED
  BY <1>1, <1>2

\* So does an admitted plan.
LEMMA PlanLate ==
    ASSUME NEW r, NEW g, NEW status, NEW older, PlanAdmitted(r, g)
    PROVE  LET s == AfterPlan(r, g, status, older)
           IN  s.late = older /\ s.gen = g /\ s.status = status
               /\ s.planned = (status = "PLAN_READY")
<1> DEFINE ready == status = "PLAN_READY"
           e == EmptyRow(g, status, older)
<1>1. AfterPlan(r, g, status, older) = [e EXCEPT !.planned = ready]
  BY DEF AfterPlan
<1> HIDE DEF ready
<1>2. LET s == [e EXCEPT !.planned = ready]
      IN  s.late = older /\ s.gen = g /\ s.status = status /\ s.planned = ready
  BY DEF EmptyRow
<1> QED
  BY <1>1, <1>2 DEF ready

\* The list of batches to expect is written with the clock, or not at all.
LEMMA ExpectedLate ==
    ASSUME NEW r, RowOK(r), NEW older
    PROVE  LET s == AfterExpected(r, older) IN s = r \/ (s.late = older /\ s.gen = r.gen)
<1>1. r \in Row
  BY DEF RowOK
<1> QED
  BY <1>1 DEF AfterExpected, Row

\* A merge makes nobody late and changes no status.
LEMMA MergedLate ==
    ASSUME NEW r, RowOK(r), NEW j \in Jobs, NEW outcome \in Outcomes, NEW got \in SUBSET Pairs
    PROVE  LET s == Merged(r, j, outcome, got)
           IN  s.gen = r.gen /\ s.status = r.status /\ s.late = r.late
<1>1. ASSUME NEW x, RowOK(x), NEW frontier, NEW done, NEW bad, NEW waiting, NEW planPairs
      PROVE  [x EXCEPT !.frontier = frontier, !.done = done, !.bad = bad,
                       !.waiting = waiting, !.planPairs = planPairs].late = x.late
  <2>1. x \in Row
    BY <1>1 DEF RowOK
  <2> QED
    BY <2>1 DEF Row
<1>2. ASSUME NEW x, RowOK(x), NEW returned, NEW absent, NEW incomplete, NEW failed, NEW deferred
      PROVE  [x EXCEPT !.returned = returned, !.absent = absent, !.incomplete = incomplete,
                       !.failedPairs = failed, !.deferredPairs = deferred].late = x.late
  <2>1. x \in Row
    BY <1>2 DEF RowOK
  <2> QED
    BY <2>1 DEF Row
<1>3. ASSUME NEW x, RowOK(x), NEW succ, NEW fail, NEW held, NEW over
      PROVE  [x EXCEPT !.succeeded = succ, !.failed = fail, !.deferred = held,
                       !.terminal = over].late = x.late
  <2>1. x \in Row
    BY <1>3 DEF RowOK
  <2> QED
    BY <2>1 DEF Row
<1>4. ASSUME NEW x, RowOK(x) PROVE Leaves(x, j, outcome).late = x.late
  BY <1>1, <1>4 DEF Leaves
<1>5. ASSUME NEW x, RowOK(x), NEW verdict
      PROVE  Pairwise(x, j, outcome, got, verdict).late = x.late
  BY <1>2, <1>5 DEF Pairwise
<1>6. ASSUME NEW x, RowOK(x), NEW verdict PROVE Settled(x, j, outcome, verdict).late = x.late
  BY <1>3, <1>6 DEF Settled
<1> DEFINE leaves == IF Split(j, outcome) THEN Leaves(r, j, outcome) ELSE r
           verdict == BatchVerdict(leaves, j, outcome)
           pairs == Pairwise(leaves, j, outcome, got, verdict)
<1>7. RowOK(leaves) /\ leaves.late = r.late
  BY <1>4, LeavesRow
<1>8. Merged(r, j, outcome, got) = Settled(pairs, j, outcome, verdict)
  BY DEF Merged
<1> HIDE DEF leaves, verdict
<1>9. RowOK(pairs) /\ pairs.late = r.late
  BY <1>5, <1>7, PairwiseRow
<1> HIDE DEF pairs
<1>10. Settled(pairs, j, outcome, verdict).late = r.late
  BY <1>6, <1>9
<1> QED
  BY <1>8, <1>10, MergedRow

(***************************************************************************)
(* Workers stay tidy.                                                      *)
(***************************************************************************)

\* w becomes z, and may leave the comparison of clocks.
Turned(w, z) == worker' = [worker EXCEPT ![w] = z] \/ worker' = Replaced(w, z)

\* The others stay tidy when one turns.
LEMMA TurnedTidy ==
    ASSUME WorkersOK, WorkersTidy, NEW w \in Workers, NEW z, Turned(w, z), Tidy(w, z)
    PROVE  WorkersTidy'
<1>1. ASSUME NEW v \in Workers PROVE Tidy(v, worker'[v])
  <2>1. CASE v = w
    <3>1. worker'[w] = z
      BY DEF Turned, Replaced, WorkersOK
    <3> QED
      BY <2>1, <3>1
  <2>2. CASE v # w
    <3> DEFINE left == worker[v].older \ {w}
    <3>1. Tidy(v, worker[v]) /\ worker[v] \in WorkerRecord
      BY DEF WorkersTidy, WorkersOK, WorkerOK
    <3>2. \/ worker'[v] = worker[v]
          \/ worker'[v] = [worker[v] EXCEPT !.older = left]
      BY <2>2 DEF Turned, Replaced, WorkersOK
    <3>3. v \notin left
      BY <3>1 DEF Tidy
    <3> HIDE DEF left
    <3>4. LET x == [worker[v] EXCEPT !.older = left]
          IN  x.older = left /\ x.pc = worker[v].pc /\ x.msg = worker[v].msg
              /\ x.outcome = worker[v].outcome
      BY <3>1 DEF WorkerRecord
    <3> QED
      BY <3>1, <3>2, <3>3, <3>4 DEF Tidy
  <2> QED
    BY <2>1, <2>2
<1> QED
  BY <1>1 DEF WorkersTidy

\* An idle worker is tidy.
LEMMA IdleTidy == \A w : Tidy(w, Idle)
BY DEF Tidy, Idle

\* So is one that stops,
LEMMA StoppedTidy ==
    ASSUME WorkersOK, WorkersTidy, NEW w \in Workers, Acknowledge(w) \/ PutBack(w)
    PROVE  WorkersTidy'
BY IdleTidy, TurnedTidy DEF Acknowledge, PutBack, Turned

\* goes elsewhere and is not stale,
LEMMA GotoTidy ==
    ASSUME WorkersOK, WorkersTidy, NEW w \in Workers, worker[w].pc # "idle",
           NEW place, Goto(w, place), Job(w) = Discover => worker[w].outcome # "STALE"
    PROVE  WorkersTidy'
<1>1. worker[w] \in WorkerRecord /\ w \notin worker[w].older
  BY DEF WorkersOK, WorkerOK, WorkersTidy, Tidy
<1>2. Tidy(w, Placed(w, place))
  BY <1>1 DEF Tidy, Placed, WorkerRecord, Job
<1> QED
  BY <1>2, TurnedTidy DEF Goto, Placed, Turned

\* is found stale,
LEMMA StaleTidy ==
    ASSUME WorkersOK, WorkersTidy, NEW w \in Workers, worker[w].pc # "idle", Stale(w)
    PROVE  WorkersTidy'
<1>1. worker[w] \in WorkerRecord /\ w \notin worker[w].older
  BY DEF WorkersOK, WorkerOK, WorkersTidy, Tidy
<1>2. Tidy(w, Staled(w))
  BY <1>1 DEF Tidy, Staled, WorkerRecord
<1> QED
  BY <1>2, TurnedTidy DEF Stale, Staled, Turned

\* or reads its clock.
LEMMA ClockingTidy ==
    ASSUME WorkersOK, WorkersTidy, NEW w \in Workers, worker[w].pc # "idle",
           NEW place, Turned(w, Clocking(w, place)), worker[w].outcome # "STALE"
    PROVE  WorkersTidy'
<1>1. worker[w] \in WorkerRecord
  BY DEF WorkersOK, WorkerOK
<1> DEFINE others == Clocked(worker[w].msg) \ {w}
<1>2. Clocking(w, place) = [worker[w] EXCEPT !.pc = place, !.older = others]
  BY DEF Clocking
<1>3. w \notin others
  OBVIOUS
<1> HIDE DEF others
<1>4. Tidy(w, Clocking(w, place))
  BY <1>1, <1>2, <1>3 DEF Tidy, WorkerRecord
<1> QED
  BY <1>4, TurnedTidy

\* A discovery that is not complete is not stale.
LEMMA NotStale ==
    ASSUME WorkersTidy, NEW w \in Workers, Job(w) = Discover, worker[w].pc # "idle",
           worker[w].pc # "complete"
    PROVE  worker[w].outcome # "STALE"
BY DEF WorkersTidy, Tidy, Job

(***************************************************************************)
(* What carries a generation.                                              *)
(***************************************************************************)

\* A completed discovery lease is not given up.
LeasesStay ==
    \A m \in Messages :
        m.job = Discover /\ lease[m].state = "COMPLETED" => lease'[m].state = "COMPLETED"

\* The row of the generation is as it was, for those who are not late.
RowStays ==
    /\ open' => open
    /\ row'.gen = row.gen /\ row'.status = row.status /\ row'.late \subseteq row.late

\* Whoever is not late and does not move goes on carrying.
LEMMA OthersCarry ==
    ASSUME NEW w \in Workers, NEW z, Moved(w, z), row'.late \subseteq row.late,
           NEW v \in Workers, v # w, NEW m \in Messages, Carries(v, m)
    PROVE  Carries(v, m)'
BY DEF Moved, Same, Carries

\* A generation stays carried if only the mover's own share is at stake.
LEMMA QuietCarries ==
    ASSUME GenerationIsCarried, NEW w \in Workers, NEW z, Moved(w, z), RowStays,
           Armed => Armed', LeasesStay,
           \A m \in Messages :
               /\ open' /\ ~Concluded(row) /\ IsCurrent(m)
               /\ queue[m] > 0 \/ Carries(w, m)
               => HasFuture(m)'
    PROVE  GenerationIsCarried'
<1>1. ASSUME open', ~Concluded(row)', NEW m \in Messages, IsCurrent(m)' PROVE HasFuture(m)'
  <2>1. open /\ ~Concluded(row) /\ IsCurrent(m)
    BY <1>1 DEF RowStays, Concluded, IsCurrent
  <2>2. HasFuture(m)
    BY <2>1 DEF GenerationIsCarried
  <2>3. CASE \E v \in Workers : Carries(v, m) /\ v # w
    BY <2>3, OthersCarry DEF RowStays, HasFuture
  <2>4. CASE queue[m] > 0 \/ Carries(w, m)
    BY <1>1, <2>1, <2>4
  <2>5. CASE Armed
    BY <2>5 DEF HasFuture
  <2>6. CASE lease[m].state = "COMPLETED"
    BY <2>1, <2>6 DEF HasFuture, LeasesStay, IsCurrent
  <2> QED
    BY <2>2, <2>3, <2>4, <2>5, <2>6 DEF HasFuture
<1> QED
  BY <1>1 DEF GenerationIsCarried

\* The message of a generation is the only one of its discovery.
LEMMA TheMessage ==
    ASSUME NEW n \in Messages, NEW m \in Messages, n.gen = m.gen, n.job = m.job
    PROVE  n = m
BY DEF Messages

\* It is carried by a worker that is not late,
LEMMA CarrierCarries ==
    ASSUME NEW w \in Workers, NEW z, Moved(w, z), z.pc # "idle", z.outcome # "STALE",
           w \notin row'.late, NEW n \in Messages, z.msg = n, n.job = Discover,
           row'.gen = n.gen
    PROVE  GenerationIsCarried'
<1>1. Carries(w, n)'
  BY DEF Carries, Moved, Same
<1>2. HasFuture(n)'
  BY <1>1 DEF HasFuture
<1>3. \A m \in Messages : IsCurrent(m)' => m = n
  BY TheMessage DEF IsCurrent
<1> QED
  BY <1>2, <1>3 DEF GenerationIsCarried

\* by a delivery,
LEMMA DeliveryCarries ==
    ASSUME NEW n \in Messages, n.job = Discover, row'.gen = n.gen, queue'[n] > 0
    PROVE  GenerationIsCarried'
<1>1. HasFuture(n)'
  BY DEF HasFuture
<1>2. \A m \in Messages : IsCurrent(m)' => m = n
  BY TheMessage DEF IsCurrent
<1> QED
  BY <1>1, <1>2 DEF GenerationIsCarried

\* by the dispatcher, or by nobody once it is concluded.
LEMMA NobodyCarries ==
    ASSUME ~open' \/ Concluded(row') \/ Armed'
    PROVE  GenerationIsCarried'
BY DEF GenerationIsCarried, Concluded, HasFuture, Armed

(***************************************************************************)
(* Every step carries on.                                                  *)
(***************************************************************************)

\* A discovery in hand was dispatched.
LEMMA InHandDispatched ==
    ASSUME TypeInv, CarryInv, NEW w \in Workers, worker[w].pc # "idle", Job(w) = Discover
    PROVE  /\ Gen(w) \in Nat /\ row.gen \in Nat /\ Gen(w) <= row.gen
           /\ worker[w].msg \in Messages /\ worker[w].msg.job = Discover
           /\ worker[w].msg.gen = Gen(w)
<1>1. worker[w].msg \in Messages /\ Gen(w) \in Nat /\ row.gen \in Nat
  <2>1. worker[w].msg \in Messages /\ Gen(w) \in Gens
    BY BusyHasMessage
  <2>2. row.gen \in 0..MaxGen
    BY DEF TypeInv, RowOK, Row
  <2> QED
    BY <2>1, <2>2, BoundsAssumption DEF Gens
<1>2. \A m \in Messages : m = worker[w].msg => m.job = Discover /\ m.gen = Gen(w) /\ Pending(m)
  BY DEF Job, Gen, Pending
<1> QED
  BY <1>1, <1>2 DEF CarryInv, DiscoveriesAreDispatched

\* What is left of the invariant once the generation is carried.
LEMMA CarryStep ==
    ASSUME CarryInv, NEW w \in Workers, NEW z, Moved(w, z),
           z.pc # "idle" => worker[w].pc # "idle" /\ z.msg = worker[w].msg,
           \A m \in Messages : m.job = Discover /\ queue'[m] > 0 => Pending(m),
           row'.gen = row.gen, dispatch'.gen = dispatch.gen,
           WorkersTidy', GenerationIsCarried'
    PROVE  CarryInv'
<1>1. \A m \in Messages : m.job = Discover /\ Pending(m)' => Pending(m)
  BY DEF Moved, Same, Pending
<1>2. DiscoveriesAreDispatched'
  BY <1>1 DEF CarryInv, DiscoveriesAreDispatched
<1> QED
  BY <1>2 DEF CarryInv

\* A delivery of the worker's own message was pending anyway.
LEMMA OwnDelivery ==
    ASSUME NEW w \in Workers, worker[w].pc # "idle",
           queue' = queue \/ Redelivered(worker[w].msg)
    PROVE  \A m \in Messages : queue'[m] > 0 => Pending(m)
BY DEF Redelivered, Pending

\* A worker that is gone from a row that stays, after putting its delivery back,
LEMMA PutBackCarries ==
    ASSUME TypeInv, CarryInv, NEW w \in Workers, worker[w].pc # "idle", PutBack(w),
           UNCHANGED <<open, dispatch, row>>, LeasesStay
    PROVE  CarryInv'
<1>1. WorkersOK /\ WorkersTidy /\ queue \in [Messages -> Nat]
  BY DEF TypeInv, CarryInv
<1>2. Moved(w, Idle) /\ Redelivered(worker[w].msg) /\ WorkersTidy'
  BY <1>1, PutBackMoves, StoppedTidy
<1>3. \A m \in Messages : queue[m] > 0 \/ Carries(w, m) => HasFuture(m)'
  BY <1>2 DEF Carries, HasFuture, Redelivered
<1>4. GenerationIsCarried'
  BY <1>2, <1>3, QuietCarries DEF CarryInv, RowStays, Armed
<1> QED
  BY <1>2, <1>4, CarryStep, OwnDelivery DEF Idle

\* or acknowledging it when it was not the one to carry,
LEMMA AcknowledgeCarries ==
    ASSUME TypeInv, CarryInv, NEW w \in Workers, worker[w].pc # "idle", Acknowledge(w),
           open' = open, row' = row, dispatch'.gen = dispatch.gen, Armed => Armed',
           LeasesStay,
           \A m \in Messages :
               open /\ ~Concluded(row) /\ IsCurrent(m) /\ Carries(w, m) => HasFuture(m)'
    PROVE  CarryInv'
<1>1. WorkersOK /\ WorkersTidy
  BY DEF TypeInv, CarryInv
<1>2. Moved(w, Idle) /\ queue' = queue /\ WorkersTidy'
  BY <1>1, AcknowledgeMoves, StoppedTidy
<1>3. \A m \in Messages :
         open' /\ ~Concluded(row) /\ IsCurrent(m) /\ (queue[m] > 0 \/ Carries(w, m))
         => HasFuture(m)'
  BY <1>2 DEF HasFuture
<1>4. GenerationIsCarried'
  BY <1>2, <1>3, QuietCarries DEF CarryInv, RowStays
<1> QED
  BY <1>2, <1>4, CarryStep, OwnDelivery DEF Idle

\* and a worker that goes on with its message.
LEMMA PlacedCarries ==
    ASSUME TypeInv, CarryInv, NEW w \in Workers, NEW z, Moved(w, z), worker[w].pc # "idle",
           worker[w].pc # "begin" \/ w \notin row'.late,
           z.pc # "idle", z.msg = worker[w].msg, z.outcome = worker[w].outcome,
           WorkersTidy', RowStays, dispatch' = dispatch,
           \A m \in Messages : m.job = Discover => queue'[m] = queue[m], LeasesStay
    PROVE  CarryInv'
<1>1. \A m \in Messages : Carries(w, m) => Carries(w, m)'
  BY DEF Carries, Moved, Same, RowStays
<1>2. \A m \in Messages : IsCurrent(m) /\ (queue[m] > 0 \/ Carries(w, m)) => HasFuture(m)'
  BY <1>1 DEF HasFuture, IsCurrent
<1>3. GenerationIsCarried'
  BY <1>2, QuietCarries DEF CarryInv, Armed
<1>4. \A m \in Messages : m.job = Discover /\ queue'[m] > 0 => Pending(m)
  BY DEF Pending
<1> QED
  BY <1>3, <1>4, CarryStep DEF RowStays

\* A worker that fetches carries no discovery.
LEMMA AsideCarries ==
    ASSUME TypeInv, CarryInv, NEW w \in Workers, NEW z, Moved(w, z), worker[w].pc # "idle",
           Job(w) # Discover, z.pc # "idle" => z.msg = worker[w].msg,
           WorkersTidy', RowStays, dispatch' = dispatch,
           \A m \in Messages : m.job = Discover => queue'[m] = queue[m], LeasesStay
    PROVE  CarryInv'
<1>1. \A m \in Messages : Carries(w, m) => m.job # Discover
  BY DEF Carries, Job
<1>2. \A m \in Messages : IsCurrent(m) /\ (queue[m] > 0 \/ Carries(w, m)) => HasFuture(m)'
  BY <1>1 DEF HasFuture, IsCurrent
<1>3. GenerationIsCarried'
  BY <1>2, QuietCarries DEF CarryInv, Armed
<1>4. \A m \in Messages : m.job = Discover /\ queue'[m] > 0 => Pending(m)
  BY DEF Pending
<1> QED
  BY <1>3, <1>4, CarryStep DEF RowStays

\* Leases are not given up by those who free their own,
LEMMA ReleasedStay ==
    ASSUME lease \in [Messages -> LeaseType], NEW w \in Workers, lease' = Released(w)
    PROVE  LeasesStay
<1> DEFINE n == worker[w].msg
           x == IF lease[n].owner = w /\ lease[n].state = "IN_PROGRESS" THEN Free ELSE lease[n]
<1>1. lease' = [lease EXCEPT ![n] = x]
  BY DEF Released
<1>2. lease[n].state = "COMPLETED" => x = lease[n]
  OBVIOUS
<1> HIDE DEF x, n
<1> QED
  BY <1>1, <1>2 DEF LeasesStay

\* complete it,
LEMMA CompletedStay ==
    ASSUME lease \in [Messages -> LeaseType], NEW n \in Messages,
           lease' = [lease EXCEPT ![n] = [@ EXCEPT !.state = "COMPLETED"]]
    PROVE  LeasesStay
BY DEF LeasesStay, LeaseType

\* take one that is free,
LEMMA TakenStay ==
    ASSUME lease \in [Messages -> LeaseType], NEW n \in Messages, LeaseFree(n), NEW x,
           lease' = [lease EXCEPT ![n] = x]
    PROVE  LeasesStay
BY DEF LeasesStay, LeaseType, LeaseFree

\* or do nothing.
LEMMA UnchangedStay ==
    ASSUME lease' = lease
    PROVE  LeasesStay
BY DEF LeasesStay

\* A step that raises puts a discovery back under a row that stays.
LEMMA RaiseCarries ==
    ASSUME TypeInv, CarryInv, NEW w \in Workers, worker[w].pc # "idle", Raise(w),
           UNCHANGED <<open, dispatch, row>>
    PROVE  CarryInv'
<1>1. LeasesStay
  BY ReleasedStay DEF Raise, TypeInv
<1> QED
  BY <1>1, PutBackCarries DEF Raise

\* A worker that wrote the row for its generation carries it, and is not late.
LEMMA WriterCarries ==
    ASSUME TypeInv, CarryInv, NEW w \in Workers, worker[w].pc # "idle", Job(w) = Discover,
           NEW z, Moved(w, z), z.pc # "idle", z.msg = worker[w].msg, z.outcome # "STALE",
           row'.gen = Gen(w), row.gen = Gen(w), row'.late = worker[w].older,
           WorkersTidy', dispatch' = dispatch, queue' = queue
    PROVE  CarryInv'
<1>1. worker[w].msg \in Messages /\ worker[w].msg.job = Discover /\ worker[w].msg.gen = Gen(w)
  BY InHandDispatched
<1>2. w \notin row'.late
  BY DEF CarryInv, WorkersTidy, Tidy
<1>3. GenerationIsCarried'
  BY <1>1, <1>2, CarrierCarries
<1>4. \A m \in Messages : m.job = Discover /\ queue'[m] > 0 => Pending(m)
  BY DEF Pending
<1> QED
  BY <1>3, <1>4, CarryStep

\* BeginDiscovery: whoever reads the clock anew is not late.
LEMMA BeginDiscoveryCarries ==
    ASSUME TypeInv, CarryInv, NEW w \in Workers, BeginDiscovery(w)
    PROVE  CarryInv'
<1>1. /\ worker[w].pc = "begin" /\ Job(w) = Discover /\ WorkersOK /\ WorkersTidy
      /\ UNCHANGED <<open, dispatch, lease>> /\ LeasesStay
  BY UnchangedStay DEF BeginDiscovery, Discovering, At, TypeInv, CarryInv, Job
<1>2. CASE ~open \/ (row.gen = Gen(w) /\ row.status \in DiscoveryTerminal)
  <2>1. Acknowledge(w) /\ row' = row
    BY <1>2 DEF BeginDiscovery
  <2>2. ~(open /\ ~Concluded(row))
    BY <1>2 DEF Concluded, DiscoveryTerminal
  <2> QED
    BY <1>1, <2>1, <2>2, AcknowledgeCarries DEF Armed
<1>3. CASE ~(~open \/ (row.gen = Gen(w) /\ row.status \in DiscoveryTerminal))
  <2>1. /\ worker' = Replaced(w, Clocking(w, "lease"))
        /\ row' = Reclocked(row, row.late \ {w}) /\ queue' = queue
    BY <1>3 DEF BeginDiscovery, Reclocked
  <2>2. Moved(w, Placed(w, "lease"))
    BY <1>1, <2>1, ClockingOK, WorkerMoves, MovedSame
  <2>3. WorkersTidy'
    BY <1>1, <2>1, NotStale, ClockingTidy DEF Turned
  <2>4. RowStays /\ w \notin row'.late
    <3>1. row \in Row
      BY DEF TypeInv, RowOK
    <3> QED
      BY <1>1, <2>1, <3>1 DEF Reclocked, Row, RowStays
  <2>5. /\ Placed(w, "lease").pc = "lease" /\ Placed(w, "lease").msg = worker[w].msg
        /\ Placed(w, "lease").outcome = worker[w].outcome
    BY <1>1, PlacedOK DEF Places
  <2> HIDE DEF Placed
  <2> QED
    BY <1>1, <2>1, <2>2, <2>3, <2>4, <2>5, PlacedCarries
<1> QED
  BY <1>2, <1>3

\* AcquireLease, of a discovery or of a fetch.
LEMMA AcquireLeaseCarries ==
    ASSUME TypeInv, CarryInv, NEW w \in Workers, AcquireLease(w)
    PROVE  CarryInv'
<1>1. /\ worker[w].pc = "lease" /\ WorkersOK /\ WorkersTidy /\ worker[w].msg \in Messages
      /\ lease \in [Messages -> LeaseType] /\ row.late \subseteq row.late
      /\ UNCHANGED <<open, dispatch, row, queue>>
  BY BusyHasMessage DEF AcquireLease, At, TypeInv, CarryInv
<1>2. PICK place \in {"attempt", "call"} : Goto(w, place)
  BY DEF AcquireLease
<1>3. Moved(w, Placed(w, place)) /\ WorkersTidy'
  BY <1>1, <1>2, GotoMoves, NotStale, GotoTidy DEF Places, Owning
<1>4. LeasesStay
  BY <1>1, TakenStay DEF AcquireLease
<1>5. /\ Placed(w, place).pc # "idle" /\ Placed(w, place).msg = worker[w].msg
      /\ Placed(w, place).outcome = worker[w].outcome
  BY <1>1, PlacedOK DEF Places, Owning
<1>6. RowStays
  BY <1>1 DEF RowStays
<1> QED
  BY <1>1, <1>3, <1>4, <1>5, <1>6, PlacedCarries

\* LeaseRefused: a completed lease is a future of its own.
LEMMA LeaseRefusedCarries ==
    ASSUME TypeInv, CarryInv, NEW w \in Workers, LeaseRefused(w)
    PROVE  CarryInv'
<1>1. /\ worker[w].pc # "idle" /\ UNCHANGED <<open, dispatch, row, lease>> /\ LeasesStay
  BY UnchangedStay DEF LeaseRefused, At
<1>2. CASE lease[worker[w].msg].state = "COMPLETED"
  <2>1. Acknowledge(w)
    BY <1>2 DEF LeaseRefused
  <2>2. \A m \in Messages : Carries(w, m) => HasFuture(m)'
    BY <1>1, <1>2 DEF Carries, HasFuture
  <2> QED
    BY <1>1, <2>1, <2>2, AcknowledgeCarries DEF Armed
<1>3. CASE lease[worker[w].msg].state # "COMPLETED"
  BY <1>1, <1>3, PutBackCarries DEF LeaseRefused
<1> QED
  BY <1>2, <1>3

\* Who is refused while its generation is not concluded does not carry it.
LEMMA RefusedIsLate ==
    ASSUME TypeInv, CarryInv, NEW w \in Workers, Job(w) = Discover,
           worker[w].pc \notin {"idle", "begin"}, NEW status,
           ~AttemptAdmitted(row, Gen(w), status, w \in row.late)
    PROVE  \A m \in Messages : ~Concluded(row) /\ IsCurrent(m) => ~Carries(w, m)
<1>1. Gen(w) \in Nat /\ row.gen \in Nat /\ Gen(w) <= row.gen /\ worker[w].msg.gen = Gen(w)
  BY InHandDispatched
<1>2. ~Concluded(row) /\ row.gen = Gen(w) => w \in row.late
  BY <1>1 DEF AttemptAdmitted, Concluded, DiscoveryTerminal
<1> QED
  BY <1>1, <1>2 DEF IsCurrent, Carries

\* A worker that is found stale stops carrying.
LEMMA StaleCarries ==
    ASSUME TypeInv, CarryInv, NEW w \in Workers, worker[w].pc # "idle", Stale(w),
           UNCHANGED <<open, dispatch, row, lease, queue>>,
           \A m \in Messages : open /\ ~Concluded(row) /\ IsCurrent(m) => ~Carries(w, m)
    PROVE  CarryInv'
<1>1. Moved(w, Staled(w)) /\ WorkersTidy' /\ Staled(w).msg = worker[w].msg
  BY StaleMoves, StaleTidy, StaledOK DEF TypeInv, CarryInv
<1>2. GenerationIsCarried'
  <2>1. RowStays /\ (Armed => Armed') /\ LeasesStay
    BY UnchangedStay DEF RowStays, Armed
  <2>2. \A m \in Messages : queue[m] > 0 => HasFuture(m)'
    BY DEF HasFuture
  <2> QED
    BY <1>1, <2>1, <2>2, QuietCarries DEF CarryInv
<1>3. \A m \in Messages : queue'[m] > 0 => Pending(m)
  BY DEF Pending
<1> QED
  BY <1>1, <1>2, <1>3, CarryStep

\* Attempt: an admitted worker carries, a refused one did not.
LEMMA AttemptCarries ==
    ASSUME TypeInv, CarryInv, NEW w \in Workers, Attempt(w)
    PROVE  CarryInv'
<1>1. /\ worker[w].pc = "attempt" /\ Job(w) = Discover /\ WorkersOK /\ WorkersTidy
      /\ RowOK(row) /\ UNCHANGED <<open, dispatch, lease, queue>> /\ LeasesStay
  BY UnchangedStay DEF Attempt, Discovering, At, TypeInv, CarryInv, Job
<1>2. Gen(w) \in Nat /\ row.gen \in Nat /\ Gen(w) <= row.gen /\ worker[w].msg.gen = Gen(w)
  BY <1>1, InHandDispatched
<1> DEFINE admitted == AttemptAdmitted(row, Gen(w), "STARTED", w \in row.late)
<1>3. CASE open /\ admitted
  <2>1. /\ row' = Attempted(w, "STARTED")
        /\ Goto(w, IF row'.planned THEN "expect" ELSE "discover")
    BY <1>3 DEF Attempt
  <2>2. row'.late = worker[w].older /\ row'.gen = Gen(w)
    BY <1>1, <1>3, <2>1, AttemptLate DEF Attempted
  <2>3. row.gen = Gen(w)
    BY <1>2, <1>3 DEF AttemptAdmitted
  <2>4. PICK place \in {"expect", "discover"} : Goto(w, place)
    BY <2>1
  <2>5. Moved(w, Placed(w, place)) /\ WorkersTidy'
    BY <1>1, <2>4, GotoMoves, NotStale, GotoTidy DEF Places, Owning
  <2>6. /\ Placed(w, place).pc # "idle" /\ Placed(w, place).msg = worker[w].msg
        /\ Placed(w, place).outcome # "STALE"
    BY <1>1, NotStale, PlacedOK DEF Places, Owning
  <2> HIDE DEF admitted
  <2> QED
    BY <1>1, <2>2, <2>3, <2>5, <2>6, WriterCarries
<1>4. CASE ~(open /\ admitted)
  <2>1. Stale(w) /\ row' = row
    BY <1>4 DEF Attempt
  <2>2. \A m \in Messages : open /\ ~Concluded(row) /\ IsCurrent(m) => ~Carries(w, m)
    BY <1>1, <1>4, RefusedIsLate
  <2> HIDE DEF admitted
  <2> QED
    BY <1>1, <2>1, <2>2, StaleCarries
<1> QED
  BY <1>3, <1>4

\* DiscoveryDeferred: the queue or the dispatcher has the generation next.
LEMMA DiscoveryDeferredCarries ==
    ASSUME TypeInv, CarryInv, NEW w \in Workers, DiscoveryDeferred(w)
    PROVE  CarryInv'
<1>1. /\ worker[w].pc = "discover" /\ Job(w) = Discover /\ WorkersOK /\ WorkersTidy
      /\ RowOK(row) /\ open' = open /\ LeasesStay /\ queue \in [Messages -> Nat]
  BY ReleasedStay DEF DiscoveryDeferred, Discovering, At, TypeInv, CarryInv, Job
<1>2. PICK status \in {"QUOTA_DEFERRED", "ADMISSION_DEFERRED", "RETRYABLE_ERROR"} :
         /\ row' = Attempted(w, status)
         /\ IF status = "QUOTA_DEFERRED"
            THEN /\ Acknowledge(w)
                 /\ dispatch' = [dispatch EXCEPT !.pc = IF @ = "idle" THEN "due" ELSE @]
            ELSE PutBack(w) /\ UNCHANGED dispatch
  BY DEF DiscoveryDeferred
<1>3. dispatch'.gen = dispatch.gen /\ (Armed => Armed')
  BY <1>2 DEF Armed, TypeInv
<1> DEFINE admitted == AttemptAdmitted(row, Gen(w), status, w \in row.late)
<1>4. CASE admitted
  <2>1. row'.status = status /\ row'.gen = Gen(w) /\ row.gen = Gen(w)
    <3>1. row'.status = status /\ row'.gen = Gen(w)
      BY <1>1, <1>2, <1>4, AttemptLate DEF Attempted
    <3>2. row.gen = Gen(w)
      BY <1>1, <1>4, InHandDispatched DEF AttemptAdmitted
    <3> QED
      BY <3>1, <3>2
  <2>2. WorkersTidy' /\ Moved(w, Idle)
    BY <1>1, <1>2, StoppedTidy, AcknowledgeMoves, PutBackMoves
  <2>3. queue' = queue \/ Redelivered(worker[w].msg)
    BY <1>1, <1>2, AcknowledgeMoves, PutBackMoves
  <2>4. CASE status = "QUOTA_DEFERRED"
    <3>1. GenerationIsCarried'
      BY <2>1, <2>4, NobodyCarries DEF Concluded
    <3> QED
      BY <1>1, <1>3, <2>1, <2>2, <2>3, <3>1, CarryStep, OwnDelivery DEF Idle
  <2>5. CASE status # "QUOTA_DEFERRED"
    <3>1. queue'[worker[w].msg] > 0
      BY <1>1, <1>2, <2>5, PutBackMoves DEF Redelivered
    <3>2. GenerationIsCarried'
      BY <1>1, <2>1, <3>1, InHandDispatched, DeliveryCarries
    <3> QED
      BY <1>1, <1>3, <2>1, <2>2, <2>3, <3>2, CarryStep, OwnDelivery DEF Idle
  <2> QED
    BY <2>4, <2>5
<1>5. CASE ~admitted
  <2>1. row' = row
    BY <1>2, <1>5 DEF Attempted, AfterAttempt
  <2>2. \A m \in Messages : ~Concluded(row) /\ IsCurrent(m) => ~Carries(w, m)
    BY <1>1, <1>5, RefusedIsLate
  <2>3. CASE status = "QUOTA_DEFERRED"
    BY <1>1, <1>2, <1>3, <2>1, <2>2, <2>3, AcknowledgeCarries
  <2>4. CASE status # "QUOTA_DEFERRED"
    BY <1>1, <1>2, <2>1, <2>4, PutBackCarries
  <2> QED
    BY <2>3, <2>4
<1> QED
  BY <1>4, <1>5

\* DiscoveryRejected: the refusal is recorded, or the worker goes on.
LEMMA DiscoveryRejectedCarries ==
    ASSUME TypeInv, CarryInv, NEW w \in Workers, DiscoveryRejected(w)
    PROVE  CarryInv'
<1>1. /\ worker[w].pc = "discover" /\ Job(w) = Discover /\ WorkersOK /\ WorkersTidy
      /\ RowOK(row) /\ UNCHANGED <<open, dispatch, lease, queue>> /\ LeasesStay
      /\ Goto(w, "complete") /\ row' = Attempted(w, "REQUEST_REJECTED")
  BY UnchangedStay DEF DiscoveryRejected, Discovering, At, TypeInv, CarryInv, Job
<1>2. Moved(w, Placed(w, "complete")) /\ WorkersTidy'
  BY <1>1, GotoMoves, NotStale, GotoTidy DEF Places, Owning
<1>3. /\ Placed(w, "complete").pc # "idle" /\ Placed(w, "complete").msg = worker[w].msg
      /\ Placed(w, "complete").outcome = worker[w].outcome
  BY <1>1, PlacedOK DEF Places, Owning
<1> DEFINE admitted == AttemptAdmitted(row, Gen(w), "REQUEST_REJECTED", w \in row.late)
<1>4. CASE admitted
  <2>1. row'.status = "REQUEST_REJECTED" /\ row'.gen = Gen(w)
    BY <1>1, <1>4, AttemptLate DEF Attempted
  <2>2. row.gen = Gen(w)
    BY <1>1, <1>4, InHandDispatched DEF AttemptAdmitted
  <2>3. GenerationIsCarried'
    BY <2>1, NobodyCarries DEF Concluded
  <2>4. \A m \in Messages : queue'[m] > 0 => Pending(m)
    BY <1>1 DEF Pending
  <2> QED
    BY <1>1, <1>2, <1>3, <2>1, <2>2, <2>3, <2>4, CarryStep
<1>5. CASE ~admitted
  <2>1. row' = row
    BY <1>1, <1>5 DEF Attempted, AfterAttempt
  <2>2. RowStays
    BY <1>1, <2>1 DEF RowStays
  <2> HIDE DEF admitted
  <2> QED
    BY <1>1, <1>2, <1>3, <2>2, PlacedCarries
<1> QED
  BY <1>4, <1>5

\* DiscoveryAnswered reads the clock again.
LEMMA DiscoveryAnsweredCarries ==
    ASSUME TypeInv, CarryInv, NEW w \in Workers, DiscoveryAnswered(w)
    PROVE  CarryInv'
<1>1. /\ worker[w].pc = "discover" /\ Job(w) = Discover /\ WorkersOK /\ WorkersTidy
      /\ UNCHANGED <<open, dispatch, row, lease, queue>> /\ LeasesStay
      /\ worker' = [worker EXCEPT ![w] = Clocking(w, "plan")]
  BY UnchangedStay DEF DiscoveryAnswered, Discovering, At, TypeInv, CarryInv, Job
<1>2. Moved(w, Placed(w, "plan"))
  BY <1>1, ClockingOK, WorkerMoves, MovedSame
<1>3. WorkersTidy'
  BY <1>1, NotStale, ClockingTidy DEF Turned
<1>4. /\ Placed(w, "plan").pc # "idle" /\ Placed(w, "plan").msg = worker[w].msg
      /\ Placed(w, "plan").outcome = worker[w].outcome
  BY <1>1, PlacedOK DEF Places, Owning
<1>5. RowStays
  BY <1>1 DEF RowStays
<1> HIDE DEF Placed
<1> QED
  BY <1>1, <1>2, <1>3, <1>4, <1>5, PlacedCarries

\* PutPlan: the plan is written, or was there, or is of a later generation.
LEMMA PutPlanCarries ==
    ASSUME TypeInv, CarryInv, NEW w \in Workers, PutPlan(w)
    PROVE  CarryInv'
<1>1. /\ worker[w].pc = "plan" /\ Job(w) = Discover /\ WorkersOK /\ WorkersTidy
      /\ open' = open /\ dispatch' = dispatch
  BY DEF PutPlan, Discovering, At, TypeInv, CarryInv, Job
<1>2. PICK status \in {"PLAN_READY", "PLAN_SIZE_LIMIT"} :
         row' = AfterPlan(row, Gen(w), status, worker[w].older)
  BY DEF PutPlan
<1>3. IF row'.status = "PLAN_SIZE_LIMIT" THEN Raise(w)
      ELSE /\ IF PlanCurrent(row', Gen(w)) THEN Goto(w, "expect") ELSE Stale(w)
           /\ UNCHANGED <<lease, queue>>
  BY DEF PutPlan
<1>4. Goto(w, "expect") => Moved(w, Placed(w, "expect")) /\ WorkersTidy'
  BY <1>1, GotoMoves, NotStale, GotoTidy DEF Places, Owning
<1>5. /\ Placed(w, "expect").pc # "idle" /\ Placed(w, "expect").msg = worker[w].msg
      /\ Placed(w, "expect").outcome = worker[w].outcome /\ worker[w].outcome # "STALE"
  BY <1>1, PlacedOK, NotStale DEF Places, Owning
<1> HIDE DEF Placed
<1>6. CASE PlanAdmitted(row, Gen(w))
  <2>1. /\ row'.late = worker[w].older /\ row'.gen = Gen(w) /\ row'.status = status
        /\ row'.planned = (status = "PLAN_READY") /\ row.gen = Gen(w)
    BY <1>2, <1>6, PlanLate DEF PlanAdmitted
  <2>2. CASE status = "PLAN_READY"
    <3>1. Goto(w, "expect") /\ queue' = queue
      BY <1>3, <2>1, <2>2 DEF PlanCurrent
    <3> QED
      BY <1>1, <1>4, <1>5, <2>1, <3>1, WriterCarries
  <2>3. CASE status = "PLAN_SIZE_LIMIT"
    <3>1. Raise(w) /\ GenerationIsCarried'
      BY <1>3, <2>1, <2>3, NobodyCarries DEF Concluded
    <3>2. Moved(w, Idle) /\ Redelivered(worker[w].msg)
      BY <1>1, <3>1, RaiseMoves
    <3>3. WorkersTidy'
      BY <1>1, <3>1, StoppedTidy DEF Raise
    <3> QED
      BY <1>1, <2>1, <3>1, <3>2, <3>3, CarryStep, OwnDelivery DEF Idle
  <2> QED
    BY <2>2, <2>3
<1>7. CASE ~PlanAdmitted(row, Gen(w))
  <2>1. row' = row
    BY <1>2, <1>7 DEF AfterPlan
  <2>2. CASE row.status = "PLAN_SIZE_LIMIT"
    BY <1>1, <1>3, <2>1, <2>2, RaiseCarries
  <2>3. CASE row.status # "PLAN_SIZE_LIMIT" /\ PlanCurrent(row, Gen(w))
    <3>1. Goto(w, "expect") /\ UNCHANGED <<lease, queue>>
      BY <1>3, <2>1, <2>3
    <3>2. RowStays /\ LeasesStay
      BY <1>1, <2>1, <3>1, UnchangedStay DEF RowStays
    <3> QED
      BY <1>1, <1>4, <1>5, <3>1, <3>2, PlacedCarries
  <2>4. CASE row.status # "PLAN_SIZE_LIMIT" /\ ~PlanCurrent(row, Gen(w))
    <3>1. Stale(w) /\ UNCHANGED <<lease, queue>>
      BY <1>3, <2>1, <2>4 DEF PlanCurrent
    <3>2. \A m \in Messages : IsCurrent(m) => ~Carries(w, m)
      <4>1. row.gen # Gen(w)
        BY <1>7, <2>4 DEF PlanAdmitted, PlanCurrent
      <4> QED
        BY <4>1 DEF IsCurrent, Carries, Gen
    <3> QED
      BY <1>1, <2>1, <3>1, <3>2, StaleCarries
  <2> QED
    BY <2>2, <2>3, <2>4
<1> QED
  BY <1>6, <1>7

\* A worker that keeps its clock and its message stays tidy.
LEMMA KeptClockTidy ==
    ASSUME WorkersOK, WorkersTidy, NEW w \in Workers, NEW z, Turned(w, z),
           z.older = worker[w].older, z.msg = worker[w].msg,
           Job(w) = Discover => z.outcome # "STALE"
    PROVE  WorkersTidy'
<1>1. Tidy(w, z)
  BY DEF Tidy, WorkersTidy, Job
<1> QED
  BY <1>1, TurnedTidy

\* FanoutExpected: the list of batches is written, or was there.
LEMMA FanoutExpectedCarries ==
    ASSUME TypeInv, CarryInv, NEW w \in Workers, FanoutExpected(w)
    PROVE  CarryInv'
<1>1. /\ worker[w].pc = "expect" /\ Job(w) = Discover /\ WorkersOK /\ WorkersTidy
      /\ open' = open /\ dispatch' = dispatch /\ worker[w] \in WorkerRecord /\ RowOK(row)
  BY DEF FanoutExpected, Discovering, At, TypeInv, CarryInv, Job, WorkersOK, WorkerOK
<1>2. CASE PlanCurrent(row, Gen(w))
  <2>1. /\ row' = AfterExpected(row, worker[w].older) /\ UNCHANGED <<lease, queue>>
        /\ worker' = [worker EXCEPT ![w] = Fanning(w)]
    BY <1>2 DEF FanoutExpected, Fanning
  <2>2. /\ Moved(w, Fanning(w)) /\ Fanning(w).pc = "fanout"
        /\ Fanning(w).msg = worker[w].msg /\ Fanning(w).outcome = worker[w].outcome
    BY <1>2, FanoutExpectedEffect
  <2>3. Fanning(w).older = worker[w].older
    BY <1>1 DEF Fanning, WorkerRecord
  <2> HIDE DEF Fanning
  <2>4. WorkersTidy' /\ Fanning(w).outcome # "STALE"
    BY <1>1, <2>1, <2>2, <2>3, NotStale, KeptClockTidy DEF Turned
  <2>5. CASE row' = row
    <3>1. RowStays /\ LeasesStay
      BY <1>1, <2>1, <2>5, UnchangedStay DEF RowStays
    <3> QED
      BY <1>1, <2>1, <2>2, <2>4, <3>1, PlacedCarries
  <2>6. CASE row'.late = worker[w].older /\ row'.gen = row.gen
    <3>1. row.gen = Gen(w)
      BY <1>2 DEF PlanCurrent
    <3> QED
      BY <1>1, <2>1, <2>2, <2>4, <2>6, <3>1, WriterCarries
  <2> QED
    BY <1>1, <2>1, <2>5, <2>6, ExpectedLate
<1>3. CASE ~PlanCurrent(row, Gen(w))
  BY <1>1, <1>3, RaiseCarries DEF FanoutExpected
<1> QED
  BY <1>2, <1>3

\* EnqueueBatch sends no discovery.
LEMMA EnqueueBatchCarries ==
    ASSUME TypeInv, CarryInv, NEW w \in Workers, NEW b \in Batches, EnqueueBatch(w, b)
    PROVE  CarryInv'
<1>1. /\ worker[w].pc = "fanout" /\ Job(w) = Discover /\ WorkersOK /\ WorkersTidy
      /\ UNCHANGED <<open, dispatch, row, lease>> /\ worker[w] \in WorkerRecord
      /\ worker' = [worker EXCEPT ![w] = Marking(w, b)] /\ LeasesStay
  BY UnchangedStay DEF EnqueueBatch, Discovering, At, TypeInv, CarryInv, Job, WorkersOK,
     WorkerOK, Marking
<1>2. /\ Moved(w, Marking(w, b)) /\ Marking(w, b).pc = "mark"
      /\ Marking(w, b).msg = worker[w].msg /\ Marking(w, b).outcome = worker[w].outcome
      /\ Redelivered([gen |-> Gen(w), job |-> b])
  BY EnqueueBatchEffect
<1>3. Marking(w, b).older = worker[w].older
  BY <1>1 DEF Marking, WorkerRecord
<1> HIDE DEF Marking
<1>4. WorkersTidy'
  BY <1>1, <1>2, <1>3, NotStale, KeptClockTidy DEF Turned
<1>5. \A m \in Messages : m.job = Discover => queue'[m] = queue[m]
  BY <1>2, TreeAssumption DEF Redelivered
<1>6. RowStays
  BY <1>1 DEF RowStays
<1> QED
  BY <1>1, <1>2, <1>4, <1>5, <1>6, PlacedCarries

\* MarkEnqueued adds to the row, or raises.
LEMMA MarkEnqueuedCarries ==
    ASSUME TypeInv, CarryInv, NEW w \in Workers, MarkEnqueued(w)
    PROVE  CarryInv'
<1>1. /\ worker[w].pc = "mark" /\ Job(w) = Discover /\ WorkersOK /\ WorkersTidy
      /\ open' = open /\ dispatch' = dispatch /\ worker[w] \in WorkerRecord /\ row \in Row
  BY DEF MarkEnqueued, Discovering, At, TypeInv, CarryInv, Job, WorkersOK, WorkerOK, RowOK
<1>2. CASE PlanCurrent(row, Gen(w))
  <2> DEFINE all == row.enqueued \cup worker[w].sent
             left == worker[w].todo \ worker[w].sent
  <2>1. /\ row' = [row EXCEPT !.enqueued = all] /\ UNCHANGED <<lease, queue>>
        /\ worker' = [worker EXCEPT ![w] = Marked(w)]
    BY <1>2 DEF MarkEnqueued, Marked
  <2>2. /\ Moved(w, Marked(w)) /\ Marked(w).pc = "fanout"
        /\ Marked(w).msg = worker[w].msg /\ Marked(w).outcome = worker[w].outcome
    BY <1>2, MarkEnqueuedEffect
  <2>3. Marked(w) = [worker[w] EXCEPT !.pc = "fanout", !.todo = left, !.sent = {}]
    BY DEF Marked
  <2> HIDE DEF all, left, Marked
  <2>4. Marked(w).older = worker[w].older
    BY <1>1, <2>3 DEF WorkerRecord
  <2>5. WorkersTidy'
    BY <1>1, <2>1, <2>2, <2>4, NotStale, KeptClockTidy DEF Turned
  <2>6. RowStays /\ LeasesStay
    BY <1>1, <2>1, UnchangedStay DEF RowStays, Row
  <2> QED
    BY <1>1, <2>1, <2>2, <2>5, <2>6, PlacedCarries
<1>3. CASE ~PlanCurrent(row, Gen(w))
  BY <1>1, <1>3, RaiseCarries DEF MarkEnqueued
<1> QED
  BY <1>2, <1>3

\* CompleteFanout settles the generation, or raises.
LEMMA CompleteFanoutCarries ==
    ASSUME TypeInv, CarryInv, NEW w \in Workers, CompleteFanout(w)
    PROVE  CarryInv'
<1>1. /\ worker[w].pc = "fanout" /\ Job(w) = Discover /\ WorkersOK /\ WorkersTidy
      /\ open' = open /\ dispatch' = dispatch /\ row \in Row
  BY DEF CompleteFanout, Discovering, At, TypeInv, CarryInv, Job, RowOK
<1>2. CASE FanoutDone(row, Gen(w))
  <2>1. /\ row' = Restated(row, "HTTP_200", {}) /\ UNCHANGED <<lease, queue>>
        /\ Goto(w, "complete")
    BY <1>2 DEF CompleteFanout, Restated
  <2>2. Moved(w, Placed(w, "complete")) /\ WorkersTidy'
    BY <1>1, <2>1, GotoMoves, NotStale, GotoTidy DEF Places, Owning
  <2>3. Placed(w, "complete").msg = worker[w].msg
    BY <1>1, PlacedOK DEF Places, Owning
  <2>4. row'.gen = row.gen /\ row'.status = "HTTP_200"
    BY <1>1, <2>1 DEF Restated, Row
  <2>5. GenerationIsCarried'
    BY <2>4, NobodyCarries DEF Concluded
  <2>6. \A m \in Messages : queue'[m] > 0 => Pending(m)
    BY <2>1 DEF Pending
  <2> QED
    BY <1>1, <2>2, <2>3, <2>4, <2>5, <2>6, CarryStep
<1>3. CASE ~FanoutDone(row, Gen(w))
  BY <1>1, <1>3, RaiseCarries DEF CompleteFanout
<1> QED
  BY <1>2, <1>3

\* CompleteDiscovery acknowledges what is settled or found stale.
LEMMA CompleteDiscoveryCarries ==
    ASSUME TypeInv, CarryInv, NEW w \in Workers, CompleteDiscovery(w)
    PROVE  CarryInv'
<1> DEFINE n == worker[w].msg
           mine == lease[n].owner = w /\ lease[n].state = "IN_PROGRESS"
           settled == row.gen = Gen(w) /\ row.status \in DiscoveryTerminal
<1>1. /\ worker[w].pc # "idle" /\ UNCHANGED <<open, dispatch, row>>
      /\ n \in Messages /\ lease \in [Messages -> LeaseType]
  BY BusyHasMessage DEF CompleteDiscovery, Discovering, At, TypeInv
<1>2. IF settled /\ (mine \/ lease[n].state = "COMPLETED")
      THEN /\ lease' = [lease EXCEPT ![n] = [@ EXCEPT !.state = "COMPLETED"]]
           /\ Acknowledge(w)
      ELSE /\ lease' = Released(w)
           /\ IF worker[w].outcome = "STALE" THEN Acknowledge(w) ELSE PutBack(w)
  BY DEF CompleteDiscovery
<1>3. CASE settled /\ (mine \/ lease[n].state = "COMPLETED")
  <2>1. Acknowledge(w) /\ LeasesStay
    BY <1>1, <1>2, <1>3, CompletedStay
  <2>2. Concluded(row)
    BY <1>3 DEF Concluded, DiscoveryTerminal
  <2> QED
    BY <1>1, <2>1, <2>2, AcknowledgeCarries DEF Armed
<1>4. CASE ~(settled /\ (mine \/ lease[n].state = "COMPLETED"))
  <2>1. /\ LeasesStay
        /\ IF worker[w].outcome = "STALE" THEN Acknowledge(w) ELSE PutBack(w)
    BY <1>1, <1>2, <1>4, ReleasedStay
  <2>2. CASE worker[w].outcome = "STALE"
    BY <1>1, <2>1, <2>2, AcknowledgeCarries DEF Armed, Carries
  <2>3. CASE worker[w].outcome # "STALE"
    BY <1>1, <2>1, <2>3, PutBackCarries
  <2> QED
    BY <2>2, <2>3
<1> QED
  BY <1>3, <1>4

\* A fetch that goes on.
LEMMA FetchGoesOn ==
    ASSUME TypeInv, TypeInv', CarryInv, NEW w \in Workers, worker[w].pc # "idle",
           Job(w) # Discover, NEW z, worker' = [worker EXCEPT ![w] = z],
           z.msg = worker[w].msg, z.older = worker[w].older,
           UNCHANGED <<open, dispatch, lease>>, RowStays,
           \A m \in Messages : m.job = Discover => queue'[m] = queue[m]
    PROVE  CarryInv'
<1>1. WorkersOK /\ WorkersOK' /\ WorkersTidy
  BY DEF TypeInv, CarryInv
<1>2. Moved(w, z)
  BY <1>1 DEF Moved, Same, WorkersOK
<1>3. WorkersTidy'
  BY <1>1, KeptClockTidy DEF Turned
<1> QED
  BY <1>2, <1>3, AsideCarries, UnchangedStay

\* A fetch that ends, its delivery acknowledged or put back.
LEMMA FetchStops ==
    ASSUME TypeInv, CarryInv, NEW w \in Workers, worker[w].pc # "idle", Job(w) # Discover,
           Acknowledge(w) \/ PutBack(w), UNCHANGED <<open, dispatch, row>>, LeasesStay
    PROVE  CarryInv'
<1>1. \A m \in Messages : IsCurrent(m) => ~Carries(w, m)
  BY DEF IsCurrent, Carries, Job
<1> QED
  BY <1>1, AcknowledgeCarries, PutBackCarries DEF Armed

\* No step of a fetch touches what carries the generation.
LEMMA FetchCarries ==
    ASSUME TypeInv, TypeInv', CarryInv, NEW w \in Workers,
           \/ BeginFetch(w) \/ FetchStale(w) \/ FetchUnanswered(w) \/ FetchAnswered(w)
           \/ FetchSplit(w) \/ (\E c \in Jobs : SendChild(w, c))
           \/ MergeOutcome(w) \/ MintCertificate(w) \/ CompleteFetch(w)
    PROVE  CarryInv'
<1>1. /\ worker[w].pc # "idle" /\ Job(w) # Discover /\ open' = open /\ dispatch' = dispatch
  BY DEF BeginFetch, FetchStale, FetchUnanswered, FetchAnswered, FetchSplit, SendChild,
         MergeOutcome, MintCertificate, CompleteFetch, MayCall, Fetching, At, Job
<1>2. /\ worker[w] \in WorkerRecord /\ worker[w].msg \in Messages /\ Job(w) \in Jobs
      /\ lease \in [Messages -> LeaseType]
  BY <1>1, BusyHasMessage DEF TypeInv
<1>3. ASSUME row' = row PROVE RowStays
  BY <1>1, <1>3 DEF RowStays
<1>4. ASSUME NEW place, Goto(w, place), UNCHANGED <<row, lease, queue>> PROVE CarryInv'
  <2>1. worker' = [worker EXCEPT ![w] = Placed(w, place)]
    BY <1>4 DEF Goto, Placed
  <2>2. Placed(w, place).msg = worker[w].msg /\ Placed(w, place).older = worker[w].older
    BY <1>2 DEF Placed, WorkerRecord
  <2> HIDE DEF Placed
  <2> QED
    BY <1>1, <1>3, <1>4, <2>1, <2>2, FetchGoesOn
<1>5. ASSUME BeginFetch(w) PROVE CarryInv'
  BY <1>1, <1>4, <1>5, FetchStops, UnchangedStay DEF BeginFetch
<1>6. ASSUME FetchStale(w) PROVE CarryInv'
  <2>1. worker' = [worker EXCEPT ![w] = Staled(w)] /\ UNCHANGED <<row, lease, queue>>
    BY <1>6 DEF FetchStale, Stale, Staled
  <2>2. Staled(w).msg = worker[w].msg /\ Staled(w).older = worker[w].older
    BY <1>2 DEF Staled, WorkerRecord
  <2> HIDE DEF Staled
  <2> QED
    BY <1>1, <1>3, <2>1, <2>2, FetchGoesOn
<1>7. ASSUME FetchUnanswered(w) PROVE CarryInv'
  <2>1. UNCHANGED <<row, lease, queue>>
    BY <1>7 DEF FetchUnanswered
  <2>2. PICK outcome : worker' = [worker EXCEPT ![w] = Unanswered(w, outcome)]
    BY <1>7 DEF FetchUnanswered, Unanswered
  <2>3. /\ Unanswered(w, outcome).msg = worker[w].msg
        /\ Unanswered(w, outcome).older = worker[w].older
    BY <1>2 DEF Unanswered, WorkerRecord
  <2> HIDE DEF Unanswered
  <2> QED
    BY <1>1, <1>3, <2>1, <2>2, <2>3, FetchGoesOn
<1>8. ASSUME FetchAnswered(w) PROVE CarryInv'
  <2>1. UNCHANGED <<row, lease, queue>>
    BY <1>8 DEF FetchAnswered
  <2>2. PICK got : worker' = [worker EXCEPT ![w] = Answered(w, got)]
    BY <1>8 DEF FetchAnswered, Answered
  <2>3. Answered(w, got).msg = worker[w].msg /\ Answered(w, got).older = worker[w].older
    BY <1>2 DEF Answered, WorkerRecord
  <2> HIDE DEF Answered
  <2> QED
    BY <1>1, <1>3, <2>1, <2>2, <2>3, FetchGoesOn
<1>9. ASSUME FetchSplit(w) PROVE CarryInv'
  <2>1. UNCHANGED <<row, lease, queue>> /\ worker' = [worker EXCEPT ![w] = Splitting(w)]
    BY <1>9 DEF FetchSplit, Splitting
  <2>2. Splitting(w).msg = worker[w].msg /\ Splitting(w).older = worker[w].older
    BY <1>2 DEF Splitting, WorkerRecord
  <2> HIDE DEF Splitting
  <2> QED
    BY <1>1, <1>3, <2>1, <2>2, FetchGoesOn
<1>10. ASSUME NEW c \in Jobs, SendChild(w, c) PROVE CarryInv'
  <2>1. UNCHANGED <<row, lease>> /\ worker' = [worker EXCEPT ![w] = Sending(w, c)]
    BY <1>10 DEF SendChild, Sending
  <2>2. Sending(w, c).msg = worker[w].msg /\ Sending(w, c).older = worker[w].older
    BY <1>2 DEF Sending, WorkerRecord
  <2>3. \A m \in Messages : m.job = Discover => queue'[m] = queue[m]
    <3>1. Redelivered([gen |-> Gen(w), job |-> c]) /\ c # Discover
      BY <1>10, SendChildEffect, TreeAssumption
    <3>2. \A m \in Messages : m.job = Discover => m # [gen |-> Gen(w), job |-> c]
      BY <3>1
    <3> QED
      BY <3>1, <3>2 DEF Redelivered
  <2> HIDE DEF Sending
  <2> QED
    BY <1>1, <1>3, <2>1, <2>2, <2>3, FetchGoesOn
<1>11. ASSUME MergeOutcome(w) PROVE CarryInv'
  <2>1. UNCHANGED <<lease, queue>>
    BY <1>11 DEF MergeOutcome
  <2>2. RowStays
    <3>1. row' = row \/ row' = Merged(row, Job(w), worker[w].outcome, worker[w].got)
      BY <1>11 DEF MergeOutcome
    <3>2. worker[w].outcome \in Outcomes /\ worker[w].got \in SUBSET Pairs /\ RowOK(row)
      BY <1>2 DEF WorkerRecord, TypeInv
    <3> QED
      BY <1>1, <1>2, <1>3, <3>1, <3>2, MergedLate DEF RowStays
  <2>3. \/ \E outcome : worker' = [worker EXCEPT ![w] = Unmerged(w, outcome)]
        \/ \E complete : worker' = [worker EXCEPT ![w] = Minting(w, complete)]
    BY <1>11 DEF MergeOutcome, Unmerged, Minting
  <2>4. \A x : /\ Unmerged(w, x).msg = worker[w].msg /\ Unmerged(w, x).older = worker[w].older
               /\ Minting(w, x).msg = worker[w].msg /\ Minting(w, x).older = worker[w].older
    BY <1>2 DEF Unmerged, Minting, WorkerRecord
  <2> HIDE DEF Unmerged, Minting
  <2> QED
    BY <1>1, <2>1, <2>2, <2>3, <2>4, FetchGoesOn
<1>12. ASSUME MintCertificate(w) PROVE CarryInv'
  <2>1. row' = row /\ (Raise(w) \/ (Goto(w, "complete") /\ UNCHANGED <<lease, queue>>))
    BY <1>12 DEF MintCertificate
  <2> QED
    BY <1>1, <1>4, <2>1, RaiseCarries
<1>13. ASSUME CompleteFetch(w) PROVE CarryInv'
  <2>1. row' = row /\ (Acknowledge(w) \/ PutBack(w))
    BY <1>13 DEF CompleteFetch
  <2>2. \/ lease' = [lease EXCEPT ![worker[w].msg] = [@ EXCEPT !.state = "COMPLETED"]]
        \/ lease' = Released(w)
    BY <1>13 DEF CompleteFetch
  <2>3. LeasesStay
    BY <1>2, <2>2, CompletedStay, ReleasedStay
  <2> QED
    BY <1>1, <2>1, <2>3, FetchStops
<1> QED
  BY <1>5, <1>6, <1>7, <1>8, <1>9, <1>10, <1>11, <1>12, <1>13

(***************************************************************************)
(* The dispatcher and the environment.                                     *)
(***************************************************************************)

\* What is left of the invariant when no worker moves.
LEMMA UnmovedCarries ==
    ASSUME TypeInv, CarryInv, worker' = worker, row'.gen = dispatch'.gen,
           row'.gen >= row.gen, row'.gen \in Nat,
           \A m \in Messages : m.job = Discover /\ queue'[m] > 0 =>
               Pending(m) \/ m.gen <= row'.gen,
           GenerationIsCarried'
    PROVE  CarryInv'
<1>1. WorkersTidy'
  BY DEF CarryInv, WorkersTidy
<1>2. ASSUME NEW m \in Messages, m.job = Discover, Pending(m)' PROVE m.gen <= row'.gen
  <2>1. Pending(m) \/ m.gen <= row'.gen
    BY <1>2 DEF Pending
  <2>2. m.gen \in Nat /\ row.gen \in Nat
    <3>1. m.gen \in Gens /\ row.gen \in 0..MaxGen
      BY DEF Messages, TypeInv, RowOK, Row
    <3> QED
      BY <3>1, BoundsAssumption DEF Gens
  <2>3. Pending(m) => m.gen <= row.gen
    BY <1>2 DEF CarryInv, DiscoveriesAreDispatched
  <2> QED
    BY <2>1, <2>2, <2>3
<1> QED
  BY <1>1, <1>2 DEF CarryInv, DiscoveriesAreDispatched

\* A carried generation stays so when nobody is made late.
LEMMA StillCarried ==
    ASSUME GenerationIsCarried, worker' = worker, RowStays, lease' = lease,
           \A m \in Messages : queue[m] > 0 => queue'[m] > 0,
           \A m \in Messages : Armed /\ IsCurrent(m) => Armed' \/ queue'[m] > 0
    PROVE  GenerationIsCarried'
<1>1. \A w \in Workers, m \in Messages : Carries(w, m) => Carries(w, m)'
  BY DEF Carries, RowStays
<1>2. \A m \in Messages : HasFuture(m) /\ IsCurrent(m) => HasFuture(m)'
  BY <1>1 DEF HasFuture
<1> QED
  BY <1>2 DEF GenerationIsCarried, RowStays, Concluded, IsCurrent

\* Crash: the delivery is visible again.
LEMMA CrashCarries ==
    ASSUME TypeInv, CarryInv, NEW w \in Workers, Crash(w)
    PROVE  CarryInv'
BY UnchangedStay, PutBackCarries DEF Crash

\* Receive: whoever takes the delivery has yet to read its clock.
LEMMA ReceiveCarries ==
    ASSUME TypeInv, CarryInv, NEW w \in Workers, NEW m \in Messages, Receive(w, m)
    PROVE  CarryInv'
<1>1. /\ worker[w].pc = "idle" /\ queue[m] > 0
      /\ \A n \in Messages : n # m => queue'[n] = queue[n]
      /\ Moved(w, Given(m)) /\ Given(m).pc = "begin" /\ Given(m).msg = m
      /\ Given(m).outcome = "NONE"
  BY ReceiveEffect
<1>2. /\ UNCHANGED <<open, dispatch, row, lease>> /\ worker' = [worker EXCEPT ![w] = Given(m)]
      /\ WorkersOK /\ WorkersTidy
  BY DEF Receive, Given, TypeInv, CarryInv
<1>3. Given(m).older = {}
  BY DEF Given, Idle
<1> HIDE DEF Given
<1>4. WorkersTidy'
  <2>1. Tidy(w, Given(m))
    BY <1>1, <1>3 DEF Tidy
  <2> QED
    BY <1>2, <2>1, TurnedTidy DEF Turned
<1>5. RowStays /\ LeasesStay /\ (Armed => Armed')
  BY <1>2 DEF RowStays, LeasesStay, Armed
<1>6. \A n \in Messages : queue[n] > 0 \/ Carries(w, n) => HasFuture(n)'
  <2>1. Carries(w, m)'
    BY <1>1 DEF Carries, Moved, Same
  <2>2. \A n \in Messages : ~Carries(w, n)
    BY <1>1 DEF Carries
  <2> QED
    BY <1>1, <2>1, <2>2 DEF HasFuture
<1>7. GenerationIsCarried'
  BY <1>1, <1>5, <1>6, QuietCarries DEF CarryInv
<1>8. \A n \in Messages : Pending(n)' => Pending(n)
  BY <1>1 DEF Pending, Moved, Same
<1> QED
  BY <1>2, <1>4, <1>7, <1>8 DEF CarryInv, DiscoveriesAreDispatched

\* Duplicate: one more delivery of a message that is pending anyway.
LEMMA DuplicateCarries ==
    ASSUME TypeInv, CarryInv, NEW m \in Messages, Duplicate(m)
    PROVE  CarryInv'
<1>1. /\ UNCHANGED <<open, dispatch, row, lease, worker>> /\ queue[m] > 0
      /\ queue \in [Messages -> Nat] /\ queue' = [queue EXCEPT ![m] = @ + 1]
  BY DEF Duplicate, TypeInv
<1>2. Redelivered(m)
  BY <1>1, OneMoreDelivery
<1>3. \A n \in Messages : queue[n] > 0 <=> queue'[n] > 0
  BY <1>1, <1>2 DEF Redelivered
<1>4. GenerationIsCarried'
  BY <1>1, <1>3, StillCarried DEF CarryInv, RowStays, Armed
<1>5. row.gen \in Nat
  BY BoundsAssumption DEF TypeInv, RowOK, Row
<1> QED
  BY <1>1, <1>3, <1>4, <1>5, UnmovedCarries DEF Pending, CarryInv

\* Close: nothing has to be carried any more.
LEMMA CloseCarries ==
    ASSUME TypeInv, CarryInv, Close
    PROVE  CarryInv'
<1>1. open' = FALSE /\ UNCHANGED <<dispatch, row, queue, worker>>
  BY DEF Close
<1>2. row.gen \in Nat
  BY BoundsAssumption DEF TypeInv, RowOK, Row
<1> QED
  BY <1>1, <1>2, NobodyCarries, UnmovedCarries DEF Pending, CarryInv

\* Dispatch: the dispatcher sends the generation it writes, or waits for quota.
LEMMA DispatchCarries ==
    ASSUME TypeInv, CarryInv, Dispatch
    PROVE  CarryInv'
<1>1. PICK g \in Gens, status \in {"QUEUED", "QUOTA_DEFERRED"} :
         /\ AttemptAdmitted(row, g, status, FALSE)
         /\ row' = AfterAttempt(row, g, status, FALSE, Clocked([gen |-> g, job |-> Discover]))
         /\ dispatch' = [gen |-> g, pc |-> IF status = "QUEUED" THEN "send" ELSE "due"]
  BY DEF Dispatch
<1>2. UNCHANGED <<queue, worker>> /\ RowOK(row)
  BY DEF Dispatch, TypeInv
<1>3. row'.gen = g /\ dispatch'.gen = g /\ Armed'
  <2> DEFINE others == Clocked([gen |-> g, job |-> Discover])
             s == AfterAttempt(row, g, status, FALSE, others)
  <2>1. row' = s
    BY <1>1
  <2> HIDE DEF others
  <2>2. s.gen = g
    BY <1>1, <1>2, TimelyAttempt
  <2>3. dispatch'.gen = g /\ dispatch'.pc \in {"due", "send"}
    BY <1>1
  <2> HIDE DEF s
  <2> QED
    BY <2>1, <2>2, <2>3 DEF Armed
<1>4. g \in Nat /\ row.gen <= g
  BY <1>1, BoundsAssumption DEF AttemptAdmitted, Gens
<1>5. row.gen \in Nat
  BY BoundsAssumption DEF TypeInv, RowOK, Row
<1>6. \A m \in Messages : queue'[m] > 0 => Pending(m)
  BY <1>2 DEF Pending
<1> QED
  BY <1>2, <1>3, <1>4, <1>5, <1>6, NobodyCarries, UnmovedCarries

\* SendDiscovery: the message is visible.
LEMMA SendDiscoveryCarries ==
    ASSUME TypeInv, CarryInv, SendDiscovery
    PROVE  CarryInv'
<1> DEFINE n == [gen |-> dispatch.gen, job |-> Discover]
<1>1. /\ UNCHANGED <<open, row, lease, worker>> /\ queue \in [Messages -> Nat]
      /\ queue' = [queue EXCEPT ![n] = @ + 1] /\ dispatch'.gen = dispatch.gen
  BY DEF SendDiscovery, TypeInv
<1>2. /\ n.gen = row.gen /\ n.job = Discover /\ row'.gen = dispatch'.gen
      /\ row'.gen = row.gen /\ row.gen \in Nat
  BY <1>1, BoundsAssumption DEF CarryInv, TypeInv, RowOK, Row
<1> HIDE DEF n
<1>3. CASE n \in Messages
  <2>1. Redelivered(n)
    BY <1>1, <1>3, OneMoreDelivery
  <2>2. GenerationIsCarried'
    BY <1>2, <1>3, <2>1, DeliveryCarries DEF Redelivered
  <2>3. \A m \in Messages : queue'[m] > 0 => Pending(m) \/ m.gen <= row'.gen
    BY <1>2, <2>1 DEF Redelivered, Pending
  <2> QED
    BY <1>1, <1>2, <2>2, <2>3, UnmovedCarries
<1>4. CASE n \notin Messages
  <2>1. queue' = queue
    BY <1>1, <1>4
  <2>2. \A m \in Messages : ~IsCurrent(m)
    <3>1. n = [gen |-> row.gen, job |-> Discover]
      BY DEF n, CarryInv
    <3> QED
      BY <1>4, <3>1 DEF IsCurrent, Messages
  <2>3. GenerationIsCarried'
    BY <1>1, <2>1, <2>2, StillCarried DEF CarryInv, RowStays
  <2>4. \A m \in Messages : queue'[m] > 0 => Pending(m)
    BY <2>1 DEF Pending
  <2> QED
    BY <1>1, <1>2, <2>3, <2>4, UnmovedCarries
<1> QED
  BY <1>3, <1>4

\* MarkDispatched: the dispatcher had sent.
LEMMA MarkDispatchedCarries ==
    ASSUME TypeInv, CarryInv, MarkDispatched
    PROVE  CarryInv'
<1>1. /\ UNCHANGED <<open, row, lease, queue, worker>> /\ dispatch.pc = "mark"
      /\ dispatch'.gen = dispatch.gen
  BY DEF MarkDispatched, TypeInv
<1>2. GenerationIsCarried'
  BY <1>1, StillCarried DEF CarryInv, RowStays, Armed
<1>3. row.gen \in Nat
  BY BoundsAssumption DEF TypeInv, RowOK, Row
<1> QED
  BY <1>1, <1>2, <1>3, UnmovedCarries DEF Pending, CarryInv

\* DispatchFails: the event stays due.
LEMMA DispatchFailsCarries ==
    ASSUME TypeInv, CarryInv, DispatchFails
    PROVE  CarryInv'
<1>1. /\ UNCHANGED <<queue, worker>> /\ dispatch'.gen = dispatch.gen /\ Armed' /\ RowOK(row)
  BY DEF DispatchFails, TypeInv, Armed
<1>2. row'.gen = row.gen /\ row.gen = dispatch.gen /\ row.gen \in Nat
  <2> DEFINE others == Clocked([gen |-> dispatch.gen, job |-> Discover])
  <2>1. row.gen = dispatch.gen /\ row.gen \in Nat
    BY BoundsAssumption DEF CarryInv, TypeInv, RowOK, Row
  <2>2. row' = row \/ row' = AfterAttempt(row, dispatch.gen, "ENQUEUE_FAILED", FALSE, others)
    BY DEF DispatchFails
  <2> HIDE DEF others
  <2>3. CASE AttemptAdmitted(row, dispatch.gen, "ENQUEUE_FAILED", FALSE)
    <3> DEFINE s == AfterAttempt(row, dispatch.gen, "ENQUEUE_FAILED", FALSE, others)
    <3>1. s.gen = dispatch.gen
      BY <1>1, <2>3, TimelyAttempt
    <3>2. row' = row \/ row' = s
      BY <2>2
    <3> HIDE DEF s
    <3> QED
      BY <2>1, <3>1, <3>2
  <2>4. CASE ~AttemptAdmitted(row, dispatch.gen, "ENQUEUE_FAILED", FALSE)
    BY <2>1, <2>2, <2>4 DEF AfterAttempt
  <2> QED
    BY <2>1, <2>3, <2>4
<1>3. \A m \in Messages : queue'[m] > 0 => Pending(m)
  BY <1>1 DEF Pending
<1> QED
  BY <1>1, <1>2, <1>3, NobodyCarries, UnmovedCarries

\* What the runs check follows, but for a generation whose lease is completed.
LEMMA CarriedIsKept ==
    ASSUME TypeInv, CarryInv
    PROVE  NoGenerationStranded \/ lease[[gen |-> row.gen, job |-> Discover]].state = "COMPLETED"
<1> DEFINE n == [gen |-> row.gen, job |-> Discover]
<1> SUFFICES ASSUME open, row.gen > 0, ~Concluded(row), lease[n].state # "COMPLETED"
             PROVE  Pending(n) \/ Armed
  BY DEF NoGenerationStranded, Concluded, Armed
<1>1. n \in Messages
  <2>1. row.gen \in 0..MaxGen
    BY DEF TypeInv, RowOK, Row
  <2>2. row.gen \in Gens
    BY <2>1, BoundsAssumption DEF Gens
  <2> QED
    BY <2>2 DEF Messages
<1>2. IsCurrent(n)
  BY DEF IsCurrent
<1> HIDE DEF n
<1>3. HasFuture(n)
  BY <1>1, <1>2 DEF CarryInv, GenerationIsCarried
<1> QED
  BY <1>3 DEF HasFuture, Carries, Pending

\* Every step keeps the generation carried.
LEMMA StepCarries ==
    ASSUME TypeInv, CarryInv, [Next]_vars
    PROVE  CarryInv'
<1>1. TypeInv'
  BY StepGrows
<1>2. ASSUME NEW w \in Workers, Progress(w) PROVE CarryInv'
  BY <1>1, <1>2, BeginDiscoveryCarries, AcquireLeaseCarries, LeaseRefusedCarries,
     AttemptCarries, DiscoveryDeferredCarries, DiscoveryRejectedCarries,
     DiscoveryAnsweredCarries, PutPlanCarries, FanoutExpectedCarries, EnqueueBatchCarries,
     MarkEnqueuedCarries, CompleteFanoutCarries, CompleteDiscoveryCarries, FetchCarries
     DEF Progress
<1>3. CASE UNCHANGED vars
  <2>1. UNCHANGED <<open, dispatch, row, lease, queue, worker>>
    BY <1>3 DEF vars
  <2> QED
    BY <2>1 DEF CarryInv, GenerationIsCarried, DiscoveriesAreDispatched, WorkersTidy,
                HasFuture, Carries, Armed, IsCurrent, Concluded, Pending
<1> QED
  BY <1>2, <1>3, DispatchCarries, SendDiscoveryCarries, MarkDispatchedCarries,
     DispatchFailsCarries, CloseCarries, CrashCarries, DuplicateCarries, ReceiveCarries
     DEF Next

\* Before the first dispatch there is nothing to carry.
LEMMA InitCarries == Init => CarryInv
<1> SUFFICES ASSUME Init PROVE CarryInv
  OBVIOUS
<1>1. row.gen = 0 /\ dispatch.gen = 0
  BY DEF Init, EmptyRow
<1>2. \A m \in Messages : ~IsCurrent(m)
  BY <1>1, BoundsAssumption DEF IsCurrent, Messages, Gens
<1>3. \A m \in Messages : ~Pending(m)
  BY DEF Init, Pending, Idle
<1>4. WorkersTidy
  BY IdleTidy DEF Init, WorkersTidy
<1> QED
  BY <1>1, <1>2, <1>3, <1>4 DEF CarryInv, GenerationIsCarried, DiscoveriesAreDispatched

\* Whatever crashes, is duplicated or overtaken, a generation that is neither
\* settled nor left to quota has its message or a dispatcher that will send it,
\* unless its discovery lease was completed, for leases that lapse as well.
THEOREM StrandedOnlyByLease ==
    Spec => [](\/ NoGenerationStranded
               \/ lease[[gen |-> row.gen, job |-> Discover]].state = "COMPLETED")
<1>1. TypeInv /\ CarryInv /\ [Next]_vars => TypeInv' /\ CarryInv'
  BY StepGrows, StepCarries
<1> QED
  BY <1>1, InitType, InitCarries, CarriedIsKept, PTL DEF Spec

(***************************************************************************)
(* Until a lease is taken from a live worker, a completed lease is of a     *)
(* settled generation.                                                     *)
(***************************************************************************)

Held(w) == [state |-> "IN_PROGRESS", owner |-> w]

\* A lease that has lapsed (300 seconds, storage.py:41) is taken from a worker
\* that still runs (900 seconds, soccer-auto-template.yaml:600).
Overtakes ==
    \E w \in Workers :
        /\ AcquireLease(w)
        /\ lease[worker[w].msg].state = "IN_PROGRESS" /\ HolderLives(worker[w].msg)

\* Whoever works on a discovery has its lease.
HoldersAlone ==
    \A w \in Workers :
        worker[w].pc \in Owning /\ Job(w) = Discover => lease[worker[w].msg] = Held(w)

SettledFor(r, m) == r.gen > m.gen \/ (r.gen = m.gen /\ r.status \in DiscoveryTerminal)

CompletedIsSettled ==
    \A m \in Messages :
        m.job = Discover /\ lease[m].state = "COMPLETED" => SettledFor(row, m)

LeaseInv == HoldersAlone /\ CompletedIsSettled

\* A write that is admitted unsettles nothing.
LEMMA AdmittedSettles ==
    ASSUME NEW m \in Messages, SettledFor(row, m), row.gen \in Nat, row'.gen \in Nat,
           row.gen <= row'.gen,
           row'.gen = row.gen /\ row.status \in DiscoveryTerminal => row'.status = row.status
    PROVE  SettledFor(row', m)
<1>1. m.gen \in Nat
  <2>1. m.gen \in Gens
    BY DEF Messages
  <2> QED
    BY <2>1, BoundsAssumption DEF Gens
<1> QED
  BY <1>1 DEF SettledFor

\* The generation in the row, and that of a worker, are numbers.
LEMMA Numbers ==
    ASSUME TypeInv
    PROVE  /\ row.gen \in Nat
           /\ \A w \in Workers : worker[w].pc # "idle" => Gen(w) \in Nat
<1>1. row.gen \in Nat
  BY BoundsAssumption DEF TypeInv, RowOK, Row
<1>2. ASSUME NEW w \in Workers, worker[w].pc # "idle" PROVE Gen(w) \in Nat
  <2>1. Gen(w) \in Gens
    BY <1>2, BusyHasMessage
  <2> QED
    BY <2>1, BoundsAssumption DEF Gens
<1> QED
  BY <1>1, <1>2

\* Nor does what a worker attempts.
LEMMA AttemptSettles ==
    ASSUME TypeInv, NEW w \in Workers, worker[w].pc # "idle", NEW status,
           row' = Attempted(w, status)
    PROVE  \A m \in Messages : SettledFor(row, m) => SettledFor(row', m)
<1>1. RowOK(row) /\ row.gen \in Nat /\ Gen(w) \in Nat
  BY Numbers DEF TypeInv
<1> DEFINE admitted == AttemptAdmitted(row, Gen(w), status, w \in row.late)
<1>2. CASE admitted
  <2>1. row'.status = status /\ row'.gen = Gen(w)
    BY <1>1, <1>2, AttemptLate DEF Attempted
  <2>2. /\ row.gen <= Gen(w)
        /\ row.gen = Gen(w) => (row.status \in DiscoveryTerminal => status = row.status)
    BY <1>2 DEF AttemptAdmitted
  <2> QED
    BY <1>1, <2>1, <2>2, AdmittedSettles
<1>3. CASE ~admitted
  BY <1>3 DEF Attempted, AfterAttempt, SettledFor
<1> QED
  BY <1>2, <1>3

\* Nor does a write of a worker in its own generation, but for that itself.
LEMMA OwnSettles ==
    ASSUME TypeInv, NEW w \in Workers, worker[w].pc # "idle", Job(w) = Discover,
           row'.gen = row.gen, row'.status = row.status \/ row.gen = Gen(w)
    PROVE  \A m \in Messages :
               m.job = Discover /\ m # worker[w].msg /\ SettledFor(row, m)
               => SettledFor(row', m)
<1>1. worker[w].msg \in Messages /\ worker[w].msg.job = Discover /\ worker[w].msg.gen = Gen(w)
  BY BusyHasMessage DEF Job, Gen
<1>2. \A m \in Messages : m.job = Discover /\ m # worker[w].msg => m.gen # Gen(w)
  BY <1>1, TheMessage
<1> QED
  BY <1>2 DEF SettledFor

\* The holder of a discovery goes on, or ends and gives its lease back.
LEMMA HolderKeeps ==
    ASSUME TypeInv, LeaseInv, NEW w \in Workers, worker[w].pc \in Owning, Job(w) = Discover,
           NEW z, Moved(w, z),
           z.pc = "idle" \/ (z.msg = worker[w].msg /\ lease' = lease),
           lease' = lease \/ lease' = Released(w),
           \A m \in Messages :
               m.job = Discover /\ m # worker[w].msg /\ SettledFor(row, m)
               => SettledFor(row', m)
    PROVE  LeaseInv'
<1> DEFINE n == worker[w].msg
<1>1. n \in Messages /\ lease[n] = Held(w) /\ lease \in [Messages -> LeaseType]
  <2>1. worker[w].pc # "idle"
    BY DEF Owning
  <2> QED
    BY <2>1, BusyHasMessage DEF LeaseInv, HoldersAlone, TypeInv
<1>2. lease'[n].state # "COMPLETED" /\ \A m \in Messages : m # n => lease'[m] = lease[m]
  <2>1. lease[n].state = "IN_PROGRESS"
    BY <1>1 DEF Held
  <2>2. CASE lease' = Released(w)
    <3>1. lease' = [lease EXCEPT ![n] = IF @.owner = w /\ @.state = "IN_PROGRESS"
                                        THEN Free ELSE @]
      BY <2>2 DEF Released
    <3> QED
      BY <1>1, <3>1 DEF Held, Free
  <2>3. CASE lease' = lease
    BY <2>1, <2>3
  <2> QED
    BY <2>2, <2>3
<1>3. CompletedIsSettled'
  BY <1>2 DEF LeaseInv, CompletedIsSettled
<1>4. ASSUME NEW v \in Workers, worker'[v].pc \in Owning, worker'[v].msg.job = Discover
      PROVE  lease'[worker'[v].msg] = Held(v)
  <2>1. CASE v = w
    <3>1. lease' = lease /\ worker'[v].msg = n
      BY <1>4, <2>1 DEF Moved, Same, Owning
    <3> QED
      BY <1>1, <2>1, <3>1
  <2>2. CASE v # w
    <3>1. worker'[v].pc = worker[v].pc /\ worker'[v].msg = worker[v].msg
      BY <2>2 DEF Moved, Same
    <3>2. lease[worker[v].msg] = Held(v) /\ worker[v].msg \in Messages
      <4>1. worker[v].pc # "idle"
        BY <1>4, <3>1 DEF Owning
      <4> QED
        BY <1>4, <3>1, <4>1, BusyHasMessage DEF LeaseInv, HoldersAlone, Job
    <3>3. worker[v].msg # n
      BY <1>1, <2>2, <3>2 DEF Held
    <3> QED
      BY <1>2, <3>1, <3>2, <3>3
  <2> QED
    BY <2>1, <2>2
<1> QED
  BY <1>3, <1>4 DEF LeaseInv, HoldersAlone, Job

\* A worker that comes or goes without a lease of a discovery changes none.
LEMMA OutsiderKeeps ==
    ASSUME TypeInv, LeaseInv, NEW w \in Workers, NEW z, Moved(w, z),
           z.pc \in Owning => worker[w].pc # "idle" /\ Job(w) # Discover /\ z.msg = worker[w].msg,
           row'.gen = row.gen, row'.status = row.status,
           \A m \in Messages : m.job = Discover => lease'[m] = lease[m]
    PROVE  LeaseInv'
<1>1. CompletedIsSettled'
  BY DEF LeaseInv, CompletedIsSettled, SettledFor
<1>2. ASSUME NEW v \in Workers, worker'[v].pc \in Owning, worker'[v].msg.job = Discover
      PROVE  lease'[worker'[v].msg] = Held(v)
  <2>1. v # w
    BY <1>2 DEF Moved, Same, Job
  <2>2. worker'[v].pc = worker[v].pc /\ worker'[v].msg = worker[v].msg
    BY <2>1 DEF Moved, Same
  <2>3. worker[v].msg \in Messages
    <3>1. worker[v].pc # "idle"
      BY <1>2, <2>2 DEF Owning
    <3> QED
      BY <3>1, BusyHasMessage
  <2> QED
    BY <1>2, <2>2, <2>3 DEF LeaseInv, HoldersAlone, Job
<1> QED
  BY <1>1, <1>2 DEF LeaseInv, HoldersAlone, Job

\* Nor does whoever is not a worker.
LEMMA NobodyKeeps ==
    ASSUME LeaseInv, worker' = worker, lease' = lease,
           \A m \in Messages : SettledFor(row, m) => SettledFor(row', m)
    PROVE  LeaseInv'
BY DEF LeaseInv, HoldersAlone, CompletedIsSettled, Job

\* AcquireLease: the lease of a worker that has not gone is not taken from it.
LEMMA AcquireLeaseKeeps ==
    ASSUME ~Overtakes, TypeInv, LeaseInv, NEW w \in Workers, AcquireLease(w)
    PROVE  LeaseInv'
<1> DEFINE n == worker[w].msg
<1>1. /\ worker[w].pc = "lease" /\ LeaseFree(n) /\ row' = row /\ n \in Messages
  BY BusyHasMessage DEF AcquireLease, At
<1>2. lease'[n] = Held(w) /\ \A m \in Messages : m # n => lease'[m] = lease[m]
  BY AcquireLeaseEffect DEF Held
<1>3. PICK place \in {"attempt", "call"} : Moved(w, Placed(w, place))
  BY AcquireLeaseEffect
<1>4. Placed(w, place).msg = n
  BY <1>1, <1>3, PlacedOK DEF TypeInv, Places, Owning
<1>5. CompletedIsSettled'
  <2>1. lease'[n].state # "COMPLETED"
    BY <1>2 DEF Held
  <2> QED
    BY <1>1, <1>2, <2>1 DEF LeaseInv, CompletedIsSettled
<1> HIDE DEF Placed
<1>6. ASSUME NEW v \in Workers, worker'[v].pc \in Owning, worker'[v].msg.job = Discover
      PROVE  lease'[worker'[v].msg] = Held(v)
  <2>1. CASE v = w
    BY <1>2, <1>3, <1>4, <2>1 DEF Moved, Same
  <2>2. CASE v # w
    <3>1. worker'[v].pc = worker[v].pc /\ worker'[v].msg = worker[v].msg
      BY <1>3, <2>2 DEF Moved, Same
    <3>2. lease[worker[v].msg] = Held(v) /\ worker[v].msg \in Messages
      <4>1. worker[v].pc # "idle"
        BY <1>6, <3>1 DEF Owning
      <4> QED
        BY <1>6, <3>1, <4>1, BusyHasMessage DEF LeaseInv, HoldersAlone, Job
    <3>3. worker[v].msg # n
      <4>1. ASSUME worker[v].msg = n PROVE FALSE
        <5>1. lease[n].state = "IN_PROGRESS" /\ lease[n].owner = v
          BY <3>2, <4>1 DEF Held
        <5>2. HolderLives(n)
          BY <1>6, <3>1, <4>1, <5>1 DEF HolderLives
        <5> QED
          BY <5>1, <5>2 DEF Overtakes
      <4> QED
        BY <4>1
    <3> QED
      BY <1>2, <3>1, <3>2, <3>3
  <2> QED
    BY <2>1, <2>2
<1> QED
  BY <1>5, <1>6 DEF LeaseInv, HoldersAlone, Job

\* CompleteDiscovery: the lease is completed only for a settled generation.
LEMMA CompleteDiscoveryKeeps ==
    ASSUME TypeInv, LeaseInv, NEW w \in Workers, CompleteDiscovery(w)
    PROVE  LeaseInv'
<1> DEFINE n == worker[w].msg
           mine == lease[n].owner = w /\ lease[n].state = "IN_PROGRESS"
           settled == row.gen = Gen(w) /\ row.status \in DiscoveryTerminal
<1>1. /\ worker[w].pc = "complete" /\ row' = row /\ Job(w) = Discover /\ n \in Messages
      /\ Moved(w, Idle) /\ lease \in [Messages -> LeaseType]
  BY BusyHasMessage, CompleteDiscoveryEffect
     DEF CompleteDiscovery, Discovering, At, TypeInv, Job
<1>2. worker[w].pc \in Owning
  BY <1>1 DEF Owning
<1>3. CASE settled /\ (mine \/ lease[n].state = "COMPLETED")
  <2>1. lease' = [lease EXCEPT ![n] = [@ EXCEPT !.state = "COMPLETED"]]
    BY <1>3 DEF CompleteDiscovery
  <2>2. \A m \in Messages : m # n => lease'[m] = lease[m]
    BY <1>1, <2>1
  <2>3. SettledFor(row, n)
    BY <1>3 DEF SettledFor, Gen
  <2>4. CompletedIsSettled'
    BY <1>1, <2>2, <2>3 DEF LeaseInv, CompletedIsSettled
  <2>5. ASSUME NEW v \in Workers, worker'[v].pc \in Owning, worker'[v].msg.job = Discover
        PROVE  lease'[worker'[v].msg] = Held(v)
    <3>1. v # w
      BY <1>1, <2>5 DEF Moved, Same, Idle, Owning
    <3>2. worker'[v].pc = worker[v].pc /\ worker'[v].msg = worker[v].msg
      BY <1>1, <3>1 DEF Moved, Same
    <3>3. lease[worker[v].msg] = Held(v) /\ worker[v].msg \in Messages
      <4>1. worker[v].pc # "idle"
        BY <2>5, <3>2 DEF Owning
      <4> QED
        BY <2>5, <3>2, <4>1, BusyHasMessage DEF LeaseInv, HoldersAlone, Job
    <3>4. lease[n] = Held(w)
      BY <1>1, <1>2 DEF LeaseInv, HoldersAlone
    <3>5. worker[v].msg # n
      BY <3>1, <3>3, <3>4 DEF Held
    <3> QED
      BY <2>2, <3>2, <3>3, <3>5
  <2> QED
    BY <2>4, <2>5 DEF LeaseInv, HoldersAlone, Job
<1>4. CASE ~(settled /\ (mine \/ lease[n].state = "COMPLETED"))
  <2>1. lease' = Released(w)
    BY <1>4 DEF CompleteDiscovery
  <2>2. Idle.pc = "idle" /\ \A m \in Messages : SettledFor(row, m) => SettledFor(row', m)
    BY <1>1 DEF Idle
  <2> QED
    BY <1>1, <1>2, <2>1, <2>2, HolderKeeps
<1> QED
  BY <1>3, <1>4

\* w stops, or works on its message and keeps its lease.
HolderGoesOn(w) ==
    \E z : Moved(w, z) /\ (z.pc = "idle" \/ (z.msg = worker[w].msg /\ lease' = lease))

\* The steps of a discovery.
LEMMA DiscoveryKeeps ==
    ASSUME TypeInv, LeaseInv, NEW w \in Workers,
           \/ BeginDiscovery(w) \/ LeaseRefused(w) \/ Attempt(w) \/ DiscoveryDeferred(w)
           \/ DiscoveryRejected(w) \/ DiscoveryAnswered(w) \/ PutPlan(w) \/ FanoutExpected(w)
           \/ (\E b \in Batches : EnqueueBatch(w, b)) \/ MarkEnqueued(w) \/ CompleteFanout(w)
    PROVE  LeaseInv'
<1>1. worker[w].pc # "idle" /\ WorkersOK
  BY DEF BeginDiscovery, LeaseRefused, Attempt, DiscoveryDeferred, DiscoveryRejected,
         DiscoveryAnswered, PutPlan, FanoutExpected, EnqueueBatch, MarkEnqueued,
         CompleteFanout, Discovering, At, TypeInv
<1>2. Idle.pc = "idle" /\ "idle" \notin Owning /\ "lease" \notin Owning
  BY DEF Idle, Owning
<1>3. ASSUME NEW place \in Places
      PROVE  Placed(w, place).pc = place /\ Placed(w, place).msg = worker[w].msg
  BY <1>1, PlacedOK
<1>4. Staled(w).msg = worker[w].msg
  BY <1>1, StaledOK
<1>5. {"expect", "discover", "complete", "plan", "lease"} \subseteq Places
  BY DEF Places, Owning
<1> HIDE DEF Idle, Placed, Staled
<1>6. ASSUME BeginDiscovery(w) PROVE LeaseInv'
  <2>1. row'.gen = row.gen /\ row'.status = row.status /\ lease' = lease
    BY <1>6, BeginDiscoveryEffect DEF BeginDiscovery, SameEvidence
  <2> QED
    BY <1>2, <1>3, <1>5, <1>6, <2>1, BeginDiscoveryEffect, OutsiderKeeps
<1>7. ASSUME LeaseRefused(w) PROVE LeaseInv'
  BY <1>2, <1>7, LeaseRefusedEffect, OutsiderKeeps DEF LeaseRefused
<1>8. ASSUME Attempt(w) PROVE LeaseInv'
  <2>1. worker[w].pc \in Owning /\ Job(w) = Discover /\ lease' = lease
    BY <1>8 DEF Attempt, Discovering, At, Job, Owning
  <2>2. row' = row \/ row' = Attempted(w, "STARTED")
    BY <1>8 DEF Attempt
  <2>3. \A m \in Messages : SettledFor(row, m) => SettledFor(row', m)
    BY <1>1, <2>2, AttemptSettles
  <2> QED
    BY <1>3, <1>4, <1>5, <1>8, <2>1, <2>3, AttemptEffect, HolderKeeps
<1>9. ASSUME DiscoveryDeferred(w) PROVE LeaseInv'
  <2>1. worker[w].pc \in Owning /\ Job(w) = Discover /\ lease' = Released(w)
    BY <1>9 DEF DiscoveryDeferred, Discovering, At, Job, Owning
  <2>2. \E status : row' = Attempted(w, status)
    BY <1>9 DEF DiscoveryDeferred
  <2>3. \A m \in Messages : SettledFor(row, m) => SettledFor(row', m)
    BY <1>1, <2>2, AttemptSettles
  <2> QED
    BY <1>2, <1>9, <2>1, <2>3, DiscoveryDeferredEffect, HolderKeeps
<1>10. ASSUME DiscoveryRejected(w) PROVE LeaseInv'
  <2>1. worker[w].pc \in Owning /\ Job(w) = Discover /\ lease' = lease
    BY <1>10 DEF DiscoveryRejected, Discovering, At, Job, Owning
  <2>2. row' = Attempted(w, "REQUEST_REJECTED")
    BY <1>10 DEF DiscoveryRejected
  <2>3. \A m \in Messages : SettledFor(row, m) => SettledFor(row', m)
    BY <1>1, <2>2, AttemptSettles
  <2> QED
    BY <1>3, <1>5, <1>10, <2>1, <2>3, DiscoveryRejectedEffect, HolderKeeps
<1>11. ASSUME DiscoveryAnswered(w) PROVE LeaseInv'
  <2>1. worker[w].pc \in Owning /\ Job(w) = Discover /\ lease' = lease /\ row' = row
    BY <1>11 DEF DiscoveryAnswered, Discovering, At, Job, Owning
  <2> QED
    BY <1>3, <1>5, <1>11, <2>1, DiscoveryAnsweredEffect, HolderKeeps
<1>12. ASSUME PutPlan(w) PROVE LeaseInv'
  <2>1. worker[w].pc \in Owning /\ Job(w) = Discover
    BY <1>12 DEF PutPlan, Discovering, At, Job, Owning
  <2>2. PICK status : row' = AfterPlan(row, Gen(w), status, worker[w].older)
    BY <1>12 DEF PutPlan
  <2>3. row' = row \/ (row'.gen = row.gen /\ row.gen = Gen(w))
    <3>1. CASE PlanAdmitted(row, Gen(w))
      BY <2>2, <3>1, PlanLate DEF PlanAdmitted
    <3>2. CASE ~PlanAdmitted(row, Gen(w))
      BY <2>2, <3>2 DEF AfterPlan
    <3> QED
      BY <3>1, <3>2
  <2>4. lease' = lease \/ (lease' = Released(w) /\ Moved(w, Idle))
    BY <1>1, <1>12, RaiseMoves DEF PutPlan, Raise, TypeInv
  <2>5. \A m \in Messages :
            m.job = Discover /\ m # worker[w].msg /\ SettledFor(row, m) => SettledFor(row', m)
    BY <1>1, <2>1, <2>3, OwnSettles
  <2>6. HolderGoesOn(w)
    BY <1>2, <1>3, <1>4, <1>5, <1>12, PutPlanEffect DEF HolderGoesOn
  <2> QED
    BY <2>1, <2>4, <2>5, <2>6, HolderKeeps DEF HolderGoesOn
<1>13. ASSUME FanoutExpected(w) PROVE LeaseInv'
  <2>1. worker[w].pc \in Owning /\ Job(w) = Discover
    BY <1>13 DEF FanoutExpected, Discovering, At, Job, Owning
  <2>2. row'.gen = row.gen /\ (row' = row \/ row.gen = Gen(w))
    BY <1>13, FanoutExpectedEffect DEF SameEvidence, PlanCurrent
  <2>3. lease' = lease \/ lease' = Released(w)
    BY <1>13 DEF FanoutExpected, Raise
  <2>4. \A m \in Messages :
            m.job = Discover /\ m # worker[w].msg /\ SettledFor(row, m) => SettledFor(row', m)
    BY <1>1, <2>1, <2>2, OwnSettles
  <2>5. HolderGoesOn(w)
    BY <1>2, <1>13, FanoutExpectedEffect DEF HolderGoesOn
  <2> QED
    BY <2>1, <2>3, <2>4, <2>5, HolderKeeps DEF HolderGoesOn
<1>14. ASSUME NEW b \in Batches, EnqueueBatch(w, b) PROVE LeaseInv'
  <2>1. worker[w].pc \in Owning /\ Job(w) = Discover /\ lease' = lease /\ row' = row
    BY <1>14 DEF EnqueueBatch, Discovering, At, Job, Owning
  <2> QED
    BY <1>14, <2>1, EnqueueBatchEffect, HolderKeeps
<1>15. ASSUME MarkEnqueued(w) PROVE LeaseInv'
  <2>1. worker[w].pc \in Owning /\ Job(w) = Discover
    BY <1>15 DEF MarkEnqueued, Discovering, At, Job, Owning
  <2>2. row'.gen = row.gen /\ row'.status = row.status
    BY <1>15, MarkEnqueuedEffect
  <2>3. lease' = lease \/ lease' = Released(w)
    BY <1>15 DEF MarkEnqueued, Raise
  <2>4. \A m \in Messages :
            m.job = Discover /\ m # worker[w].msg /\ SettledFor(row, m) => SettledFor(row', m)
    BY <1>1, <2>1, <2>2, OwnSettles
  <2>5. HolderGoesOn(w)
    BY <1>2, <1>15, MarkEnqueuedEffect DEF HolderGoesOn
  <2> QED
    BY <2>1, <2>3, <2>4, <2>5, HolderKeeps DEF HolderGoesOn
<1>16. ASSUME CompleteFanout(w) PROVE LeaseInv'
  <2>1. worker[w].pc \in Owning /\ Job(w) = Discover
    BY <1>16 DEF CompleteFanout, Discovering, At, Job, Owning
  <2>2. row'.gen = row.gen /\ (row' = row \/ row.gen = Gen(w))
    BY <1>16, CompleteFanoutEffect DEF SameEvidence, PlanCurrent
  <2>3. lease' = lease \/ lease' = Released(w)
    BY <1>16 DEF CompleteFanout, Raise
  <2>4. \A m \in Messages :
            m.job = Discover /\ m # worker[w].msg /\ SettledFor(row, m) => SettledFor(row', m)
    BY <1>1, <2>1, <2>2, OwnSettles
  <2>5. HolderGoesOn(w)
    BY <1>2, <1>3, <1>5, <1>16, CompleteFanoutEffect DEF HolderGoesOn
  <2> QED
    BY <2>1, <2>3, <2>4, <2>5, HolderKeeps DEF HolderGoesOn
<1> QED
  BY <1>6, <1>7, <1>8, <1>9, <1>10, <1>11, <1>12, <1>13, <1>14, <1>15, <1>16

\* w stops, or works on its message.
GoesOn(w) == \E z : Moved(w, z) /\ (z.pc \in Owning => z.msg = worker[w].msg)

\* The steps of a fetch leave the leases of the discoveries alone.
LEMMA FetchKeeps ==
    ASSUME TypeInv, LeaseInv, NEW w \in Workers,
           \/ BeginFetch(w) \/ FetchStale(w) \/ FetchUnanswered(w) \/ FetchAnswered(w)
           \/ FetchSplit(w) \/ (\E c \in Jobs : SendChild(w, c))
           \/ MergeOutcome(w) \/ MintCertificate(w) \/ CompleteFetch(w)
    PROVE  LeaseInv'
<1>1. worker[w].pc # "idle" /\ Job(w) # Discover /\ WorkersOK
  BY DEF BeginFetch, FetchStale, FetchUnanswered, FetchAnswered, FetchSplit, SendChild,
         MergeOutcome, MintCertificate, CompleteFetch, MayCall, Fetching, At, Job, TypeInv
<1>2. worker[w].msg \in Messages /\ lease \in [Messages -> LeaseType] /\ RowOK(row)
  BY <1>1, BusyHasMessage DEF TypeInv
<1>3. Idle.pc \notin Owning
  BY DEF Idle, Owning
<1>4. /\ Staled(w).msg = worker[w].msg
      /\ Placed(w, "lease").msg = worker[w].msg /\ Placed(w, "complete").msg = worker[w].msg
  BY <1>1, StaledOK, PlacedOK DEF Places, Owning
<1> HIDE DEF Idle, Placed, Staled
<1>5. GoesOn(w)
  <2>1. ASSUME BeginFetch(w) PROVE GoesOn(w)
    BY <1>3, <1>4, <2>1, BeginFetchEffect DEF GoesOn
  <2>2. ASSUME FetchStale(w) PROVE GoesOn(w)
    BY <1>4, <2>2, FetchStaleEffect DEF GoesOn
  <2>3. ASSUME FetchUnanswered(w) PROVE GoesOn(w)
    BY <2>3, FetchUnansweredEffect DEF GoesOn
  <2>4. ASSUME FetchAnswered(w) PROVE GoesOn(w)
    BY <2>4, FetchAnsweredEffect DEF GoesOn
  <2>5. ASSUME FetchSplit(w) PROVE GoesOn(w)
    BY <2>5, FetchSplitEffect DEF GoesOn
  <2>6. ASSUME NEW c \in Jobs, SendChild(w, c) PROVE GoesOn(w)
    BY <2>6, SendChildEffect DEF GoesOn
  <2>7. ASSUME MergeOutcome(w) PROVE GoesOn(w)
    BY <2>7, MergeOutcomeEffect DEF GoesOn
  <2>8. ASSUME MintCertificate(w) PROVE GoesOn(w)
    BY <1>3, <1>4, <2>8, MintCertificateEffect DEF GoesOn
  <2>9. ASSUME CompleteFetch(w) PROVE GoesOn(w)
    BY <1>3, <2>9, CompleteFetchEffect DEF GoesOn
  <2> QED
    BY <2>1, <2>2, <2>3, <2>4, <2>5, <2>6, <2>7, <2>8, <2>9
<1>6. row'.gen = row.gen /\ row'.status = row.status
  <2>1. row' = row \/ MergeOutcome(w)
    BY DEF BeginFetch, FetchStale, FetchUnanswered, FetchAnswered, FetchSplit, SendChild,
           MintCertificate, CompleteFetch
  <2>2. ASSUME MergeOutcome(w) PROVE row'.gen = row.gen /\ row'.status = row.status
    <3>1. Job(w) \in Jobs
      BY <2>2, MergeOutcomeEffect
    <3>2. row' = row \/ row' = Merged(row, Job(w), worker[w].outcome, worker[w].got)
      BY <2>2, MergeOutcomeEffect
    <3>3. worker[w].outcome \in Outcomes /\ worker[w].got \in SUBSET Pairs
      BY <1>1, BusyHasMessage DEF WorkerRecord
    <3> QED
      BY <1>2, <3>1, <3>2, <3>3, MergedLate
  <2> QED
    BY <2>1, <2>2
<1>7. \A m \in Messages : m # worker[w].msg => lease'[m] = lease[m]
  <2>1. \/ lease' = lease \/ lease' = Released(w)
        \/ lease' = [lease EXCEPT ![worker[w].msg] = [@ EXCEPT !.state = "COMPLETED"]]
    BY DEF BeginFetch, FetchStale, FetchUnanswered, FetchAnswered, FetchSplit, SendChild,
           MergeOutcome, MintCertificate, CompleteFetch, Raise
  <2> QED
    BY <1>2, <2>1 DEF Released
<1>8. \A m \in Messages : m.job = Discover => lease'[m] = lease[m]
  BY <1>1, <1>7 DEF Job
<1> QED
  BY <1>1, <1>5, <1>6, <1>8, OutsiderKeeps DEF GoesOn

\* What the dispatcher writes.
LEMMA DispatcherKeeps ==
    ASSUME TypeInv, TypeInv', CarryInv, LeaseInv, Dispatch \/ DispatchFails
    PROVE  LeaseInv'
<1>1. PICK g, status, older :
         \/ row' = row
         \/ /\ AttemptAdmitted(row, g, status, FALSE)
            /\ row' = AfterAttempt(row, g, status, FALSE, older)
  BY DEF Dispatch, DispatchFails, AfterAttempt
<1>2. worker' = worker /\ lease' = lease /\ RowOK(row) /\ row.gen \in Nat /\ row'.gen \in Nat
  <2>1. row'.gen \in Nat
    BY BoundsAssumption DEF TypeInv, RowOK, Row
  <2> QED
    BY <2>1, Numbers DEF Dispatch, DispatchFails, TypeInv
<1>3. CASE row' = row
  BY <1>2, <1>3, NobodyKeeps
<1>4. CASE /\ AttemptAdmitted(row, g, status, FALSE)
           /\ row' = AfterAttempt(row, g, status, FALSE, older)
  <2> DEFINE s == AfterAttempt(row, g, status, FALSE, older)
  <2>1. s.gen = g /\ s.status = status
    BY <1>2, <1>4, TimelyAttempt
  <2>2. /\ row.gen <= g
        /\ row.gen = g => (row.status \in DiscoveryTerminal => status = row.status)
    BY <1>4 DEF AttemptAdmitted
  <2>3. row' = s
    BY <1>4
  <2> HIDE DEF s
  <2>4. \A m \in Messages : SettledFor(row, m) => SettledFor(row', m)
    BY <1>2, <2>1, <2>2, <2>3, AdmittedSettles
  <2> QED
    BY <1>2, <2>4, NobodyKeeps
<1> QED
  BY <1>1, <1>3, <1>4

\* Every step keeps the leases honest.
LEMMA StepKeeps ==
    ASSUME TypeInv, CarryInv, LeaseInv, [Next]_vars, [~Overtakes]_vars
    PROVE  LeaseInv'
<1>1. TypeInv'
  BY StepGrows
<1>2. ASSUME ~Overtakes, NEW w \in Workers, Progress(w) PROVE LeaseInv'
  BY <1>2, AcquireLeaseKeeps, CompleteDiscoveryKeeps, DiscoveryKeeps, FetchKeeps DEF Progress
<1>3. ASSUME Dispatch \/ DispatchFails PROVE LeaseInv'
  BY <1>1, <1>3, DispatcherKeeps
<1>4. ASSUME UNCHANGED <<row, lease, worker>> PROVE LeaseInv'
  BY <1>4, NobodyKeeps
<1>5. Idle.pc \notin Owning /\ \A m : Given(m).pc \notin Owning
  BY DEF Idle, Given, Owning
<1> HIDE DEF Idle, Given
<1>6. ASSUME NEW w \in Workers, Crash(w) PROVE LeaseInv'
  BY <1>5, <1>6, CrashEffect, OutsiderKeeps DEF Crash
<1>7. ASSUME NEW w \in Workers, NEW m \in Messages, Receive(w, m) PROVE LeaseInv'
  BY <1>5, <1>7, ReceiveEffect, OutsiderKeeps DEF Receive
<1>8. SendDiscovery \/ MarkDispatched \/ Close \/ UNCHANGED vars
      \/ (\E m \in Messages : Duplicate(m)) => UNCHANGED <<row, lease, worker>>
  BY DEF SendDiscovery, MarkDispatched, Close, Duplicate, vars
<1> QED
  BY <1>2, <1>3, <1>4, <1>6, <1>7, <1>8 DEF Next

\* At the start nobody holds a lease.
LEMMA InitKeeps == Init => LeaseInv
BY DEF Init, LeaseInv, HoldersAlone, CompletedIsSettled, Idle, Owning, Free

\* Until a lease is taken from a live worker, every generation that is neither
\* settled nor left to quota has its message or a dispatcher that will send it,
\* whatever crashes or is duplicated: a generation is stranded only after a lease
\* (300 seconds) lapsed under a worker that still ran (900).
THEOREM StrandedOnlyByOvertaking ==
    Spec => []NoGenerationStranded \/ <><<Overtakes>>_vars
<1>1. TypeInv /\ CarryInv /\ LeaseInv /\ [Next]_vars /\ [~Overtakes]_vars
      => TypeInv' /\ CarryInv' /\ LeaseInv'
  BY StepGrows, StepCarries, StepKeeps
<1>2. ASSUME TypeInv, CarryInv, LeaseInv PROVE NoGenerationStranded
  <2> DEFINE n == [gen |-> row.gen, job |-> Discover]
  <2> SUFFICES ASSUME row.gen > 0, lease[n].state = "COMPLETED"
               PROVE  NoGenerationStranded
    BY <1>2, CarriedIsKept DEF NoGenerationStranded
  <2>1. row.gen \in 0..MaxGen /\ row.gen \in Nat
    BY <1>2, Numbers DEF TypeInv, RowOK, Row
  <2>2. n \in Messages
    <3>1. row.gen \in Gens
      BY <2>1, BoundsAssumption DEF Gens
    <3> QED
      BY <3>1 DEF Messages
  <2>3. SettledFor(row, n)
    BY <1>2, <2>2 DEF LeaseInv, CompletedIsSettled
  <2>4. row.status \in DiscoveryTerminal
    BY <2>1, <2>3 DEF SettledFor
  <2> QED
    BY <2>4 DEF NoGenerationStranded, DiscoveryTerminal
<1> QED
  BY <1>1, <1>2, InitType, InitCarries, InitKeeps, PTL DEF Spec

(***************************************************************************)
(* What can strand a split: an overtaken lease, a second fault, or halving *)
(* a half.                                                                 *)
(*                                                                         *)
(* StrandedOnlyByRecord asks of the leaf record that a part that is over   *)
(* is done or bad.  A quota deferral of a second fetch of the part undoes  *)
(* that, so no fetch may be made again once it is over.  It takes two      *)
(* deliveries of one message, one of which has passed the check of its     *)
(* evidence, and a holder that dies between its merge and the completion   *)
(* of its lease: two faults.  Before the first fault a fetch has one       *)
(* delivery (NothingTwice), since a batch is recorded before it is sent    *)
(* again and a part is sent by the one fetch of its whole.  After it the   *)
(* holder does not die, and whoever waits finds the lease completed        *)
(* (NoLateFetch).                                                          *)
(***************************************************************************)

\* Whoever works on a message, of whatever job, has its lease.
Alone == \A w \in Workers : worker[w].pc \in Owning => lease[worker[w].msg] = Held(w)

\* How a step of w treats the lease of its message: it keeps what it has, gives
\* it back, completes it, or takes it when it is free.
Completed(w) == [lease EXCEPT ![worker[w].msg] = [@ EXCEPT !.state = "COMPLETED"]]

LeaseCourse(w) ==
    \/ /\ lease' = lease
       /\ worker'[w].pc \in Owning => worker[w].pc \in Owning /\ worker'[w].msg = worker[w].msg
    \/ lease' = Released(w) /\ worker'[w].pc = "idle"
    \/ lease' = Completed(w) /\ worker'[w].pc = "idle" /\ worker[w].pc \in Owning
    \/ /\ AcquireLease(w) /\ worker'[w].msg = worker[w].msg
       /\ lease' = [lease EXCEPT ![worker[w].msg] = Held(w)]

\* How it treats its delivery: it keeps it, acknowledges it, puts it back, or
\* keeps it and sends a fetch.
OneMore(m) == queue' = [queue EXCEPT ![m] = @ + 1]

Sends(w) ==
    \/ \E b \in Batches : EnqueueBatch(w, b)
    \/ \E c \in Jobs : SendChild(w, c)

QueueCourse(w) ==
    \/ queue' = queue /\ (worker'[w].pc = "idle" \/ worker'[w].msg = worker[w].msg)
    \/ OneMore(worker[w].msg) /\ worker'[w].pc = "idle"
    \/ Sends(w) /\ worker'[w].msg = worker[w].msg

Course(w) ==
    /\ worker[w].pc # "idle"
    /\ \A v \in Workers : v # w => Same(worker'[v], worker[v])
    /\ LeaseCourse(w) /\ QueueCourse(w)

\* A worker that moves is what it becomes.
LEMMA MovedTo ==
    ASSUME NEW w \in Workers, NEW z, Moved(w, z)
    PROVE  /\ Same(worker'[w], z)
           /\ \A v \in Workers : v # w => Same(worker'[v], worker[v])
BY DEF Moved

\* Whoever goes on as z with its lease and its delivery, or stops.
LEMMA CourseOfStaying ==
    ASSUME NEW w \in Workers, worker[w].pc # "idle", NEW z, Moved(w, z),
           lease' = lease, z.msg = worker[w].msg, z.pc \in Owning => worker[w].pc \in Owning,
           queue' = queue \/ Sends(w)
    PROVE  Course(w)
BY MovedTo DEF Course, LeaseCourse, QueueCourse, Same

LEMMA CourseOfStopping ==
    ASSUME NEW w \in Workers, worker[w].pc # "idle", Moved(w, Idle),
           \/ lease' = lease \/ lease' = Released(w)
           \/ lease' = Completed(w) /\ worker[w].pc \in Owning,
           queue' = queue \/ OneMore(worker[w].msg)
    PROVE  Course(w)
<1>1. Idle.pc = "idle" /\ "idle" \notin Owning
  BY DEF Idle, Owning
<1> HIDE DEF Idle
<1> QED
  BY <1>1, MovedTo DEF Course, LeaseCourse, QueueCourse, Same

\* Stopping, by either way.
LEMMA AcknowledgedCourse ==
    ASSUME TypeInv, NEW w \in Workers, worker[w].pc # "idle",
           Acknowledge(w) \/ PutBack(w),
           \/ lease' = lease \/ lease' = Released(w)
           \/ lease' = Completed(w) /\ worker[w].pc \in Owning
    PROVE  Course(w)
<1>1. Moved(w, Idle)
  BY AcknowledgeMoves, PutBackMoves DEF TypeInv
<1>2. queue' = queue \/ OneMore(worker[w].msg)
  BY DEF Acknowledge, PutBack, OneMore
<1> QED
  BY <1>1, <1>2, CourseOfStopping

\* The course of a discovery's step,
LEMMA DiscoveryCourse ==
    ASSUME TypeInv, NEW w \in Workers,
           \/ BeginDiscovery(w) \/ Attempt(w) \/ DiscoveryDeferred(w)
           \/ DiscoveryRejected(w) \/ DiscoveryAnswered(w) \/ PutPlan(w) \/ FanoutExpected(w)
           \/ (\E b \in Batches : EnqueueBatch(w, b)) \/ MarkEnqueued(w) \/ CompleteFanout(w)
           \/ CompleteDiscovery(w)
    PROVE  Course(w)
<1>1. worker[w].pc # "idle" /\ WorkersOK
  BY DEF BeginDiscovery, Attempt, DiscoveryDeferred, DiscoveryRejected, DiscoveryAnswered,
         PutPlan, FanoutExpected, EnqueueBatch, MarkEnqueued, CompleteFanout,
         CompleteDiscovery, Discovering, At, TypeInv
<1>2. "lease" \notin Owning
  BY DEF Owning
<1>3. ASSUME NEW place \in Places
      PROVE  Placed(w, place).pc = place /\ Placed(w, place).msg = worker[w].msg
  BY <1>1, PlacedOK
<1>4. Staled(w).msg = worker[w].msg
  BY <1>1, StaledOK
<1>5. {"expect", "discover", "complete", "plan", "lease"} \subseteq Places
  BY DEF Places, Owning
<1> HIDE DEF Placed, Staled
<1>6. ASSUME NEW z, Moved(w, z), z.msg = worker[w].msg, worker[w].pc \in Owning,
             lease' = lease, queue' = queue \/ Sends(w)
      PROVE  Course(w)
  BY <1>1, <1>6, CourseOfStaying
<1>7. ASSUME Raise(w) PROVE Course(w)
  BY <1>1, <1>7, AcknowledgedCourse DEF Raise
<1>8. CASE BeginDiscovery(w)
  <2>1. CASE Acknowledge(w)
    BY <1>1, <1>8, <2>1, AcknowledgedCourse DEF BeginDiscovery
  <2>2. CASE worker' = Replaced(w, Clocking(w, "lease")) /\ queue' = queue
    <3>1. WorkerOK(Clocking(w, "lease")) /\ Same(Clocking(w, "lease"), Placed(w, "lease"))
      BY <1>1, ClockingOK
    <3>2. Moved(w, Clocking(w, "lease"))
      BY <1>1, <2>2, <3>1, WorkerMoves
    <3>3. Moved(w, Placed(w, "lease"))
      BY <3>1, <3>2, MovedSame
    <3> QED
      BY <1>1, <1>2, <1>3, <1>5, <1>8, <2>2, <3>3, CourseOfStaying DEF BeginDiscovery
  <2> QED
    BY <1>8, <2>1, <2>2 DEF BeginDiscovery
<1>9. CASE Attempt(w)
  BY <1>3, <1>4, <1>5, <1>6, <1>9, AttemptEffect DEF Attempt, Discovering, At, Owning
<1>10. CASE DiscoveryDeferred(w)
  <2>1. Acknowledge(w) \/ PutBack(w)
    BY <1>10 DEF DiscoveryDeferred
  <2> QED
    BY <1>1, <1>10, <2>1, AcknowledgedCourse DEF DiscoveryDeferred
<1>11. CASE DiscoveryRejected(w)
  BY <1>3, <1>5, <1>6, <1>11, DiscoveryRejectedEffect DEF DiscoveryRejected, Discovering, At, Owning
<1>12. CASE DiscoveryAnswered(w)
  BY <1>3, <1>5, <1>6, <1>12, DiscoveryAnsweredEffect DEF DiscoveryAnswered, Discovering, At, Owning
<1>13. CASE PutPlan(w)
  <2>1. worker[w].pc \in Owning
    BY <1>13 DEF PutPlan, Discovering, At, Owning
  <2>2. CASE Raise(w)
    BY <1>7, <2>2
  <2>3. CASE Goto(w, "expect") /\ queue' = queue /\ lease' = lease
    BY <1>1, <1>3, <1>5, <1>6, <2>1, <2>3, GotoMoves
  <2>4. CASE Stale(w) /\ queue' = queue /\ lease' = lease
    BY <1>1, <1>4, <1>6, <2>1, <2>4, StaleMoves
  <2> QED
    BY <1>13, <2>2, <2>3, <2>4 DEF PutPlan
<1>14. CASE FanoutExpected(w)
  <2>1. worker[w].pc \in Owning
    BY <1>14 DEF FanoutExpected, Discovering, At, Owning
  <2>2. CASE PlanCurrent(row, Gen(w))
    BY <1>6, <1>14, <2>1, <2>2, FanoutExpectedEffect DEF FanoutExpected
  <2>3. CASE ~PlanCurrent(row, Gen(w))
    BY <1>7, <1>14, <2>3 DEF FanoutExpected
  <2> QED
    BY <2>2, <2>3
<1>15. CASE \E b \in Batches : EnqueueBatch(w, b)
  BY <1>6, <1>15, EnqueueBatchEffect DEF EnqueueBatch, Sends, Discovering, At, Owning
<1>16. CASE MarkEnqueued(w)
  <2>1. worker[w].pc \in Owning
    BY <1>16 DEF MarkEnqueued, Discovering, At, Owning
  <2>2. CASE PlanCurrent(row, Gen(w))
    BY <1>6, <1>16, <2>1, <2>2, MarkEnqueuedEffect DEF MarkEnqueued
  <2>3. CASE ~PlanCurrent(row, Gen(w))
    BY <1>7, <1>16, <2>3 DEF MarkEnqueued
  <2> QED
    BY <2>2, <2>3
<1>17. CASE CompleteFanout(w)
  <2>1. worker[w].pc \in Owning
    BY <1>17 DEF CompleteFanout, Discovering, At, Owning
  <2>2. CASE FanoutDone(row, Gen(w))
    BY <1>1, <1>3, <1>5, <1>6, <1>17, <2>1, <2>2, GotoMoves DEF CompleteFanout
  <2>3. CASE ~FanoutDone(row, Gen(w))
    BY <1>7, <1>17, <2>3 DEF CompleteFanout
  <2> QED
    BY <2>2, <2>3
<1>18. CASE CompleteDiscovery(w)
  <2>1. worker[w].pc \in Owning
    BY <1>18 DEF CompleteDiscovery, Discovering, At, Owning
  <2>2. /\ Acknowledge(w) \/ PutBack(w)
        /\ lease' = Released(w) \/ lease' = Completed(w)
    BY <1>18 DEF CompleteDiscovery, Completed
  <2> QED
    BY <1>1, <2>1, <2>2, AcknowledgedCourse
<1> QED
  BY <1>8, <1>9, <1>10, <1>11, <1>12, <1>13, <1>14, <1>15, <1>16, <1>17, <1>18

\* of a fetch's,
LEMMA FetchCourse ==
    ASSUME TypeInv, NEW w \in Workers,
           \/ BeginFetch(w) \/ FetchStale(w) \/ FetchUnanswered(w) \/ FetchAnswered(w)
           \/ FetchSplit(w) \/ (\E c \in Jobs : SendChild(w, c))
           \/ MergeOutcome(w) \/ MintCertificate(w) \/ CompleteFetch(w)
    PROVE  Course(w)
<1>1. worker[w].pc # "idle" /\ WorkersOK
  BY DEF BeginFetch, FetchStale, FetchUnanswered, FetchAnswered, FetchSplit, SendChild,
         MergeOutcome, MintCertificate, CompleteFetch, MayCall, Fetching, At, TypeInv
<1>2. "lease" \notin Owning
  BY DEF Owning
<1>3. ASSUME NEW place \in Places
      PROVE  Placed(w, place).pc = place /\ Placed(w, place).msg = worker[w].msg
  BY <1>1, PlacedOK
<1>4. Staled(w).msg = worker[w].msg
  BY <1>1, StaledOK
<1>5. {"complete", "lease"} \subseteq Places
  BY DEF Places, Owning
<1> HIDE DEF Placed, Staled
<1>6. ASSUME NEW z, Moved(w, z), z.msg = worker[w].msg, worker[w].pc \in Owning,
             lease' = lease, queue' = queue \/ Sends(w)
      PROVE  Course(w)
  BY <1>1, <1>6, CourseOfStaying
<1>7. CASE BeginFetch(w)
  <2>1. CASE Acknowledge(w)
    BY <1>1, <1>7, <2>1, AcknowledgedCourse DEF BeginFetch
  <2>2. CASE Goto(w, "lease") /\ queue' = queue
    <3>1. Moved(w, Placed(w, "lease"))
      BY <1>1, <1>5, <2>2, GotoMoves
    <3> QED
      BY <1>1, <1>2, <1>3, <1>5, <1>7, <2>2, <3>1, CourseOfStaying DEF BeginFetch
  <2> QED
    BY <1>7, <2>1, <2>2 DEF BeginFetch
<1>8. CASE FetchStale(w)
  BY <1>4, <1>6, <1>8, FetchStaleEffect DEF FetchStale, Fetching, At, Owning
<1>9. CASE FetchUnanswered(w)
  BY <1>6, <1>9, FetchUnansweredEffect DEF FetchUnanswered, MayCall, Fetching, At, Owning
<1>10. CASE FetchAnswered(w)
  BY <1>6, <1>10, FetchAnsweredEffect DEF FetchAnswered, MayCall, Fetching, At, Owning
<1>11. CASE FetchSplit(w)
  BY <1>6, <1>11, FetchSplitEffect DEF FetchSplit, MayCall, Fetching, At, Owning
<1>12. CASE \E c \in Jobs : SendChild(w, c)
  BY <1>6, <1>12, SendChildEffect DEF SendChild, Sends, Fetching, At, Owning
<1>13. CASE MergeOutcome(w)
  BY <1>6, <1>13, MergeOutcomeEffect DEF MergeOutcome, Fetching, At, Owning
<1>14. CASE MintCertificate(w)
  <2>1. worker[w].pc \in Owning
    BY <1>14 DEF MintCertificate, Fetching, At, Owning
  <2>2. CASE Raise(w)
    BY <1>1, <2>2, AcknowledgedCourse DEF Raise
  <2>3. CASE Goto(w, "complete") /\ queue' = queue /\ lease' = lease
    BY <1>1, <1>3, <1>5, <1>6, <2>1, <2>3, GotoMoves
  <2> QED
    BY <1>14, <2>2, <2>3 DEF MintCertificate
<1>15. CASE CompleteFetch(w)
  <2>1. worker[w].pc \in Owning
    BY <1>15 DEF CompleteFetch, Fetching, At, Owning
  <2>2. /\ Acknowledge(w) \/ PutBack(w)
        /\ lease' = Released(w) \/ lease' = Completed(w)
    BY <1>15 DEF CompleteFetch, Completed
  <2> QED
    BY <1>1, <2>1, <2>2, AcknowledgedCourse
<1> QED
  BY <1>7, <1>8, <1>9, <1>10, <1>11, <1>12, <1>13, <1>14, <1>15

\* and of every step of a worker.
LEMMA WorkerCourse ==
    ASSUME TypeInv, NEW w \in Workers, Progress(w)
    PROVE  Course(w)
<1>1. CASE AcquireLease(w)
  <2>1. worker[w].pc # "idle" /\ WorkersOK
    BY <1>1 DEF AcquireLease, At, TypeInv
  <2>2. ASSUME NEW place \in Places, Moved(w, Placed(w, place)) PROVE Course(w)
    <3>1. Placed(w, place).msg = worker[w].msg
      BY <2>1, PlacedOK
    <3> HIDE DEF Placed
    <3>2. LeaseCourse(w)
      BY <1>1, <2>2, <3>1, MovedTo DEF AcquireLease, LeaseCourse, Held, Same
    <3>3. QueueCourse(w)
      BY <1>1, <2>2, <3>1, MovedTo DEF AcquireLease, QueueCourse, Same
    <3> QED
      BY <2>1, <2>2, <3>2, <3>3, MovedTo DEF Course
  <2>3. {"attempt", "call"} \subseteq Places
    BY DEF Places, Owning
  <2> QED
    BY <1>1, <2>2, <2>3, AcquireLeaseEffect
<1>2. CASE LeaseRefused(w)
  BY <1>2, AcknowledgedCourse DEF LeaseRefused, At
<1>3. CASE ~AcquireLease(w) /\ ~LeaseRefused(w)
  BY <1>3, DiscoveryCourse, FetchCourse DEF Progress
<1> QED
  BY <1>1, <1>2, <1>3

\* Whoever is at work on the same message is the same.
LEMMA OnlyOne ==
    ASSUME Alone, NEW v \in Workers, NEW w \in Workers, worker[v].pc \in Owning,
           worker[w].pc \in Owning, worker[v].msg = worker[w].msg
    PROVE  v = w
<1>1. Held(v) = Held(w)
  BY DEF Alone
<1>2. Held(v).owner = v /\ Held(w).owner = w
  BY DEF Held
<1> QED
  BY <1>1, <1>2

\* A step of a worker leaves every other alone with its lease.
LEMMA CourseAlone ==
    ASSUME ~Overtakes, TypeInv, TypeInv', Alone, NEW w \in Workers, Course(w)
    PROVE  Alone'
<1> SUFFICES ASSUME NEW v \in Workers, worker'[v].pc \in Owning
             PROVE  lease'[worker'[v].msg] = Held(v)
  BY DEF Alone
<1> DEFINE n == worker[w].msg
<1>1. /\ n \in Messages /\ worker[w].pc # "idle" /\ lease \in [Messages -> LeaseType]
      /\ "idle" \notin Owning /\ worker'[v].msg \in Messages
  <2>1. worker'[v].pc # "idle"
    BY DEF Owning
  <2>2. n \in Messages /\ worker[w].pc # "idle"
    BY BusyHasMessage DEF Course
  <2>3. worker'[v].msg \in Messages
    BY <2>1 DEF TypeInv, WorkersOK, WorkerOK
  <2> QED
    BY <2>2, <2>3 DEF TypeInv, Owning
<1>2. v # w => /\ worker[v].pc \in Owning /\ worker'[v].msg = worker[v].msg
               /\ lease[worker[v].msg] = Held(v)
  BY DEF Alone, Course, Same
<1>3. CASE lease' = lease /\ (worker'[w].pc \in Owning =>
                                worker[w].pc \in Owning /\ worker'[w].msg = n)
  <2>1. CASE v = w
    BY <1>3, <2>1 DEF Alone
  <2>2. CASE v # w
    BY <1>2, <1>3, <2>2
  <2> QED
    BY <2>1, <2>2
<1>4. CASE lease' = Released(w) /\ worker'[w].pc = "idle"
  <2>1. v # w
    BY <1>1, <1>4
  <2>2. lease' = [lease EXCEPT ![n] = IF @.owner = w /\ @.state = "IN_PROGRESS"
                                      THEN Free ELSE @]
    BY <1>4 DEF Released
  <2>3. lease'[worker[v].msg] = lease[worker[v].msg]
    <3>1. lease[worker[v].msg].owner # w
      BY <1>2, <2>1 DEF Held
    <3> QED
      BY <1>1, <1>2, <2>1, <2>2, <3>1
  <2> QED
    BY <1>2, <2>1, <2>3
<1>5. CASE lease' = Completed(w) /\ worker'[w].pc = "idle" /\ worker[w].pc \in Owning
  <2>1. v # w
    BY <1>1, <1>5
  <2>2. worker[v].msg # n
    BY <1>2, <1>5, <2>1, OnlyOne
  <2>3. \A m \in Messages : m # n => lease'[m] = lease[m]
    BY <1>1, <1>5 DEF Completed
  <2> QED
    BY <1>1, <1>2, <2>1, <2>2, <2>3
<1>6. CASE /\ AcquireLease(w) /\ worker'[w].msg = n
           /\ lease' = [lease EXCEPT ![n] = Held(w)]
  <2>1. CASE v = w
    BY <1>1, <1>6, <2>1
  <2>2. CASE v # w
    <3>1. ASSUME worker[v].msg = n PROVE FALSE
      <4>1. lease[n].owner = v /\ lease[n].state = "IN_PROGRESS"
        BY <1>2, <2>2, <3>1 DEF Held
      <4>2. HolderLives(n)
        BY <1>2, <2>2, <3>1, <4>1 DEF HolderLives
      <4> QED
        BY <1>6, <4>1, <4>2 DEF Overtakes
    <3> QED
      BY <1>1, <1>2, <1>6, <2>2, <3>1
  <2> QED
    BY <2>1, <2>2
<1> QED
  BY <1>3, <1>4, <1>5, <1>6 DEF Course, LeaseCourse

\* w has m, and m has one delivery at most.
Has(w, m) == worker[w].pc # "idle" /\ worker[w].msg = m

Once(m) ==
    /\ queue[m] <= 1
    /\ \A v, w \in Workers : Has(v, m) /\ Has(w, m) => v = w
    /\ \A w \in Workers : Has(w, m) => queue[m] = 0

IsFetch(m) == m.job # Discover /\ PlanCurrent(row, m.gen)

\* w has sent m and will record it.
Marks(w, m) ==
    /\ worker[w].pc = "mark" /\ worker[w].msg.job = Discover
    /\ worker[w].msg.gen = m.gen /\ m.job \in worker[w].sent

\* w halves m and has sent its part n.
Halves(w, m, n) ==
    /\ worker[w].pc \in {"send", "merge"} /\ worker[w].msg = m
    /\ worker[w].outcome = "SPLIT_PENDING" /\ n.job \notin worker[w].todo

\* Before the first fault a fetch of the plan has one delivery, that of a batch
\* is recorded or about to be, and that of a part has a whole that was halved.
NothingTwice ==
    \A m \in Messages :
        IsFetch(m) /\ Pending(m) =>
            /\ Once(m)
            /\ m.job \in Batches => m.job \in row.enqueued \/ \E v \in Workers : Marks(v, m)
            /\ \A n \in Messages :
                  n.gen = m.gen /\ n.job \in Jobs /\ m.job \in Children[n.job] =>
                      n.job \in row.terminal \/ \E v \in Workers : Halves(v, n, m)

\* What a discovery has still to send is not recorded.
FansFresh ==
    \A w \in Workers :
        worker[w].msg.job = Discover /\ PlanCurrent(row, worker[w].msg.gen) =>
            /\ worker[w].pc = "fanout" => worker[w].todo \cap row.enqueued = {}
            /\ worker[w].pc = "mark" =>
                  (worker[w].todo \ worker[w].sent) \cap row.enqueued = {}

\* A fetch that is over is not made again: whoever still waits for its lease will
\* find it completed.
Settles(w, m) ==
    /\ worker[w].pc \in {"mint", "complete"} /\ worker[w].msg = m
    /\ worker[w].outcome \in TerminalOutcomes

NoLateFetch ==
    \A w \in Workers, m \in Messages :
        /\ worker[w].msg = m /\ IsFetch(m) /\ m.job \in row.terminal
        /\ worker[w].pc \in {"lease", "call", "send", "merge"}
        => /\ worker[w].pc = "lease"
           /\ lease[m].state = "COMPLETED" \/ \E v \in Workers : Settles(v, m)

\* A part that is over was answered or refused.
PartsAreJudged == row.planned => row.terminal \ Batches \subseteq row.done \cup row.bad

FaultInv ==
    /\ Alone
    /\ faults = 0 => NothingTwice
    /\ FansFresh /\ NoLateFetch /\ PartsAreJudged

\* The same, from workers that are as they were.
LEMMA SameHas ==
    ASSUME NEW v \in Workers, Same(worker'[v], worker[v])
    PROVE  /\ \A m : Has(v, m)' <=> Has(v, m)
           /\ \A m : Marks(v, m)' <=> Marks(v, m)
           /\ \A m, n : Halves(v, m, n)' <=> Halves(v, m, n)
           /\ \A m : Settles(v, m)' <=> Settles(v, m)
BY DEF Same, Has, Marks, Halves, Settles

\* A message nobody has has no delivery twice.
LEMMA UnheardIsOnce ==
    ASSUME TypeInv, NEW m \in Messages, ~Pending(m)
    PROVE  Once(m)
BY DEF TypeInv, Pending, Once, Has

\* A worker's step sends no second delivery of what it does not send.
LEMMA CourseOnce ==
    ASSUME TypeInv, NEW w \in Workers, Course(w), NEW m \in Messages, Once(m),
           \/ queue' = queue /\ (worker'[w].pc = "idle" \/ worker'[w].msg = worker[w].msg)
           \/ OneMore(worker[w].msg) /\ worker'[w].pc = "idle"
           \/ \E n \in Messages : /\ OneMore(n) /\ worker'[w].msg = worker[w].msg
                                  /\ n # m \/ ~Pending(m)
    PROVE  Once(m)'
<1>1. /\ queue[m] \in Nat /\ queue \in [Messages -> Nat] /\ worker[w].msg \in Messages
      /\ worker[w].pc # "idle"
  BY BusyHasMessage DEF TypeInv, Course
<1>2. \A v \in Workers : v # w => (Has(v, m)' <=> Has(v, m))
  BY SameHas DEF Course
<1>3. CASE queue' = queue /\ (worker'[w].pc = "idle" \/ worker'[w].msg = worker[w].msg)
  <2>1. Has(w, m)' => Has(w, m)
    BY <1>1, <1>3 DEF Has
  <2> QED
    BY <1>1, <1>2, <1>3, <2>1 DEF Once
<1>4. CASE OneMore(worker[w].msg) /\ worker'[w].pc = "idle"
  <2>1. ~Has(w, m)'
    BY <1>4 DEF Has
  <2>2. CASE worker[w].msg = m
    <3>1. Has(w, m) /\ queue[m] = 0 /\ queue'[m] = 1
      BY <1>1, <1>4, <2>2 DEF Has, Once, OneMore
    <3> QED
      BY <1>1, <1>2, <2>1, <3>1 DEF Once
  <2>3. CASE worker[w].msg # m
    <3>1. queue'[m] = queue[m]
      BY <1>1, <1>4, <2>3 DEF OneMore
    <3> QED
      BY <1>1, <1>2, <2>1, <3>1 DEF Once
  <2> QED
    BY <2>2, <2>3
<1>5. ASSUME NEW n \in Messages, OneMore(n), worker'[w].msg = worker[w].msg,
             n # m \/ ~Pending(m)
      PROVE  Once(m)'
  <2>1. Has(w, m)' => Has(w, m)
    BY <1>1, <1>5 DEF Has
  <2>2. CASE n # m
    <3>1. queue'[m] = queue[m]
      BY <1>1, <1>5, <2>2 DEF OneMore
    <3> QED
      BY <1>1, <1>2, <2>1, <3>1 DEF Once
  <2>3. CASE n = m /\ ~Pending(m)
    <3>1. queue[m] = 0 /\ \A v \in Workers : ~Has(v, m)
      BY <1>1, <2>3 DEF Pending, Has
    <3>2. queue'[m] = 1
      BY <1>1, <1>5, <2>3, <3>1 DEF OneMore
    <3> QED
      BY <1>2, <2>1, <3>1, <3>2 DEF Once
  <2> QED
    BY <1>5, <2>2, <2>3
<1> QED
  BY <1>3, <1>4, <1>5

\* A batch that is sent has no delivery yet,
LEMMA EnqueuesOnce ==
    ASSUME TypeInv, FaultInv, faults = 0, NEW w \in Workers, NEW b \in Batches,
           EnqueueBatch(w, b), NEW m \in Messages, m.gen = Gen(w), m.job = b, IsFetch(m)
    PROVE  ~Pending(m)
<1> SUFFICES ASSUME Pending(m) PROVE FALSE
  OBVIOUS
<1>1. /\ worker[w].pc = "fanout" /\ worker[w].msg.job = Discover /\ b \in worker[w].todo
      /\ worker[w].msg.gen = m.gen
  BY DEF EnqueueBatch, Discovering, At, Gen
<1>2. b \notin row.enqueued
  BY <1>1 DEF FaultInv, FansFresh, IsFetch
<1>3. PICK v \in Workers : Marks(v, m)
  BY <1>2 DEF FaultInv, NothingTwice
<1>4. worker[v].msg = worker[w].msg
  <2>1. worker[v].msg \in Messages /\ worker[w].msg \in Messages
    BY <1>1, <1>3, BusyHasMessage DEF Marks
  <2> QED
    BY <1>1, <1>3, <2>1 DEF Marks, Messages
<1>5. v = w
  BY <1>1, <1>3, <1>4, OnlyOne DEF Marks, Owning, FaultInv
<1> QED
  BY <1>1, <1>3, <1>5 DEF Marks

\* nor has a part.
LEMMA HalvesOnce ==
    ASSUME TypeInv, FaultInv, SplitInv, faults = 0, NEW w \in Workers, NEW c \in Jobs,
           SendChild(w, c), NEW m \in Messages, m.gen = Gen(w), m.job = c, IsFetch(m)
    PROVE  ~Pending(m)
<1> SUFFICES ASSUME Pending(m) PROVE FALSE
  OBVIOUS
<1>1. worker[w].pc = "send" /\ c \in worker[w].todo /\ worker[w].msg \in Messages
  BY BusyHasMessage DEF SendChild, Fetching, At
<1>2. PICK n \in Messages : n = worker[w].msg
  BY <1>1
<1>3. n.job \in Jobs /\ c \in Children[n.job] /\ n.gen = m.gen
  BY <1>1, <1>2 DEF SplitInv, PartsAreSent, HasSent, Gen
<1>4. IsFetch(n)
  BY <1>3, TreeAssumption DEF IsFetch
<1>5. n.job \notin row.terminal
  BY <1>1, <1>2, <1>4 DEF FaultInv, NoLateFetch
<1>6. PICK v \in Workers : Halves(v, n, m)
  BY <1>3, <1>5 DEF FaultInv, NothingTwice
<1>7. v = w
  BY <1>1, <1>2, <1>6, OnlyOne DEF Halves, Owning, FaultInv
<1> QED
  BY <1>1, <1>6, <1>7 DEF Halves

\* The row is touched without evidence, or starts anew.
RowIsStill == SameEvidence(row', row) \/ NoEvidence(row')

\* Of the steps of a worker only two write evidence.
LEMMA WorkerIsStill ==
    ASSUME TypeInv, NEW w \in Workers, Progress(w), ~MergeOutcome(w), ~MarkEnqueued(w)
    PROVE  RowIsStill
<1>1. (row' = row \/ Turns(row, row') \/ SameEvidence(row', row)) => RowIsStill
  BY DEF RowIsStill, Turns, SameEvidence
<1>2. CASE BeginDiscovery(w)
  BY <1>1, <1>2, BeginDiscoveryEffect
<1>3. CASE Attempt(w)
  BY <1>1, <1>3, AttemptEffect
<1>4. CASE DiscoveryDeferred(w)
  BY <1>1, <1>4, DiscoveryDeferredEffect
<1>5. CASE DiscoveryRejected(w)
  BY <1>1, <1>5, DiscoveryRejectedEffect
<1>6. CASE PutPlan(w)
  BY <1>1, <1>6, PutPlanEffect
<1>7. CASE FanoutExpected(w)
  BY <1>1, <1>7, FanoutExpectedEffect
<1>8. CASE CompleteFanout(w)
  BY <1>1, <1>8, CompleteFanoutEffect
<1>9. CASE \/ BeginFetch(w) \/ AcquireLease(w) \/ LeaseRefused(w) \/ DiscoveryAnswered(w)
           \/ (\E b \in Batches : EnqueueBatch(w, b)) \/ CompleteDiscovery(w)
           \/ FetchStale(w) \/ FetchUnanswered(w) \/ FetchAnswered(w) \/ FetchSplit(w)
           \/ (\E c \in Jobs : SendChild(w, c)) \/ MintCertificate(w) \/ CompleteFetch(w)
  <2>1. row' = row
    BY <1>9 DEF BeginFetch, AcquireLease, LeaseRefused, DiscoveryAnswered, EnqueueBatch,
                CompleteDiscovery, FetchStale, FetchUnanswered, FetchAnswered, FetchSplit,
                SendChild, MintCertificate, CompleteFetch
  <2> QED
    BY <1>1, <2>1
<1> QED
  BY <1>2, <1>3, <1>4, <1>5, <1>6, <1>7, <1>8, <1>9 DEF Progress

\* Where a worker is says what it does.
LEMMA WhereItIs ==
    ASSUME NEW w \in Workers, Progress(w)
    PROVE  /\ worker[w].pc = "mark" => MarkEnqueued(w)
           /\ worker[w].pc = "send" => \E c \in Jobs : SendChild(w, c)
           /\ worker[w].pc = "merge" => MergeOutcome(w)
           /\ worker[w].pc = "mint" => MintCertificate(w)
           /\ worker[w].pc = "complete" /\ Job(w) # Discover => CompleteFetch(w)
BY DEF Progress, BeginDiscovery, BeginFetch, AcquireLease, LeaseRefused, Attempt,
       DiscoveryDeferred, DiscoveryRejected, DiscoveryAnswered, PutPlan, FanoutExpected,
       EnqueueBatch, MarkEnqueued, CompleteFanout, CompleteDiscovery, FetchStale,
       FetchUnanswered, FetchAnswered, FetchSplit, SendChild, MergeOutcome,
       MintCertificate, CompleteFetch, MayCall, Fetching, Discovering, At, Job

\* Where it arrives says what it did.
LEMMA WhereItArrives ==
    ASSUME TypeInv, NEW w \in Workers, Progress(w)
    PROVE  /\ worker'[w].pc \in {"fanout", "mark"} =>
                 FanoutExpected(w) \/ MarkEnqueued(w) \/ \E b \in Batches : EnqueueBatch(w, b)
           /\ worker'[w].pc = "lease" => BeginDiscovery(w) \/ BeginFetch(w)
           /\ worker'[w].pc = "call" => AcquireLease(w)
           /\ worker'[w].pc \in {"send", "merge"} =>
                 worker[w].pc \in {"call", "send"} /\ worker'[w].msg = worker[w].msg
<1> DEFINE Elsewhere(place) == place \notin {"fanout", "mark", "lease", "call", "send", "merge"}
<1>1. worker[w].pc # "idle" /\ WorkersOK
  BY WorkerCourse DEF Course, TypeInv
<1>2. Elsewhere(Idle.pc)
  BY DEF Idle
<1>3. ASSUME NEW place \in Places PROVE Placed(w, place).pc = place
  BY <1>1, PlacedOK
<1>4. Staled(w).pc = "complete"
  BY <1>1, StaledOK
<1>5. {"expect", "discover", "complete", "plan", "attempt", "call"} \subseteq Places
  BY DEF Places, Owning
<1>6. ASSUME NEW z, Moved(w, z) PROVE worker'[w].pc = z.pc /\ worker'[w].msg = z.msg
  BY <1>6, MovedTo DEF Same
<1> HIDE DEF Placed, Staled, Idle
<1>7. CASE BeginDiscovery(w) \/ BeginFetch(w)
  <2>1. Moved(w, Idle) \/ Moved(w, Placed(w, "lease"))
    BY <1>7, BeginDiscoveryEffect, BeginFetchEffect
  <2>2. Placed(w, "lease").pc = "lease"
    BY <1>3 DEF Places
  <2> QED
    BY <1>2, <1>6, <1>7, <2>1, <2>2
<1>8. CASE AcquireLease(w)
  <2>1. Moved(w, Placed(w, "attempt")) \/ Moved(w, Placed(w, "call"))
    BY <1>8, AcquireLeaseEffect
  <2>2. worker'[w].pc \in {"attempt", "call"}
    BY <1>3, <1>5, <1>6, <2>1
  <2> QED
    BY <1>8, <2>2
<1>9. CASE LeaseRefused(w)
  BY <1>2, <1>6, <1>9, LeaseRefusedEffect
<1>10. CASE Attempt(w)
  BY <1>3, <1>4, <1>5, <1>6, <1>10, AttemptEffect
<1>11. CASE DiscoveryDeferred(w)
  BY <1>2, <1>6, <1>11, DiscoveryDeferredEffect
<1>12. CASE DiscoveryRejected(w)
  BY <1>3, <1>5, <1>6, <1>12, DiscoveryRejectedEffect
<1>13. CASE DiscoveryAnswered(w)
  BY <1>3, <1>5, <1>6, <1>13, DiscoveryAnsweredEffect
<1>14. CASE PutPlan(w)
  BY <1>2, <1>3, <1>4, <1>5, <1>6, <1>14, PutPlanEffect
<1>15. CASE CompleteFanout(w)
  BY <1>2, <1>3, <1>5, <1>6, <1>15, CompleteFanoutEffect
<1>16. CASE CompleteDiscovery(w)
  BY <1>2, <1>6, <1>16, CompleteDiscoveryEffect
<1>17. CASE FetchStale(w)
  BY <1>4, <1>6, <1>17, FetchStaleEffect
<1>18. CASE FetchUnanswered(w)
  <2>1. worker'[w].pc = "merge" /\ worker'[w].msg = worker[w].msg
    BY <1>6, <1>18, FetchUnansweredEffect
  <2>2. worker[w].pc = "call"
    BY <1>18 DEF FetchUnanswered, MayCall, Fetching, At
  <2> QED
    BY <2>1, <2>2
<1>19. CASE FetchAnswered(w)
  <2>1. worker'[w].pc = "merge" /\ worker'[w].msg = worker[w].msg
    BY <1>6, <1>19, FetchAnsweredEffect
  <2>2. worker[w].pc = "call"
    BY <1>19 DEF FetchAnswered, MayCall, Fetching, At
  <2> QED
    BY <2>1, <2>2
<1>20. CASE FetchSplit(w)
  BY <1>6, <1>20, FetchSplitEffect DEF FetchSplit, MayCall, Fetching, At
<1>21. ASSUME NEW c \in Jobs, SendChild(w, c)
       PROVE  /\ worker'[w].pc \in {"send", "merge"} /\ worker[w].pc = "send"
              /\ worker'[w].msg = worker[w].msg
  BY <1>6, <1>21, SendChildEffect DEF SendChild, Fetching, At
<1>22. CASE MergeOutcome(w)
  BY <1>6, <1>22, MergeOutcomeEffect
<1>23. CASE MintCertificate(w)
  BY <1>2, <1>3, <1>5, <1>6, <1>23, MintCertificateEffect
<1>24. CASE CompleteFetch(w)
  BY <1>2, <1>6, <1>24, CompleteFetchEffect
<1>25. CASE FanoutExpected(w)
  BY <1>2, <1>6, <1>25, FanoutExpectedEffect
<1>26. CASE MarkEnqueued(w)
  BY <1>2, <1>6, <1>26, MarkEnqueuedEffect
<1>27. ASSUME NEW b \in Batches, EnqueueBatch(w, b) PROVE worker'[w].pc = "mark"
  BY <1>6, <1>27, EnqueueBatchEffect
<1> QED
  BY <1>7, <1>8, <1>9, <1>10, <1>11, <1>12, <1>13, <1>14, <1>15, <1>16, <1>17, <1>18,
     <1>19, <1>20, <1>21, <1>22, <1>23, <1>24, <1>25, <1>26, <1>27 DEF Progress

\* What a fetch of the plan is after a step: one of the same plan, or nobody had
\* heard of it.
LEMMA FetchBefore ==
    ASSUME Stepping, NEW m \in Messages, IsFetch(m)'
    PROVE  /\ m.job # Discover /\ m.gen = row'.gen /\ row'.planned
           /\ \/ IsFetch(m) /\ row.gen = m.gen /\ row.planned
              \/ ~IsFetch(m) /\ ~Pending(m)
<1>1. m.gen \in Nat /\ row.gen \in Nat /\ row'.gen \in Nat /\ row'.gen >= row.gen
  BY BoundsAssumption DEF Messages, Gens, Stepping, TypeInv, RowOK, Row, Grows
<1>2. Pending(m) => WasPlanned(m.gen)
  BY DEF IsFetch, Stepping, DeliveryInv, FetchesArePlanned
<1> QED
  BY <1>1, <1>2 DEF IsFetch, PlanCurrent, WasPlanned

\* A step from a state with the invariant.
FaultStepping == Stepping /\ SplitInv /\ FaultInv /\ Alone'

\* Before the first fault every fetch is once.
LEMMA OnceBefore ==
    ASSUME FaultStepping, faults = 0, NEW m \in Messages, IsFetch(m)'
    PROVE  Once(m)
<1>1. CASE Pending(m)
  BY <1>1, FetchBefore DEF FaultStepping, FaultInv, NothingTwice
<1>2. CASE ~Pending(m)
  BY <1>2, UnheardIsOnce DEF FaultStepping, Stepping
<1> QED
  BY <1>1, <1>2

\* The whole of what w has to send is what w halves.
LEMMA WholeInHand ==
    ASSUME TypeInv, SplitInv, NEW w \in Workers, worker[w].pc = "send",
           NEW m \in Messages, m.gen = Gen(w), m.job \in worker[w].todo
    PROVE  /\ worker[w].msg \in Messages /\ worker[w].outcome = "SPLIT_PENDING"
           /\ \A n \in Messages :
                 n.gen = m.gen /\ n.job \in Jobs /\ m.job \in Children[n.job] =>
                     n = worker[w].msg
<1>1. worker[w].msg \in Messages /\ worker[w].outcome = "SPLIT_PENDING"
  BY BusyHasMessage DEF SplitInv, PartsAreSent
<1>2. PICK k \in Messages : k = worker[w].msg
  BY <1>1
<1>3. k.job \in Jobs /\ m.job \in Children[k.job] /\ k.gen = m.gen
  BY <1>1, <1>2 DEF SplitInv, PartsAreSent, HasSent, Gen
<1>4. ASSUME NEW n \in Messages, n.gen = m.gen, n.job \in Jobs, m.job \in Children[n.job]
      PROVE  n = k
  <2>1. n.job = k.job
    BY <1>3, <1>4, TreeAssumption
  <2> QED
    BY <1>3, <1>4, <2>1 DEF Messages
<1> QED
  BY <1>1, <1>2, <1>4

\* A fetch is heard of first when it is sent.
LEMMA NewlyPending ==
    ASSUME TypeInv, NEW w \in Workers, Course(w), NEW m \in Messages, Pending(m)', ~Pending(m)
    PROVE  \/ m.job \in Batches /\ Gen(w) = m.gen /\ EnqueueBatch(w, m.job)
           \/ m.job \in Jobs /\ Gen(w) = m.gen /\ SendChild(w, m.job)
<1>1. /\ queue[m] \in Nat /\ queue[m] = 0 /\ queue \in [Messages -> Nat]
      /\ worker[w].pc # "idle" /\ worker[w].msg # m /\ worker[w].msg \in Messages
      /\ \A v \in Workers : ~Has(v, m)
  <2>1. worker[w].pc # "idle" /\ queue \in [Messages -> Nat]
    BY DEF TypeInv, Course
  <2>2. worker[w].msg \in Messages
    BY <2>1, BusyHasMessage
  <2>3. ~(queue[m] > 0) /\ \A v \in Workers : ~Has(v, m)
    BY DEF Pending, Has
  <2> QED
    BY <2>1, <2>2, <2>3 DEF Has
<1>2. \A v \in Workers : v # w => ~Has(v, m)'
  BY <1>1, SameHas DEF Course
<1>3. queue'[m] > 0 \/ Has(w, m)'
  BY <1>2 DEF Pending, Has
<1>4. CASE queue' = queue /\ (worker'[w].pc = "idle" \/ worker'[w].msg = worker[w].msg)
  BY <1>1, <1>3, <1>4 DEF Has
<1>5. CASE OneMore(worker[w].msg) /\ worker'[w].pc = "idle"
  BY <1>1, <1>3, <1>5 DEF Has, OneMore
<1>6. CASE Sends(w) /\ worker'[w].msg = worker[w].msg
  <2>1. queue'[m] > 0
    BY <1>1, <1>3, <1>6 DEF Has
  <2>2. ASSUME NEW j, queue' = [queue EXCEPT ![[gen |-> Gen(w), job |-> j]] = @ + 1]
        PROVE  m.gen = Gen(w) /\ m.job = j
    <3>1. m = [gen |-> Gen(w), job |-> j]
      BY <1>1, <2>1, <2>2
    <3> QED
      BY <3>1
  <2>3. ASSUME NEW b \in Batches, EnqueueBatch(w, b) PROVE m.gen = Gen(w) /\ m.job = b
    BY <2>2, <2>3 DEF EnqueueBatch, Send
  <2>4. ASSUME NEW c \in Jobs, SendChild(w, c) PROVE m.gen = Gen(w) /\ m.job = c
    BY <2>2, <2>4 DEF SendChild, Send
  <2> QED
    BY <1>6, <2>3, <2>4 DEF Sends
<1> QED
  BY <1>4, <1>5, <1>6 DEF Course, QueueCourse

\* Before the first fault a worker's step delivers no fetch twice.
LEMMA WorkerOnce ==
    ASSUME FaultStepping, faults = 0, NEW w \in Workers, Progress(w),
           NEW m \in Messages, IsFetch(m)'
    PROVE  Once(m)'
<1>1. TypeInv /\ SplitInv /\ FaultInv /\ Once(m) /\ Course(w)
  BY OnceBefore, WorkerCourse DEF FaultStepping, Stepping
<1>2. CASE Sends(w) /\ worker'[w].msg = worker[w].msg
  <2>1. row' = row
    BY <1>2 DEF Sends, EnqueueBatch, SendChild
  <2>2. IsFetch(m)
    BY <2>1 DEF IsFetch
  <2>3. ASSUME NEW b \in Batches, EnqueueBatch(w, b) PROVE Once(m)'
    <3>1. PICK n \in Messages : n = [gen |-> Gen(w), job |-> b]
      BY <1>1, <2>3, EnqueueBatchEffect
    <3>2. OneMore(n) /\ n.gen = Gen(w) /\ n.job = b
      BY <2>3, <3>1 DEF EnqueueBatch, Send, OneMore
    <3>3. n # m \/ ~Pending(m)
      BY <1>1, <2>2, <2>3, <3>2, EnqueuesOnce
    <3> QED
      BY <1>1, <1>2, <3>2, <3>3, CourseOnce
  <2>4. ASSUME NEW c \in Jobs, SendChild(w, c) PROVE Once(m)'
    <3>1. PICK n \in Messages : n = [gen |-> Gen(w), job |-> c]
      BY <1>1, <2>4, SendChildEffect
    <3>2. OneMore(n) /\ n.gen = Gen(w) /\ n.job = c
      BY <2>4, <3>1 DEF SendChild, Send, OneMore
    <3>3. n # m \/ ~Pending(m)
      BY <1>1, <2>2, <2>4, <3>2, HalvesOnce
    <3> QED
      BY <1>1, <1>2, <3>2, <3>3, CourseOnce
  <2> QED
    BY <1>2, <2>3, <2>4 DEF Sends
<1> QED
  BY <1>1, <1>2, CourseOnce DEF Course, QueueCourse

\* What is enqueued or over stays so while the plan is the same.
LEMMA FetchAfter ==
    ASSUME Stepping, NEW m \in Messages, IsFetch(m), IsFetch(m)'
    PROVE  row.enqueued \subseteq row'.enqueued /\ row.terminal \subseteq row'.terminal
BY DEF IsFetch, PlanCurrent, Stepping, Grows

\* Before the first fault a batch with a delivery is recorded or about to be,
LEMMA WorkerMarks ==
    ASSUME FaultStepping, faults = 0, NEW w \in Workers, Progress(w),
           NEW m \in Messages, IsFetch(m)', Pending(m)', m.job \in Batches
    PROVE  m.job \in row'.enqueued \/ \E v \in Workers : Marks(v, m)'
<1>1. TypeInv /\ FaultInv /\ Stepping /\ Course(w)
  BY WorkerCourse DEF FaultStepping, Stepping
<1>2. CASE ~Pending(m)
  <2>1. EnqueueBatch(w, m.job) /\ Gen(w) = m.gen
    <3>1. ~(m.job \in Jobs /\ Gen(w) = m.gen /\ SendChild(w, m.job))
      <4> SUFFICES ASSUME SendChild(w, m.job), m.job \in Jobs, Gen(w) = m.gen PROVE FALSE
        OBVIOUS
      <4>1. worker[w].pc = "send" /\ m.job \in worker[w].todo /\ worker[w].msg \in Messages
        BY <1>1, BusyHasMessage DEF SendChild, Fetching, At
      <4>2. PICK k \in Messages : k = worker[w].msg
        BY <4>1
      <4>3. k.job \in Jobs /\ m.job \in Children[k.job]
        BY <4>1, <4>2 DEF FaultStepping, SplitInv, PartsAreSent, HasSent
      <4> QED
        BY <4>3, ChildrenHaveAParent
    <3> QED
      BY <1>1, <1>2, <3>1, NewlyPending
  <2>2. Marks(w, m)'
    <3>1. worker[w].msg.job = Discover /\ worker[w].msg.gen = m.gen
      BY <2>1 DEF EnqueueBatch, Discovering, Gen
    <3>2. Moved(w, Marking(w, m.job)) /\ Marking(w, m.job).pc = "mark"
          /\ Marking(w, m.job).msg = worker[w].msg /\ Marking(w, m.job).sent = {m.job}
      BY <1>1, <2>1, EnqueueBatchEffect
    <3> HIDE DEF Marking
    <3>3. worker'[w].pc = "mark" /\ worker'[w].msg = worker[w].msg /\ m.job \in worker'[w].sent
      BY <3>2, MovedTo DEF Same
    <3> QED
      BY <3>1, <3>3 DEF Marks
  <2> QED
    BY <2>2
<1>3. CASE Pending(m)
  <2>1. IsFetch(m) /\ row.gen = m.gen /\ row.planned
    BY <1>1, <1>3, FetchBefore
  <2>2. row.enqueued \subseteq row'.enqueued
    BY <1>1, <2>1, FetchAfter
  <2>3. ASSUME NEW v \in Workers, Marks(v, m), v # w PROVE Marks(v, m)'
    BY <1>1, <2>3, SameHas DEF Course
  <2>4. ASSUME Marks(w, m) PROVE m.job \in row'.enqueued
    <3>1. MarkEnqueued(w) /\ Gen(w) = m.gen /\ m.job \in worker[w].sent
      BY <2>4, WhereItIs DEF Marks, Gen
    <3>2. row'.enqueued = row.enqueued \cup worker[w].sent
      BY <1>1, <2>1, <3>1, MarkEnqueuedEffect DEF PlanCurrent
    <3> QED
      BY <3>1, <3>2
  <2> QED
    BY <1>1, <1>3, <2>1, <2>2, <2>3, <2>4 DEF FaultInv, NothingTwice
<1> QED
  BY <1>2, <1>3

\* and a part with a delivery has a whole that was halved.
LEMMA WorkerHalves ==
    ASSUME FaultStepping, faults = 0, NEW w \in Workers, Progress(w),
           NEW m \in Messages, IsFetch(m)', Pending(m)',
           NEW n \in Messages, n.gen = m.gen, n.job \in Jobs, m.job \in Children[n.job]
    PROVE  n.job \in row'.terminal \/ \E v \in Workers : Halves(v, n, m)'
<1>1. TypeInv /\ SplitInv /\ FaultInv /\ Stepping /\ Course(w)
  BY WorkerCourse DEF FaultStepping, Stepping
<1>2. ASSUME NEW c \in Jobs, SendChild(w, c), worker[w].msg = n,
             c = m.job \/ m.job \notin worker[w].todo
      PROVE  Halves(w, n, m)'
  <2>1. worker[w].pc = "send" /\ worker[w].outcome = "SPLIT_PENDING"
    BY <1>1, <1>2 DEF SendChild, Fetching, At, SplitInv, PartsAreSent
  <2>2. /\ Moved(w, Sending(w, c)) /\ Sending(w, c).pc \in {"merge", "send"}
        /\ Sending(w, c).msg = worker[w].msg /\ Sending(w, c).outcome = worker[w].outcome
        /\ Sending(w, c).todo = worker[w].todo \ {c}
    BY <1>1, <1>2, SendChildEffect
  <2> HIDE DEF Sending
  <2>3. /\ worker'[w].pc \in {"merge", "send"} /\ worker'[w].msg = worker[w].msg
        /\ worker'[w].outcome = worker[w].outcome /\ worker'[w].todo = worker[w].todo \ {c}
    BY <2>2, MovedTo DEF Same
  <2> QED
    BY <1>2, <2>1, <2>3 DEF Halves
<1>3. CASE ~Pending(m)
  <2>1. SendChild(w, m.job) /\ Gen(w) = m.gen /\ m.job \in Jobs
    BY <1>1, <1>3, NewlyPending, ChildrenHaveAParent
  <2>2. worker[w].pc = "send" /\ m.job \in worker[w].todo
    BY <2>1 DEF SendChild, Fetching, At
  <2>3. worker[w].msg = n
    BY <1>1, <2>1, <2>2, WholeInHand
  <2> QED
    BY <1>2, <2>1, <2>3
<1>4. CASE Pending(m)
  <2>1. IsFetch(m) /\ row.gen = m.gen /\ row.planned
    BY <1>1, <1>4, FetchBefore
  <2>2. row.terminal \subseteq row'.terminal
    BY <1>1, <2>1, FetchAfter
  <2>3. ASSUME NEW v \in Workers, Halves(v, n, m), v # w PROVE Halves(v, n, m)'
    BY <1>1, <2>3, SameHas DEF Course
  <2>4. ASSUME Halves(w, n, m) PROVE Halves(w, n, m)' \/ n.job \in row'.terminal
    <3>1. CASE worker[w].pc = "send"
      <4>1. PICK c \in Jobs : SendChild(w, c)
        BY <3>1, WhereItIs
      <4> QED
        BY <1>2, <2>4, <4>1 DEF Halves
    <3>2. CASE worker[w].pc = "merge"
      <4>1. MergeOutcome(w) /\ Gen(w) = n.gen /\ Job(w) = n.job
            /\ worker[w].outcome = "SPLIT_PENDING"
        BY <2>4, <3>2, WhereItIs DEF Halves, Gen, Job
      <4>2. MergeAdmitted(row, Gen(w), Job(w), worker[w].outcome)
        BY <2>1, <4>1 DEF MergeAdmitted, PlanCurrent
      <4>3. row' = Merged(row, Job(w), worker[w].outcome, worker[w].got)
        BY <4>1, <4>2 DEF MergeOutcome
      <4>4. /\ RowOK(row) /\ Job(w) \in Jobs /\ worker[w].outcome \in Outcomes
            /\ worker[w].got \in SUBSET Pairs
        BY <1>1, <3>2, <4>1, BusyHasMessage DEF WorkerRecord, TypeInv
      <4>5. n.job \in Merged(row, Job(w), worker[w].outcome, worker[w].got).terminal
        BY <4>1, <4>4, MergedRow DEF TerminalOutcomes
      <4> QED
        BY <4>3, <4>5
    <3> QED
      BY <2>4, <3>1, <3>2 DEF Halves
  <2> QED
    BY <1>1, <1>4, <2>1, <2>2, <2>3, <2>4 DEF FaultInv, NothingTwice
<1> QED
  BY <1>3, <1>4

\* A worker that goes on keeps its message.
LEMMA CourseMessage ==
    ASSUME NEW w \in Workers, Course(w), worker'[w].pc # "idle"
    PROVE  worker'[w].msg = worker[w].msg
BY DEF Course, QueueCourse

\* A completed lease stays completed.
LEMMA CompletedStays ==
    ASSUME TypeInv, NEW w \in Workers, Course(w), NEW m \in Messages,
           lease[m].state = "COMPLETED"
    PROVE  lease'[m].state = "COMPLETED"
<1>1. lease \in [Messages -> LeaseType] /\ worker[w].msg \in Messages
  BY BusyHasMessage DEF TypeInv, Course
<1>2. CASE lease' = Released(w)
  BY <1>1, <1>2 DEF Released
<1>3. CASE lease' = Completed(w)
  BY <1>1, <1>3 DEF Completed
<1>4. CASE /\ AcquireLease(w)
           /\ lease' = [lease EXCEPT ![worker[w].msg] = Held(w)]
  <2>1. m # worker[w].msg
    BY <1>4 DEF AcquireLease, LeaseFree
  <2> QED
    BY <1>1, <1>4, <2>1
<1> QED
  BY <1>2, <1>3, <1>4 DEF Course, LeaseCourse

\* What a discovery has still to send is not recorded after a worker's step.
LEMMA WorkerFans ==
    ASSUME FaultStepping, NEW w \in Workers, Progress(w)
    PROVE  FansFresh'
<1> SUFFICES ASSUME NEW v \in Workers, worker'[v].msg.job = Discover,
                    PlanCurrent(row', worker'[v].msg.gen)
             PROVE  /\ worker'[v].pc = "fanout" => worker'[v].todo \cap row'.enqueued = {}
                    /\ worker'[v].pc = "mark" =>
                          (worker'[v].todo \ worker'[v].sent) \cap row'.enqueued = {}
  BY DEF FansFresh
<1>1. TypeInv /\ FaultInv /\ Course(w)
  BY WorkerCourse DEF FaultStepping, Stepping
<1>2. CASE row'.enqueued = {}
  BY <1>2
<1>3. ASSUME v # w, row'.enqueued # {}
      PROVE  /\ worker'[v].pc = "fanout" => worker'[v].todo \cap row'.enqueued = {}
             /\ worker'[v].pc = "mark" =>
                   (worker'[v].todo \ worker'[v].sent) \cap row'.enqueued = {}
  <2>1. Same(worker'[v], worker[v])
    BY <1>1, <1>3 DEF Course
  <2>2. CASE row'.enqueued = row.enqueued /\ row'.gen = row.gen /\ row'.planned = row.planned
    BY <1>1, <2>1, <2>2 DEF Same, FaultInv, FansFresh, PlanCurrent
  <2>3. CASE RowIsStill
    BY <1>3, <2>2, <2>3 DEF RowIsStill, SameEvidence, NoEvidence
  <2>4. CASE MergeOutcome(w)
    <3>1. CASE row' = row
      BY <2>2, <3>1
    <3>2. CASE row' = Merged(row, Job(w), worker[w].outcome, worker[w].got)
      <4>1. /\ RowOK(row) /\ Job(w) \in Jobs /\ worker[w].outcome \in Outcomes
            /\ worker[w].got \in SUBSET Pairs
        BY <1>1, <2>4, BusyHasMessage, MergeOutcomeEffect DEF WorkerRecord, TypeInv, Course
      <4>2. /\ row'.enqueued = row.enqueued /\ row'.gen = row.gen
            /\ row'.planned = row.planned
        BY <3>2, <4>1, MergedRow
      <4> QED
        BY <2>2, <4>2
    <3> QED
      BY <1>1, <2>4, <3>1, <3>2, MergeOutcomeEffect
  <2>5. CASE MarkEnqueued(w)
    <3>1. CASE PlanCurrent(row, Gen(w))
      <4>1. worker[w].pc = "mark" /\ worker[w].msg.job = Discover
        BY <2>5 DEF MarkEnqueued, Discovering, At
      <4>2. row'.gen = row.gen /\ row'.planned = row.planned
        BY <1>1, <2>5, MarkEnqueuedEffect
      <4>3. worker[v].msg.gen = worker[w].msg.gen /\ worker[v].msg.job = Discover
        BY <2>1, <3>1, <4>2 DEF PlanCurrent, Same, Gen
      <4>4. ASSUME worker[v].pc \in {"fanout", "mark"} PROVE FALSE
        <5>1. worker[v].msg \in Messages /\ worker[w].msg \in Messages
          BY <1>1, <4>1, <4>4, BusyHasMessage
        <5>2. worker[v].msg = worker[w].msg
          BY <4>1, <4>3, <5>1 DEF Messages
        <5> QED
          BY <1>1, <1>3, <4>1, <4>4, <5>2, OnlyOne DEF Owning, FaultInv
      <4> QED
        BY <2>1, <4>4 DEF Same
    <3>2. CASE ~PlanCurrent(row, Gen(w))
      <4>1. row' = row
        BY <1>1, <2>5, <3>2, MarkEnqueuedEffect
      <4> QED
        BY <2>2, <4>1
    <3> QED
      BY <3>1, <3>2
  <2> QED
    BY <1>1, <2>3, <2>4, <2>5, WorkerIsStill
<1>4. ASSUME v = w, worker'[w].pc \in {"fanout", "mark"}
      PROVE  /\ worker'[v].pc = "fanout" => worker'[v].todo \cap row'.enqueued = {}
             /\ worker'[v].pc = "mark" =>
                   (worker'[v].todo \ worker'[v].sent) \cap row'.enqueued = {}
  <2>0. Idle.pc = "idle"
    BY DEF Idle
  <2> HIDE DEF Idle
  <2>1. CASE FanoutExpected(w)
    <3>1. ~Moved(w, Idle)
      BY <1>4, <2>0, MovedTo DEF Same
    <3>2. /\ row'.enqueued = row.enqueued /\ Moved(w, Fanning(w))
          /\ Fanning(w).todo = Batches \ row.enqueued /\ Fanning(w).pc = "fanout"
      BY <1>1, <2>1, <3>1, FanoutExpectedEffect DEF SameEvidence
    <3> HIDE DEF Fanning
    <3>3. worker'[w].todo = Batches \ row.enqueued /\ worker'[w].pc = "fanout"
      BY <3>2, MovedTo DEF Same
    <3> QED
      BY <1>4, <3>2, <3>3
  <2>2. CASE MarkEnqueued(w)
    <3>1. ~Moved(w, Idle)
      BY <1>4, <2>0, MovedTo DEF Same
    <3>2. /\ row'.enqueued = row.enqueued \cup worker[w].sent /\ PlanCurrent(row, Gen(w))
          /\ Moved(w, Marked(w)) /\ Marked(w).pc = "fanout"
      BY <1>1, <2>2, <3>1, MarkEnqueuedEffect
    <3>3. worker[w] \in WorkerRecord /\ worker[w].pc = "mark" /\ worker[w].msg.job = Discover
      BY <1>1, <2>2, BusyHasMessage DEF MarkEnqueued, Discovering, At
    <3>4. Marked(w).todo = worker[w].todo \ worker[w].sent
      <4> DEFINE left == worker[w].todo \ worker[w].sent
      <4>1. Marked(w) = [worker[w] EXCEPT !.pc = "fanout", !.todo = left, !.sent = {}]
        BY DEF Marked
      <4> HIDE DEF left
      <4>2. Marked(w).todo = left
        BY <3>3, <4>1 DEF WorkerRecord
      <4> QED
        BY <4>2 DEF left
    <3> HIDE DEF Marked
    <3>5. worker'[w].todo = worker[w].todo \ worker[w].sent /\ worker'[w].pc = "fanout"
      BY <3>2, <3>4, MovedTo DEF Same
    <3>6. (worker[w].todo \ worker[w].sent) \cap row.enqueued = {}
      BY <1>1, <3>2, <3>3 DEF FaultInv, FansFresh, Gen
    <3> QED
      BY <1>4, <3>2, <3>5, <3>6
  <2>3. ASSUME NEW b \in Batches, EnqueueBatch(w, b)
        PROVE  /\ worker'[w].pc = "mark"
               /\ (worker'[w].todo \ worker'[w].sent) \cap row'.enqueued = {}
    <3>1. /\ Moved(w, Marking(w, b)) /\ Marking(w, b).pc = "mark"
          /\ Marking(w, b).msg = worker[w].msg
      BY <1>1, <2>3, EnqueueBatchEffect
    <3>2. /\ worker[w] \in WorkerRecord /\ worker[w].pc = "fanout" /\ row' = row
          /\ worker[w].msg.job = Discover
      BY <1>1, <2>3, BusyHasMessage DEF EnqueueBatch, Discovering, At
    <3>3. Marking(w, b).todo = worker[w].todo
      BY <3>2 DEF Marking, WorkerRecord
    <3> HIDE DEF Marking
    <3>4. /\ worker'[w].pc = "mark" /\ worker'[w].todo = worker[w].todo
          /\ worker'[w].msg = worker[w].msg
      BY <3>1, <3>3, MovedTo DEF Same
    <3>5. worker[w].todo \cap row.enqueued = {}
      BY <1>1, <1>4, <3>2, <3>4 DEF FaultInv, FansFresh
    <3> QED
      BY <3>2, <3>4, <3>5
  <2> QED
    BY <1>1, <1>4, <2>1, <2>2, <2>3, WhereItArrives
<1> QED
  BY <1>2, <1>3, <1>4

\* A fetch is over since this step only if w has merged its outcome.
LEMMA NewlyOver ==
    ASSUME FaultStepping, NEW w \in Workers, Progress(w), NEW m \in Messages,
           IsFetch(m)', m.job \in row'.terminal
    PROVE  \/ IsFetch(m) /\ m.job \in row.terminal
           \/ MergeOutcome(w) /\ worker[w].msg = m /\ Settles(w, m)'
<1>1. TypeInv /\ Course(w)
  BY WorkerCourse DEF FaultStepping, Stepping
<1>2. CASE RowIsStill
  BY <1>2 DEF RowIsStill, SameEvidence, NoEvidence, IsFetch, PlanCurrent
<1>3. CASE MarkEnqueued(w)
  <2>1. row' = row \/ row' = [row EXCEPT !.enqueued = @ \cup worker[w].sent]
    BY <1>3 DEF MarkEnqueued
  <2>2. row'.gen = row.gen /\ row'.planned = row.planned /\ row'.terminal = row.terminal
    BY <1>1, <2>1 DEF TypeInv, RowOK, Row
  <2> QED
    BY <2>2 DEF IsFetch, PlanCurrent
<1>4. CASE MergeOutcome(w)
  <2>1. /\ RowOK(row) /\ Job(w) \in Jobs /\ worker[w].outcome \in Outcomes
        /\ worker[w].got \in SUBSET Pairs /\ worker[w].msg \in Messages
    BY <1>1, <1>4, BusyHasMessage, MergeOutcomeEffect DEF WorkerRecord, TypeInv, Course
  <2>2. CASE row' = row
    BY <2>2 DEF IsFetch, PlanCurrent
  <2>3. CASE /\ MergeAdmitted(row, Gen(w), Job(w), worker[w].outcome)
             /\ row' = Merged(row, Job(w), worker[w].outcome, worker[w].got)
             /\ LET z == Minting(w, CycleComplete(row'))
                IN  /\ Moved(w, z) /\ z.pc = "mint" /\ z.msg = worker[w].msg
                    /\ z.outcome = worker[w].outcome /\ z.got = worker[w].got
                    /\ z.sent = worker[w].sent /\ z.mint = CycleComplete(row')
    <3>1. /\ row'.gen = row.gen /\ row'.planned = row.planned
          /\ row'.terminal = row.terminal \cup
                (IF worker[w].outcome \in TerminalOutcomes THEN {Job(w)} ELSE {})
      BY <2>1, <2>3, MergedRow
    <3>2. CASE m.job \in row.terminal
      BY <3>1, <3>2 DEF IsFetch, PlanCurrent
    <3>3. CASE m.job = Job(w) /\ worker[w].outcome \in TerminalOutcomes
      <4>1. m.gen = Gen(w)
        BY <2>3, <3>1 DEF IsFetch, PlanCurrent, MergeAdmitted
      <4>2. worker[w].msg = m
        BY <2>1, <3>3, <4>1 DEF Messages, Gen, Job
      <4>3. /\ worker'[w].pc = "mint" /\ worker'[w].msg = worker[w].msg
            /\ worker'[w].outcome = worker[w].outcome
        <5> HIDE DEF Minting
        <5> QED
          BY <2>3, MovedTo DEF Same
      <4> QED
        BY <1>4, <3>3, <4>2, <4>3 DEF Settles
    <3> QED
      BY <3>1, <3>2, <3>3
  <2> QED
    BY <1>1, <1>4, <2>2, <2>3, MergeOutcomeEffect
<1> QED
  BY <1>1, <1>2, <1>3, <1>4, WorkerIsStill

\* Whoever settles a fetch goes on until its lease is completed.
LEMMA SettlesOn ==
    ASSUME FaultStepping, NEW w \in Workers, Progress(w), NEW m \in Messages,
           IsFetch(m), m.job \in row.terminal, NEW u \in Workers, Settles(u, m)
    PROVE  lease'[m].state = "COMPLETED" \/ Settles(u, m)'
<1>1. TypeInv /\ FaultInv /\ Course(w)
  BY WorkerCourse DEF FaultStepping, Stepping
<1>2. CASE u # w
  BY <1>1, <1>2, SameHas DEF Course
<1>3. CASE u = w
  <2>1. /\ worker[w].msg = m /\ worker[w].outcome \in TerminalOutcomes
        /\ worker[w].pc \in {"mint", "complete"} /\ worker[w].pc \in Owning
    BY <1>3 DEF Settles, Owning
  <2>2. CASE worker[w].pc = "mint"
    <3>1. MintCertificate(w)
      BY <2>2, WhereItIs
    <3>2. Goto(w, "complete")
      BY <2>1, <3>1 DEF MintCertificate, TerminalOutcomes
    <3>3. worker \in [Workers -> WorkerRecord]
      BY <1>1 DEF TypeInv, WorkersOK
    <3>4. /\ worker'[w].pc = "complete" /\ worker'[w].msg = worker[w].msg
          /\ worker'[w].outcome = worker[w].outcome
      BY <3>2, <3>3 DEF Goto, WorkerRecord
    <3> QED
      BY <1>3, <2>1, <3>4 DEF Settles
  <2>3. CASE worker[w].pc = "complete"
    <3>1. CompleteFetch(w)
      BY <2>1, <2>3, WhereItIs DEF IsFetch, Job
    <3>2. lease[m] = Held(w)
      BY <1>1, <2>1 DEF FaultInv, Alone
    <3>3. lease[m].owner = w /\ lease[m].state = "IN_PROGRESS"
      BY <3>2 DEF Held
    <3>4. lease' = [lease EXCEPT ![m] = [@ EXCEPT !.state = "COMPLETED"]]
      BY <2>1, <3>1, <3>3 DEF CompleteFetch, IsFetch, Gen, Job
    <3> QED
      BY <1>1, <3>4 DEF TypeInv, LeaseType
  <2> QED
    BY <2>1, <2>2, <2>3
<1> QED
  BY <1>2, <1>3

\* A worker's step makes no fetch that is over.
LEMMA WorkerLate ==
    ASSUME FaultStepping, ~Overtakes, NEW w \in Workers, Progress(w)
    PROVE  NoLateFetch'
<1> SUFFICES ASSUME NEW v \in Workers, NEW m \in Messages, worker'[v].msg = m, IsFetch(m)',
                    m.job \in row'.terminal,
                    worker'[v].pc \in {"lease", "call", "send", "merge"}
             PROVE  /\ worker'[v].pc = "lease"
                    /\ lease'[m].state = "COMPLETED" \/ \E u \in Workers : Settles(u, m)'
  BY DEF NoLateFetch
<1>1. TypeInv /\ FaultInv /\ Course(w) /\ m.job # Discover
  BY WorkerCourse DEF FaultStepping, Stepping, IsFetch
<1>2. CASE MergeOutcome(w) /\ worker[w].msg = m /\ Settles(w, m)'
  <2>1. v # w
    BY <1>2 DEF Settles
  <2>2. worker[w].pc \in Owning
    BY <1>2 DEF MergeOutcome, Fetching, At, Owning
  <2>3. Same(worker'[v], worker[v])
    BY <1>1, <2>1 DEF Course
  <2>4. worker[v].pc \notin Owning
    BY <1>1, <1>2, <2>1, <2>2, <2>3, OnlyOne DEF Same, FaultInv
  <2> QED
    BY <1>2, <2>3, <2>4 DEF Same, Owning
<1>3. CASE IsFetch(m) /\ m.job \in row.terminal
  <2>1. ASSUME lease[m].state = "COMPLETED" \/ \E u \in Workers : Settles(u, m)
        PROVE  lease'[m].state = "COMPLETED" \/ \E u \in Workers : Settles(u, m)'
    <3>1. CASE lease[m].state = "COMPLETED"
      BY <1>1, <3>1, CompletedStays
    <3>2. CASE \E u \in Workers : Settles(u, m)
      BY <1>3, <3>2, SettlesOn
    <3> QED
      BY <2>1, <3>1, <3>2
  <2>2. CASE v # w
    <3>1. Same(worker'[v], worker[v])
      BY <1>1, <2>2 DEF Course
    <3>2. worker[v].msg = m /\ worker[v].pc \in {"lease", "call", "send", "merge"}
      BY <3>1 DEF Same
    <3>3. /\ worker[v].pc = "lease"
          /\ lease[m].state = "COMPLETED" \/ \E u \in Workers : Settles(u, m)
      BY <1>1, <1>3, <3>2 DEF FaultInv, NoLateFetch
    <3> QED
      BY <2>1, <3>1, <3>3 DEF Same
  <2>3. CASE v = w
    <3>1. worker[w].msg = m
      BY <1>1, <2>3, CourseMessage
    <3>2. CASE worker'[w].pc = "lease"
      <4>1. BeginFetch(w)
        BY <1>1, <3>1, <3>2, WhereItArrives DEF BeginDiscovery, Discovering
      <4>2. Acknowledge(w)
        BY <1>3, <3>1, <4>1 DEF BeginFetch, Job
      <4>3. Moved(w, Idle)
        BY <1>1, <4>2, AcknowledgeMoves DEF Course, TypeInv
      <4>4. worker'[w].pc = "idle"
        BY <4>3, MovedTo DEF Same, Idle
      <4> QED
        BY <3>2, <4>4
    <3>3. CASE worker'[w].pc = "call"
      <4>1. AcquireLease(w)
        BY <1>1, <3>3, WhereItArrives
      <4>2. worker[w].pc = "lease" /\ LeaseFree(m)
        BY <3>1, <4>1 DEF AcquireLease, At
      <4>3. PICK u \in Workers : Settles(u, m)
        BY <1>1, <1>3, <3>1, <4>2 DEF FaultInv, NoLateFetch, LeaseFree
      <4>4. worker[u].pc \in Owning /\ worker[u].msg = m
        BY <4>3 DEF Settles, Owning
      <4>5. lease[m] = Held(u)
        BY <1>1, <4>4 DEF FaultInv, Alone
      <4>6. lease[m].owner = u /\ lease[m].state = "IN_PROGRESS"
        BY <4>5 DEF Held
      <4> QED
        BY <3>1, <4>1, <4>4, <4>6 DEF Overtakes, HolderLives
    <3>4. CASE worker'[w].pc \in {"send", "merge"}
      <4>1. worker[w].pc \in {"call", "send"}
        BY <1>1, <3>4, WhereItArrives
      <4> QED
        BY <1>1, <1>3, <3>1, <4>1 DEF FaultInv, NoLateFetch
    <3> QED
      BY <2>3, <3>2, <3>3, <3>4
  <2> QED
    BY <2>2, <2>3
<1> QED
  BY <1>2, <1>3, NewlyOver

\* A worker sends or records the halves of a half.
HalvesAHalf ==
    \E w \in Workers :
        /\ worker[w].pc \in {"send", "merge"} /\ worker[w].outcome = "SPLIT_PENDING"
        /\ Job(w) \notin Batches

\* A merge judges a part that it ends, and no part that is over loses its verdict
\* when none is fetched again.
LEMMA MergeJudges ==
    ASSUME NEW r, RowOK(r), NEW j \in Jobs, NEW outcome \in Outcomes,
           NEW got \in SUBSET Pairs, r.terminal \ Batches \subseteq r.done \cup r.bad,
           outcome = "SPLIT_PENDING" => j \in Batches, j \notin r.terminal
    PROVE  LET s == Merged(r, j, outcome, got)
           IN  s.terminal \ Batches \subseteq s.done \cup s.bad
<1> DEFINE s == Merged(r, j, outcome, got)
           l == Leaves(r, j, outcome)
           done == CASE outcome = "HTTP_200" -> r.done \cup {j}
                     [] outcome = "SPLIT_PENDING" -> r.done
                     [] OTHER -> r.done \ {j}
           bad == CASE outcome = "HTTP_200" -> r.bad \ {j}
                    [] outcome \in {"REQUEST_REJECTED", "RETRYABLE_ERROR"} -> r.bad \cup {j}
                    [] OTHER -> r.bad
<1>1. /\ s.done = IF Split(j, outcome) THEN l.done ELSE r.done
      /\ s.bad = IF Split(j, outcome) THEN l.bad ELSE r.bad
      /\ s.terminal = r.terminal \cup (IF outcome \in TerminalOutcomes THEN {j} ELSE {})
  BY MergedRow
<1> SUFFICES s.terminal \ Batches \subseteq s.done \cup s.bad
  OBVIOUS
<1>2. l.done = done /\ l.bad = bad
  <2> DEFINE front == IF outcome = "SPLIT_PENDING"
                      THEN (Frontier(r, j) \ {j}) \cup Children[j]
                      ELSE Frontier(r, j)
             wait == IF outcome = "QUOTA_DEFERRED" THEN r.waiting \cup {j}
                     ELSE r.waiting \ {j}
             all == {k \in r.frontier : RootOf[k] # RootOf[j]} \cup front
             waiting == (wait \cap all) \ (done \cup bad)
             scope == r.planPairs \cup ScopeOf[j]
  <2>1. l = [r EXCEPT !.frontier = all, !.done = done, !.bad = bad,
                      !.waiting = waiting, !.planPairs = scope]
    BY DEF Leaves
  <2>2. r \in Row
    BY DEF RowOK
  <2> HIDE DEF all, done, bad, waiting, scope, l
  <2> QED
    BY <2>1, <2>2 DEF Row
<1>3. CASE ~Split(j, outcome)
  BY <1>1, <1>3 DEF Split, IsLeaf
<1>4. CASE Split(j, outcome)
  <2> HIDE DEF s, l
  <2>1. CASE outcome = "HTTP_200"
    BY <1>1, <1>2, <1>4, <2>1
  <2>2. CASE outcome = "SPLIT_PENDING"
    BY <1>1, <1>2, <1>4, <2>2
  <2>3. CASE outcome \in {"REQUEST_REJECTED", "RETRYABLE_ERROR"}
    BY <1>1, <1>2, <1>4, <2>3
  <2>4. CASE outcome \in {"NONE", "STALE", "QUOTA_DEFERRED"}
    <3>1. outcome \notin TerminalOutcomes
      BY <2>4 DEF TerminalOutcomes
    <3> QED
      BY <1>1, <1>2, <1>4, <2>4, <3>1
  <2> QED
    BY <2>1, <2>2, <2>3, <2>4 DEF Outcomes
<1> QED
  BY <1>3, <1>4

\* Nor does any step of a worker take a verdict from a part.
LEMMA WorkerJudges ==
    ASSUME FaultStepping, ~HalvesAHalf, NEW w \in Workers, Progress(w)
    PROVE  PartsAreJudged'
<1>1. TypeInv /\ SplitInv /\ FaultInv /\ Course(w)
  BY WorkerCourse DEF FaultStepping, Stepping
<1>2. CASE RowIsStill
  BY <1>1, <1>2 DEF RowIsStill, SameEvidence, NoEvidence, FaultInv, PartsAreJudged
<1>3. CASE MarkEnqueued(w)
  <2>1. row' = row \/ row' = [row EXCEPT !.enqueued = @ \cup worker[w].sent]
    BY <1>3 DEF MarkEnqueued
  <2>2. /\ row'.planned = row.planned /\ row'.terminal = row.terminal
        /\ row'.done = row.done /\ row'.bad = row.bad
    BY <1>1, <2>1 DEF TypeInv, RowOK, Row
  <2> QED
    BY <1>1, <2>2 DEF FaultInv, PartsAreJudged
<1>4. CASE MergeOutcome(w)
  <2>1. /\ RowOK(row) /\ Job(w) \in Jobs /\ worker[w].outcome \in Outcomes
        /\ worker[w].got \in SUBSET Pairs /\ worker[w].msg \in Messages
        /\ worker[w].pc = "merge"
    BY <1>1, <1>4, BusyHasMessage, MergeOutcomeEffect
       DEF WorkerRecord, TypeInv, Course, MergeOutcome, Fetching, At
  <2>2. CASE row' = row
    BY <1>1, <2>2 DEF FaultInv, PartsAreJudged
  <2>3. ASSUME MergeAdmitted(row, Gen(w), Job(w), worker[w].outcome),
               row' = Merged(row, Job(w), worker[w].outcome, worker[w].got)
        PROVE  PartsAreJudged'
    <3>1. PICK m \in Messages : m = worker[w].msg
      BY <2>1
    <3>2. IsFetch(m) /\ m.job = Job(w)
      BY <2>1, <2>3, <3>1, TreeAssumption DEF MergeAdmitted, IsFetch, Gen, Job
    <3>3. Job(w) \notin row.terminal
      BY <1>1, <2>1, <3>1, <3>2 DEF FaultInv, NoLateFetch
    <3>4. worker[w].outcome = "SPLIT_PENDING" => Job(w) \in Batches
      BY <2>1 DEF HalvesAHalf
    <3>5. row.terminal \ Batches \subseteq row.done \cup row.bad
      BY <1>1, <2>3 DEF FaultInv, PartsAreJudged, MergeAdmitted, PlanCurrent
    <3>6. LET s == Merged(row, Job(w), worker[w].outcome, worker[w].got)
          IN  s.terminal \ Batches \subseteq s.done \cup s.bad
      BY <2>1, <3>3, <3>4, <3>5, MergeJudges
    <3> QED
      BY <2>3, <3>6 DEF PartsAreJudged
  <2> QED
    BY <1>1, <1>4, <2>2, <2>3, MergeOutcomeEffect
<1> QED
  BY <1>1, <1>2, <1>3, <1>4, WorkerIsStill

\* No step of a worker breaks the invariant.
LEMMA WorkerFaults ==
    ASSUME FaultStepping, ~Overtakes, ~HalvesAHalf, NEW w \in Workers, Progress(w),
           faults' = faults
    PROVE  FaultInv'
<1>1. ASSUME faults = 0, NEW m \in Messages, IsFetch(m)', Pending(m)'
      PROVE  /\ Once(m)'
             /\ m.job \in Batches => m.job \in row'.enqueued \/ \E v \in Workers : Marks(v, m)'
             /\ \A n \in Messages :
                   n.gen = m.gen /\ n.job \in Jobs /\ m.job \in Children[n.job] =>
                       n.job \in row'.terminal \/ \E v \in Workers : Halves(v, n, m)'
  BY <1>1, WorkerOnce, WorkerMarks, WorkerHalves
<1>2. faults = 0 => NothingTwice'
  BY <1>1 DEF NothingTwice
<1> QED
  BY <1>2, WorkerFans, WorkerLate, WorkerJudges DEF FaultInv, FaultStepping

\* When no worker moves, and no fetch is sent without a fault, nothing changes.
LEMMA EnvironmentFaults ==
    ASSUME Stepping, FaultInv, RowIsStill, worker' = worker, lease' = lease,
           \/ faults' # 0
           \/ faults = 0 /\ \A m \in Messages : m.job # Discover => queue'[m] = queue[m]
    PROVE  FaultInv'
<1>1. Alone'
  BY DEF FaultInv, Alone
<1>2. ASSUME faults' = 0 PROVE NothingTwice'
  <2> SUFFICES ASSUME NEW m \in Messages, IsFetch(m)', Pending(m)'
               PROVE  /\ Once(m)'
                      /\ m.job \in Batches =>
                            m.job \in row'.enqueued \/ \E v \in Workers : Marks(v, m)'
                      /\ \A n \in Messages :
                            n.gen = m.gen /\ n.job \in Jobs /\ m.job \in Children[n.job] =>
                                n.job \in row'.terminal \/ \E v \in Workers : Halves(v, n, m)'
    BY DEF NothingTwice
  <2>1. queue'[m] = queue[m] /\ faults = 0
    BY <1>2, FetchBefore
  <2>2. Pending(m) /\ (Once(m) => Once(m)')
    BY <2>1 DEF Pending, Once, Has
  <2>3. IsFetch(m) /\ row.enqueued \subseteq row'.enqueued /\ row.terminal \subseteq row'.terminal
    BY <2>2, FetchBefore, FetchAfter
  <2>4. ASSUME NEW v \in Workers
        PROVE  /\ Marks(v, m) => Marks(v, m)'
               /\ \A n \in Messages : Halves(v, n, m) => Halves(v, n, m)'
    BY DEF Marks, Halves
  <2> QED
    BY <2>1, <2>2, <2>3, <2>4 DEF FaultInv, NothingTwice
<1>3. FansFresh' /\ NoLateFetch'
  <2>1. CASE NoEvidence(row')
    BY <2>1 DEF FansFresh, NoLateFetch, NoEvidence
  <2>2. CASE SameEvidence(row', row)
    <3>1. \A m \in Messages : IsFetch(m)' <=> IsFetch(m)
      BY <2>2 DEF SameEvidence, IsFetch, PlanCurrent
    <3>2. \A v \in Workers, m \in Messages : Settles(v, m)' <=> Settles(v, m)
      BY DEF Settles
    <3>3. NoLateFetch'
      BY <2>2, <3>1, <3>2 DEF FaultInv, NoLateFetch, SameEvidence
    <3>4. FansFresh'
      BY <2>2 DEF FaultInv, FansFresh, SameEvidence, PlanCurrent
    <3> QED
      BY <3>3, <3>4
  <2> QED
    BY <2>1, <2>2 DEF RowIsStill
<1>4. PartsAreJudged'
  BY DEF FaultInv, PartsAreJudged, RowIsStill, SameEvidence, NoEvidence
<1> QED
  BY <1>1, <1>2, <1>3, <1>4 DEF FaultInv

\* The first fault may be a crash: nobody waits for the lease of a worker that
\* dies with its fetch over, for the fetch had no other delivery.
LEMMA CrashFaults ==
    ASSUME Stepping, FaultInv, faults' <= 1, NEW w \in Workers, Crash(w)
    PROVE  FaultInv'
<1>1. /\ faults = 0 /\ faults' # 0 /\ row' = row /\ lease' = lease
      /\ worker[w].pc # "idle"
  BY BoundsAssumption DEF Crash, Stepping, TypeInv
<1>2. /\ worker'[w].pc = "idle"
      /\ \A v \in Workers : v # w => Same(worker'[v], worker[v])
  <2>1. Moved(w, Idle) /\ Idle.pc = "idle"
    BY CrashEffect DEF Idle, Stepping
  <2> HIDE DEF Idle
  <2> QED
    BY <2>1, MovedTo DEF Same
<1>3. Alone'
  BY <1>1, <1>2 DEF FaultInv, Alone, Same, Owning
<1>4. FansFresh'
  <2> SUFFICES ASSUME NEW v \in Workers, worker'[v].msg.job = Discover,
                      PlanCurrent(row', worker'[v].msg.gen)
               PROVE  /\ worker'[v].pc = "fanout" => worker'[v].todo \cap row'.enqueued = {}
                      /\ worker'[v].pc = "mark" =>
                            (worker'[v].todo \ worker'[v].sent) \cap row'.enqueued = {}
    BY DEF FansFresh
  <2>1. CASE v = w
    BY <1>2, <2>1
  <2>2. CASE v # w
    BY <1>1, <1>2, <2>2 DEF FaultInv, FansFresh, Same
  <2> QED
    BY <2>1, <2>2
<1>5. NoLateFetch'
  <2> SUFFICES ASSUME NEW v \in Workers, NEW m \in Messages, worker'[v].msg = m, IsFetch(m)',
                      m.job \in row'.terminal,
                      worker'[v].pc \in {"lease", "call", "send", "merge"}
               PROVE  /\ worker'[v].pc = "lease"
                      /\ lease'[m].state = "COMPLETED" \/ \E u \in Workers : Settles(u, m)'
    BY DEF NoLateFetch
  <2>1. v # w
    BY <1>2
  <2>2. Same(worker'[v], worker[v])
    BY <1>2, <2>1
  <2>3. /\ worker[v].msg = m /\ IsFetch(m) /\ m.job \in row.terminal
        /\ worker[v].pc \in {"lease", "call", "send", "merge"}
    BY <1>1, <2>2 DEF Same, IsFetch
  <2>4. /\ worker[v].pc = "lease"
        /\ lease[m].state = "COMPLETED" \/ \E u \in Workers : Settles(u, m)
    BY <2>3 DEF FaultInv, NoLateFetch
  <2>5. ASSUME NEW u \in Workers, Settles(u, m) PROVE Settles(u, m)'
    <3>1. Has(u, m) /\ Has(v, m) /\ Pending(m)
      BY <2>3, <2>5 DEF Has, Settles, Pending
    <3>2. u = v
      BY <1>1, <2>3, <3>1 DEF FaultInv, NothingTwice, Once
    <3> QED
      BY <2>4, <2>5, <3>2 DEF Settles
  <2> QED
    BY <1>1, <2>2, <2>4, <2>5 DEF Same
<1>6. PartsAreJudged'
  BY <1>1 DEF FaultInv, PartsAreJudged
<1> QED
  BY <1>1, <1>3, <1>4, <1>5, <1>6 DEF FaultInv

\* A delivery makes a message no second one.
LEMMA ReceiveFaults ==
    ASSUME Stepping, FaultInv, NEW w \in Workers, NEW k \in Messages, Receive(w, k)
    PROVE  FaultInv'
<1>1. /\ faults' = faults /\ row' = row /\ lease' = lease /\ worker[w].pc = "idle"
      /\ queue[k] > 0 /\ queue'[k] = queue[k] - 1 /\ queue[k] \in Nat
      /\ \A n \in Messages : n # k => queue'[n] = queue[n]
  BY DEF Receive, At, Stepping, TypeInv
<1>2. /\ worker'[w].pc = "begin" /\ worker'[w].msg = k
      /\ \A v \in Workers : v # w => Same(worker'[v], worker[v])
  <2>1. Moved(w, Given(k)) /\ Given(k).pc = "begin" /\ Given(k).msg = k
    BY ReceiveEffect DEF Stepping
  <2> HIDE DEF Given
  <2> QED
    BY <2>1, MovedTo DEF Same
<1>3. Alone'
  BY <1>1, <1>2 DEF FaultInv, Alone, Same, Owning
<1>4. FansFresh'
  <2> SUFFICES ASSUME NEW v \in Workers, worker'[v].msg.job = Discover,
                      PlanCurrent(row', worker'[v].msg.gen)
               PROVE  /\ worker'[v].pc = "fanout" => worker'[v].todo \cap row'.enqueued = {}
                      /\ worker'[v].pc = "mark" =>
                            (worker'[v].todo \ worker'[v].sent) \cap row'.enqueued = {}
    BY DEF FansFresh
  <2>1. CASE v = w
    BY <1>2, <2>1
  <2>2. CASE v # w
    BY <1>1, <1>2, <2>2 DEF FaultInv, FansFresh, Same
  <2> QED
    BY <2>1, <2>2
<1>5. NoLateFetch'
  <2> SUFFICES ASSUME NEW v \in Workers, NEW m \in Messages, worker'[v].msg = m, IsFetch(m)',
                      m.job \in row'.terminal,
                      worker'[v].pc \in {"lease", "call", "send", "merge"}
               PROVE  /\ worker'[v].pc = "lease"
                      /\ lease'[m].state = "COMPLETED" \/ \E u \in Workers : Settles(u, m)'
    BY DEF NoLateFetch
  <2>1. Same(worker'[v], worker[v])
    BY <1>2
  <2>2. /\ worker[v].msg = m /\ IsFetch(m) /\ m.job \in row.terminal
        /\ worker[v].pc \in {"lease", "call", "send", "merge"}
    BY <1>1, <2>1 DEF Same, IsFetch
  <2>3. /\ worker[v].pc = "lease"
        /\ lease[m].state = "COMPLETED" \/ \E u \in Workers : Settles(u, m)
    BY <2>2 DEF FaultInv, NoLateFetch
  <2>4. ASSUME NEW u \in Workers, Settles(u, m) PROVE Settles(u, m)'
    <3>1. u # w
      BY <1>1, <2>4 DEF Settles
    <3> QED
      BY <1>2, <2>4, <3>1, SameHas
  <2> QED
    BY <1>1, <2>1, <2>3, <2>4 DEF Same
<1>6. PartsAreJudged'
  BY <1>1 DEF FaultInv, PartsAreJudged
<1>7. ASSUME faults' = 0 PROVE NothingTwice'
  <2> SUFFICES ASSUME NEW m \in Messages, IsFetch(m)', Pending(m)'
               PROVE  /\ Once(m)'
                      /\ m.job \in Batches =>
                            m.job \in row'.enqueued \/ \E v \in Workers : Marks(v, m)'
                      /\ \A n \in Messages :
                            n.gen = m.gen /\ n.job \in Jobs /\ m.job \in Children[n.job] =>
                                n.job \in row'.terminal \/ \E v \in Workers : Halves(v, n, m)'
    BY DEF NothingTwice
  <2>1. \A v \in Workers : v # w => (Has(v, m)' <=> Has(v, m))
    BY <1>2, SameHas
  <2>2. Has(w, m)' => m = k
    BY <1>2 DEF Has
  <2>3. Pending(m)
    <3>1. CASE m = k
      BY <1>1, <3>1 DEF Pending
    <3>2. CASE m # k
      BY <1>1, <2>1, <2>2, <3>2 DEF Pending, Has
    <3> QED
      BY <3>1, <3>2
  <2>4. IsFetch(m) /\ faults = 0
    BY <1>1, <1>7 DEF IsFetch
  <2>5. Once(m)
    BY <2>3, <2>4 DEF FaultInv, NothingTwice
  <2>6. Once(m)'
    <3>1. CASE m = k
      <4>1. queue[k] = 1 /\ queue'[k] = 0
        BY <1>1, <2>5, <3>1 DEF Once
      <4>2. \A v \in Workers : ~Has(v, m)
        BY <2>5, <3>1, <4>1 DEF Once
      <4> QED
        BY <2>1, <3>1, <4>1, <4>2 DEF Once
    <3>2. CASE m # k
      <4>1. queue'[m] = queue[m] /\ ~Has(w, m)'
        BY <1>1, <2>2, <3>2
      <4> QED
        BY <2>1, <2>5, <4>1 DEF Once
    <3> QED
      BY <3>1, <3>2
  <2>7. ASSUME NEW v \in Workers
        PROVE  /\ Marks(v, m) => Marks(v, m)'
               /\ \A n \in Messages : Halves(v, n, m) => Halves(v, n, m)'
    <3>1. CASE v = w
      BY <1>1, <3>1 DEF Marks, Halves
    <3>2. CASE v # w
      BY <1>2, <3>2, SameHas
    <3> QED
      BY <3>1, <3>2
  <2> QED
    BY <1>1, <2>3, <2>4, <2>6, <2>7 DEF FaultInv, NothingTwice
<1> QED
  BY <1>1, <1>3, <1>4, <1>5, <1>6, <1>7 DEF FaultInv

\* No step breaks the invariant.
LEMMA StepKeepsFaults ==
    ASSUME TypeInv, DeliveryInv, SplitInv, FaultInv, [Next]_vars, [~Overtakes]_vars,
           ~HalvesAHalf, faults' <= 1
    PROVE  FaultInv'
<1>1. TypeInv' /\ Grows(row, row')
  BY StepGrows
<1>2. /\ Turns(row, row') => RowIsStill
      /\ row' = row => RowIsStill
  BY DEF RowIsStill, Turns, SameEvidence
<1>3. faults \in Nat
  BY BoundsAssumption DEF TypeInv
<1>4. CASE Dispatch
  <2>1. /\ open' = open /\ worker' = worker /\ lease' = lease /\ queue' = queue
        /\ faults' = faults \/ faults' = faults + 1
    BY <1>4 DEF Dispatch
  <2>2. Stepping /\ RowIsStill
    BY <1>1, <1>2, <1>4, <2>1, DispatchEffect DEF Stepping
  <2> QED
    BY <1>3, <2>1, <2>2, EnvironmentFaults
<1>5. CASE SendDiscovery
  <2>1. open' = open /\ worker' = worker /\ lease' = lease /\ faults' = faults /\ row' = row
    BY <1>5 DEF SendDiscovery
  <2>2. Stepping /\ \A m \in Messages : m.job # Discover => queue'[m] = queue[m]
    BY <1>1, <1>5, <2>1, SendDiscoveryEffect DEF Stepping
  <2> QED
    BY <1>2, <2>1, <2>2, EnvironmentFaults
<1>6. CASE MarkDispatched \/ DispatchFails
  <2>1. /\ open' = open /\ worker' = worker /\ lease' = lease /\ queue' = queue
        /\ faults' = faults \/ faults' = faults + 1
    BY <1>6 DEF MarkDispatched, DispatchFails
  <2>2. Stepping /\ RowIsStill
    BY <1>1, <1>2, <1>6, <2>1, DispatcherEffect DEF Stepping
  <2> QED
    BY <1>3, <2>1, <2>2, EnvironmentFaults
<1>7. CASE Close
  <2>1. /\ worker' = worker /\ lease' = lease /\ queue' = queue /\ faults' = faults
        /\ row' = row /\ open' = FALSE
    BY <1>7 DEF Close
  <2>2. Stepping
    BY <1>1, <2>1 DEF Stepping
  <2> QED
    BY <1>2, <2>1, <2>2, EnvironmentFaults
<1>8. ASSUME ~Overtakes, NEW w \in Workers, Progress(w) PROVE FaultInv'
  <2>1. open' = open /\ faults' = faults
    BY <1>8 DEF Progress, BeginDiscovery, BeginFetch, AcquireLease, LeaseRefused, Attempt,
                DiscoveryDeferred, DiscoveryRejected, DiscoveryAnswered, PutPlan,
                FanoutExpected, EnqueueBatch, MarkEnqueued, CompleteFanout,
                CompleteDiscovery, FetchStale, FetchUnanswered, FetchAnswered, FetchSplit,
                SendChild, MergeOutcome, MintCertificate, CompleteFetch
  <2>2. Alone'
    BY <1>1, <1>8, WorkerCourse, CourseAlone DEF FaultInv
  <2>3. FaultStepping
    BY <1>1, <2>1, <2>2 DEF FaultStepping, Stepping
  <2> QED
    BY <1>8, <2>1, <2>3, WorkerFaults
<1>9. ASSUME NEW w \in Workers, Crash(w) PROVE FaultInv'
  <2>1. Stepping
    BY <1>1, <1>9 DEF Stepping, Crash
  <2> QED
    BY <1>9, <2>1, CrashFaults
<1>10. ASSUME NEW m \in Messages, Duplicate(m) PROVE FaultInv'
  <2>1. /\ open' = open /\ worker' = worker /\ lease' = lease /\ row' = row
        /\ faults' = faults + 1
    BY <1>10 DEF Duplicate
  <2>2. Stepping
    BY <1>1, <2>1 DEF Stepping
  <2> QED
    BY <1>2, <1>3, <2>1, <2>2, EnvironmentFaults
<1>11. ASSUME NEW m \in Messages, NEW w \in Workers, Receive(w, m) PROVE FaultInv'
  <2>1. Stepping
    BY <1>1, <1>11 DEF Stepping, Receive
  <2> QED
    BY <1>11, <2>1, ReceiveFaults
<1>12. CASE UNCHANGED vars
  <2>1. /\ open' = open /\ worker' = worker /\ lease' = lease /\ queue' = queue
        /\ faults' = faults /\ row' = row
    BY <1>12 DEF vars
  <2>2. Stepping
    BY <1>1, <2>1 DEF Stepping
  <2> QED
    BY <1>2, <2>1, <2>2, EnvironmentFaults
<1> QED
  BY <1>4, <1>5, <1>6, <1>7, <1>8, <1>9, <1>10, <1>11, <1>12 DEF Next

\* At the start nobody works and nothing is over.
LEMMA InitFaults == Init => FaultInv
<1> SUFFICES ASSUME Init PROVE FaultInv
  OBVIOUS
<1>1. /\ ~row.planned /\ row.terminal = {}
      /\ \A w \in Workers : worker[w].pc = "idle"
  BY DEF Init, EmptyRow, Idle
<1>2. Alone
  BY <1>1 DEF Alone, Owning
<1> QED
  BY <1>1, <1>2 DEF FaultInv, NothingTwice, FansFresh, NoLateFetch, PartsAreJudged, IsFetch,
                    PlanCurrent

(***************************************************************************)
(* While only batches are halved, a fetch is of a batch or of its half.    *)
(***************************************************************************)

FirstHalves == UNION {Children[b] : b \in Batches}
Shallow == Batches \cup FirstHalves

ShallowInv ==
    /\ \A m \in Messages : m.job # Discover /\ Pending(m) => m.job \in Shallow
    /\ row.frontier \subseteq Shallow

\* What a shallow fetch carries is shallow.
LEMMA CarriedShallow ==
    ASSUME NEW j \in Jobs, j \in Shallow
    PROVE  Carried[j] \subseteq Shallow
<1>1. CASE j \in Batches
  BY <1>1, CarriedEquation
<1>2. CASE j \notin Batches
  <2>1. PICK b \in Batches : j \in Children[b]
    BY <1>2 DEF Shallow, FirstHalves
  <2>2. b \in Jobs /\ ParentOf(j) = b
    BY <2>1, TreeAssumption, ChildrenHaveAParent
  <2>3. Carried[j] = (Carried[b] \ {b}) \cup Children[b] /\ Carried[b] = {}
    BY <1>2, <2>2, CarriedEquation
  <2> QED
    BY <2>1, <2>3 DEF Shallow, FirstHalves
<1> QED
  BY <1>1, <1>2

\* A merge adds leaves of its own root, or the halves of a batch.
LEMMA MergeShallow ==
    ASSUME NEW r, RowOK(r), r.frontier \subseteq Shallow, NEW j \in Jobs, j \in Shallow,
           NEW outcome \in Outcomes, NEW got \in SUBSET Pairs,
           outcome = "SPLIT_PENDING" => j \in Batches
    PROVE  Merged(r, j, outcome, got).frontier \subseteq Shallow
<1> DEFINE front == IF outcome = "SPLIT_PENDING"
                    THEN (Frontier(r, j) \ {j}) \cup Children[j]
                    ELSE Frontier(r, j)
           all == {k \in r.frontier : RootOf[k] # RootOf[j]} \cup front
           l == Leaves(r, j, outcome)
<1>1. Frontier(r, j) \subseteq Shallow
  BY CarriedShallow DEF Frontier, Group
<1>2. outcome = "SPLIT_PENDING" => Children[j] \subseteq Shallow
  BY DEF Shallow, FirstHalves
<1>3. all \subseteq Shallow
  BY <1>1, <1>2
<1>4. l.frontier = all
  <2>1. r \in Row
    BY DEF RowOK
  <2> DEFINE done == CASE outcome = "HTTP_200" -> r.done \cup {j}
                       [] outcome = "SPLIT_PENDING" -> r.done
                       [] OTHER -> r.done \ {j}
             bad == CASE outcome = "HTTP_200" -> r.bad \ {j}
                      [] outcome \in {"REQUEST_REJECTED", "RETRYABLE_ERROR"} -> r.bad \cup {j}
                      [] OTHER -> r.bad
             wait == IF outcome = "QUOTA_DEFERRED" THEN r.waiting \cup {j}
                     ELSE r.waiting \ {j}
             waiting == (wait \cap all) \ (done \cup bad)
             scope == r.planPairs \cup ScopeOf[j]
  <2>2. l = [r EXCEPT !.frontier = all, !.done = done, !.bad = bad,
                      !.waiting = waiting, !.planPairs = scope]
    BY DEF Leaves
  <2> HIDE DEF all, done, bad, waiting, scope, l
  <2> QED
    BY <2>1, <2>2 DEF Row
<1>5. Merged(r, j, outcome, got).frontier = IF Split(j, outcome) THEN l.frontier ELSE r.frontier
  BY MergedRow
<1> HIDE DEF all, l
<1> QED
  BY <1>3, <1>4, <1>5

\* A step leaves the leaves, or starts anew, unless a worker merges.
LEMMA LeavesChangeByMerge ==
    ASSUME TypeInv, [Next]_vars, ~\E w \in Workers : MergeOutcome(w)
    PROVE  row'.frontier \subseteq row.frontier
<1>1. RowIsStill => row'.frontier \subseteq row.frontier
  BY DEF RowIsStill, SameEvidence, NoEvidence
<1>2. (Turns(row, row') \/ row' = row) => RowIsStill
  BY DEF RowIsStill, Turns, SameEvidence
<1>3. CASE Dispatch
  BY <1>1, <1>2, <1>3, DispatchEffect
<1>4. CASE MarkDispatched \/ DispatchFails
  BY <1>1, <1>2, <1>4, DispatcherEffect
<1>5. ASSUME NEW w \in Workers, Progress(w), MarkEnqueued(w)
      PROVE  row'.frontier \subseteq row.frontier
  <2>1. row' = row \/ row' = [row EXCEPT !.enqueued = @ \cup worker[w].sent]
    BY <1>5 DEF MarkEnqueued
  <2> QED
    BY <2>1 DEF TypeInv, RowOK, Row
<1>6. ASSUME NEW w \in Workers, Progress(w), ~MarkEnqueued(w)
      PROVE  row'.frontier \subseteq row.frontier
  BY <1>1, <1>6, WorkerIsStill
<1>7. \/ SendDiscovery \/ Close \/ UNCHANGED vars
      \/ \E w \in Workers : Crash(w)
      \/ \E m \in Messages : Duplicate(m) \/ \E w \in Workers : Receive(w, m)
      => row' = row
  BY DEF SendDiscovery, Close, vars, Crash, Duplicate, Receive
<1> QED
  BY <1>3, <1>4, <1>5, <1>6, <1>7 DEF Next

\* Every step from a state in which no half is being halved stays shallow.
LEMMA StepStaysShallow ==
    ASSUME TypeInv, DeliveryInv, SplitInv, ShallowInv, ~HalvesAHalf, [Next]_vars
    PROVE  ShallowInv'
<1>1. ASSUME NEW m \in Messages, m.job # Discover, Pending(m)' PROVE m.job \in Shallow
  <2>1. Pending(m) \/ SentByOwner(m)
    BY <1>1, StepDelivers DEF Delivered, NothingForged
  <2>2. ASSUME SentByOwner(m), m.job \notin Batches PROVE m.job \in Shallow
    <3>1. PICK w \in Workers : Fetching(w, "send") /\ m.job \in worker[w].todo
      BY <2>2 DEF SentByOwner
    <3>2. worker[w].pc = "send" /\ worker[w].outcome = "SPLIT_PENDING"
      BY <3>1 DEF Fetching, At, SplitInv, PartsAreSent
    <3>3. PICK n \in Messages : n = worker[w].msg
      BY <3>2, BusyHasMessage DEF TypeInv
    <3>4. worker[w].todo \subseteq Children[n.job] /\ n.job = Job(w)
      BY <3>2, <3>3 DEF SplitInv, PartsAreSent, HasSent, Job
    <3>5. Job(w) \in Batches
      BY <3>2 DEF HalvesAHalf
    <3> QED
      BY <3>1, <3>4, <3>5 DEF Shallow, FirstHalves
  <2> QED
    BY <1>1, <2>1, <2>2 DEF ShallowInv, Shallow
<1>2. ASSUME NEW w \in Workers, MergeOutcome(w) PROVE row'.frontier \subseteq Shallow
  <2>1. /\ RowOK(row) /\ Job(w) \in Jobs /\ worker[w].outcome \in Outcomes
        /\ worker[w].got \in SUBSET Pairs /\ worker[w].msg \in Messages
        /\ worker[w].pc = "merge"
    BY <1>2, BusyHasMessage, MergeOutcomeEffect
       DEF WorkerRecord, TypeInv, MergeOutcome, Fetching, At, WorkersOK, WorkerOK
  <2>2. PICK n \in Messages : n = worker[w].msg
    BY <2>1
  <2>3. Pending(n) /\ n.job = Job(w) /\ n.job # Discover
    BY <2>1, <2>2, TreeAssumption DEF Pending, Job
  <2>4. Job(w) \in Shallow /\ row.frontier \subseteq Shallow
    BY <2>3 DEF ShallowInv
  <2>5. worker[w].outcome = "SPLIT_PENDING" => Job(w) \in Batches
    BY <2>1 DEF HalvesAHalf
  <2>6. Merged(row, Job(w), worker[w].outcome, worker[w].got).frontier \subseteq Shallow
    BY <2>1, <2>4, <2>5, MergeShallow
  <2> QED
    BY <1>2, <2>4, <2>6, MergeOutcomeEffect
<1>3. row'.frontier \subseteq Shallow
  BY <1>2, LeavesChangeByMerge DEF ShallowInv
<1> QED
  BY <1>1, <1>3 DEF ShallowInv

\* At the start nothing is fetched.
LEMMA InitShallow == Init => ShallowInv
<1> SUFFICES ASSUME Init PROVE ShallowInv
  OBVIOUS
<1>1. row.frontier = {} /\ \A m \in Messages : ~Pending(m)
  BY DEF Init, EmptyRow, Idle, Pending
<1> QED
  BY <1>1 DEF ShallowInv

\* No leaf is a part of another while only batches are halved.
LEMMA ShallowLeavesApart ==
    ASSUME row.frontier \cap Batches = {}, ShallowInv, NEW l \in row.frontier,
           NEW p \in row.frontier
    PROVE  l \notin Children[p]
<1> SUFFICES ASSUME l \in Children[p] PROVE FALSE
  OBVIOUS
<1>1. PICK b \in Batches : l \in Children[b]
  BY DEF ShallowInv, Shallow, FirstHalves
<1>2. PICK c \in Batches : p \in Children[c]
  BY DEF ShallowInv, Shallow, FirstHalves
<1>3. p \in Jobs /\ b \in Jobs
  BY <1>2, TreeAssumption
<1>4. p = b
  BY <1>1, <1>3, TreeAssumption
<1> QED
  BY <1>4

\* What strands a split: until a lease is taken from a live worker, a second fault
\* happens, or the halves of a half are sent, a split batch without a verdict has
\* a delivery that can still bring one, for any workers, batches and generations.
\* Each of the three does strand one.
THEOREM WhatStrandsASplit ==
    Spec => \/ []NoSplitStranded
            \/ <><<Overtakes>>_vars \/ <>(faults > 1) \/ <>HalvesAHalf
<1> DEFINE IInv == TypeInv /\ DeliveryInv /\ HonestyInv /\ SplitInv /\ FaultInv /\ ShallowInv
           Fine == ~(faults > 1) /\ ~HalvesAHalf
<1>1. IInv /\ [Next]_vars /\ [~Overtakes]_vars /\ Fine /\ Fine' => IInv'
  <2> SUFFICES ASSUME IInv, [Next]_vars, [~Overtakes]_vars, Fine, Fine' PROVE IInv'
    OBVIOUS
  <2>1. TypeInv' /\ DeliveryInv' /\ HonestyInv' /\ SplitInv' /\ ShallowInv'
    BY StepGrows, StepDelivers, StepIsHonest, StepKeepsSplits, StepStaysShallow DEF Delivered
  <2>2. faults' <= 1
    BY <2>1, BoundsAssumption DEF TypeInv
  <2>3. FaultInv'
    BY <2>2, StepKeepsFaults
  <2> QED
    BY <2>1, <2>3
<1>2. ASSUME IInv, StrandedByRecordOnly PROVE NoSplitStranded
  <2>1. CASE ~row.planned
    BY <2>1 DEF NoSplitStranded
  <2>2. CASE row.planned
    <3>1. row.gen \in 0..MaxGen
      BY <1>2 DEF TypeInv, RowOK, Row
    <3>2. row.frontier \cap Batches = {}
      BY <1>2, <3>1 DEF HonestyInv, RowIsHonest, HonestRow
    <3>3. \A l, p \in row.frontier : l \notin Children[p]
      BY <1>2, <3>2, ShallowLeavesApart
    <3>4. LeavesAreTrue
      BY <1>2, <2>2, <3>2, <3>3 DEF LeavesAreTrue, FaultInv, PartsAreJudged
    <3> QED
      BY <1>2, <3>4 DEF StrandedByRecordOnly
  <2> QED
    BY <2>1, <2>2
<1>3. Init => IInv
  BY InitType, InitDelivers, InitIsHonest, InitSplits, InitFaults, InitShallow
<1> QED
  BY <1>1, <1>2, <1>3, StrandedOnlyByRecord, PTL DEF Spec
=============================================================================
