------------------------ MODULE CoverageLedgerProofs ------------------------
(***************************************************************************)
(* CoverageCycle implements CoverageLedger, for any workers, generations,  *)
(* trees of split batches, faults and leases that may lapse.               *)
(*                                                                         *)
(* The argument.  The refinement mapping only forgets: the ledger is part  *)
(* of the row, with the answers and the certificates.  A step that touches *)
(* the row without evidence is a stutter, a later generation or its plan;  *)
(* marks and merges enter what is there to stay (Grows) and true           *)
(* (HonestyInv); a worker that mints has a sound cycle in hand and is of a *)
(* generation that was dispatched (DeliveryInv).  What is new here is that *)
(* a row without a plan has nothing to lose (PlanlessRow).                 *)
(***************************************************************************)
EXTENDS CoverageCycleProofs

\* Without a plan nothing has been entered.
PlanlessRow ==
    ~row.planned => /\ row.enqueued = {} /\ row.succeeded = {}
                    /\ row.terminal = {} /\ row.returned = {}

\* The ledger counts as answered what the proofs of the cycle say is covered.
LEMMA LedgerTerms ==
    /\ \A S, j : Ledger!Settles(S, j) <=> Covers(S, j)
    /\ \A g : Ledger!JobsOf(g) = AnsweredJobs(g) /\ Ledger!PairsOf(g) = PairsReturned(g)
<1>1. ASSUME NEW S, NEW j PROVE Ledger!Settles(S, j) <=> Covers(S, j)
  <2>1. \A X : Ledger!UpClosed(X) <=> UpClosed(X)
    BY DEF Ledger!UpClosed, UpClosed
  <2> QED
    BY <2>1 DEF Ledger!Settles, Covers
<1>2. ASSUME NEW g
      PROVE  Ledger!JobsOf(g) = AnsweredJobs(g) /\ Ledger!PairsOf(g) = PairsReturned(g)
  BY DEF Ledger!JobsOf, Ledger!PairsOf, AnsweredJobs, PairsReturned
<1> QED
  BY <1>1, <1>2

\* The cycle starts as the ledger does.
LEMMA LedgerInit == Init => Ledger!Init /\ PlanlessRow
BY DEF Init, Ledger!Init, EmptyRow, PlanlessRow

\* What the ledger does not see is a stutter.
LEMMA Unseen ==
    ASSUME PlanlessRow, SameEvidence(row', row), answered' = answered, certs' = certs
    PROVE  PlanlessRow' /\ UNCHANGED Ledger!vars
BY DEF SameEvidence, PlanlessRow, Ledger!vars, Ledger!plan

\* A row that is touched without evidence, or starts anew.
LEMMA TurnsInLedger ==
    ASSUME TypeInv, TypeInv', PlanlessRow, Turns(row, row'), answered' = answered,
           certs' = certs
    PROVE  PlanlessRow' /\ [Ledger!Next]_(Ledger!vars)
<1>1. CASE SameEvidence(row', row)
  BY <1>1, Unseen
<1>2. CASE NoEvidence(row') /\ row.gen < row'.gen /\ ~row'.planned
  <2>1. row.gen \in 0..MaxGen /\ row'.gen \in 0..MaxGen
    BY DEF TypeInv, RowOK, Row
  <2>2. row'.gen \in Gens /\ row'.gen > row.gen
    BY <1>2, <2>1, BoundsAssumption DEF Gens
  <2>3. row'.planned = FALSE
    BY <1>2 DEF TypeInv, RowOK, Row
  <2>4. Ledger!Supersede
    BY <1>2, <2>2, <2>3 DEF Ledger!Supersede, NoEvidence
  <2> QED
    BY <1>2, <2>4 DEF Ledger!Next, PlanlessRow, NoEvidence
<1>3. CASE NoEvidence(row') /\ row.gen = row'.gen /\ ~row.planned
  <2>1. /\ row'.enqueued = row.enqueued /\ row'.succeeded = row.succeeded
        /\ row'.terminal = row.terminal /\ row'.returned = row.returned
    BY <1>3 DEF PlanlessRow, NoEvidence
  <2>2. row.planned = FALSE /\ row'.planned \in BOOLEAN
    BY <1>3 DEF TypeInv, RowOK, Row
  <2>3. CASE row'.planned
    <3>1. Ledger!Publish
      BY <1>3, <2>1, <2>2, <2>3 DEF Ledger!Publish, Ledger!plan
    <3> QED
      BY <2>3, <3>1 DEF Ledger!Next, PlanlessRow
  <2>4. CASE ~row'.planned
    BY <1>3, <2>1, <2>2, <2>4 DEF Ledger!vars, Ledger!plan, PlanlessRow
  <2> QED
    BY <2>3, <2>4
<1> QED
  BY <1>1, <1>2, <1>3 DEF Turns, SameEvidence

\* Evidence that is added to the plan is entered, and it is true.
LEMMA EntersLedger ==
    ASSUME TypeInv, TypeInv', HonestyInv', row.planned, Grows(row, row'),
           row'.gen = row.gen, row'.planned = row.planned, answered' = answered,
           certs' = certs
    PROVE  PlanlessRow' /\ Ledger!Enter
<1>1. PICK g \in 0..MaxGen : g = row.gen
  BY DEF TypeInv, RowOK, Row
<1>2. AnsweredJobs(g)' = AnsweredJobs(g) /\ PairsReturned(g)' = PairsReturned(g)
  BY DEF AnsweredJobs, PairsReturned
<1>3. HonestRow(row', AnsweredJobs(g), PairsReturned(g))
  BY <1>1, <1>2 DEF HonestyInv, RowIsHonest
<1>4. /\ row.enqueued \subseteq row'.enqueued /\ row.succeeded \subseteq row'.succeeded
      /\ row.terminal \subseteq row'.terminal /\ row.returned \subseteq row'.returned
  BY DEF Grows
<1>5. /\ row'.enqueued \subseteq Batches /\ row'.terminal \subseteq Jobs
      /\ row'.succeeded \subseteq Batches
  BY DEF TypeInv, RowOK, Row
<1>6. /\ \A b \in row'.succeeded : b \in Batches /\ Ledger!Settles(Ledger!JobsOf(row.gen), b)
      /\ row'.returned \subseteq Ledger!PairsOf(row.gen)
  BY <1>1, <1>3, <1>5, LedgerTerms DEF HonestRow
<1> QED
  BY <1>4, <1>5, <1>6 DEF Ledger!Enter, PlanlessRow

\* A certificate is minted for a sound plan that was dispatched.
LEMMA Certifies ==
    ASSUME PlanlessRow, NEW g \in Gens, g <= row.gen, Sound(g), row' = row,
           answered' = answered, certs' = certs \cup {g}
    PROVE  PlanlessRow' /\ [Ledger!Next]_(Ledger!vars)
<1>1. \A b \in Batches : Ledger!Settles(Ledger!JobsOf(g), b)
  BY LedgerTerms DEF Sound, Covered, Covers
<1>2. Required \subseteq Ledger!PairsOf(g)
  BY LedgerTerms DEF Sound
<1>3. Ledger!Certify(g)
  BY <1>1, <1>2 DEF Ledger!Certify, Ledger!plan
<1> QED
  BY <1>3 DEF Ledger!Next, PlanlessRow

\* A discovery, or a step any worker takes, is unseen, a new generation or its
\* plan, or a mark that is entered.
LEMMA DiscoveryInLedger ==
    ASSUME TypeInv, TypeInv', HonestyInv', PlanlessRow, Grows(row, row'), NEW w \in Workers,
           \/ BeginDiscovery(w) \/ AcquireLease(w) \/ LeaseRefused(w) \/ Attempt(w)
           \/ DiscoveryDeferred(w) \/ DiscoveryRejected(w) \/ DiscoveryAnswered(w)
           \/ PutPlan(w) \/ FanoutExpected(w) \/ (\E b \in Batches : EnqueueBatch(w, b))
           \/ MarkEnqueued(w) \/ CompleteFanout(w) \/ CompleteDiscovery(w) \/ Crash(w)
    PROVE  PlanlessRow' /\ [Ledger!Next]_(Ledger!vars)
<1>1. answered' = answered /\ certs' = certs
  BY DEF BeginDiscovery, AcquireLease, LeaseRefused, Attempt, DiscoveryDeferred,
         DiscoveryRejected, DiscoveryAnswered, PutPlan, FanoutExpected, EnqueueBatch,
         MarkEnqueued, CompleteFanout, CompleteDiscovery, Crash
<1>2. CASE row' = row
  BY <1>1, <1>2, Unseen DEF SameEvidence
<1>3. CASE BeginDiscovery(w) \/ FanoutExpected(w) \/ CompleteFanout(w)
  <2>1. SameEvidence(row', row) \/ row' = row
    BY <1>3, BeginDiscoveryEffect, FanoutExpectedEffect, CompleteFanoutEffect
  <2> QED
    BY <1>1, <1>2, <2>1, Unseen
<1>4. CASE Attempt(w) \/ DiscoveryDeferred(w) \/ DiscoveryRejected(w) \/ PutPlan(w)
  <2>1. Turns(row, row')
    BY <1>4, AttemptEffect, DiscoveryDeferredEffect, DiscoveryRejectedEffect, PutPlanEffect
  <2> QED
    BY <1>1, <2>1, TurnsInLedger
<1>5. CASE MarkEnqueued(w)
  <2>1. \/ row' = row
        \/ PlanCurrent(row, Gen(w)) /\ row'.gen = row.gen /\ row'.planned = row.planned
    BY <1>5, MarkEnqueuedEffect
  <2>2. CASE PlanCurrent(row, Gen(w)) /\ row'.gen = row.gen /\ row'.planned = row.planned
    <3>1. row.planned
      BY <2>2 DEF PlanCurrent
    <3> QED
      BY <1>1, <2>2, <3>1, EntersLedger DEF Ledger!Next
  <2> QED
    BY <1>2, <2>1, <2>2
<1>6. CASE \/ AcquireLease(w) \/ LeaseRefused(w) \/ DiscoveryAnswered(w)
           \/ (\E b \in Batches : EnqueueBatch(w, b)) \/ CompleteDiscovery(w) \/ Crash(w)
  <2>1. row' = row
    BY <1>6 DEF AcquireLease, LeaseRefused, DiscoveryAnswered, EnqueueBatch,
                CompleteDiscovery, Crash
  <2> QED
    BY <1>2, <2>1
<1> QED
  BY <1>3, <1>4, <1>5, <1>6

\* A fetch is unseen, an answer to a job of the plan, an outcome that is entered,
\* or a certificate.
LEMMA FetchInLedger ==
    ASSUME TypeInv, DeliveryInv, HonestyInv, TypeInv', HonestyInv', PlanlessRow,
           Grows(row, row'), NEW w \in Workers,
           \/ BeginFetch(w) \/ FetchStale(w) \/ FetchUnanswered(w) \/ FetchAnswered(w)
           \/ FetchSplit(w) \/ (\E c \in Jobs : SendChild(w, c))
           \/ MergeOutcome(w) \/ MintCertificate(w) \/ CompleteFetch(w)
    PROVE  PlanlessRow' /\ [Ledger!Next]_(Ledger!vars)
<1>1. worker[w].pc # "idle" /\ Job(w) # Discover
  BY DEF BeginFetch, FetchStale, FetchUnanswered, FetchAnswered, FetchSplit, SendChild,
         MergeOutcome, MintCertificate, CompleteFetch, MayCall, Fetching, At, Job
<1>2. PICK m \in Messages : m = worker[w].msg
  BY <1>1, BusyHasMessage
<1>3. m.gen = Gen(w) /\ m.job = Job(w) /\ m.gen \in Gens
  BY <1>2 DEF Gen, Job, Messages
<1>4. m.gen <= row.gen
  <2>1. Pending(m) /\ m.job # Discover
    BY <1>1, <1>2, <1>3 DEF Pending
  <2>2. WasPlanned(m.gen)
    BY <2>1 DEF DeliveryInv, FetchesArePlanned
  <2>3. row.gen \in Nat /\ m.gen \in Nat
    BY <1>3, BoundsAssumption DEF TypeInv, RowOK, Row, Gens
  <2> QED
    BY <2>2, <2>3 DEF WasPlanned, PlanCurrent
<1>5. worker[w].mint => Sound(m.gen)
  BY <1>1, <1>2 DEF HonestyInv, WorkersAreHonest
<1>6. ASSUME row' = row, answered' = answered, certs' = certs
      PROVE  PlanlessRow' /\ [Ledger!Next]_(Ledger!vars)
  BY <1>6, Unseen DEF SameEvidence
<1>7. ASSUME row' = row, answered' = answered, certs' = certs \cup {Gen(w)}, Sound(m.gen)
      PROVE  PlanlessRow' /\ [Ledger!Next]_(Ledger!vars)
  BY <1>3, <1>4, <1>7, Certifies
<1>8. CASE BeginFetch(w)
  <2>1. row' = row /\ answered' = answered
    BY <1>8 DEF BeginFetch
  <2>2. ASSUME PlanCurrent(row, Gen(w)), CycleComplete(row) PROVE Sound(m.gen)
    <3>1. HonestRow(row, AnsweredJobs(m.gen), PairsReturned(m.gen))
      BY <1>3, <2>2 DEF HonestyInv, RowIsHonest, PlanCurrent, Gens
    <3> QED
      BY <2>2, <3>1, CompleteIsSound
  <2> QED
    BY <1>6, <1>7, <1>8, <2>1, <2>2, BeginFetchEffect
<1>9. CASE MintCertificate(w)
  <2>1. row' = row /\ answered' = answered
    BY <1>9 DEF MintCertificate
  <2>2. certs' = IF worker[w].mint THEN certs \cup {Gen(w)} ELSE certs
    BY <1>9, MintCertificateEffect
  <2> QED
    BY <1>5, <1>6, <1>7, <2>1, <2>2
<1>10. CASE MergeOutcome(w)
  <2>1. answered' = answered /\ certs' = certs
    BY <1>10 DEF MergeOutcome
  <2>2. CASE /\ MergeAdmitted(row, Gen(w), Job(w), worker[w].outcome)
             /\ row' = Merged(row, Job(w), worker[w].outcome, worker[w].got)
    <3>1. /\ Job(w) \in Jobs /\ RowOK(row) /\ worker[w].outcome \in Outcomes
          /\ worker[w].got \in SUBSET Pairs
      BY <1>1, <1>10, BusyHasMessage, MergeOutcomeEffect DEF TypeInv, WorkerRecord
    <3>2. row'.gen = row.gen /\ row'.planned = row.planned
      BY <2>2, <3>1, MergedRow
    <3>3. row.planned
      BY <2>2 DEF MergeAdmitted, PlanCurrent
    <3> QED
      BY <2>1, <3>2, <3>3, EntersLedger DEF Ledger!Next
  <2> QED
    BY <1>6, <1>10, <2>1, <2>2, MergeOutcomeEffect
<1>11. CASE FetchAnswered(w)
  <2>1. /\ row' = row /\ certs' = certs /\ Job(w) \in Jobs
        /\ row.gen = Gen(w) /\ row.planned
    BY <1>1, <1>2, <1>3, <1>11 DEF FetchAnswered, MayCall, PlanCurrent, Messages
  <2>2. PICK got \in SUBSET Pairs :
           answered' = answered \cup {[gen |-> Gen(w), job |-> Job(w), pairs |-> got]}
    BY <1>11, FetchAnsweredEffect
  <2>3. Ledger!Answer(Job(w), got)
    BY <2>1, <2>2 DEF Ledger!Answer, Ledger!plan
  <2> QED
    BY <2>1, <2>3 DEF Ledger!Next, PlanlessRow
<1>12. CASE \/ FetchStale(w) \/ FetchUnanswered(w) \/ FetchSplit(w)
            \/ (\E c \in Jobs : SendChild(w, c)) \/ CompleteFetch(w)
  <2>1. row' = row /\ answered' = answered /\ certs' = certs
    BY <1>12 DEF FetchStale, FetchUnanswered, FetchSplit, SendChild, CompleteFetch
  <2> QED
    BY <1>6, <2>1
<1> QED
  BY <1>8, <1>9, <1>10, <1>11, <1>12

\* Every step is one of the ledger's or leaves it alone.
LEMMA StepInLedger ==
    ASSUME TypeInv, DeliveryInv, HonestyInv, PlanlessRow, [Next]_vars
    PROVE  PlanlessRow' /\ [Ledger!Next]_(Ledger!vars)
<1>1. TypeInv' /\ Grows(row, row') /\ HonestyInv'
  BY StepGrows, StepIsHonest
<1>2. CASE Dispatch \/ MarkDispatched \/ DispatchFails
  <2>1. answered' = answered /\ certs' = certs
    BY <1>2 DEF Dispatch, MarkDispatched, DispatchFails
  <2>2. Turns(row, row')
    BY <1>2, DispatchEffect, DispatcherEffect
  <2> QED
    BY <1>1, <2>1, <2>2, TurnsInLedger
<1>3. ASSUME NEW w \in Workers, Progress(w) \/ Crash(w)
      PROVE  PlanlessRow' /\ [Ledger!Next]_(Ledger!vars)
  BY <1>1, <1>3, DiscoveryInLedger, FetchInLedger DEF Progress
<1>4. ASSUME \/ SendDiscovery \/ Close \/ UNCHANGED vars
             \/ \E m \in Messages : Duplicate(m) \/ \E w \in Workers : Receive(w, m)
      PROVE  PlanlessRow' /\ [Ledger!Next]_(Ledger!vars)
  <2>1. row' = row /\ answered' = answered /\ certs' = certs
    BY <1>4 DEF SendDiscovery, Close, vars, Duplicate, Receive
  <2> QED
    BY <2>1, Unseen DEF SameEvidence
<1> QED
  BY <1>2, <1>3, <1>4 DEF Next

\* Every behaviour of the dispatcher and the workers is, through what is read of
\* it, one of CoverageLedger: one plan per generation, evidence that is true and
\* stays, and certificates only for plans that have their answers.
THEOREM Implements == Spec => KeepsLedger
<1>1. TypeInv /\ DeliveryInv /\ HonestyInv /\ [Next]_vars
         => TypeInv' /\ DeliveryInv' /\ HonestyInv'
  BY StepGrows, StepDelivers, StepIsHonest DEF Delivered
<1>2. TypeInv /\ DeliveryInv /\ HonestyInv /\ PlanlessRow /\ [Next]_vars
         => PlanlessRow' /\ [Ledger!Next]_(Ledger!vars)
  BY StepInLedger
<1> QED
  BY <1>1, <1>2, InitType, InitDelivers, InitIsHonest, LedgerInit, PTL
     DEF Spec, KeepsLedger, Ledger!Spec
=============================================================================
