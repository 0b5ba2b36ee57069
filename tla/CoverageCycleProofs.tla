------------------------- MODULE CoverageCycleProofs -------------------------
(***************************************************************************)
(* Proofs about CoverageCycle, for any workers, generations, trees of      *)
(* split batches, faults and leases that may lapse: the types, that        *)
(* evidence is only added, that no enqueued batch is lost, that            *)
(* certificates are honest, and that no half of a split is omitted.        *)
(*                                                                         *)
(* The argument.  RootOf and Carried recurse along parents; that they      *)
(* satisfy their equations follows from a least relation (no induction     *)
(* over data), once for all.  Each action has a lemma with its effect on   *)
(* the row and on the one worker that moves.  Evidence only grows (Grows), *)
(* so what ends a job's work stays (Ended); deliveries then rest on        *)
(* DeliveryInv: fetches are of published plans, a completed lease has      *)
(* evidence, and whoever gave up had a reason that stays.  Certificates    *)
(* rest on HonestyInv: the leaves of a split cover its root at any moment, *)
(* so a root whose leaves are done was answered.  Splits rest on SplitInv: *)
(* a worker that halves a fetch has sent every half it need not send any   *)
(* more before it merges the split, and a half is not forgotten before     *)
(* its batch has a verdict.                                                *)
(***************************************************************************)
EXTENDS CoverageCycle, TLAPS

(***************************************************************************)
(* The tree of jobs, and recursion along it.                               *)
(***************************************************************************)

\* A child is a job, no batch, and has one parent.
LEMMA ChildrenHaveAParent ==
    ASSUME NEW i \in Jobs, NEW c \in Children[i]
    PROVE  c \in Jobs /\ c \notin Batches /\ ParentOf(c) = i
<1>1. c \in Jobs /\ c \notin Batches
  BY TreeAssumption
<1>2. \A k \in Jobs : c \in Children[k] => k = i
  BY TreeAssumption
<1>3. ParentOf(c) = i
  BY <1>2 DEF ParentOf
<1> QED
  BY <1>1, <1>3

\* A job that is no batch is a child of its parent.
LEMMA PartsHaveAParent ==
    ASSUME NEW j \in Jobs, j \notin Batches
    PROVE  ParentOf(j) \in Jobs /\ j \in Children[ParentOf(j)]
<1>1. PICK i \in Jobs : j \in Children[i]
  BY TreeAssumption
<1> QED
  BY <1>1, ChildrenHaveAParent

\* Induction along the tree: a set of jobs that has the batches, and every job
\* whose parent it has, has every job.
LEMMA TreeInduction ==
    ASSUME NEW S,
           \A b \in Batches : b \in S,
           \A j \in Jobs : j \notin Batches /\ ParentOf(j) \in S => j \in S
    PROVE  Jobs \subseteq S
<1> SUFFICES ASSUME Jobs \ S # {} PROVE FALSE
  OBVIOUS
<1>1. PICK j \in Jobs \ S : \A i \in Jobs \ S : j \notin Children[i]
  BY TreeAssumption
<1>2. j \notin Batches
  BY <1>1
<1> QED
  BY <1>1, <1>2, PartsHaveAParent

\* A definition by recursion along the parents defines a function: the least
\* relation it allows gives every job one value.
LEMMA ParentRecursion ==
    ASSUME NEW V, NEW base \in [Batches -> V], NEW G \in [Jobs \X V -> V]
    PROVE  \E f \in [Jobs -> V] : \A j \in Jobs :
              f[j] = IF j \in Batches THEN base[j] ELSE G[<<j, f[ParentOf(j)]>>]
<1> DEFINE
      Closed(Q) ==
        /\ \A b \in Batches : <<b, base[b]>> \in Q
        /\ \A j \in Jobs \ Batches, v \in V :
              <<ParentOf(j), v>> \in Q => <<j, G[<<j, v>>]>> \in Q
      R == {x \in Jobs \X V : \A Q \in SUBSET (Jobs \X V) : Closed(Q) => x \in Q}
<1>1. R \in SUBSET (Jobs \X V)
  OBVIOUS
<1>2. Closed(R)
  <2>1. ASSUME NEW b \in Batches PROVE <<b, base[b]>> \in R
    <3>1. <<b, base[b]>> \in Jobs \X V
      BY TreeAssumption
    <3> QED
      BY <3>1
  <2>2. ASSUME NEW j \in Jobs \ Batches, NEW v \in V, <<ParentOf(j), v>> \in R
        PROVE  <<j, G[<<j, v>>]>> \in R
    <3>1. <<j, G[<<j, v>>]>> \in Jobs \X V
      OBVIOUS
    <3>2. ASSUME NEW Q \in SUBSET (Jobs \X V), Closed(Q) PROVE <<j, G[<<j, v>>]>> \in Q
      BY <2>2, <3>2
    <3> QED
      BY <3>1, <3>2
  <2> QED
    BY <2>1, <2>2
<1>3. ASSUME NEW j \in Jobs, NEW u, NEW v, <<j, u>> \in R, <<j, v>> \in R,
             \A x \in Batches : <<x, base[x]>> # <<j, v>>,
             \A k \in Jobs \ Batches, x \in V :
                 <<ParentOf(k), x>> \in R => <<k, G[<<k, x>>]>> # <<j, v>>
      PROVE  FALSE
  <2> DEFINE Q == R \ {<<j, v>>}
  <2>1. Q \in SUBSET (Jobs \X V)
    BY <1>1
  <2>2. Closed(Q)
    <3> HIDE DEF R
    <3> QED
      BY <1>2, <1>3
  <2>3. <<j, v>> \in Q
    <3> HIDE DEF Q
    <3> QED
      BY <1>3, <2>1, <2>2
  <2> QED
    BY <2>3
<1> DEFINE One(j) == \E v \in V : <<j, v>> \in R /\ \A u : <<j, u>> \in R => u = v
<1> HIDE DEF R, Closed
<1>4. ASSUME NEW b \in Batches PROVE One(b)
  <2>1. b \in Jobs /\ base[b] \in V /\ <<b, base[b]>> \in R
    BY <1>2, TreeAssumption DEF Closed
  <2>2. ASSUME NEW u, <<b, u>> \in R, u # base[b] PROVE FALSE
    <3>1. \A x \in Batches : <<x, base[x]>> # <<b, u>>
      BY <2>2
    <3>2. \A k \in Jobs \ Batches, x \in V : <<k, G[<<k, x>>]>> # <<b, u>>
      OBVIOUS
    <3> QED
      BY <1>3, <2>1, <2>2, <3>1, <3>2
  <2> QED
    BY <2>1, <2>2
<1>5. ASSUME NEW j \in Jobs, j \notin Batches, One(ParentOf(j)) PROVE One(j)
  <2>1. PICK p \in V : /\ <<ParentOf(j), p>> \in R
                       /\ \A u : <<ParentOf(j), u>> \in R => u = p
    BY <1>5
  <2>2. G[<<j, p>>] \in V /\ <<j, G[<<j, p>>]>> \in R
    BY <1>2, <1>5, <2>1 DEF Closed
  <2>3. ASSUME NEW u, <<j, u>> \in R, u # G[<<j, p>>] PROVE FALSE
    <3>1. \A x \in Batches : <<x, base[x]>> # <<j, u>>
      BY <1>5
    <3>2. \A k \in Jobs \ Batches, x \in V :
             <<ParentOf(k), x>> \in R => <<k, G[<<k, x>>]>> # <<j, u>>
      BY <2>1, <2>3
    <3> QED
      BY <1>3, <2>2, <2>3, <3>1, <3>2
  <2> QED
    BY <2>2, <2>3
<1>6. \A j \in Jobs : One(j)
  <2> DEFINE S == {j \in Jobs : One(j)}
  <2> HIDE DEF One
  <2>1. \A b \in Batches : b \in S
    BY <1>4, TreeAssumption
  <2>2. \A j \in Jobs : j \notin Batches /\ ParentOf(j) \in S => j \in S
    BY <1>5
  <2>3. Jobs \subseteq S
    <3> HIDE DEF S
    <3> QED
      BY <2>1, <2>2, TreeInduction
  <2> QED
    BY <2>3
<1> DEFINE f == [j \in Jobs |-> CHOOSE v \in V : <<j, v>> \in R]
<1>7. f \in [Jobs -> V] /\ \A j \in Jobs : <<j, f[j]>> \in R
  BY <1>6
<1>8. ASSUME NEW j \in Jobs
      PROVE  f[j] = IF j \in Batches THEN base[j] ELSE G[<<j, f[ParentOf(j)]>>]
  <2> HIDE DEF f
  <2>1. CASE j \in Batches
    BY <1>2, <1>6, <1>7, <2>1 DEF Closed
  <2>2. CASE j \notin Batches
    <3>1. <<ParentOf(j), f[ParentOf(j)]>> \in R /\ f[ParentOf(j)] \in V
      BY <1>7, <2>2, PartsHaveAParent
    <3>2. <<j, G[<<j, f[ParentOf(j)]>>]>> \in R
      BY <1>2, <2>2, <3>1 DEF Closed
    <3> QED
      BY <1>6, <1>7, <2>2, <3>2
  <2> QED
    BY <2>1, <2>2
<1> QED
  BY <1>7, <1>8

\* The root of a job is a batch: the job itself or the root of its parent.
LEMMA RootEquation ==
    ASSUME NEW j \in Jobs
    PROVE  /\ RootOf[j] \in Batches
           /\ RootOf[j] = IF j \in Batches THEN j ELSE RootOf[ParentOf(j)]
<1> DEFINE base == [b \in Batches |-> b]
           G == [x \in Jobs \X Batches |-> x[2]]
           Eq(f) == f = [i \in Jobs |-> IF i \in Batches THEN i ELSE f[ParentOf(i)]]
<1>1. base \in [Batches -> Batches] /\ G \in [Jobs \X Batches -> Batches]
  OBVIOUS
<1>2. PICK f \in [Jobs -> Batches] : \A i \in Jobs :
         f[i] = IF i \in Batches THEN base[i] ELSE G[<<i, f[ParentOf(i)]>>]
  <2> HIDE DEF base, G
  <2> QED
    BY <1>1, ParentRecursion
<1>3. \A i \in Jobs : f[i] = IF i \in Batches THEN i ELSE f[ParentOf(i)]
  BY <1>2, PartsHaveAParent
<1>4. Eq(f)
  BY <1>3
<1>5. RootOf = CHOOSE g : Eq(g)
  BY DEF RootOf
<1>6. Eq(RootOf)
  <2> HIDE DEF Eq
  <2> QED
    BY <1>4, <1>5
<1>7. \A i \in Jobs : RootOf[i] = IF i \in Batches THEN i ELSE RootOf[ParentOf(i)]
  BY <1>6
<1> DEFINE S == {i \in Jobs : RootOf[i] \in Batches}
<1>8. Jobs \subseteq S
  <2>1. \A b \in Batches : b \in S
    BY <1>7, TreeAssumption
  <2>2. \A i \in Jobs : i \notin Batches /\ ParentOf(i) \in S => i \in S
    BY <1>7
  <2> HIDE DEF S
  <2> QED
    BY <2>1, <2>2, TreeInduction
<1> QED
  BY <1>7, <1>8

\* What a part carries: the leaves its parent carried, with the parent replaced
\* by its children.
LEMMA CarriedEquation ==
    ASSUME NEW j \in Jobs
    PROVE  /\ Carried[j] \in SUBSET Jobs
           /\ j \in Batches => Carried[j] = {}
           /\ j \notin Batches =>
                 Carried[j] = (Carried[ParentOf(j)] \ {ParentOf(j)}) \cup Children[ParentOf(j)]
<1>0. PICK V : V = SUBSET Jobs
  OBVIOUS
<1> DEFINE base == [b \in Batches |-> {}]
           G == [x \in Jobs \X V |->
                   IF x[1] \in Batches THEN {}
                   ELSE (x[2] \ {ParentOf(x[1])}) \cup Children[ParentOf(x[1])]]
           Eq(f) == f = [i \in Jobs |->
                           IF i \in Batches THEN {}
                           ELSE (f[ParentOf(i)] \ {ParentOf(i)}) \cup Children[ParentOf(i)]]
<1>1. base \in [Batches -> V]
  BY <1>0
<1>2. G \in [Jobs \X V -> V]
  <2>1. ASSUME NEW x \in Jobs \X V
        PROVE  (IF x[1] \in Batches THEN {}
                ELSE (x[2] \ {ParentOf(x[1])}) \cup Children[ParentOf(x[1])]) \in V
    <3>1. x[1] \in Jobs /\ x[2] \in SUBSET Jobs
      BY <1>0
    <3>2. CASE x[1] \in Batches
      BY <1>0, <3>2
    <3>3. CASE x[1] \notin Batches
      <4>1. ParentOf(x[1]) \in Jobs
        BY <3>1, <3>3, PartsHaveAParent
      <4>2. Children[ParentOf(x[1])] \subseteq Jobs
        BY <4>1, TreeAssumption
      <4> QED
        BY <1>0, <3>1, <3>3, <4>2
    <3> QED
      BY <3>2, <3>3
  <2> QED
    BY <2>1
<1>3. PICK f \in [Jobs -> V] : \A i \in Jobs :
         f[i] = IF i \in Batches THEN base[i] ELSE G[<<i, f[ParentOf(i)]>>]
  <2>1. \A c \in [Batches -> V], H \in [Jobs \X V -> V] :
           \E f \in [Jobs -> V] : \A i \in Jobs :
              f[i] = IF i \in Batches THEN c[i] ELSE H[<<i, f[ParentOf(i)]>>]
    BY ParentRecursion
  <2> HIDE DEF base, G, Eq
  <2> QED
    BY <1>1, <1>2, <2>1
<1>4. ASSUME NEW i \in Jobs
      PROVE  f[i] = IF i \in Batches THEN {}
                    ELSE (f[ParentOf(i)] \ {ParentOf(i)}) \cup Children[ParentOf(i)]
  <2>1. CASE i \in Batches
    BY <1>3, <2>1
  <2>2. CASE i \notin Batches
    <3>1. f[ParentOf(i)] \in SUBSET Jobs
      BY <1>0, <1>3, <2>2, PartsHaveAParent
    <3> QED
      BY <1>0, <1>3, <2>2, <3>1
  <2> QED
    BY <2>1, <2>2
<1>5. Eq(f)
  BY <1>3, <1>4
<1>6. Carried = CHOOSE g : Eq(g)
  BY DEF Carried
<1>7. Eq(Carried)
  <2> HIDE DEF Eq
  <2> QED
    BY <1>5, <1>6
<1>8. \A i \in Jobs :
         Carried[i] = IF i \in Batches THEN {}
                      ELSE (Carried[ParentOf(i)] \ {ParentOf(i)}) \cup Children[ParentOf(i)]
  BY <1>7
<1> DEFINE S == {i \in Jobs : Carried[i] \in SUBSET Jobs}
<1>9. Jobs \subseteq S
  <2>1. \A b \in Batches : b \in S
    BY <1>8, TreeAssumption
  <2>2. ASSUME NEW i \in Jobs, i \notin Batches, ParentOf(i) \in S PROVE i \in S
    <3>1. Children[ParentOf(i)] \subseteq Jobs
      BY <2>2, PartsHaveAParent, TreeAssumption
    <3> QED
      BY <1>8, <2>2, <3>1
  <2> HIDE DEF S
  <2> QED
    BY <2>1, <2>2, TreeInduction
<1> QED
  BY <1>8, <1>9

\* S covers j: whoever has all of S, and a job when it has its parts, has j.
Covers(S, j) == \A X \in SUBSET Jobs : UpClosed(X) /\ S \subseteq X => j \in X

\* A child has the root of its parent.
LEMMA ChildHasTheRoot ==
    ASSUME NEW i \in Jobs, NEW c \in Children[i]
    PROVE  RootOf[c] = RootOf[i]
BY ChildrenHaveAParent, RootEquation

\* A job replaced by its parts covers what it covered.
LEMMA PartsCover ==
    ASSUME NEW S, NEW j \in Jobs, NEW b, Children[j] # {}, Covers(S, b)
    PROVE  Covers((S \ {j}) \cup Children[j], b)
<1> SUFFICES ASSUME NEW X \in SUBSET Jobs, UpClosed(X), (S \ {j}) \cup Children[j] \subseteq X
             PROVE  b \in X
  BY DEF Covers
<1>1. j \in X
  BY DEF UpClosed
<1> QED
  BY <1>1 DEF Covers

\* What a part carries is a cut through the tree of its batch, without the
\* batch itself, and the part is one of its leaves.
LEMMA CarriedIsACut ==
    ASSUME NEW j \in Jobs, j \notin Batches
    PROVE  /\ Carried[j] \subseteq Jobs \ Batches
           /\ j \in Carried[j]
           /\ \A l \in Carried[j] : RootOf[l] = RootOf[j]
           /\ Covers(Carried[j], RootOf[j])
<1> DEFINE Cut(i) == /\ Carried[i] \subseteq Jobs \ Batches
                     /\ \A l \in Carried[i] : RootOf[l] = RootOf[i]
                     /\ Covers(Carried[i], RootOf[i])
           S == {i \in Jobs : i \in Batches \/ Cut(i)}
<1>1. ASSUME NEW i \in Jobs, i \notin Batches, ParentOf(i) \in S PROVE Cut(i)
  <2> DEFINE p == ParentOf(i)
  <2>1. p \in Jobs /\ i \in Children[p]
    BY <1>1, PartsHaveAParent
  <2>2. Carried[i] = (Carried[p] \ {p}) \cup Children[p] /\ Carried[p] \in SUBSET Jobs
    BY <1>1, <2>1, CarriedEquation
  <2>3. Children[p] \subseteq Jobs \ Batches /\ Children[p] # {}
    BY <2>1, TreeAssumption
  <2>4. RootOf[i] = RootOf[p] /\ \A c \in Children[p] : RootOf[c] = RootOf[p]
    BY <2>1, ChildHasTheRoot
  <2>5. CASE p \in Batches
    <3>1. Carried[p] = {}
      BY <2>1, <2>5, CarriedEquation
    <3>2. RootOf[p] = p
      BY <2>1, <2>5, RootEquation
    <3>3. Covers(Children[p], p)
      BY <2>1, <2>3 DEF Covers, UpClosed
    <3> QED
      BY <2>2, <2>3, <2>4, <3>1, <3>2, <3>3
  <2>6. CASE Cut(p)
    <3>1. Covers((Carried[p] \ {p}) \cup Children[p], RootOf[p])
      BY <2>1, <2>3, <2>6, PartsCover
    <3> QED
      BY <2>2, <2>3, <2>4, <2>6, <3>1
  <2> QED
    BY <1>1, <2>5, <2>6
<1>2. Jobs \subseteq S
  <2>1. \A b \in Batches : b \in S
    BY TreeAssumption
  <2>2. \A i \in Jobs : i \notin Batches /\ ParentOf(i) \in S => i \in S
    <3> HIDE DEF Cut
    <3> QED
      BY <1>1
  <2> HIDE DEF S
  <2> QED
    BY <2>1, <2>2, TreeInduction
<1>3. j \in Carried[j]
  BY CarriedEquation, PartsHaveAParent
<1> QED
  BY <1>2, <1>3

(***************************************************************************)
(* Types.                                                                  *)
(***************************************************************************)

Places == Owning \cup {"idle", "begin", "lease"}

Outcomes == {"NONE", "STALE", "HTTP_200", "QUOTA_DEFERRED", "RETRYABLE_ERROR",
             "REQUEST_REJECTED", "SPLIT_PENDING"}

WorkerRecord ==
    [pc : Places, msg : [gen : 0..MaxGen, job : Jobs \cup {Discover}],
     outcome : Outcomes, got : SUBSET Pairs, todo : SUBSET Jobs,
     sent : SUBSET Batches, mint : BOOLEAN, older : SUBSET Workers]

WorkerOK(z) ==
    /\ z \in WorkerRecord
    /\ z.pc # "idle" => z.msg \in Messages

RowOK(r) ==
    /\ r \in Row
    /\ r.succeeded \cap r.failed = {}
    /\ r.deferred \cap (r.succeeded \cup r.failed) = {}
    /\ r.returned \cap r.absent = {}
    /\ r.failedPairs \cap (r.returned \cup r.absent \cup r.incomplete) = {}
    /\ r.done \cap r.bad = {} /\ r.waiting \cap (r.done \cup r.bad) = {}

LeaseType == [state : {"NONE", "IN_PROGRESS", "COMPLETED"}, owner : Workers \cup {NoWorker}]

AnswerType == [gen : Gens, job : Jobs, pairs : SUBSET Pairs]

WorkersOK ==
    /\ worker \in [Workers -> WorkerRecord]
    /\ \A w \in Workers : WorkerOK(worker[w])

\* The types, those of the workers included.
TypeInv ==
    /\ open \in BOOLEAN /\ faults \in 0..MaxFaults
    /\ dispatch \in [gen : 0..MaxGen, pc : {"idle", "due", "send", "mark"}]
    /\ RowOK(row)
    /\ certs \subseteq Gens
    /\ lease \in [Messages -> LeaseType]
    /\ queue \in [Messages -> Nat]
    /\ answered \subseteq AnswerType
    /\ WorkersOK

\* They are the types the runs check.
LEMMA TypeInvIsTypeOK == TypeInv => TypeOK
BY DEF TypeInv, TypeOK, RowOK, WorkersOK, WorkerOK, WorkerRecord, Places, LeaseType,
       AnswerType

(***************************************************************************)
(* Evidence and deliveries: what no step takes back.                       *)
(***************************************************************************)

\* The plan of g was published, even if it is superseded by now.
WasPlanned(g) == row.gen > g \/ PlanCurrent(row, g)

\* The job of m needs no delivery any more.
Ended(m) ==
    \/ row.gen > m.gen
    \/ PlanCurrent(row, m.gen) /\ m.job \in row.terminal

\* The job of m is not forgotten.
Kept(m) == ~open \/ Ended(m) \/ Pending(m)

\* Fetches exist only for published plans.
FetchesArePlanned == \A m \in Messages : m.job # Discover /\ Pending(m) => WasPlanned(m.gen)

\* A completed fetch needs no delivery any more.
EndsAreReal ==
    \A m \in Messages : m.job # Discover /\ lease[m].state = "COMPLETED" => Ended(m)

\* What is recorded as enqueued, for a generation, is not forgotten.
BatchesAreKept ==
    /\ row.enqueued # {} => row.gen \in Gens
    /\ row.planned =>
          \A m \in Messages : m.gen = row.gen /\ m.job \in row.enqueued => Kept(m)

\* A worker that fans out has a plan, one that gave a fetch up had a reason that
\* stays, and what one has sent and not marked yet is not forgotten.
WorkersDeliver ==
    \A w \in Workers, m \in Messages :
        worker[w].pc # "idle" /\ worker[w].msg = m =>
            /\ m.job = Discover /\ worker[w].pc \in {"expect", "fanout", "mark"} =>
                  WasPlanned(m.gen)
            /\ m.job # Discover /\ worker[w].outcome = "STALE" => ~open \/ row.gen > m.gen
            /\ \A n \in Messages : n.gen = m.gen /\ n.job \in worker[w].sent => Kept(n)

DeliveryInv == FetchesArePlanned /\ EndsAreReal /\ BatchesAreKept /\ WorkersDeliver

(***************************************************************************)
(* Honesty: what the row and the workers say was answered.                 *)
(***************************************************************************)

PairsReturned(g) == UNION {a.pairs : a \in {x \in answered : x.gen = g}}

Sound(g) == Covered(g) /\ Required \subseteq PairsReturned(g)

\* The row r says nothing that was not answered, by jobs and with pairs, and the
\* leaves of a split cover its batch.
HonestRow(r, jobs, pairs) ==
    /\ r.done \subseteq jobs
    /\ r.returned \subseteq pairs
    /\ r.frontier \cap Batches = {}
    /\ \A l \in r.frontier : Covers(Group(r, l), RootOf[l])
    /\ \A b \in r.succeeded : Covers(jobs, b)

RowIsHonest ==
    \A g \in 0..MaxGen : row.gen = g => HonestRow(row, AnsweredJobs(g), PairsReturned(g))

\* Nor does a worker.
WorkersAreHonest ==
    \A w \in Workers, m \in Messages :
        worker[w].pc # "idle" /\ worker[w].msg = m =>
            /\ worker[w].got \subseteq PairsReturned(m.gen)
            /\ worker[w].outcome = "HTTP_200" => m.job \in AnsweredJobs(m.gen)
            /\ worker[w].outcome = "SPLIT_PENDING" => m.job \in Jobs /\ Children[m.job] # {}
            /\ worker[w].mint => Sound(m.gen)

CertsAreHonest == \A g \in certs : Sound(g)

HonestyInv == RowIsHonest /\ WorkersAreHonest /\ CertsAreHonest

(***************************************************************************)
(* Rows.                                                                   *)
(***************************************************************************)

\* An empty row is a row.
LEMMA EmptyRowOK ==
    ASSUME NEW g \in 0..MaxGen, NEW status, NEW late \in SUBSET Workers,
           status \in {"NONE", "QUEUED", "ENQUEUE_FAILED", "STARTED", "PLAN_READY",
                       "FANOUT_PENDING", "QUOTA_DEFERRED", "ADMISSION_DEFERRED",
                       "RETRYABLE_ERROR", "HTTP_200", "REQUEST_REJECTED", "PLAN_SIZE_LIMIT"}
    PROVE  RowOK(EmptyRow(g, status, late))
BY DEF RowOK, EmptyRow, Row, DiscoveryTerminal

\* The leaf sets after an outcome, and that nothing else of the row changes.
LEMMA LeavesRow ==
    ASSUME NEW r, RowOK(r), NEW j \in Jobs, NEW outcome \in Outcomes
    PROVE  LET s == Leaves(r, j, outcome)
           IN  /\ RowOK(s)
               /\ s.gen = r.gen /\ s.status = r.status /\ s.planned = r.planned
               /\ s.expected = r.expected /\ s.enqueued = r.enqueued
               /\ s.succeeded = r.succeeded /\ s.terminal = r.terminal
               /\ s.returned = r.returned
               /\ s.frontier = {l \in r.frontier : RootOf[l] # RootOf[j]} \cup
                                 (IF outcome = "SPLIT_PENDING"
                                  THEN (Frontier(r, j) \ {j}) \cup Children[j]
                                  ELSE Frontier(r, j))
               /\ s.done \subseteq r.done \cup (IF outcome = "HTTP_200" THEN {j} ELSE {})
               /\ s.failed = r.failed
               /\ \A k \in s.done \cup s.bad : k = j \/ k \in r.done \cup r.bad
<1> DEFINE front == IF outcome = "SPLIT_PENDING"
                    THEN (Frontier(r, j) \ {j}) \cup Children[j]
                    ELSE Frontier(r, j)
           done == CASE outcome = "HTTP_200" -> r.done \cup {j}
                     [] outcome = "SPLIT_PENDING" -> r.done
                     [] OTHER -> r.done \ {j}
           bad == CASE outcome = "HTTP_200" -> r.bad \ {j}
                    [] outcome \in {"REQUEST_REJECTED", "RETRYABLE_ERROR"} -> r.bad \cup {j}
                    [] OTHER -> r.bad
           wait == IF outcome = "QUOTA_DEFERRED" THEN r.waiting \cup {j}
                   ELSE r.waiting \ {j}
           all == {l \in r.frontier : RootOf[l] # RootOf[j]} \cup front
           waiting == (wait \cap all) \ (done \cup bad)
           scope == r.planPairs \cup ScopeOf[j]
<1>1. /\ r \in Row /\ r.frontier \in SUBSET Jobs /\ r.done \in SUBSET Jobs
      /\ r.bad \in SUBSET Jobs /\ r.waiting \in SUBSET Jobs /\ r.planPairs \in SUBSET Pairs
  BY DEF RowOK, Row
<1>2. Frontier(r, j) \in SUBSET Jobs
  BY <1>1, CarriedEquation DEF Frontier, Group
<1>3. front \in SUBSET Jobs /\ all \in SUBSET Jobs
  BY <1>1, <1>2, TreeAssumption
<1>4. done \in SUBSET Jobs /\ bad \in SUBSET Jobs /\ done \cap bad = {}
  <2>1. r.done \cap r.bad = {}
    BY DEF RowOK
  <2>2. CASE outcome = "HTTP_200"
    BY <1>1, <2>1, <2>2
  <2>3. CASE outcome = "SPLIT_PENDING"
    BY <1>1, <2>1, <2>3
  <2>4. CASE outcome \notin {"HTTP_200", "SPLIT_PENDING"}
    BY <1>1, <2>1, <2>4
  <2> QED
    BY <2>2, <2>3, <2>4
<1>5. /\ done \subseteq r.done \cup (IF outcome = "HTTP_200" THEN {j} ELSE {})
      /\ \A k \in done \cup bad : k = j \/ k \in r.done \cup r.bad
  OBVIOUS
<1>6. waiting \in SUBSET Jobs /\ waiting \cap (done \cup bad) = {}
  <2> HIDE DEF done, bad, wait
  <2> QED
    BY <1>3
<1>7. scope \in SUBSET Pairs
  BY <1>1, PairsAssumption
<1>8. Leaves(r, j, outcome) = [r EXCEPT !.frontier = all, !.done = done, !.bad = bad,
                                        !.waiting = waiting, !.planPairs = scope]
  BY DEF Leaves
<1>9. all = {l \in r.frontier : RootOf[l] # RootOf[j]} \cup
                                 (IF outcome = "SPLIT_PENDING"
                                  THEN (Frontier(r, j) \ {j}) \cup Children[j]
                                  ELSE Frontier(r, j))
  OBVIOUS
<1> HIDE DEF all, done, bad, waiting, scope
<1> DEFINE s == [r EXCEPT !.frontier = all, !.done = done, !.bad = bad,
                          !.waiting = waiting, !.planPairs = scope]
<1>10. s \in Row
  BY <1>1, <1>3, <1>4, <1>6, <1>7 DEF Row
<1>11. /\ s.gen = r.gen /\ s.status = r.status /\ s.planned = r.planned
       /\ s.expected = r.expected /\ s.enqueued = r.enqueued
       /\ s.succeeded = r.succeeded /\ s.failed = r.failed /\ s.deferred = r.deferred
       /\ s.terminal = r.terminal /\ s.returned = r.returned /\ s.absent = r.absent
       /\ s.incomplete = r.incomplete /\ s.failedPairs = r.failedPairs
       /\ s.frontier = all /\ s.done = done /\ s.bad = bad /\ s.waiting = waiting
  BY <1>1 DEF Row
<1>12. Leaves(r, j, outcome) = s
  BY <1>8
<1> HIDE DEF s
<1>13. RowOK(s)
  BY <1>4, <1>6, <1>10, <1>11 DEF RowOK
<1> QED
  BY <1>5, <1>9, <1>11, <1>12, <1>13

\* The pairs after an outcome.
LEMMA PairwiseRow ==
    ASSUME NEW r, RowOK(r), NEW j \in Jobs, NEW outcome, NEW got \in SUBSET Pairs,
           NEW verdict
    PROVE  LET s == Pairwise(r, j, outcome, got, verdict)
           IN  /\ RowOK(s)
               /\ s.gen = r.gen /\ s.status = r.status /\ s.planned = r.planned
               /\ s.expected = r.expected /\ s.enqueued = r.enqueued
               /\ s.succeeded = r.succeeded /\ s.terminal = r.terminal
               /\ s.failed = r.failed /\ s.frontier = r.frontier
               /\ s.done = r.done /\ s.bad = r.bad
               /\ s.returned = r.returned \cup got
<1> DEFINE scope == ScopeOf[j]
           group == r.planPairs \cap ScopeOf[RootOf[j]]
           complete == outcome = "HTTP_200" /\ j \notin PartialJobs
           returned == r.returned \cup got
           absent == (r.absent \cup (IF complete THEN scope ELSE {})
                      \cup (IF Split(j, outcome) /\ verdict = "succeeded"
                            THEN group ELSE {})) \ returned
           known == returned \cup absent
           held == IF Split(j, outcome) /\ verdict = "deferred"
                   THEN group \ known ELSE {}
           incomplete == ((r.incomplete
                           \cup (IF outcome = "HTTP_200" /\ ~complete THEN scope ELSE {}))
                          \ known) \ held
           failed == ((r.failedPairs
                       \cup (IF outcome \in {"RETRYABLE_ERROR", "REQUEST_REJECTED"}
                             THEN scope ELSE {}))
                      \ (known \cup incomplete)) \ held
           deferred == ((IF Split(j, outcome) THEN r.deferredPairs \ group
                                              ELSE r.deferredPairs)
                        \cup (IF outcome = "QUOTA_DEFERRED" THEN scope ELSE {}) \cup held)
                       \ (known \cup incomplete \cup failed)
<1>1. /\ r \in Row /\ r.returned \in SUBSET Pairs /\ r.absent \in SUBSET Pairs
      /\ r.incomplete \in SUBSET Pairs /\ r.failedPairs \in SUBSET Pairs
      /\ r.deferredPairs \in SUBSET Pairs /\ r.planPairs \in SUBSET Pairs
  BY DEF RowOK, Row
<1>2. scope \in SUBSET Pairs /\ group \in SUBSET Pairs
  BY <1>1, PairsAssumption
<1>3. Pairwise(r, j, outcome, got, verdict) =
         [r EXCEPT !.returned = returned, !.absent = absent, !.incomplete = incomplete,
                   !.failedPairs = failed, !.deferredPairs = deferred]
  BY DEF Pairwise
<1> HIDE DEF scope, group, complete
<1>4. returned \in SUBSET Pairs
  BY <1>1
<1>5. absent \in SUBSET Pairs /\ returned \cap absent = {}
  <2> HIDE DEF returned
  <2> QED
    BY <1>1, <1>2
<1>6. held \in SUBSET Pairs
  <2> HIDE DEF known
  <2> QED
    BY <1>2
<1>7. incomplete \in SUBSET Pairs
  <2> HIDE DEF known, held
  <2> QED
    BY <1>1, <1>2
<1>8. failed \in SUBSET Pairs /\ failed \cap (returned \cup absent \cup incomplete) = {}
  <2> HIDE DEF returned, absent, held, incomplete
  <2> QED
    BY <1>1, <1>2
<1>9. deferred \in SUBSET Pairs
  <2> HIDE DEF known, held, incomplete, failed
  <2> QED
    BY <1>1, <1>2, <1>6
<1>10. returned = r.returned \cup got
  OBVIOUS
<1> HIDE DEF returned, absent, known, held, incomplete, failed, deferred
<1> DEFINE s == [r EXCEPT !.returned = returned, !.absent = absent,
                          !.incomplete = incomplete, !.failedPairs = failed,
                          !.deferredPairs = deferred]
<1>11. s \in Row
  BY <1>1, <1>4, <1>5, <1>7, <1>8, <1>9 DEF Row
<1>12. /\ s.gen = r.gen /\ s.status = r.status /\ s.planned = r.planned
       /\ s.expected = r.expected /\ s.enqueued = r.enqueued
       /\ s.succeeded = r.succeeded /\ s.failed = r.failed /\ s.deferred = r.deferred
       /\ s.terminal = r.terminal /\ s.returned = returned /\ s.absent = absent
       /\ s.incomplete = incomplete /\ s.failedPairs = failed
       /\ s.frontier = r.frontier /\ s.done = r.done /\ s.bad = r.bad
       /\ s.waiting = r.waiting
  BY <1>1 DEF Row
<1>13. Pairwise(r, j, outcome, got, verdict) = s
  BY <1>3
<1> HIDE DEF s
<1>14. RowOK(s)
  BY <1>5, <1>8, <1>11, <1>12 DEF RowOK
<1> QED
  BY <1>10, <1>12, <1>13, <1>14

\* The batch sets after an outcome.
LEMMA SettledRow ==
    ASSUME NEW r, RowOK(r), NEW j \in Jobs, NEW outcome, NEW verdict
    PROVE  LET s == Settled(r, j, outcome, verdict)
           IN  /\ RowOK(s)
               /\ s.gen = r.gen /\ s.status = r.status /\ s.planned = r.planned
               /\ s.expected = r.expected /\ s.enqueued = r.enqueued
               /\ s.frontier = r.frontier /\ s.done = r.done /\ s.bad = r.bad
               /\ s.returned = r.returned
               /\ s.succeeded = r.succeeded \cup
                                  (IF verdict = "succeeded" THEN {RootOf[j]} ELSE {})
               /\ s.succeeded \cup s.failed = r.succeeded \cup r.failed \cup
                     (IF verdict \in {"succeeded", "failed"} THEN {RootOf[j]} ELSE {})
               /\ s.terminal = r.terminal \cup
                                 (IF outcome \in TerminalOutcomes THEN {j} ELSE {})
<1> DEFINE root == RootOf[j]
           succ == IF verdict = "succeeded" THEN r.succeeded \cup {root} ELSE r.succeeded
           fail == (IF verdict = "failed" THEN r.failed \cup {root} ELSE r.failed) \ succ
           held == IF Split(j, outcome) THEN r.deferred \ {root} ELSE r.deferred
           defer == (IF verdict = "deferred" THEN held \cup {root} ELSE held)
                    \ (succ \cup fail)
           term == r.terminal \cup (IF outcome \in TerminalOutcomes THEN {j} ELSE {})
<1>1. /\ r \in Row /\ r.succeeded \in SUBSET Batches /\ r.failed \in SUBSET Batches
      /\ r.deferred \in SUBSET Batches /\ r.terminal \in SUBSET Jobs
  BY DEF RowOK, Row
<1>2. root \in Batches
  BY RootEquation
<1>3. Settled(r, j, outcome, verdict) =
         [r EXCEPT !.succeeded = succ, !.failed = fail, !.deferred = defer, !.terminal = term]
  BY DEF Settled
<1> HIDE DEF root
<1>4. /\ succ \in SUBSET Batches
      /\ succ = r.succeeded \cup (IF verdict = "succeeded" THEN {root} ELSE {})
  BY <1>1, <1>2
<1>5. fail \in SUBSET Batches /\ succ \cap fail = {}
  <2> HIDE DEF succ
  <2> QED
    BY <1>1, <1>2
<1>12. succ \cup fail = r.succeeded \cup r.failed \cup
                         (IF verdict \in {"succeeded", "failed"} THEN {root} ELSE {})
  BY <1>4
<1>6. defer \in SUBSET Batches /\ defer \cap (succ \cup fail) = {}
  <2>1. held \in SUBSET Batches
    BY <1>1
  <2> HIDE DEF succ, fail, held
  <2> QED
    BY <1>2, <2>1
<1>7. /\ term \in SUBSET Jobs
      /\ term = r.terminal \cup (IF outcome \in TerminalOutcomes THEN {j} ELSE {})
  BY <1>1
<1> HIDE DEF succ, fail, held, defer, term
<1> DEFINE s == [r EXCEPT !.succeeded = succ, !.failed = fail, !.deferred = defer,
                          !.terminal = term]
<1>8. s \in Row
  BY <1>1, <1>4, <1>5, <1>6, <1>7 DEF Row
<1>9. /\ s.gen = r.gen /\ s.status = r.status /\ s.planned = r.planned
      /\ s.expected = r.expected /\ s.enqueued = r.enqueued
      /\ s.succeeded = succ /\ s.failed = fail /\ s.deferred = defer
      /\ s.terminal = term /\ s.returned = r.returned /\ s.absent = r.absent
      /\ s.incomplete = r.incomplete /\ s.failedPairs = r.failedPairs
      /\ s.frontier = r.frontier /\ s.done = r.done /\ s.bad = r.bad
      /\ s.waiting = r.waiting
  BY <1>1 DEF Row
<1>10. Settled(r, j, outcome, verdict) = s
  BY <1>3
<1> HIDE DEF s
<1>11. RowOK(s)
  BY <1>5, <1>6, <1>8, <1>9 DEF RowOK
<1> QED
  BY <1>4, <1>7, <1>9, <1>10, <1>11, <1>12 DEF root

\* The row after a fetch outcome is merged; l is the row with the leaf sets of
\* the outcome's split, if it has one.
LEMMA MergedRow ==
    ASSUME NEW r, RowOK(r), NEW j \in Jobs, NEW outcome \in Outcomes,
           NEW got \in SUBSET Pairs
    PROVE  LET l == IF Split(j, outcome) THEN Leaves(r, j, outcome) ELSE r
               s == Merged(r, j, outcome, got)
           IN  /\ RowOK(s)
               /\ s.gen = r.gen /\ s.status = r.status /\ s.planned = r.planned
               /\ s.expected = r.expected /\ s.enqueued = r.enqueued
               /\ s.frontier = l.frontier /\ s.done = l.done /\ s.bad = l.bad
               /\ s.returned = r.returned \cup got
               /\ s.succeeded = r.succeeded \cup
                     (IF BatchVerdict(l, j, outcome) = "succeeded" THEN {RootOf[j]} ELSE {})
               /\ s.succeeded \cup s.failed = r.succeeded \cup r.failed \cup
                     (IF BatchVerdict(l, j, outcome) \in {"succeeded", "failed"}
                      THEN {RootOf[j]} ELSE {})
               /\ s.terminal = r.terminal \cup
                                 (IF outcome \in TerminalOutcomes THEN {j} ELSE {})
<1> DEFINE l == IF Split(j, outcome) THEN Leaves(r, j, outcome) ELSE r
           verdict == BatchVerdict(l, j, outcome)
           p == Pairwise(l, j, outcome, got, verdict)
<1>1. /\ RowOK(l) /\ l.gen = r.gen /\ l.status = r.status /\ l.planned = r.planned
      /\ l.expected = r.expected /\ l.enqueued = r.enqueued
      /\ l.succeeded = r.succeeded /\ l.terminal = r.terminal /\ l.returned = r.returned
      /\ l.failed = r.failed
  <2>1. CASE Split(j, outcome)
    BY <2>1, LeavesRow
  <2>2. CASE ~Split(j, outcome)
    BY <2>2
  <2> QED
    BY <2>1, <2>2
<1>2. Merged(r, j, outcome, got) = Settled(p, j, outcome, verdict)
  BY DEF Merged
<1> HIDE DEF l, verdict
<1>3. /\ RowOK(p) /\ p.gen = l.gen /\ p.status = l.status /\ p.planned = l.planned
      /\ p.expected = l.expected /\ p.enqueued = l.enqueued
      /\ p.succeeded = l.succeeded /\ p.terminal = l.terminal
      /\ p.frontier = l.frontier /\ p.done = l.done /\ p.bad = l.bad
      /\ p.failed = l.failed /\ p.returned = l.returned \cup got
  BY <1>1, PairwiseRow
<1> HIDE DEF p
<1> DEFINE s == Settled(p, j, outcome, verdict)
<1>4. /\ RowOK(s) /\ s.gen = p.gen /\ s.status = p.status /\ s.planned = p.planned
      /\ s.expected = p.expected /\ s.enqueued = p.enqueued
      /\ s.frontier = p.frontier /\ s.done = p.done /\ s.bad = p.bad
      /\ s.returned = p.returned
      /\ s.succeeded = p.succeeded \cup
                         (IF verdict = "succeeded" THEN {RootOf[j]} ELSE {})
      /\ s.succeeded \cup s.failed = p.succeeded \cup p.failed \cup
            (IF verdict \in {"succeeded", "failed"} THEN {RootOf[j]} ELSE {})
      /\ s.terminal = p.terminal \cup (IF outcome \in TerminalOutcomes THEN {j} ELSE {})
  BY <1>3, SettledRow
<1>5. Merged(r, j, outcome, got) = s
  BY <1>2
<1> HIDE DEF s
<1> QED
  BY <1>1, <1>3, <1>4, <1>5 DEF l, verdict

\* What the row knows of its plan, all but the status and its clock.
SameEvidence(s, r) ==
    /\ s.gen = r.gen /\ s.planned = r.planned /\ s.enqueued = r.enqueued
    /\ s.succeeded = r.succeeded /\ s.terminal = r.terminal /\ s.returned = r.returned
    /\ s.failed = r.failed /\ s.frontier = r.frontier
    /\ s.done = r.done /\ s.bad = r.bad

NoEvidence(s) ==
    /\ s.enqueued = {} /\ s.succeeded = {} /\ s.terminal = {} /\ s.returned = {}
    /\ s.frontier = {} /\ s.done = {}

\* The row is touched without evidence, or starts anew: for a later generation,
\* still without a plan, or with the plan its generation did not have.
Turns(r, s) ==
    \/ SameEvidence(s, r)
    \/ NoEvidence(s) /\ r.gen < s.gen /\ ~s.planned
    \/ NoEvidence(s) /\ r.gen = s.gen /\ ~r.planned

Statuses == {"NONE", "QUEUED", "ENQUEUE_FAILED", "STARTED", "PLAN_READY",
             "FANOUT_PENDING", "QUOTA_DEFERRED", "ADMISSION_DEFERRED",
             "RETRYABLE_ERROR", "HTTP_200", "REQUEST_REJECTED", "PLAN_SIZE_LIMIT"}

Restated(r, status, late) == [r EXCEPT !.status = status, !.late = late]
Reclocked(r, late) == [r EXCEPT !.late = late]

\* A status, or a clock, changes no evidence.
LEMMA RestatedRow ==
    ASSUME NEW r, RowOK(r), NEW status \in Statuses, NEW late \in SUBSET Workers
    PROVE  LET s == Restated(r, status, late)
               u == Reclocked(r, late)
           IN  /\ RowOK(s) /\ SameEvidence(s, r) /\ s.status = status
               /\ RowOK(u) /\ SameEvidence(u, r) /\ u.status = r.status
<1>1. r \in Row
  BY DEF RowOK
<1> QED
  BY <1>1 DEF RowOK, Row, SameEvidence, Statuses, DiscoveryTerminal, Restated, Reclocked

\* Nor does the list of batches to expect.
LEMMA ExpectedRow ==
    ASSUME NEW r, RowOK(r), NEW older \in SUBSET Workers
    PROVE  LET s == AfterExpected(r, older)
           IN  /\ RowOK(s) /\ SameEvidence(s, r)
               /\ s.status \in {r.status, "FANOUT_PENDING"}
               /\ s.status = "HTTP_200" => r.status = "HTTP_200"
<1> DEFINE s == [r EXCEPT !.expected = Batches, !.status = "FANOUT_PENDING", !.late = older]
<1>1. r \in Row
  BY DEF RowOK
<1>2. RowOK(s) /\ SameEvidence(s, r) /\ s.status = "FANOUT_PENDING"
  BY <1>1 DEF RowOK, Row, SameEvidence
<1>3. AfterExpected(r, older) \in {r, s}
  BY DEF AfterExpected
<1> HIDE DEF s
<1> QED
  BY <1>2, <1>3 DEF SameEvidence

\* The row after an attempt is what it was, or restated, or of a new generation.
LEMMA AttemptRow ==
    ASSUME NEW r, RowOK(r), NEW g \in 0..MaxGen, NEW status \in Statuses, NEW tardy,
           NEW older \in SUBSET Workers
    PROVE  LET s == AfterAttempt(r, g, status, tardy, older)
           IN  /\ RowOK(s) /\ Turns(r, s)
               /\ ~AttemptAdmitted(r, g, status, tardy) => s = r
               /\ AttemptAdmitted(r, g, status, tardy) =>
                     /\ s.gen = g /\ s.status = status
                     /\ r.gen < g => ~s.planned /\ NoEvidence(s)
                     /\ r.gen = g => SameEvidence(s, r)
<1> DEFINE s == Restated(r, status, older)
           e == EmptyRow(g, status, older)
<1>1. RowOK(s) /\ SameEvidence(s, r) /\ s.status = status
  BY RestatedRow
<1>2. RowOK(e) /\ e.gen = g /\ e.status = status /\ ~e.planned /\ NoEvidence(e)
  BY EmptyRowOK DEF EmptyRow, NoEvidence, Statuses
<1>3. r.gen \in 0..MaxGen
  BY DEF RowOK, Row
<1>4. SameEvidence(r, r)
  BY DEF SameEvidence
<1>5. AfterAttempt(r, g, status, tardy, older) =
         IF ~AttemptAdmitted(r, g, status, tardy) THEN r ELSE IF r.gen = g THEN s ELSE e
  BY DEF AfterAttempt, Restated
<1>6. AttemptAdmitted(r, g, status, tardy) => r.gen <= g
  BY DEF AttemptAdmitted
<1>7. SameEvidence(s, r) => s.gen = r.gen
  BY DEF SameEvidence
<1> HIDE DEF s, e
<1> QED
  BY <1>1, <1>2, <1>3, <1>4, <1>5, <1>6, <1>7, BoundsAssumption DEF Turns

\* The row after a plan is what it was, or has the first plan of its generation.
LEMMA PlanRow ==
    ASSUME NEW r, RowOK(r), NEW g \in 0..MaxGen, NEW status \in Statuses,
           NEW older \in SUBSET Workers
    PROVE  LET s == AfterPlan(r, g, status, older)
           IN  /\ RowOK(s) /\ Turns(r, s)
               /\ \/ s = r
                  \/ /\ r.gen = g /\ ~r.planned /\ s.gen = g /\ s.status = status
                     /\ s.planned = (status = "PLAN_READY") /\ NoEvidence(s)
<1> DEFINE e == EmptyRow(g, status, older)
           s == [e EXCEPT !.planned = (status = "PLAN_READY")]
<1>1. RowOK(e) /\ e.gen = g /\ e.status = status /\ NoEvidence(e)
  BY EmptyRowOK DEF EmptyRow, NoEvidence, Statuses
<1>2. AfterPlan(r, g, status, older) = IF r.gen = g /\ ~r.planned THEN s ELSE r
  BY DEF AfterPlan, PlanAdmitted
<1> HIDE DEF e
<1>3. e \in Row
  BY <1>1 DEF RowOK
<1>4. /\ RowOK(s) /\ s.gen = g /\ s.status = status /\ NoEvidence(s)
      /\ s.planned = (status = "PLAN_READY")
  <2> DEFINE ready == status = "PLAN_READY"
  <2>1. ready \in BOOLEAN
    OBVIOUS
  <2>2. s = [e EXCEPT !.planned = ready]
    OBVIOUS
  <2> HIDE DEF ready, s
  <2>3. s \in Row
    BY <1>3, <2>1, <2>2 DEF Row
  <2>4. /\ s.gen = e.gen /\ s.status = e.status /\ s.planned = ready
        /\ s.enqueued = e.enqueued
        /\ s.succeeded = e.succeeded /\ s.failed = e.failed /\ s.deferred = e.deferred
        /\ s.terminal = e.terminal /\ s.returned = e.returned /\ s.absent = e.absent
        /\ s.incomplete = e.incomplete /\ s.failedPairs = e.failedPairs
        /\ s.frontier = e.frontier /\ s.done = e.done /\ s.bad = e.bad
        /\ s.waiting = e.waiting
    BY <1>3, <2>2 DEF Row
  <2> QED
    BY <1>1, <2>3, <2>4 DEF RowOK, NoEvidence, ready
<1>5. SameEvidence(r, r)
  BY DEF SameEvidence
<1> HIDE DEF s
<1> QED
  BY <1>2, <1>4, <1>5 DEF Turns

(***************************************************************************)
(* Moves of one worker.                                                    *)
(***************************************************************************)

\* x is as y but for who read the clock before it.
Same(x, y) ==
    /\ x.pc = y.pc /\ x.msg = y.msg /\ x.outcome = y.outcome /\ x.got = y.got
    /\ x.todo = y.todo /\ x.sent = y.sent /\ x.mint = y.mint

\* w becomes z and the others stay what they are.
Moved(w, z) ==
    /\ WorkersOK'
    /\ Same(worker'[w], z)
    /\ \A v \in Workers : v # w => Same(worker'[v], worker[v])

\* w at another place.
Placed(w, place) == [worker[w] EXCEPT !.pc = place]

\* Either way of writing a worker moves it.
LEMMA WorkerMoves ==
    ASSUME WorkersOK, NEW w \in Workers, NEW z, WorkerOK(z),
           worker' = [worker EXCEPT ![w] = z] \/ worker' = Replaced(w, z)
    PROVE  Moved(w, z)
<1>1. z \in WorkerRecord /\ \A v \in Workers : worker[v] \in WorkerRecord
  BY DEF WorkersOK, WorkerOK
<1>2. CASE worker' = [worker EXCEPT ![w] = z]
  <2>1. /\ worker' \in [Workers -> WorkerRecord] /\ worker'[w] = z
        /\ \A v \in Workers : v # w => worker'[v] = worker[v]
    BY <1>1, <1>2 DEF WorkersOK
  <2> QED
    BY <2>1 DEF Moved, WorkersOK, Same
<1>3. CASE worker' = Replaced(w, z)
  <2>1. worker'[w] = z
    BY <1>3 DEF Replaced
  <2>2. ASSUME NEW v \in Workers, v # w
        PROVE  WorkerOK(worker'[v]) /\ Same(worker'[v], worker[v])
    <3> DEFINE left == worker[v].older \ {w}
    <3>1. left \in SUBSET Workers /\ WorkerOK(worker[v]) /\ worker[v] \in WorkerRecord
      BY <1>1 DEF WorkerRecord, WorkersOK
    <3>2. worker'[v] = [worker[v] EXCEPT !.older = left]
      BY <1>3, <2>2 DEF Replaced
    <3> HIDE DEF left
    <3> QED
      BY <3>1, <3>2 DEF WorkerOK, WorkerRecord, Same
  <2>3. \A v \in Workers : WorkerOK(worker'[v])
    BY <2>1, <2>2
  <2>4. worker' \in [Workers -> WorkerRecord]
    <3>1. worker' = [v \in Workers |-> worker'[v]]
      BY <1>3 DEF Replaced
    <3> QED
      BY <2>3, <3>1 DEF WorkerOK
  <2> QED
    BY <2>1, <2>2, <2>3, <2>4 DEF Moved, WorkersOK, Same
<1> QED
  BY <1>2, <1>3

\* An idle worker is well typed.
LEMMA IdleOK == WorkerOK(Idle)
BY BoundsAssumption DEF WorkerOK, WorkerRecord, Idle, Places, Outcomes

\* An acknowledged delivery leaves the worker idle.
LEMMA AcknowledgeMoves ==
    ASSUME WorkersOK, NEW w \in Workers, Acknowledge(w)
    PROVE  Moved(w, Idle) /\ queue' = queue
BY IdleOK, WorkerMoves DEF Acknowledge

\* m has one more visible delivery.
Redelivered(m) ==
    /\ queue' \in [Messages -> Nat]
    /\ queue'[m] > 0
    /\ \A n \in Messages : n # m => queue'[n] = queue[n]

\* So does one whose delivery is put back, or sent.
LEMMA OneMoreDelivery ==
    ASSUME queue \in [Messages -> Nat], NEW m \in Messages,
           queue' = [queue EXCEPT ![m] = @ + 1]
    PROVE  Redelivered(m)
BY DEF Redelivered

\* A delivery that is put back leaves the worker idle and is seen again.
LEMMA PutBackMoves ==
    ASSUME WorkersOK, queue \in [Messages -> Nat], NEW w \in Workers,
           worker[w].pc # "idle", PutBack(w)
    PROVE  Moved(w, Idle) /\ Redelivered(worker[w].msg)
<1>1. worker[w].msg \in Messages
  BY DEF WorkersOK, WorkerOK
<1> QED
  BY <1>1, IdleOK, WorkerMoves, OneMoreDelivery DEF PutBack

\* w at another place is well typed, if it has a message.
LEMMA PlacedOK ==
    ASSUME WorkersOK, NEW w \in Workers, worker[w].pc # "idle",
           NEW place \in Places
    PROVE  /\ WorkerOK(Placed(w, place))
           /\ Placed(w, place).pc = place /\ Placed(w, place).msg = worker[w].msg
           /\ Placed(w, place).outcome = worker[w].outcome
           /\ Placed(w, place).got = worker[w].got /\ Placed(w, place).todo = worker[w].todo
           /\ Placed(w, place).sent = worker[w].sent /\ Placed(w, place).mint = worker[w].mint
<1>1. worker[w] \in WorkerRecord /\ worker[w].msg \in Messages
  BY DEF WorkersOK, WorkerOK
<1> QED
  BY <1>1 DEF WorkerOK, WorkerRecord, Placed

\* Going to another place.
LEMMA GotoMoves ==
    ASSUME WorkersOK, NEW w \in Workers, worker[w].pc # "idle",
           NEW place \in Places, Goto(w, place)
    PROVE  Moved(w, Placed(w, place))
<1>1. worker' = [worker EXCEPT ![w] = Placed(w, place)]
  BY DEF Goto, Placed
<1> QED
  BY <1>1, PlacedOK, WorkerMoves

\* w ends its work as stale.
Staled(w) == [worker[w] EXCEPT !.pc = "complete", !.outcome = "STALE"]

\* It has the message it had.
LEMMA StaledOK ==
    ASSUME WorkersOK, NEW w \in Workers, worker[w].pc # "idle"
    PROVE  /\ WorkerOK(Staled(w)) /\ Staled(w).pc = "complete"
           /\ Staled(w).msg = worker[w].msg /\ Staled(w).outcome = "STALE"
           /\ Staled(w).got = worker[w].got /\ Staled(w).todo = worker[w].todo
           /\ Staled(w).sent = worker[w].sent /\ Staled(w).mint = worker[w].mint
<1>1. worker[w] \in WorkerRecord /\ worker[w].msg \in Messages
  BY DEF WorkersOK, WorkerOK
<1> QED
  BY <1>1 DEF WorkerOK, WorkerRecord, Staled, Places, Outcomes, Owning

\* Stale work goes to its completion.
LEMMA StaleMoves ==
    ASSUME WorkersOK, NEW w \in Workers, worker[w].pc # "idle", Stale(w)
    PROVE  Moved(w, Staled(w))
<1>1. worker' = [worker EXCEPT ![w] = Staled(w)]
  BY DEF Stale, Staled
<1> QED
  BY <1>1, StaledOK, WorkerMoves

\* Leases only get free when their holder gives them back.
Unleased == \A m \in Messages : lease'[m] = lease[m] \/ lease'[m].state = "NONE"

\* A released lease has its type, and no lease is taken or completed.
LEMMA ReleasedLease ==
    ASSUME lease \in [Messages -> LeaseType], NEW w \in Workers, lease' = Released(w)
    PROVE  lease' \in [Messages -> LeaseType] /\ Unleased
BY DEF Released, LeaseType, Free, Unleased

(***************************************************************************)
(* What each action does, and that it keeps the types.                     *)
(***************************************************************************)

\* The initial state has every type.
LEMMA InitType == Init => TypeInv
<1> SUFFICES ASSUME Init PROVE TypeInv
  OBVIOUS
<1>1. RowOK(row)
  BY EmptyRowOK, BoundsAssumption DEF Init
<1>2. WorkersOK
  BY IdleOK DEF Init, WorkersOK, WorkerOK
<1>3. dispatch \in [gen : 0..MaxGen, pc : {"idle", "due", "send", "mark"}]
  BY BoundsAssumption DEF Init
<1> QED
  BY <1>1, <1>2, <1>3, BoundsAssumption DEF Init, TypeInv, LeaseType, Free

\* A message of a busy worker.
LEMMA BusyHasMessage ==
    ASSUME TypeInv, NEW w \in Workers, worker[w].pc # "idle"
    PROVE  /\ worker[w] \in WorkerRecord /\ worker[w].msg \in Messages
           /\ Gen(w) \in Gens /\ Gen(w) \in 0..MaxGen
           /\ Job(w) \in Jobs \cup {Discover}
           /\ worker[w].msg = [gen |-> Gen(w), job |-> Job(w)]
           /\ worker[w].older \in SUBSET Workers
<1>1. worker[w] \in WorkerRecord /\ worker[w].msg \in Messages
  BY DEF TypeInv, WorkersOK, WorkerOK
<1> QED
  BY <1>1, BoundsAssumption DEF Messages, Gen, Job, Gens, WorkerRecord

\* A worker that reads its clock is well typed and only changes its place.
LEMMA ClockingOK ==
    ASSUME TypeInv, NEW w \in Workers, worker[w].pc # "idle",
           NEW place \in {"lease", "plan"}
    PROVE  WorkerOK(Clocking(w, place)) /\ Same(Clocking(w, place), Placed(w, place))
<1> DEFINE others == Clocked(worker[w].msg) \ {w}
<1>1. others \in SUBSET Workers
  BY DEF Clocked
<1>2. Clocking(w, place) = [worker[w] EXCEPT !.pc = place, !.older = others]
  BY DEF Clocking
<1>3. worker[w] \in WorkerRecord /\ worker[w].msg \in Messages
  BY BusyHasMessage
<1> HIDE DEF others
<1> QED
  BY <1>1, <1>2, <1>3 DEF WorkerOK, WorkerRecord, Same, Placed, Places, Owning

\* The same move, described by a record that is the same.
LEMMA MovedSame ==
    ASSUME NEW w \in Workers, NEW x, NEW y, Moved(w, x), Same(x, y)
    PROVE  Moved(w, y)
BY DEF Moved, Same

\* BeginDiscovery acknowledges or goes for the lease, and touches no evidence.
LEMMA BeginDiscoveryEffect ==
    ASSUME TypeInv, NEW w \in Workers, BeginDiscovery(w)
    PROVE  /\ TypeInv' /\ queue' = queue
           /\ \/ /\ Moved(w, Idle) /\ row' = row
                 /\ ~open \/ (row.gen = Gen(w) /\ row.status \in DiscoveryTerminal)
              \/ /\ Moved(w, Placed(w, "lease")) /\ SameEvidence(row', row)
                 /\ row'.status = row.status
<1>1. /\ worker[w].pc # "idle" /\ WorkersOK /\ RowOK(row)
      /\ UNCHANGED <<open, dispatch, certs, lease, answered, faults>>
  BY DEF BeginDiscovery, Discovering, At, TypeInv
<1>2. CASE ~open \/ (row.gen = Gen(w) /\ row.status \in DiscoveryTerminal)
  <2>1. Acknowledge(w) /\ row' = row
    BY <1>2 DEF BeginDiscovery
  <2>2. Moved(w, Idle) /\ queue' = queue
    BY <1>1, <2>1, AcknowledgeMoves
  <2> QED
    BY <1>1, <1>2, <2>1, <2>2 DEF TypeInv, Moved
<1>3. CASE ~(~open \/ (row.gen = Gen(w) /\ row.status \in DiscoveryTerminal))
  <2>1. worker' = Replaced(w, Clocking(w, "lease")) /\ row' = Reclocked(row, row.late \ {w})
        /\ queue' = queue
    BY <1>3 DEF BeginDiscovery, Reclocked
  <2>2. Moved(w, Clocking(w, "lease"))
    BY <1>1, <2>1, ClockingOK, WorkerMoves
  <2>3. Moved(w, Placed(w, "lease"))
    BY <1>1, <2>2, ClockingOK, MovedSame
  <2>4. RowOK(row') /\ SameEvidence(row', row) /\ row'.status = row.status
    <3>1. row.late \ {w} \in SUBSET Workers /\ row.status \in Statuses
      BY <1>1 DEF RowOK, Row, Statuses, DiscoveryTerminal
    <3> QED
      BY <1>1, <2>1, <3>1, RestatedRow
  <2> QED
    BY <1>1, <2>1, <2>3, <2>4 DEF TypeInv, Moved
<1> QED
  BY <1>2, <1>3

\* BeginFetch acknowledges what is superseded or terminal, and may heal the
\* certificate of a complete row.
LEMMA BeginFetchEffect ==
    ASSUME TypeInv, NEW w \in Workers, BeginFetch(w)
    PROVE  /\ TypeInv' /\ queue' = queue
           /\ \/ /\ Moved(w, Idle)
                 /\ ~PlanCurrent(row, Gen(w)) \/ Job(w) \in row.terminal
                 /\ \/ certs' = certs
                    \/ /\ PlanCurrent(row, Gen(w)) /\ CycleComplete(row)
                       /\ certs' = certs \cup {Gen(w)}
              \/ Moved(w, Placed(w, "lease")) /\ certs' = certs
<1>1. /\ worker[w].pc # "idle" /\ WorkersOK /\ Gen(w) \in Gens
      /\ UNCHANGED <<open, dispatch, row, lease, answered, faults>>
  BY BusyHasMessage DEF BeginFetch, Fetching, At, TypeInv
<1>2. CASE ~PlanCurrent(row, Gen(w)) \/ Job(w) \in row.terminal
  <2>1. Moved(w, Idle) /\ queue' = queue
    BY <1>1, <1>2, AcknowledgeMoves DEF BeginFetch
  <2>2. \/ certs' = certs
        \/ /\ PlanCurrent(row, Gen(w)) /\ CycleComplete(row)
           /\ certs' = certs \cup {Gen(w)}
    BY <1>2 DEF BeginFetch
  <2> QED
    BY <1>1, <1>2, <2>1, <2>2 DEF TypeInv, Moved
<1>3. CASE ~(~PlanCurrent(row, Gen(w)) \/ Job(w) \in row.terminal)
  <2>1. Goto(w, "lease") /\ certs' = certs /\ queue' = queue
    BY <1>3 DEF BeginFetch
  <2>2. Moved(w, Placed(w, "lease"))
    BY <1>1, <2>1, GotoMoves DEF Places
  <2> QED
    BY <1>1, <2>1, <2>2 DEF TypeInv, Moved
<1> QED
  BY <1>2, <1>3

\* AcquireLease takes the lease and starts the call.
LEMMA AcquireLeaseEffect ==
    ASSUME TypeInv, NEW w \in Workers, AcquireLease(w)
    PROVE  /\ TypeInv'
           /\ \/ Job(w) = Discover /\ Moved(w, Placed(w, "attempt"))
              \/ Job(w) # Discover /\ Moved(w, Placed(w, "call"))
           /\ lease'[worker[w].msg] = [state |-> "IN_PROGRESS", owner |-> w]
           /\ \A m \in Messages : m # worker[w].msg => lease'[m] = lease[m]
<1>1. /\ worker[w].pc # "idle" /\ WorkersOK /\ worker[w].msg \in Messages
      /\ lease \in [Messages -> LeaseType]
      /\ UNCHANGED <<open, dispatch, row, certs, queue, answered, faults>>
  BY BusyHasMessage DEF AcquireLease, At, TypeInv
<1>2. \/ Job(w) = Discover /\ Moved(w, Placed(w, "attempt"))
      \/ Job(w) # Discover /\ Moved(w, Placed(w, "call"))
  BY <1>1, GotoMoves DEF AcquireLease, Places, Owning
<1>3. lease' = [lease EXCEPT ![worker[w].msg] = [state |-> "IN_PROGRESS", owner |-> w]]
  BY DEF AcquireLease
<1>4. /\ lease' \in [Messages -> LeaseType]
      /\ lease'[worker[w].msg] = [state |-> "IN_PROGRESS", owner |-> w]
      /\ \A m \in Messages : m # worker[w].msg => lease'[m] = lease[m]
  <2>1. [state |-> "IN_PROGRESS", owner |-> w] \in LeaseType
    BY DEF LeaseType
  <2> QED
    BY <1>1, <1>3, <2>1
<1> QED
  BY <1>1, <1>2, <1>4 DEF TypeInv, Moved

\* LeaseRefused drops a duplicate of completed work, and puts others back.
LEMMA LeaseRefusedEffect ==
    ASSUME TypeInv, NEW w \in Workers, LeaseRefused(w)
    PROVE  /\ TypeInv' /\ Moved(w, Idle)
           /\ \/ queue' = queue /\ lease[worker[w].msg].state = "COMPLETED"
              \/ Redelivered(worker[w].msg)
<1>1. /\ worker[w].pc # "idle" /\ WorkersOK /\ queue \in [Messages -> Nat]
      /\ UNCHANGED <<open, dispatch, row, certs, lease, answered, faults>>
  BY DEF LeaseRefused, At, TypeInv
<1>2. CASE lease[worker[w].msg].state = "COMPLETED"
  <2>1. Moved(w, Idle) /\ queue' = queue
    BY <1>1, <1>2, AcknowledgeMoves DEF LeaseRefused
  <2> QED
    BY <1>1, <1>2, <2>1 DEF TypeInv, Moved
<1>3. CASE lease[worker[w].msg].state # "COMPLETED"
  <2>1. Moved(w, Idle) /\ Redelivered(worker[w].msg)
    BY <1>1, <1>3, PutBackMoves DEF LeaseRefused
  <2> QED
    BY <1>1, <2>1 DEF TypeInv, Moved, Redelivered
<1> QED
  BY <1>2, <1>3

\* A step that raises frees the lease and puts the delivery back.
LEMMA RaiseMoves ==
    ASSUME TypeInv, NEW w \in Workers, worker[w].pc # "idle", Raise(w)
    PROVE  /\ Moved(w, Idle) /\ Redelivered(worker[w].msg)
           /\ lease' \in [Messages -> LeaseType] /\ Unleased
BY PutBackMoves, ReleasedLease DEF Raise, TypeInv

\* The row after a worker's attempt.
LEMMA AttemptedRow ==
    ASSUME TypeInv, NEW w \in Workers, worker[w].pc # "idle", NEW status \in Statuses
    PROVE  LET s == Attempted(w, status)
               admitted == AttemptAdmitted(row, Gen(w), status, w \in row.late)
           IN  /\ RowOK(s) /\ Turns(row, s)
               /\ ~admitted => s = row
               /\ admitted => /\ s.gen = Gen(w) /\ s.status = status
                              /\ row.gen < Gen(w) => ~s.planned /\ NoEvidence(s)
                              /\ row.gen = Gen(w) => SameEvidence(s, row)
<1>1. Gen(w) \in 0..MaxGen /\ worker[w].older \in SUBSET Workers /\ RowOK(row)
  BY BusyHasMessage DEF TypeInv
<1> QED
  BY <1>1, AttemptRow DEF Attempted

\* Attempt starts or resumes the generation, or finds it over.
LEMMA AttemptEffect ==
    ASSUME TypeInv, NEW w \in Workers, Attempt(w)
    PROVE  /\ TypeInv' /\ queue' = queue /\ Turns(row, row')
           /\ \/ /\ row'.gen = Gen(w) /\ row'.planned /\ Moved(w, Placed(w, "expect"))
              \/ /\ row'.gen = Gen(w) /\ ~row'.planned /\ Moved(w, Placed(w, "discover"))
              \/ row' = row /\ Moved(w, Staled(w))
<1>1. /\ worker[w].pc # "idle" /\ WorkersOK
      /\ UNCHANGED <<open, dispatch, certs, lease, queue, answered, faults>>
  BY DEF Attempt, Discovering, At, TypeInv
<1> DEFINE admitted == AttemptAdmitted(row, Gen(w), "STARTED", w \in row.late)
<1>2. CASE open /\ admitted
  <2>1. row' = Attempted(w, "STARTED") /\ Goto(w, IF row'.planned THEN "expect" ELSE "discover")
    BY <1>2 DEF Attempt
  <2>2. RowOK(row') /\ Turns(row, row') /\ row'.gen = Gen(w)
    <3>1. "STARTED" \in Statuses
      BY DEF Statuses
    <3> QED
      BY <1>1, <1>2, <2>1, <3>1, AttemptedRow
  <2>3. \/ row'.planned /\ Moved(w, Placed(w, "expect"))
        \/ ~row'.planned /\ Moved(w, Placed(w, "discover"))
    <3>1. CASE row'.planned
      BY <1>1, <2>1, <3>1, GotoMoves DEF Places, Owning
    <3>2. CASE ~row'.planned
      BY <1>1, <2>1, <3>2, GotoMoves DEF Places, Owning
    <3> QED
      BY <3>1, <3>2
  <2> QED
    BY <1>1, <2>2, <2>3 DEF TypeInv, Moved
<1>3. CASE ~(open /\ admitted)
  <2>1. Stale(w) /\ row' = row
    BY <1>3 DEF Attempt
  <2>2. Moved(w, Staled(w))
    BY <1>1, <2>1, StaleMoves
  <2> QED
    BY <1>1, <2>1, <2>2 DEF TypeInv, Moved, Turns, SameEvidence
<1> QED
  BY <1>2, <1>3

\* DiscoveryDeferred notes the deferral and ends the invocation.
LEMMA DiscoveryDeferredEffect ==
    ASSUME TypeInv, NEW w \in Workers, DiscoveryDeferred(w)
    PROVE  /\ TypeInv' /\ Moved(w, Idle) /\ Turns(row, row') /\ Unleased
           /\ queue' = queue \/ Redelivered(worker[w].msg)
<1>1. /\ worker[w].pc # "idle" /\ WorkersOK /\ queue \in [Messages -> Nat]
      /\ UNCHANGED <<open, certs, answered, faults>>
      /\ lease' = Released(w)
  BY DEF DiscoveryDeferred, Discovering, At, TypeInv
<1>2. PICK status \in {"QUOTA_DEFERRED", "ADMISSION_DEFERRED", "RETRYABLE_ERROR"} :
         /\ row' = Attempted(w, status)
         /\ IF status = "QUOTA_DEFERRED"
            THEN /\ Acknowledge(w)
                 /\ dispatch' = [dispatch EXCEPT !.pc = IF @ = "idle" THEN "due" ELSE @]
            ELSE PutBack(w) /\ UNCHANGED dispatch
  BY DEF DiscoveryDeferred
<1>3. RowOK(row') /\ Turns(row, row')
  BY <1>1, <1>2, AttemptedRow DEF Statuses
<1>4. lease' \in [Messages -> LeaseType] /\ Unleased
  BY <1>1, ReleasedLease DEF TypeInv
<1>5. CASE status = "QUOTA_DEFERRED"
  <2>1. Moved(w, Idle) /\ queue' = queue
    BY <1>1, <1>2, <1>5, AcknowledgeMoves
  <2>2. dispatch' \in [gen : 0..MaxGen, pc : {"idle", "due", "send", "mark"}]
    <3>1. dispatch' = [dispatch EXCEPT !.pc = IF @ = "idle" THEN "due" ELSE @]
      BY <1>2, <1>5
    <3> QED
      BY <3>1 DEF TypeInv
  <2> QED
    BY <1>1, <1>3, <1>4, <2>1, <2>2 DEF TypeInv, Moved
<1>6. CASE status # "QUOTA_DEFERRED"
  <2>1. Moved(w, Idle) /\ Redelivered(worker[w].msg) /\ dispatch' = dispatch
    BY <1>1, <1>2, <1>6, PutBackMoves
  <2> QED
    BY <1>1, <1>3, <1>4, <2>1 DEF TypeInv, Moved, Redelivered
<1> QED
  BY <1>5, <1>6

\* DiscoveryRejected notes the refusal and goes to the completion.
LEMMA DiscoveryRejectedEffect ==
    ASSUME TypeInv, NEW w \in Workers, DiscoveryRejected(w)
    PROVE  /\ TypeInv' /\ Moved(w, Placed(w, "complete")) /\ Turns(row, row')
<1>1. /\ worker[w].pc # "idle" /\ WorkersOK
      /\ UNCHANGED <<open, dispatch, certs, lease, queue, answered, faults>>
      /\ row' = Attempted(w, "REQUEST_REJECTED") /\ Goto(w, "complete")
  BY DEF DiscoveryRejected, Discovering, At, TypeInv
<1>2. RowOK(row') /\ Turns(row, row')
  BY <1>1, AttemptedRow DEF Statuses
<1>3. Moved(w, Placed(w, "complete"))
  BY <1>1, GotoMoves DEF Places, Owning
<1> QED
  BY <1>1, <1>2, <1>3 DEF TypeInv, Moved

\* DiscoveryAnswered goes to the plan.
LEMMA DiscoveryAnsweredEffect ==
    ASSUME TypeInv, NEW w \in Workers, DiscoveryAnswered(w)
    PROVE  TypeInv' /\ Moved(w, Placed(w, "plan"))
<1>1. /\ worker[w].pc # "idle" /\ WorkersOK
      /\ UNCHANGED <<open, dispatch, row, certs, lease, queue, answered, faults>>
      /\ worker' = [worker EXCEPT ![w] = Clocking(w, "plan")]
  BY DEF DiscoveryAnswered, Discovering, At, TypeInv
<1>2. Moved(w, Clocking(w, "plan"))
  BY <1>1, ClockingOK, WorkerMoves
<1>3. Moved(w, Placed(w, "plan"))
  BY <1>1, <1>2, ClockingOK, MovedSame
<1> QED
  BY <1>1, <1>3 DEF TypeInv, Moved

\* PutPlan publishes the plan, or finds it too large, superseded or there.
LEMMA PutPlanEffect ==
    ASSUME TypeInv, NEW w \in Workers, PutPlan(w)
    PROVE  /\ TypeInv' /\ Turns(row, row')
           /\ \/ Moved(w, Idle) /\ Redelivered(worker[w].msg) /\ Unleased
              \/ /\ queue' = queue /\ lease' = lease
                 /\ PlanCurrent(row', Gen(w)) /\ Moved(w, Placed(w, "expect"))
              \/ queue' = queue /\ lease' = lease /\ Moved(w, Staled(w))
<1>1. /\ worker[w].pc # "idle" /\ WorkersOK /\ RowOK(row)
      /\ UNCHANGED <<open, dispatch, certs, answered, faults>>
  BY DEF PutPlan, Discovering, At, TypeInv
<1>2. RowOK(row') /\ Turns(row, row')
  <2>1. PICK status \in {"PLAN_READY", "PLAN_SIZE_LIMIT"} :
           row' = AfterPlan(row, Gen(w), status, worker[w].older)
    BY DEF PutPlan
  <2>2. status \in Statuses /\ Gen(w) \in 0..MaxGen /\ worker[w].older \in SUBSET Workers
    BY <1>1, BusyHasMessage DEF Statuses
  <2> QED
    BY <1>1, <2>1, <2>2, PlanRow
<1>3. CASE row'.status = "PLAN_SIZE_LIMIT"
  <2>1. /\ Moved(w, Idle) /\ Redelivered(worker[w].msg)
        /\ lease' \in [Messages -> LeaseType] /\ Unleased
    BY <1>1, <1>3, RaiseMoves DEF PutPlan
  <2> QED
    BY <1>1, <1>2, <2>1 DEF TypeInv, Moved, Redelivered
<1>4. CASE row'.status # "PLAN_SIZE_LIMIT"
  <2>1. /\ queue' = queue /\ lease' = lease
        /\ IF PlanCurrent(row', Gen(w)) THEN Goto(w, "expect") ELSE Stale(w)
    BY <1>4 DEF PutPlan
  <2>2. \/ PlanCurrent(row', Gen(w)) /\ Moved(w, Placed(w, "expect"))
        \/ Moved(w, Staled(w))
    BY <1>1, <2>1, GotoMoves, StaleMoves DEF Places, Owning
  <2> QED
    BY <1>1, <1>2, <2>1, <2>2 DEF TypeInv, Moved
<1> QED
  BY <1>3, <1>4

\* w with the batches to send.
Fanning(w) == [worker[w] EXCEPT !.pc = "fanout", !.todo = Batches \ row.enqueued]

\* FanoutExpected lists the batches to send, or finds the plan superseded.
LEMMA FanoutExpectedEffect ==
    ASSUME TypeInv, NEW w \in Workers, FanoutExpected(w)
    PROVE  /\ TypeInv' /\ SameEvidence(row', row)
           /\ \/ /\ Moved(w, Idle) /\ Redelivered(worker[w].msg) /\ Unleased
                 /\ ~PlanCurrent(row, Gen(w)) /\ row' = row
              \/ /\ queue' = queue /\ lease' = lease /\ PlanCurrent(row, Gen(w))
                 /\ row' = AfterExpected(row, worker[w].older)
                 /\ Moved(w, Fanning(w)) /\ Fanning(w).pc = "fanout"
                 /\ Fanning(w).msg = worker[w].msg /\ Fanning(w).sent = worker[w].sent
                 /\ Fanning(w).got = worker[w].got /\ Fanning(w).mint = worker[w].mint
                 /\ Fanning(w).outcome = worker[w].outcome
                 /\ Fanning(w).todo = Batches \ row.enqueued
<1>1. /\ worker[w].pc # "idle" /\ WorkersOK /\ RowOK(row)
      /\ UNCHANGED <<open, dispatch, certs, answered, faults>>
  BY DEF FanoutExpected, Discovering, At, TypeInv
<1>2. CASE PlanCurrent(row, Gen(w))
  <2>1. /\ queue' = queue /\ lease' = lease /\ row' = AfterExpected(row, worker[w].older)
        /\ worker' = [worker EXCEPT ![w] = Fanning(w)]
    BY <1>2 DEF FanoutExpected, Fanning
  <2>2. RowOK(row') /\ SameEvidence(row', row)
    <3>1. worker[w].older \in SUBSET Workers
      BY <1>1, BusyHasMessage
    <3> QED
      BY <1>1, <2>1, <3>1, ExpectedRow
  <2>3. /\ WorkerOK(Fanning(w)) /\ Fanning(w).pc = "fanout"
        /\ Fanning(w).msg = worker[w].msg /\ Fanning(w).sent = worker[w].sent
        /\ Fanning(w).got = worker[w].got /\ Fanning(w).mint = worker[w].mint
        /\ Fanning(w).outcome = worker[w].outcome
        /\ Fanning(w).todo = Batches \ row.enqueued
    <3> DEFINE left == Batches \ row.enqueued
    <3>1. left \in SUBSET Jobs
      BY TreeAssumption
    <3>2. Fanning(w) = [worker[w] EXCEPT !.pc = "fanout", !.todo = left]
      BY DEF Fanning
    <3>3. worker[w] \in WorkerRecord /\ worker[w].msg \in Messages
      BY <1>1, BusyHasMessage
    <3> HIDE DEF left
    <3>4. /\ WorkerOK(Fanning(w)) /\ Fanning(w).pc = "fanout"
          /\ Fanning(w).msg = worker[w].msg /\ Fanning(w).sent = worker[w].sent
          /\ Fanning(w).got = worker[w].got /\ Fanning(w).mint = worker[w].mint
          /\ Fanning(w).outcome = worker[w].outcome /\ Fanning(w).todo = left
      BY <3>1, <3>2, <3>3 DEF WorkerOK, WorkerRecord, Places, Owning
    <3> QED
      BY <3>4 DEF left
  <2>4. Moved(w, Fanning(w))
    BY <1>1, <2>1, <2>3, WorkerMoves
  <2> QED
    BY <1>1, <1>2, <2>1, <2>2, <2>3, <2>4 DEF TypeInv, Moved
<1>3. CASE ~PlanCurrent(row, Gen(w))
  <2>1. Raise(w) /\ row' = row
    BY <1>3 DEF FanoutExpected
  <2>2. /\ Moved(w, Idle) /\ Redelivered(worker[w].msg)
        /\ lease' \in [Messages -> LeaseType] /\ Unleased
    BY <1>1, <2>1, RaiseMoves
  <2> QED
    BY <1>1, <1>3, <2>1, <2>2 DEF TypeInv, Moved, Redelivered, SameEvidence
<1> QED
  BY <1>2, <1>3

\* w with b sent.
Marking(w, b) == [worker[w] EXCEPT !.pc = "mark", !.sent = {b}]

\* EnqueueBatch sends a batch, which is to be marked.
LEMMA EnqueueBatchEffect ==
    ASSUME TypeInv, NEW w \in Workers, NEW b \in Batches, EnqueueBatch(w, b)
    PROVE  /\ TypeInv' /\ [gen |-> Gen(w), job |-> b] \in Messages
           /\ Redelivered([gen |-> Gen(w), job |-> b])
           /\ Moved(w, Marking(w, b)) /\ Marking(w, b).pc = "mark"
           /\ Marking(w, b).msg = worker[w].msg /\ Marking(w, b).sent = {b}
           /\ Marking(w, b).got = worker[w].got /\ Marking(w, b).mint = worker[w].mint
           /\ Marking(w, b).outcome = worker[w].outcome
<1>1. /\ worker[w].pc # "idle" /\ WorkersOK /\ queue \in [Messages -> Nat]
      /\ UNCHANGED <<open, dispatch, row, certs, lease, answered, faults>>
      /\ queue' = [queue EXCEPT ![[gen |-> Gen(w), job |-> b]] = @ + 1]
      /\ worker' = [worker EXCEPT ![w] = Marking(w, b)]
  BY DEF EnqueueBatch, Discovering, At, TypeInv, Send, Marking
<1>2. [gen |-> Gen(w), job |-> b] \in Messages
  BY <1>1, BusyHasMessage, TreeAssumption DEF Messages
<1>3. Redelivered([gen |-> Gen(w), job |-> b])
  BY <1>1, <1>2, OneMoreDelivery
<1>4. /\ WorkerOK(Marking(w, b)) /\ Marking(w, b).pc = "mark"
      /\ Marking(w, b).msg = worker[w].msg /\ Marking(w, b).sent = {b}
      /\ Marking(w, b).got = worker[w].got /\ Marking(w, b).mint = worker[w].mint
      /\ Marking(w, b).outcome = worker[w].outcome
  <2>1. worker[w] \in WorkerRecord /\ worker[w].msg \in Messages
    BY <1>1, BusyHasMessage
  <2> QED
    BY <2>1 DEF WorkerOK, WorkerRecord, Places, Owning, Marking
<1>5. Moved(w, Marking(w, b))
  BY <1>1, <1>4, WorkerMoves
<1> QED
  BY <1>1, <1>2, <1>3, <1>4, <1>5 DEF TypeInv, Moved, Redelivered

\* w with its batch marked.
Marked(w) == [worker[w] EXCEPT !.pc = "fanout", !.todo = @ \ worker[w].sent, !.sent = {}]

\* MarkEnqueued records the batch that was sent, or finds the plan superseded.
LEMMA MarkEnqueuedEffect ==
    ASSUME TypeInv, NEW w \in Workers, MarkEnqueued(w)
    PROVE  /\ TypeInv'
           /\ \/ /\ Moved(w, Idle) /\ Redelivered(worker[w].msg) /\ Unleased
                 /\ ~PlanCurrent(row, Gen(w)) /\ row' = row
              \/ /\ queue' = queue /\ lease' = lease /\ PlanCurrent(row, Gen(w))
                 /\ row'.gen = row.gen /\ row'.planned = row.planned
                 /\ row'.status = row.status /\ row'.expected = row.expected
                 /\ row'.enqueued = row.enqueued \cup worker[w].sent
                 /\ row'.succeeded = row.succeeded /\ row'.terminal = row.terminal
                 /\ row'.returned = row.returned /\ row'.frontier = row.frontier
                 /\ row'.done = row.done /\ row'.bad = row.bad
                 /\ row'.failed = row.failed
                 /\ Moved(w, Marked(w)) /\ Marked(w).pc = "fanout"
                 /\ Marked(w).msg = worker[w].msg /\ Marked(w).sent = {}
                 /\ Marked(w).got = worker[w].got /\ Marked(w).mint = worker[w].mint
                 /\ Marked(w).outcome = worker[w].outcome
<1>1. /\ worker[w].pc # "idle" /\ WorkersOK /\ RowOK(row)
      /\ UNCHANGED <<open, dispatch, certs, answered, faults>>
  BY DEF MarkEnqueued, Discovering, At, TypeInv
<1>2. worker[w] \in WorkerRecord /\ worker[w].msg \in Messages
  BY <1>1, BusyHasMessage
<1>3. CASE PlanCurrent(row, Gen(w))
  <2> DEFINE all == row.enqueued \cup worker[w].sent
             left == worker[w].todo \ worker[w].sent
  <2>1. /\ queue' = queue /\ lease' = lease /\ row' = [row EXCEPT !.enqueued = all]
        /\ worker' = [worker EXCEPT ![w] = Marked(w)]
    BY <1>3 DEF MarkEnqueued, Marked
  <2>2. all \in SUBSET Batches /\ left \in SUBSET Jobs /\ row \in Row
    BY <1>1, <1>2 DEF RowOK, Row, WorkerRecord
  <2>3. Marked(w) = [worker[w] EXCEPT !.pc = "fanout", !.todo = left, !.sent = {}]
    BY DEF Marked
  <2> HIDE DEF all, left
  <2>4. /\ RowOK(row')
        /\ row'.gen = row.gen /\ row'.planned = row.planned
        /\ row'.status = row.status /\ row'.expected = row.expected
        /\ row'.enqueued = all
        /\ row'.succeeded = row.succeeded /\ row'.terminal = row.terminal
        /\ row'.returned = row.returned /\ row'.frontier = row.frontier
        /\ row'.done = row.done /\ row'.bad = row.bad /\ row'.failed = row.failed
    BY <1>1, <2>1, <2>2 DEF RowOK, Row
  <2>5. /\ WorkerOK(Marked(w)) /\ Marked(w).pc = "fanout"
        /\ Marked(w).msg = worker[w].msg /\ Marked(w).sent = {}
        /\ Marked(w).got = worker[w].got /\ Marked(w).mint = worker[w].mint
        /\ Marked(w).outcome = worker[w].outcome
    BY <1>2, <2>2, <2>3 DEF WorkerOK, WorkerRecord, Places, Owning
  <2>6. Moved(w, Marked(w))
    BY <1>1, <2>1, <2>5, WorkerMoves
  <2> QED
    BY <1>1, <1>3, <2>1, <2>4, <2>5, <2>6 DEF TypeInv, Moved, all
<1>4. CASE ~PlanCurrent(row, Gen(w))
  <2>1. Raise(w) /\ row' = row
    BY <1>4 DEF MarkEnqueued
  <2>2. /\ Moved(w, Idle) /\ Redelivered(worker[w].msg)
        /\ lease' \in [Messages -> LeaseType] /\ Unleased
    BY <1>1, <2>1, RaiseMoves
  <2> QED
    BY <1>1, <1>4, <2>1, <2>2 DEF TypeInv, Moved, Redelivered
<1> QED
  BY <1>3, <1>4

\* CompleteFanout ends the discovery, or finds a batch unmarked.
LEMMA CompleteFanoutEffect ==
    ASSUME TypeInv, NEW w \in Workers, CompleteFanout(w)
    PROVE  /\ TypeInv' /\ SameEvidence(row', row)
           /\ \/ Moved(w, Idle) /\ Redelivered(worker[w].msg) /\ Unleased /\ row' = row
              \/ /\ queue' = queue /\ lease' = lease /\ Moved(w, Placed(w, "complete"))
                 /\ row'.status = "HTTP_200" /\ PlanCurrent(row, Gen(w))
<1>1. /\ worker[w].pc # "idle" /\ WorkersOK /\ RowOK(row)
      /\ UNCHANGED <<open, dispatch, certs, answered, faults>>
  BY DEF CompleteFanout, Discovering, At, TypeInv
<1>2. CASE FanoutDone(row, Gen(w))
  <2>1. /\ queue' = queue /\ lease' = lease /\ row' = Restated(row, "HTTP_200", {})
        /\ Goto(w, "complete")
    BY <1>2 DEF CompleteFanout, Restated
  <2>2. RowOK(row') /\ SameEvidence(row', row) /\ row'.status = "HTTP_200"
    <3>1. "HTTP_200" \in Statuses /\ {} \in SUBSET Workers
      BY DEF Statuses
    <3> QED
      BY <1>1, <2>1, <3>1, RestatedRow
  <2>3. Moved(w, Placed(w, "complete"))
    BY <1>1, <2>1, GotoMoves DEF Places, Owning
  <2> QED
    BY <1>1, <1>2, <2>1, <2>2, <2>3 DEF TypeInv, Moved, FanoutDone
<1>3. CASE ~FanoutDone(row, Gen(w))
  <2>1. Raise(w) /\ row' = row
    BY <1>3 DEF CompleteFanout
  <2>2. /\ Moved(w, Idle) /\ Redelivered(worker[w].msg)
        /\ lease' \in [Messages -> LeaseType] /\ Unleased
    BY <1>1, <2>1, RaiseMoves
  <2> QED
    BY <1>1, <2>1, <2>2 DEF TypeInv, Moved, Redelivered, SameEvidence
<1> QED
  BY <1>2, <1>3

\* A completion closes the lease of settled work, or frees it.
LEMMA CompletionEffect ==
    ASSUME TypeInv, NEW w \in Workers, worker[w].pc # "idle", NEW settled,
           LET m == worker[w].msg
               mine == lease[m].owner = w /\ lease[m].state = "IN_PROGRESS"
           IN  IF settled /\ (mine \/ lease[m].state = "COMPLETED")
               THEN /\ lease' = [lease EXCEPT ![m] = [@ EXCEPT !.state = "COMPLETED"]]
                    /\ Acknowledge(w)
               ELSE /\ lease' = Released(w)
                    /\ IF worker[w].outcome = "STALE" THEN Acknowledge(w) ELSE PutBack(w)
    PROVE  /\ Moved(w, Idle) /\ lease' \in [Messages -> LeaseType]
           /\ \A m \in Messages :
                 m # worker[w].msg => lease'[m] = lease[m] \/ lease'[m].state = "NONE"
           /\ \/ /\ queue' = queue /\ settled
                 /\ lease'[worker[w].msg].state = "COMPLETED"
              \/ queue' = queue /\ worker[w].outcome = "STALE" /\ Unleased
              \/ Redelivered(worker[w].msg) /\ Unleased
<1> DEFINE m == worker[w].msg
           mine == lease[m].owner = w /\ lease[m].state = "IN_PROGRESS"
<1>1. /\ WorkersOK /\ queue \in [Messages -> Nat] /\ lease \in [Messages -> LeaseType]
      /\ m \in Messages
  BY BusyHasMessage DEF TypeInv
<1>2. CASE settled /\ (mine \/ lease[m].state = "COMPLETED")
  <2>1. lease' = [lease EXCEPT ![m] = [@ EXCEPT !.state = "COMPLETED"]] /\ Acknowledge(w)
    BY <1>2
  <2>2. Moved(w, Idle) /\ queue' = queue
    BY <1>1, <2>1, AcknowledgeMoves
  <2>3. /\ lease' \in [Messages -> LeaseType] /\ lease'[m].state = "COMPLETED"
        /\ \A n \in Messages : n # m => lease'[n] = lease[n]
    BY <1>1, <2>1 DEF LeaseType
  <2> QED
    BY <1>2, <2>2, <2>3
<1>3. CASE ~(settled /\ (mine \/ lease[m].state = "COMPLETED"))
  <2>1. /\ lease' = Released(w)
        /\ IF worker[w].outcome = "STALE" THEN Acknowledge(w) ELSE PutBack(w)
    BY <1>3
  <2>2. lease' \in [Messages -> LeaseType] /\ Unleased
    BY <1>1, <2>1, ReleasedLease
  <2>3. CASE worker[w].outcome = "STALE"
    <3>1. Moved(w, Idle) /\ queue' = queue
      BY <1>1, <2>1, <2>3, AcknowledgeMoves
    <3> QED
      BY <2>2, <2>3, <3>1 DEF Unleased
  <2>4. CASE worker[w].outcome # "STALE"
    <3>1. Moved(w, Idle) /\ Redelivered(m)
      BY <1>1, <2>1, <2>4, PutBackMoves
    <3> QED
      BY <2>2, <3>1 DEF Unleased
  <2> QED
    BY <2>3, <2>4
<1> QED
  BY <1>2, <1>3

\* A fetch that is stale ends.
LEMMA FetchStaleEffect ==
    ASSUME TypeInv, NEW w \in Workers, FetchStale(w)
    PROVE  TypeInv' /\ Moved(w, Staled(w))
<1>1. /\ worker[w].pc # "idle" /\ WorkersOK /\ Stale(w)
      /\ UNCHANGED <<open, dispatch, row, certs, lease, queue, answered, faults>>
  BY DEF FetchStale, Fetching, At, TypeInv
<1> QED
  BY <1>1, StaleMoves DEF TypeInv, Moved

\* w with an outcome without data.
Unanswered(w, outcome) == [worker[w] EXCEPT !.pc = "merge", !.outcome = outcome]

\* A fetch without data goes to the merge.
LEMMA FetchUnansweredEffect ==
    ASSUME TypeInv, NEW w \in Workers, FetchUnanswered(w)
    PROVE  /\ TypeInv'
           /\ \E outcome \in {"QUOTA_DEFERRED", "RETRYABLE_ERROR", "REQUEST_REJECTED"} :
                 LET z == Unanswered(w, outcome)
                 IN  /\ Moved(w, z) /\ z.pc = "merge" /\ z.outcome = outcome
                     /\ z.msg = worker[w].msg /\ z.got = worker[w].got
                     /\ z.sent = worker[w].sent /\ z.mint = worker[w].mint
<1>1. /\ worker[w].pc # "idle" /\ WorkersOK
      /\ UNCHANGED <<open, dispatch, row, certs, lease, queue, answered, faults>>
  BY DEF FetchUnanswered, MayCall, Fetching, At, TypeInv
<1>2. PICK outcome \in {"QUOTA_DEFERRED", "RETRYABLE_ERROR", "REQUEST_REJECTED"} :
         worker' = [worker EXCEPT ![w] = Unanswered(w, outcome)]
  BY DEF FetchUnanswered, Unanswered
<1> DEFINE z == Unanswered(w, outcome)
<1>3. /\ WorkerOK(z) /\ z.pc = "merge" /\ z.outcome = outcome
      /\ z.msg = worker[w].msg /\ z.got = worker[w].got
      /\ z.sent = worker[w].sent /\ z.mint = worker[w].mint
  <2>1. worker[w] \in WorkerRecord /\ worker[w].msg \in Messages
    BY <1>1, BusyHasMessage
  <2> QED
    BY <2>1 DEF WorkerOK, WorkerRecord, Places, Owning, Outcomes, Unanswered
<1> HIDE DEF z
<1>4. Moved(w, z)
  BY <1>1, <1>2, <1>3, WorkerMoves DEF z
<1> QED
  BY <1>1, <1>3, <1>4 DEF TypeInv, Moved, z

\* w with an answer.
Answered(w, got) ==
    [worker[w] EXCEPT !.pc = "merge", !.outcome = "HTTP_200", !.got = got]

\* A fetch with data is noted and goes to the merge.
LEMMA FetchAnsweredEffect ==
    ASSUME TypeInv, NEW w \in Workers, FetchAnswered(w)
    PROVE  /\ TypeInv'
           /\ \E got \in SUBSET Pairs :
                 LET z == Answered(w, got)
                 IN  /\ Moved(w, z) /\ z.pc = "merge" /\ z.outcome = "HTTP_200"
                     /\ z.msg = worker[w].msg /\ z.got = got
                     /\ z.sent = worker[w].sent /\ z.mint = worker[w].mint
                     /\ answered' = answered \cup
                           {[gen |-> Gen(w), job |-> Job(w), pairs |-> got]}
<1>1. /\ worker[w].pc # "idle" /\ WorkersOK /\ Job(w) # Discover
      /\ UNCHANGED <<open, dispatch, row, certs, lease, queue, faults>>
  BY DEF FetchAnswered, MayCall, Fetching, At, TypeInv, Job
<1>2. PICK got \in SUBSET ScopeOf[Job(w)] :
         /\ answered' = answered \cup {[gen |-> Gen(w), job |-> Job(w), pairs |-> got]}
         /\ worker' = [worker EXCEPT ![w] = Answered(w, got)]
  BY DEF FetchAnswered, Answered
<1>3. Job(w) \in Jobs /\ Gen(w) \in Gens
  BY <1>1, BusyHasMessage
<1>4. got \in SUBSET Pairs
  BY <1>2, <1>3, PairsAssumption
<1> DEFINE z == Answered(w, got)
<1>5. /\ WorkerOK(z) /\ z.pc = "merge" /\ z.outcome = "HTTP_200"
      /\ z.msg = worker[w].msg /\ z.got = got
      /\ z.sent = worker[w].sent /\ z.mint = worker[w].mint
  <2>1. worker[w] \in WorkerRecord /\ worker[w].msg \in Messages
    BY <1>1, BusyHasMessage
  <2> QED
    BY <1>4, <2>1 DEF WorkerOK, WorkerRecord, Places, Owning, Outcomes, Answered
<1> HIDE DEF z
<1>6. Moved(w, z)
  BY <1>1, <1>2, <1>5, WorkerMoves DEF z
<1>7. answered' \subseteq AnswerType
  BY <1>2, <1>3, <1>4 DEF AnswerType, TypeInv
<1> QED
  BY <1>1, <1>2, <1>4, <1>5, <1>6, <1>7 DEF TypeInv, Moved, z

\* w with the parts of its job to send.
Splitting(w) ==
    [worker[w] EXCEPT !.pc = "send", !.outcome = "SPLIT_PENDING", !.todo = Children[Job(w)]]

\* A fetch that is halved goes to the sends.
LEMMA FetchSplitEffect ==
    ASSUME TypeInv, NEW w \in Workers, FetchSplit(w)
    PROVE  /\ TypeInv' /\ Job(w) \in Jobs /\ Children[Job(w)] # {}
           /\ Moved(w, Splitting(w)) /\ Splitting(w).pc = "send"
           /\ Splitting(w).outcome = "SPLIT_PENDING" /\ Splitting(w).msg = worker[w].msg
           /\ Splitting(w).got = worker[w].got /\ Splitting(w).sent = worker[w].sent
           /\ Splitting(w).mint = worker[w].mint /\ Splitting(w).todo = Children[Job(w)]
<1>1. /\ worker[w].pc # "idle" /\ WorkersOK /\ Job(w) # Discover /\ Children[Job(w)] # {}
      /\ UNCHANGED <<open, dispatch, row, certs, lease, queue, answered, faults>>
      /\ worker' = [worker EXCEPT ![w] = Splitting(w)]
  BY DEF FetchSplit, MayCall, Fetching, At, TypeInv, Job, Splitting
<1>2. Job(w) \in Jobs
  BY <1>1, BusyHasMessage
<1>3. /\ WorkerOK(Splitting(w)) /\ Splitting(w).pc = "send"
      /\ Splitting(w).outcome = "SPLIT_PENDING" /\ Splitting(w).msg = worker[w].msg
      /\ Splitting(w).got = worker[w].got /\ Splitting(w).sent = worker[w].sent
      /\ Splitting(w).mint = worker[w].mint /\ Splitting(w).todo = Children[Job(w)]
  <2> DEFINE parts == Children[Job(w)]
  <2>1. worker[w] \in WorkerRecord /\ worker[w].msg \in Messages
    BY <1>1, BusyHasMessage
  <2>2. parts \in SUBSET Jobs
    BY <1>2, TreeAssumption
  <2>3. Splitting(w) =
           [worker[w] EXCEPT !.pc = "send", !.outcome = "SPLIT_PENDING", !.todo = parts]
    BY DEF Splitting
  <2> HIDE DEF parts
  <2>4. /\ WorkerOK(Splitting(w)) /\ Splitting(w).pc = "send"
        /\ Splitting(w).outcome = "SPLIT_PENDING" /\ Splitting(w).msg = worker[w].msg
        /\ Splitting(w).got = worker[w].got /\ Splitting(w).sent = worker[w].sent
        /\ Splitting(w).mint = worker[w].mint /\ Splitting(w).todo = parts
    BY <2>1, <2>2, <2>3 DEF WorkerOK, WorkerRecord, Places, Owning, Outcomes
  <2> QED
    BY <2>4 DEF parts
<1>4. Moved(w, Splitting(w))
  BY <1>1, <1>3, WorkerMoves
<1> QED
  BY <1>1, <1>2, <1>3, <1>4 DEF TypeInv, Moved

\* w with c sent.
Sending(w, c) ==
    [worker[w] EXCEPT !.todo = @ \ {c},
                      !.pc = IF worker[w].todo = {c} THEN "merge" ELSE "send"]

\* SendChild sends a part of the job.
LEMMA SendChildEffect ==
    ASSUME TypeInv, NEW w \in Workers, NEW c \in Jobs, SendChild(w, c)
    PROVE  /\ TypeInv' /\ [gen |-> Gen(w), job |-> c] \in Messages
           /\ Redelivered([gen |-> Gen(w), job |-> c])
           /\ Moved(w, Sending(w, c)) /\ Sending(w, c).pc \in {"merge", "send"}
           /\ Sending(w, c).msg = worker[w].msg /\ Sending(w, c).got = worker[w].got
           /\ Sending(w, c).sent = worker[w].sent /\ Sending(w, c).mint = worker[w].mint
           /\ Sending(w, c).outcome = worker[w].outcome
           /\ Sending(w, c).todo = worker[w].todo \ {c}
           /\ Sending(w, c).pc = "merge" => worker[w].todo = {c}
<1>1. /\ worker[w].pc # "idle" /\ WorkersOK /\ queue \in [Messages -> Nat]
      /\ UNCHANGED <<open, dispatch, row, certs, lease, answered, faults>>
      /\ queue' = [queue EXCEPT ![[gen |-> Gen(w), job |-> c]] = @ + 1]
      /\ worker' = [worker EXCEPT ![w] = Sending(w, c)]
  BY DEF SendChild, Fetching, At, TypeInv, Send, Sending
<1>2. [gen |-> Gen(w), job |-> c] \in Messages
  BY <1>1, BusyHasMessage DEF Messages
<1>3. Redelivered([gen |-> Gen(w), job |-> c])
  BY <1>1, <1>2, OneMoreDelivery
<1>4. /\ WorkerOK(Sending(w, c)) /\ Sending(w, c).pc \in {"merge", "send"}
      /\ Sending(w, c).msg = worker[w].msg /\ Sending(w, c).got = worker[w].got
      /\ Sending(w, c).sent = worker[w].sent /\ Sending(w, c).mint = worker[w].mint
      /\ Sending(w, c).outcome = worker[w].outcome
      /\ Sending(w, c).todo = worker[w].todo \ {c}
      /\ Sending(w, c).pc = "merge" => worker[w].todo = {c}
  <2> DEFINE left == worker[w].todo \ {c}
             place == IF worker[w].todo = {c} THEN "merge" ELSE "send"
  <2>1. worker[w] \in WorkerRecord /\ worker[w].msg \in Messages
    BY <1>1, BusyHasMessage
  <2>2. left \in SUBSET Jobs /\ place \in {"merge", "send"}
    BY <2>1 DEF WorkerRecord
  <2>3. Sending(w, c) = [worker[w] EXCEPT !.todo = left, !.pc = place]
    BY DEF Sending
  <2>4. place = "merge" => worker[w].todo = {c}
    OBVIOUS
  <2> HIDE DEF left, place
  <2>5. /\ WorkerOK(Sending(w, c)) /\ Sending(w, c).pc = place
        /\ Sending(w, c).msg = worker[w].msg /\ Sending(w, c).got = worker[w].got
        /\ Sending(w, c).sent = worker[w].sent /\ Sending(w, c).mint = worker[w].mint
        /\ Sending(w, c).outcome = worker[w].outcome /\ Sending(w, c).todo = left
    BY <2>1, <2>2, <2>3 DEF WorkerOK, WorkerRecord, Places, Owning
  <2> QED
    BY <2>2, <2>4, <2>5 DEF left
<1>5. Moved(w, Sending(w, c))
  BY <1>1, <1>4, WorkerMoves
<1> QED
  BY <1>1, <1>2, <1>3, <1>4, <1>5 DEF TypeInv, Moved, Redelivered

\* CompleteDiscovery keeps the types; the rest is in CompletionEffect.
LEMMA CompleteDiscoveryEffect ==
    ASSUME TypeInv, NEW w \in Workers, CompleteDiscovery(w)
    PROVE  /\ TypeInv' /\ Moved(w, Idle)
           /\ \A m \in Messages :
                 m # worker[w].msg => lease'[m] = lease[m] \/ lease'[m].state = "NONE"
           /\ \/ /\ queue' = queue /\ lease'[worker[w].msg].state = "COMPLETED"
                 /\ row.gen = Gen(w) /\ row.status \in DiscoveryTerminal
              \/ queue' = queue /\ worker[w].outcome = "STALE" /\ Unleased
              \/ Redelivered(worker[w].msg) /\ Unleased
<1>1. /\ worker[w].pc # "idle"
      /\ UNCHANGED <<open, dispatch, row, certs, answered, faults>>
  BY DEF CompleteDiscovery, Discovering, At
<1> DEFINE settled == row.gen = Gen(w) /\ row.status \in DiscoveryTerminal
<1>2. LET m == worker[w].msg
          mine == lease[m].owner = w /\ lease[m].state = "IN_PROGRESS"
      IN  IF settled /\ (mine \/ lease[m].state = "COMPLETED")
          THEN /\ lease' = [lease EXCEPT ![m] = [@ EXCEPT !.state = "COMPLETED"]]
               /\ Acknowledge(w)
          ELSE /\ lease' = Released(w)
               /\ IF worker[w].outcome = "STALE" THEN Acknowledge(w) ELSE PutBack(w)
  BY DEF CompleteDiscovery
<1>3. /\ Moved(w, Idle) /\ lease' \in [Messages -> LeaseType]
      /\ \A m \in Messages :
            m # worker[w].msg => lease'[m] = lease[m] \/ lease'[m].state = "NONE"
      /\ \/ /\ queue' = queue /\ settled
            /\ lease'[worker[w].msg].state = "COMPLETED"
         \/ queue' = queue /\ worker[w].outcome = "STALE" /\ Unleased
         \/ Redelivered(worker[w].msg) /\ Unleased
  <2> HIDE DEF settled
  <2> QED
    BY <1>1, <1>2, CompletionEffect
<1> QED
  BY <1>1, <1>3 DEF TypeInv, Moved, Redelivered

\* CompleteFetch likewise.
LEMMA CompleteFetchEffect ==
    ASSUME TypeInv, NEW w \in Workers, CompleteFetch(w)
    PROVE  /\ TypeInv' /\ Moved(w, Idle)
           /\ \A m \in Messages :
                 m # worker[w].msg => lease'[m] = lease[m] \/ lease'[m].state = "NONE"
           /\ \/ /\ queue' = queue /\ lease'[worker[w].msg].state = "COMPLETED"
                 /\ PlanCurrent(row, Gen(w)) /\ Job(w) \in row.terminal
              \/ queue' = queue /\ worker[w].outcome = "STALE" /\ Unleased
              \/ Redelivered(worker[w].msg) /\ Unleased
<1>1. /\ worker[w].pc # "idle"
      /\ UNCHANGED <<open, dispatch, row, certs, answered, faults>>
  BY DEF CompleteFetch, Fetching, At
<1> DEFINE settled == PlanCurrent(row, Gen(w)) /\ Job(w) \in row.terminal
<1>2. LET m == worker[w].msg
          mine == lease[m].owner = w /\ lease[m].state = "IN_PROGRESS"
      IN  IF settled /\ (mine \/ lease[m].state = "COMPLETED")
          THEN /\ lease' = [lease EXCEPT ![m] = [@ EXCEPT !.state = "COMPLETED"]]
               /\ Acknowledge(w)
          ELSE /\ lease' = Released(w)
               /\ IF worker[w].outcome = "STALE" THEN Acknowledge(w) ELSE PutBack(w)
  BY DEF CompleteFetch
<1>3. /\ Moved(w, Idle) /\ lease' \in [Messages -> LeaseType]
      /\ \A m \in Messages :
            m # worker[w].msg => lease'[m] = lease[m] \/ lease'[m].state = "NONE"
      /\ \/ /\ queue' = queue /\ settled
            /\ lease'[worker[w].msg].state = "COMPLETED"
         \/ queue' = queue /\ worker[w].outcome = "STALE" /\ Unleased
         \/ Redelivered(worker[w].msg) /\ Unleased
  <2> HIDE DEF settled
  <2> QED
    BY <1>1, <1>2, CompletionEffect
<1> QED
  BY <1>1, <1>3 DEF TypeInv, Moved, Redelivered

\* w with its outcome merged, and the certificate to mint.
Minting(w, complete) == [worker[w] EXCEPT !.pc = "mint", !.mint = complete]

\* w with an outcome that could not be merged.
Unmerged(w, outcome) == [worker[w] EXCEPT !.pc = "mint", !.outcome = outcome]

\* MergeOutcome merges the outcome, or is refused by a superseded plan or an
\* overtaken parent.
LEMMA MergeOutcomeEffect ==
    ASSUME TypeInv, NEW w \in Workers, MergeOutcome(w)
    PROVE  /\ TypeInv' /\ Job(w) \in Jobs
           /\ \/ /\ MergeAdmitted(row, Gen(w), Job(w), worker[w].outcome)
                 /\ row' = Merged(row, Job(w), worker[w].outcome, worker[w].got)
                 /\ LET z == Minting(w, CycleComplete(row'))
                    IN  /\ Moved(w, z) /\ z.pc = "mint" /\ z.msg = worker[w].msg
                        /\ z.outcome = worker[w].outcome /\ z.got = worker[w].got
                        /\ z.sent = worker[w].sent /\ z.mint = CycleComplete(row')
              \/ \E outcome \in {worker[w].outcome, "STALE"} :
                    LET z == Unmerged(w, outcome)
                    IN  /\ row' = row
                        /\ outcome = "STALE" /\ worker[w].outcome # "STALE" =>
                              ~PlanCurrent(row, Gen(w))
                        /\ Moved(w, z) /\ z.pc = "mint" /\ z.msg = worker[w].msg
                        /\ z.outcome = outcome /\ z.got = worker[w].got
                        /\ z.sent = worker[w].sent /\ z.mint = worker[w].mint
<1>1. /\ worker[w].pc # "idle" /\ WorkersOK /\ Job(w) # Discover /\ RowOK(row)
      /\ UNCHANGED <<open, dispatch, certs, lease, queue, answered, faults>>
  BY DEF MergeOutcome, Fetching, At, TypeInv, Job
<1>2. /\ Job(w) \in Jobs /\ worker[w] \in WorkerRecord /\ worker[w].msg \in Messages
      /\ worker[w].outcome \in Outcomes /\ worker[w].got \in SUBSET Pairs
  BY <1>1, BusyHasMessage DEF WorkerRecord
<1>3. CASE MergeAdmitted(row, Gen(w), Job(w), worker[w].outcome)
  <2> DEFINE complete == CycleComplete(row')
             z == Minting(w, complete)
  <2>1. /\ row' = Merged(row, Job(w), worker[w].outcome, worker[w].got)
        /\ worker' = [worker EXCEPT ![w] = z]
    BY <1>3 DEF MergeOutcome, Minting
  <2>2. complete \in BOOLEAN
    BY DEF CycleComplete
  <2> HIDE DEF complete
  <2>3. /\ WorkerOK(z) /\ z.pc = "mint" /\ z.msg = worker[w].msg
        /\ z.outcome = worker[w].outcome /\ z.got = worker[w].got
        /\ z.sent = worker[w].sent /\ z.mint = complete
    BY <1>2, <2>2 DEF WorkerOK, WorkerRecord, Places, Owning, Minting
  <2> HIDE DEF z
  <2>4. Moved(w, z)
    BY <1>1, <2>1, <2>3, WorkerMoves
  <2>5. RowOK(row')
    BY <1>1, <1>2, <2>1, MergedRow
  <2>6. TypeInv'
    BY <1>1, <2>4, <2>5 DEF TypeInv, Moved
  <2> QED
    BY <1>2, <1>3, <2>1, <2>3, <2>4, <2>6 DEF z, complete
<1>4. CASE ~MergeAdmitted(row, Gen(w), Job(w), worker[w].outcome)
  <2> DEFINE choices ==
               IF PlanCurrent(row, Gen(w)) THEN {worker[w].outcome}
               ELSE CASE worker[w].outcome = "QUOTA_DEFERRED" -> {"STALE"}
                      [] worker[w].outcome = "RETRYABLE_ERROR" -> {worker[w].outcome, "STALE"}
                      [] OTHER -> {worker[w].outcome}
  <2>1. /\ row' = row
        /\ \E outcome \in choices : worker' = [worker EXCEPT ![w] = Unmerged(w, outcome)]
    BY <1>4 DEF MergeOutcome, Unmerged
  <2>2. PICK outcome \in {worker[w].outcome, "STALE"} :
           /\ worker' = [worker EXCEPT ![w] = Unmerged(w, outcome)]
           /\ outcome = "STALE" /\ worker[w].outcome # "STALE" => ~PlanCurrent(row, Gen(w))
    <3>1. CASE PlanCurrent(row, Gen(w))
      <4>1. choices \subseteq {worker[w].outcome}
        BY <3>1 DEF PlanCurrent
      <4> HIDE DEF choices
      <4> QED
        BY <2>1, <4>1
    <3>2. CASE ~PlanCurrent(row, Gen(w))
      <4>1. choices \subseteq {worker[w].outcome, "STALE"}
        BY <3>2 DEF PlanCurrent
      <4> HIDE DEF choices
      <4> QED
        BY <2>1, <3>2, <4>1
    <3> QED
      BY <3>1, <3>2
  <2> DEFINE z == Unmerged(w, outcome)
  <2>3. /\ WorkerOK(z) /\ z.pc = "mint" /\ z.msg = worker[w].msg
        /\ z.outcome = outcome /\ z.got = worker[w].got
        /\ z.sent = worker[w].sent /\ z.mint = worker[w].mint
    <3>1. outcome \in Outcomes
      BY <1>2, <2>2 DEF Outcomes
    <3> QED
      BY <1>2, <3>1 DEF WorkerOK, WorkerRecord, Places, Owning, Unmerged
  <2> HIDE DEF z
  <2>4. Moved(w, z)
    BY <1>1, <2>2, <2>3, WorkerMoves DEF z
  <2>5. TypeInv'
    BY <1>1, <2>1, <2>4 DEF TypeInv, Moved
  <2> QED
    BY <1>2, <2>1, <2>2, <2>3, <2>4, <2>5 DEF z
<1> QED
  BY <1>3, <1>4

\* MintCertificate adds the certificate that was found complete.
LEMMA MintCertificateEffect ==
    ASSUME TypeInv, NEW w \in Workers, MintCertificate(w)
    PROVE  /\ TypeInv' /\ Gen(w) \in Gens
           /\ certs' = IF worker[w].mint THEN certs \cup {Gen(w)} ELSE certs
           /\ \/ Moved(w, Idle) /\ Redelivered(worker[w].msg) /\ Unleased
              \/ queue' = queue /\ lease' = lease /\ Moved(w, Placed(w, "complete"))
<1>1. /\ worker[w].pc # "idle" /\ WorkersOK
      /\ UNCHANGED <<open, dispatch, row, answered, faults>>
      /\ certs' = IF worker[w].mint THEN certs \cup {Gen(w)} ELSE certs
  BY DEF MintCertificate, Fetching, At, TypeInv
<1>2. Gen(w) \in Gens
  BY <1>1, BusyHasMessage
<1>3. CASE worker[w].outcome \in {"QUOTA_DEFERRED", "RETRYABLE_ERROR"}
  <2>1. Raise(w)
    BY <1>3 DEF MintCertificate
  <2>2. /\ Moved(w, Idle) /\ Redelivered(worker[w].msg)
        /\ lease' \in [Messages -> LeaseType] /\ Unleased
    BY <1>1, <2>1, RaiseMoves
  <2> QED
    BY <1>1, <1>2, <2>2 DEF TypeInv, Moved, Redelivered
<1>4. CASE worker[w].outcome \notin {"QUOTA_DEFERRED", "RETRYABLE_ERROR"}
  <2>1. Goto(w, "complete") /\ queue' = queue /\ lease' = lease
    BY <1>4 DEF MintCertificate
  <2>2. Moved(w, Placed(w, "complete"))
    BY <1>1, <2>1, GotoMoves DEF Places, Owning
  <2> QED
    BY <1>1, <1>2, <2>1, <2>2 DEF TypeInv, Moved
<1> QED
  BY <1>3, <1>4

\* A crash puts the delivery back.
LEMMA CrashEffect ==
    ASSUME TypeInv, NEW w \in Workers, Crash(w)
    PROVE  TypeInv' /\ Moved(w, Idle) /\ Redelivered(worker[w].msg)
<1>1. /\ worker[w].pc # "idle" /\ WorkersOK /\ queue \in [Messages -> Nat]
      /\ faults' \in 0..MaxFaults
      /\ UNCHANGED <<open, dispatch, row, certs, lease, answered>>
  BY BoundsAssumption DEF Crash, TypeInv
<1>2. Moved(w, Idle) /\ Redelivered(worker[w].msg)
  BY <1>1, PutBackMoves DEF Crash
<1> QED
  BY <1>1, <1>2 DEF TypeInv, Moved, Redelivered

\* w with the message m.
Given(m) == [Idle EXCEPT !.pc = "begin", !.msg = m]

\* A delivery gives its message to an idle worker.
LEMMA ReceiveEffect ==
    ASSUME TypeInv, NEW w \in Workers, NEW m \in Messages, Receive(w, m)
    PROVE  /\ TypeInv' /\ worker[w].pc = "idle" /\ queue[m] > 0
           /\ \A n \in Messages : n # m => queue'[n] = queue[n]
           /\ Moved(w, Given(m)) /\ Given(m).pc = "begin" /\ Given(m).msg = m
           /\ Given(m).outcome = "NONE" /\ Given(m).sent = {} /\ Given(m).got = {}
           /\ Given(m).mint = FALSE
<1>1. /\ worker[w].pc = "idle" /\ queue[m] > 0 /\ WorkersOK /\ queue \in [Messages -> Nat]
      /\ UNCHANGED <<open, dispatch, row, certs, lease, answered, faults>>
      /\ queue' = [queue EXCEPT ![m] = @ - 1]
      /\ worker' = [worker EXCEPT ![w] = Given(m)]
  BY DEF Receive, At, TypeInv, Given
<1>2. /\ WorkerOK(Given(m)) /\ Given(m).pc = "begin" /\ Given(m).msg = m
      /\ Given(m).outcome = "NONE" /\ Given(m).sent = {} /\ Given(m).got = {}
      /\ Given(m).mint = FALSE
  <2>1. m \in [gen : 0..MaxGen, job : Jobs \cup {Discover}]
    BY BoundsAssumption DEF Messages, Gens
  <2> QED
    BY <2>1, IdleOK DEF WorkerOK, WorkerRecord, Places, Given, Idle
<1>3. Moved(w, Given(m))
  BY <1>1, <1>2, WorkerMoves
<1>4. queue' \in [Messages -> Nat] /\ \A n \in Messages : n # m => queue'[n] = queue[n]
  BY <1>1
<1> QED
  BY <1>1, <1>2, <1>3, <1>4 DEF TypeInv, Moved

\* A duplicate of a visible delivery.
LEMMA DuplicateEffect ==
    ASSUME TypeInv, NEW m \in Messages, Duplicate(m)
    PROVE  TypeInv' /\ queue[m] > 0 /\ Redelivered(m)
<1>1. /\ queue \in [Messages -> Nat] /\ faults' \in 0..MaxFaults /\ queue[m] > 0
      /\ queue' = [queue EXCEPT ![m] = @ + 1]
      /\ UNCHANGED <<open, dispatch, row, certs, lease, worker, answered>>
  BY BoundsAssumption DEF Duplicate, TypeInv
<1>2. Redelivered(m)
  BY <1>1, OneMoreDelivery
<1> QED
  BY <1>1, <1>2 DEF TypeInv, Redelivered, WorkersOK

\* A dispatch restates the row, or starts it anew for its generation.
LEMMA DispatchEffect ==
    ASSUME TypeInv, Dispatch
    PROVE  TypeInv' /\ Turns(row, row')
<1>1. PICK g \in Gens, status \in {"QUEUED", "QUOTA_DEFERRED"} :
         /\ \/ g = dispatch.gen + 1 /\ UNCHANGED faults
            \/ g = dispatch.gen /\ dispatch.pc = "due" /\ UNCHANGED faults
            \/ g = dispatch.gen /\ faults < MaxFaults /\ faults' = faults + 1
         /\ AttemptAdmitted(row, g, status, FALSE)
         /\ row' = AfterAttempt(row, g, status, FALSE, Clocked([gen |-> g, job |-> Discover]))
         /\ dispatch' = [gen |-> g, pc |-> IF status = "QUEUED" THEN "send" ELSE "due"]
  BY DEF Dispatch
<1>2. UNCHANGED <<open, certs, lease, queue, worker, answered>> /\ RowOK(row)
  BY DEF Dispatch, TypeInv
<1>3. faults' \in 0..MaxFaults
  BY <1>1, BoundsAssumption DEF TypeInv
<1>4. g \in 0..MaxGen /\ status \in Statuses
  BY BoundsAssumption DEF Gens, Statuses
<1>5. RowOK(row') /\ Turns(row, row')
  <2>1. Clocked([gen |-> g, job |-> Discover]) \in SUBSET Workers
    BY DEF Clocked
  <2> QED
    BY <1>1, <1>2, <1>4, <2>1, AttemptRow
<1>6. dispatch' \in [gen : 0..MaxGen, pc : {"idle", "due", "send", "mark"}]
  BY <1>1, <1>4
<1> QED
  BY <1>2, <1>3, <1>5, <1>6 DEF TypeInv, WorkersOK

\* The discovery message is sent.
LEMMA SendDiscoveryEffect ==
    ASSUME TypeInv, SendDiscovery
    PROVE  /\ TypeInv'
           /\ \A m \in Messages : m.job # Discover => queue'[m] = queue[m]
           /\ \A m \in Messages : queue'[m] >= queue[m]
<1> DEFINE n == [gen |-> dispatch.gen, job |-> Discover]
<1>1. /\ queue' = [queue EXCEPT ![n] = @ + 1] /\ queue \in [Messages -> Nat]
      /\ dispatch' = [dispatch EXCEPT !.pc = "mark"]
      /\ UNCHANGED <<open, row, certs, lease, worker, answered, faults>>
  BY DEF SendDiscovery, TypeInv
<1>2. dispatch' \in [gen : 0..MaxGen, pc : {"idle", "due", "send", "mark"}]
  BY <1>1 DEF TypeInv
<1>3. n.job = Discover
  OBVIOUS
<1> HIDE DEF n
<1>4. /\ queue' \in [Messages -> Nat]
      /\ \A m \in Messages : m # n => queue'[m] = queue[m]
      /\ \A m \in Messages : queue'[m] >= queue[m]
  <2>1. ASSUME NEW m \in Messages
        PROVE  /\ queue'[m] \in Nat /\ queue'[m] >= queue[m]
               /\ m # n => queue'[m] = queue[m]
    BY <1>1
  <2> QED
    BY <1>1, <2>1
<1> QED
  BY <1>1, <1>2, <1>3, <1>4 DEF TypeInv, WorkersOK

\* The dispatcher stamps the event or fails, and may restate the row.
LEMMA DispatcherEffect ==
    ASSUME TypeInv, MarkDispatched \/ DispatchFails
    PROVE  TypeInv' /\ Turns(row, row')
<1>1. UNCHANGED <<open, certs, lease, queue, worker, answered>> /\ RowOK(row)
  BY DEF MarkDispatched, DispatchFails, TypeInv
<1>2. faults' \in 0..MaxFaults
  <2>1. faults' = faults \/ (faults < MaxFaults /\ faults' = faults + 1)
    BY DEF MarkDispatched, DispatchFails
  <2> QED
    BY <2>1, BoundsAssumption DEF TypeInv
<1>3. dispatch' \in [gen : 0..MaxGen, pc : {"idle", "due", "send", "mark"}]
  BY DEF MarkDispatched, DispatchFails, TypeInv
<1>4. RowOK(row') /\ Turns(row, row')
  <2> DEFINE others == Clocked([gen |-> dispatch.gen, job |-> Discover])
  <2>1. row' = row \/ row' = AfterAttempt(row, dispatch.gen, "ENQUEUE_FAILED", FALSE, others)
    BY DEF MarkDispatched, DispatchFails
  <2>2. others \in SUBSET Workers /\ dispatch.gen \in 0..MaxGen
    BY DEF Clocked, TypeInv
  <2>3. "ENQUEUE_FAILED" \in Statuses
    BY DEF Statuses
  <2>4. RowOK(AfterAttempt(row, dispatch.gen, "ENQUEUE_FAILED", FALSE, others))
        /\ Turns(row, AfterAttempt(row, dispatch.gen, "ENQUEUE_FAILED", FALSE, others))
    <3> HIDE DEF others
    <3> QED
      BY <1>1, <2>2, <2>3, AttemptRow
  <2> QED
    BY <1>1, <2>1, <2>4 DEF Turns, SameEvidence
<1> QED
  BY <1>1, <1>2, <1>3, <1>4 DEF TypeInv, WorkersOK

\* The event closes.
LEMMA CloseEffect ==
    ASSUME TypeInv, Close
    PROVE  TypeInv' /\ open' = FALSE
BY DEF Close, TypeInv, WorkersOK

(***************************************************************************)
(* The types, and the evidence that only grows.                            *)
(***************************************************************************)

\* s is r or later, with what r knew of the same plan.
Grows(r, s) ==
    /\ s.gen >= r.gen
    /\ r.planned /\ s.gen = r.gen =>
          /\ s.planned
          /\ r.enqueued \subseteq s.enqueued
          /\ r.succeeded \subseteq s.succeeded
          /\ r.terminal \subseteq s.terminal
          /\ r.returned \subseteq s.returned

\* A row that is touched without evidence, or starts anew, has grown.
LEMMA TurnsGrow ==
    ASSUME NEW r, NEW s, RowOK(r), RowOK(s), Turns(r, s) \/ SameEvidence(s, r)
    PROVE  Grows(r, s)
<1>1. r.gen \in Nat /\ s.gen \in Nat
  BY BoundsAssumption DEF RowOK, Row
<1> QED
  BY <1>1 DEF Grows, Turns, SameEvidence

\* So has a row that did not change.
LEMMA UnchangedGrows ==
    ASSUME TypeInv, row' = row
    PROVE  Grows(row, row')
<1>1. row.gen \in Nat
  BY BoundsAssumption DEF TypeInv, RowOK, Row
<1> QED
  BY <1>1 DEF Grows

\* Every step keeps the types, and the row only grows.
LEMMA StepGrows ==
    ASSUME TypeInv, [Next]_vars
    PROVE  TypeInv' /\ Grows(row, row')
<1>1. ASSUME TypeInv', Turns(row, row') \/ SameEvidence(row', row)
      PROVE  Grows(row, row')
  <2>1. RowOK(row) /\ RowOK(row')
    BY <1>1 DEF TypeInv
  <2> QED
    BY <1>1, <2>1, TurnsGrow
<1>2. ASSUME Dispatch PROVE TypeInv' /\ Grows(row, row')
  BY <1>1, <1>2, DispatchEffect
<1>3. ASSUME SendDiscovery PROVE TypeInv' /\ Grows(row, row')
  BY <1>3, SendDiscoveryEffect, UnchangedGrows DEF SendDiscovery
<1>4. ASSUME MarkDispatched \/ DispatchFails PROVE TypeInv' /\ Grows(row, row')
  BY <1>1, <1>4, DispatcherEffect
<1>5. ASSUME Close PROVE TypeInv' /\ Grows(row, row')
  BY <1>5, CloseEffect, UnchangedGrows DEF Close
<1>6. ASSUME NEW w \in Workers, Progress(w) PROVE TypeInv' /\ Grows(row, row')
  <2>1. ASSUME BeginDiscovery(w) PROVE TypeInv' /\ Grows(row, row')
    BY <1>1, <2>1, BeginDiscoveryEffect, UnchangedGrows
  <2>2. ASSUME BeginFetch(w) PROVE TypeInv' /\ Grows(row, row')
    BY <2>2, BeginFetchEffect, UnchangedGrows DEF BeginFetch
  <2>3. ASSUME AcquireLease(w) PROVE TypeInv' /\ Grows(row, row')
    BY <2>3, AcquireLeaseEffect, UnchangedGrows DEF AcquireLease
  <2>4. ASSUME LeaseRefused(w) PROVE TypeInv' /\ Grows(row, row')
    BY <2>4, LeaseRefusedEffect, UnchangedGrows DEF LeaseRefused
  <2>5. ASSUME Attempt(w) PROVE TypeInv' /\ Grows(row, row')
    BY <1>1, <2>5, AttemptEffect
  <2>6. ASSUME DiscoveryDeferred(w) PROVE TypeInv' /\ Grows(row, row')
    BY <1>1, <2>6, DiscoveryDeferredEffect
  <2>7. ASSUME DiscoveryRejected(w) PROVE TypeInv' /\ Grows(row, row')
    BY <1>1, <2>7, DiscoveryRejectedEffect
  <2>8. ASSUME DiscoveryAnswered(w) PROVE TypeInv' /\ Grows(row, row')
    BY <2>8, DiscoveryAnsweredEffect, UnchangedGrows DEF DiscoveryAnswered
  <2>9. ASSUME PutPlan(w) PROVE TypeInv' /\ Grows(row, row')
    BY <1>1, <2>9, PutPlanEffect
  <2>10. ASSUME FanoutExpected(w) PROVE TypeInv' /\ Grows(row, row')
    BY <1>1, <2>10, FanoutExpectedEffect
  <2>11. ASSUME NEW b \in Batches, EnqueueBatch(w, b) PROVE TypeInv' /\ Grows(row, row')
    BY <2>11, EnqueueBatchEffect, UnchangedGrows DEF EnqueueBatch
  <2>12. ASSUME MarkEnqueued(w) PROVE TypeInv' /\ Grows(row, row')
    <3>1. row.gen \in Nat
      BY BoundsAssumption DEF TypeInv, RowOK, Row
    <3>2. \/ row' = row
          \/ /\ row'.gen = row.gen /\ row'.planned = row.planned
             /\ row'.enqueued = row.enqueued \cup worker[w].sent
             /\ row'.succeeded = row.succeeded /\ row'.terminal = row.terminal
             /\ row'.returned = row.returned
      BY <2>12, MarkEnqueuedEffect
    <3> QED
      BY <2>12, <3>1, <3>2, MarkEnqueuedEffect, UnchangedGrows DEF Grows
  <2>13. ASSUME CompleteFanout(w) PROVE TypeInv' /\ Grows(row, row')
    BY <1>1, <2>13, CompleteFanoutEffect
  <2>14. ASSUME CompleteDiscovery(w) PROVE TypeInv' /\ Grows(row, row')
    BY <2>14, CompleteDiscoveryEffect, UnchangedGrows DEF CompleteDiscovery
  <2>15. ASSUME FetchStale(w) PROVE TypeInv' /\ Grows(row, row')
    BY <2>15, FetchStaleEffect, UnchangedGrows DEF FetchStale
  <2>16. ASSUME FetchUnanswered(w) PROVE TypeInv' /\ Grows(row, row')
    BY <2>16, FetchUnansweredEffect, UnchangedGrows DEF FetchUnanswered
  <2>17. ASSUME FetchAnswered(w) PROVE TypeInv' /\ Grows(row, row')
    BY <2>17, FetchAnsweredEffect, UnchangedGrows DEF FetchAnswered
  <2>18. ASSUME FetchSplit(w) PROVE TypeInv' /\ Grows(row, row')
    BY <2>18, FetchSplitEffect, UnchangedGrows DEF FetchSplit
  <2>19. ASSUME NEW c \in Jobs, SendChild(w, c) PROVE TypeInv' /\ Grows(row, row')
    BY <2>19, SendChildEffect, UnchangedGrows DEF SendChild
  <2>20. ASSUME MergeOutcome(w) PROVE TypeInv' /\ Grows(row, row')
    <3>1. TypeInv' /\ (row' = row \/ row' = Merged(row, Job(w), worker[w].outcome, worker[w].got))
      BY <2>20, MergeOutcomeEffect
    <3>2. ASSUME row' = Merged(row, Job(w), worker[w].outcome, worker[w].got)
          PROVE  Grows(row, row')
      <4>1. Job(w) \in Jobs /\ worker[w].pc # "idle"
        BY <2>20, MergeOutcomeEffect DEF MergeOutcome, Fetching, At
      <4>2. worker[w].outcome \in Outcomes /\ worker[w].got \in SUBSET Pairs /\ RowOK(row)
        BY <4>1, BusyHasMessage DEF WorkerRecord, TypeInv
      <4>3. /\ row'.gen = row.gen /\ row'.planned = row.planned
            /\ row'.enqueued = row.enqueued /\ row.succeeded \subseteq row'.succeeded
            /\ row.terminal \subseteq row'.terminal
            /\ row.returned \subseteq row'.returned
        BY <3>2, <4>1, <4>2, MergedRow
      <4>4. row.gen \in Nat
        BY BoundsAssumption DEF TypeInv, RowOK, Row
      <4> QED
        BY <4>3, <4>4 DEF Grows
    <3> QED
      BY <3>1, <3>2, UnchangedGrows
  <2>21. ASSUME MintCertificate(w) PROVE TypeInv' /\ Grows(row, row')
    BY <2>21, MintCertificateEffect, UnchangedGrows DEF MintCertificate
  <2>22. ASSUME CompleteFetch(w) PROVE TypeInv' /\ Grows(row, row')
    BY <2>22, CompleteFetchEffect, UnchangedGrows DEF CompleteFetch
  <2> QED
    BY <1>6, <2>1, <2>2, <2>3, <2>4, <2>5, <2>6, <2>7, <2>8, <2>9, <2>10, <2>11, <2>12,
       <2>13, <2>14, <2>15, <2>16, <2>17, <2>18, <2>19, <2>20, <2>21, <2>22 DEF Progress
<1>7. ASSUME NEW w \in Workers, Crash(w) PROVE TypeInv' /\ Grows(row, row')
  BY <1>7, CrashEffect, UnchangedGrows DEF Crash
<1>8. ASSUME NEW m \in Messages, Duplicate(m) PROVE TypeInv' /\ Grows(row, row')
  BY <1>8, DuplicateEffect, UnchangedGrows DEF Duplicate
<1>9. ASSUME NEW m \in Messages, NEW w \in Workers, Receive(w, m)
      PROVE  TypeInv' /\ Grows(row, row')
  BY <1>9, ReceiveEffect, UnchangedGrows DEF Receive
<1>10. ASSUME UNCHANGED vars PROVE TypeInv' /\ Grows(row, row')
  BY <1>10, UnchangedGrows DEF vars, TypeInv, WorkersOK
<1> QED
  BY <1>2, <1>3, <1>4, <1>5, <1>6, <1>7, <1>8, <1>9, <1>10 DEF Next

\* Every variable keeps its type, and the verdicts on batches, pairs and leaves
\* stay disjoint.
THEOREM CoverageType == Spec => []TypeOK
<1>1. TypeInv /\ [Next]_vars => TypeInv'
  BY StepGrows
<1> QED
  BY <1>1, InitType, TypeInvIsTypeOK, PTL DEF Spec

\* A late or duplicated worker neither brings an older generation back nor
\* resets the plan, the successes or the terminal evidence of the current one.
THEOREM EvidenceKept == Spec => EvidenceIsKept
<1>1. TypeInv /\ [Next]_vars => TypeInv'
  BY StepGrows
<1>2. TypeInv /\ [Next]_vars =>
         [/\ row'.gen >= row.gen
          /\ row.planned /\ row'.gen = row.gen =>
                /\ row'.planned
                /\ row.enqueued \subseteq row'.enqueued
                /\ row.succeeded \subseteq row'.succeeded
                /\ row.terminal \subseteq row'.terminal
                /\ row.returned \subseteq row'.returned]_vars
  BY StepGrows DEF Grows
<1> QED
  BY <1>1, <1>2, InitType, PTL DEF Spec, EvidenceIsKept

(***************************************************************************)
(* Deliveries.                                                             *)
(***************************************************************************)

\* A step from a state that delivers.
Stepping == TypeInv /\ DeliveryInv /\ TypeInv' /\ Grows(row, row') /\ (open' => open)

\* What a step does to the invariant: no pending fetch is forgotten,
NothingLost == \A m \in Messages : m.job # Discover /\ Pending(m) => Kept(m)'

\* a part is sent by a worker that has it to send,
SentByOwner(m) ==
    \/ m.job \in Batches
    \/ \E w \in Workers :
          Fetching(w, "send") /\ Gen(w) = m.gen /\ m.job \in worker[w].todo

\* no fetch is pending without a plan, or without its sender,
NothingForged ==
    \A m \in Messages :
        m.job # Discover /\ Pending(m)' =>
            Pending(m) \/ (WasPlanned(m.gen)' /\ SentByOwner(m))

\* no lease is completed before its work,
LeasesEnd ==
    \A m \in Messages :
        m.job # Discover /\ lease'[m].state = "COMPLETED" =>
            lease[m].state = "COMPLETED" \/ Ended(m)'

\* nothing is recorded as enqueued that is not kept,
MarksKept ==
    /\ row'.enqueued # {} => row'.gen \in Gens \/ (row'.gen = row.gen /\ row.enqueued # {})
    /\ row'.planned =>
          \A m \in Messages : m.gen = row'.gen /\ m.job \in row'.enqueued =>
              \/ row.planned /\ m.gen = row.gen /\ m.job \in row.enqueued
              \/ Kept(m)'

\* and a worker that is z afterwards delivers.
Delivers(z) ==
    \A m \in Messages :
        z.pc # "idle" /\ z.msg = m =>
            /\ m.job = Discover /\ z.pc \in {"expect", "fanout", "mark"} =>
                  WasPlanned(m.gen)'
            /\ m.job # Discover /\ z.outcome = "STALE" => ~open' \/ row'.gen > m.gen
            /\ \A n \in Messages : n.gen = m.gen /\ n.job \in z.sent => Kept(n)'

\* A published plan stays published, and an end an end.
LEMMA PlansStay ==
    ASSUME Stepping, NEW m \in Messages
    PROVE  (WasPlanned(m.gen) => WasPlanned(m.gen)') /\ (Ended(m) => Ended(m)')
<1>1. m.gen \in Nat /\ row.gen \in Nat /\ row'.gen \in Nat
  BY BoundsAssumption DEF Messages, Gens, Stepping, TypeInv, RowOK, Row
<1> QED
  BY <1>1 DEF Stepping, Grows, WasPlanned, Ended, PlanCurrent

\* What is kept stays kept when nothing pending is lost.
LEMMA KeptStays ==
    ASSUME Stepping, NothingLost, NEW m \in Messages, m.job # Discover, Kept(m)
    PROVE  Kept(m)'
BY PlansStay DEF Kept, NothingLost, Stepping

\* A batch is a fetch.
LEMMA BatchIsNoDiscovery ==
    ASSUME NEW b \in Batches
    PROVE  b \in Jobs /\ b # Discover
BY TreeAssumption

\* A worker that keeps its message, and gives nothing up without a reason,
\* delivers what it did.
LEMMA KeepsDelivering ==
    ASSUME Stepping, NothingLost, NEW w \in Workers, worker[w].pc # "idle", NEW z,
           z.msg = worker[w].msg, z.sent \subseteq worker[w].sent,
           z.outcome = "STALE" /\ Job(w) # Discover =>
               worker[w].outcome = "STALE" \/ ~open' \/ row'.gen > Gen(w),
           Job(w) = Discover /\ z.pc \in {"expect", "fanout", "mark"} =>
               \/ worker[w].pc \in {"expect", "fanout", "mark"}
               \/ row'.gen > Gen(w) \/ PlanCurrent(row', Gen(w))
    PROVE  Delivers(z)
<1> SUFFICES ASSUME NEW m \in Messages, z.pc # "idle", z.msg = m
             PROVE  /\ m.job = Discover /\ z.pc \in {"expect", "fanout", "mark"} =>
                          WasPlanned(m.gen)'
                    /\ m.job # Discover /\ z.outcome = "STALE" => ~open' \/ row'.gen > m.gen
                    /\ \A n \in Messages : n.gen = m.gen /\ n.job \in z.sent => Kept(n)'
  BY DEF Delivers
<1>1. /\ m.job = Job(w) /\ m.gen = Gen(w)
      /\ m.job = Discover /\ worker[w].pc \in {"expect", "fanout", "mark"} =>
            WasPlanned(m.gen)
      /\ m.job # Discover /\ worker[w].outcome = "STALE" => ~open \/ row.gen > m.gen
      /\ \A n \in Messages : n.gen = m.gen /\ n.job \in worker[w].sent => Kept(n)
  BY DEF Stepping, DeliveryInv, WorkersDeliver, Job, Gen
<1>2. m.job = Discover /\ z.pc \in {"expect", "fanout", "mark"} => WasPlanned(m.gen)'
  BY <1>1, PlansStay DEF WasPlanned
<1>3. m.job # Discover /\ z.outcome = "STALE" => ~open' \/ row'.gen > m.gen
  <2>1. m.gen \in Nat /\ row.gen \in Nat /\ row'.gen \in Nat /\ row'.gen >= row.gen
    BY BoundsAssumption DEF Messages, Gens, Stepping, TypeInv, RowOK, Row, Grows
  <2> QED
    BY <1>1, <2>1 DEF Stepping
<1>4. ASSUME NEW n \in Messages, n.gen = m.gen, n.job \in z.sent PROVE Kept(n)'
  <2>1. n.job # Discover
    BY <1>4, BusyHasMessage, BatchIsNoDiscovery DEF WorkerRecord, Stepping
  <2> QED
    BY <1>1, <1>4, <2>1, KeptStays
<1> QED
  BY <1>2, <1>3, <1>4

\* So does a worker that did not move.
LEMMA StillDelivers ==
    ASSUME Stepping, NothingLost, NEW w \in Workers, NEW z, Same(z, worker[w])
    PROVE  Delivers(z)
<1>1. CASE worker[w].pc = "idle"
  BY <1>1 DEF Delivers, Same
<1>2. CASE worker[w].pc # "idle"
  BY <1>2, KeepsDelivering DEF Same
<1> QED
  BY <1>1, <1>2

\* An idle worker delivers.
LEMMA IdleDelivers == Delivers(Idle)
BY DEF Delivers, Idle

\* What a step shows when it delivers.
Delivered == DeliveryInv' /\ NothingLost /\ NothingForged

\* The parts make the step.
LEMMA DeliveryStep ==
    ASSUME Stepping, NothingLost, NothingForged, LeasesEnd, MarksKept,
           \A v \in Workers : Delivers(worker'[v])
    PROVE  Delivered
<1>1. FetchesArePlanned'
  <2> SUFFICES ASSUME NEW m \in Messages, m.job # Discover, Pending(m)'
               PROVE  WasPlanned(m.gen)'
    BY DEF FetchesArePlanned
  <2>1. Pending(m) => WasPlanned(m.gen)
    BY DEF Stepping, DeliveryInv, FetchesArePlanned
  <2> QED
    BY <2>1, PlansStay DEF NothingForged
<1>2. EndsAreReal'
  <2> SUFFICES ASSUME NEW m \in Messages, m.job # Discover, lease'[m].state = "COMPLETED"
               PROVE  Ended(m)'
    BY DEF EndsAreReal
  <2>1. lease[m].state = "COMPLETED" => Ended(m)
    BY DEF Stepping, DeliveryInv, EndsAreReal
  <2> QED
    BY <2>1, PlansStay DEF LeasesEnd
<1>3. BatchesAreKept'
  <2>0. row'.enqueued # {} => row'.gen \in Gens
    BY DEF MarksKept, Stepping, DeliveryInv, BatchesAreKept
  <2> SUFFICES ASSUME row'.planned, NEW m \in Messages, m.gen = row'.gen,
                      m.job \in row'.enqueued
               PROVE  Kept(m)'
    BY <2>0 DEF BatchesAreKept
  <2>1. m.job # Discover
    <3>1. row'.enqueued \subseteq Batches
      BY DEF Stepping, TypeInv, RowOK, Row
    <3> QED
      BY <3>1, BatchIsNoDiscovery
  <2>2. CASE row.planned /\ m.gen = row.gen /\ m.job \in row.enqueued
    BY <2>1, <2>2, KeptStays DEF Stepping, DeliveryInv, BatchesAreKept
  <2> QED
    BY <2>2 DEF MarksKept
<1>4. WorkersDeliver'
  BY DEF WorkersDeliver, Delivers
<1> QED
  BY <1>1, <1>2, <1>3, <1>4 DEF Delivered, DeliveryInv

\* When one worker moves, it is the one to look at.
LEMMA WorkerDelivery ==
    ASSUME Stepping, NothingLost, NothingForged, LeasesEnd, MarksKept,
           NEW w \in Workers, NEW z, Moved(w, z), Delivers(z)
    PROVE  Delivered
<1>1. Delivers(worker'[w])
  BY DEF Moved, Same, Delivers
<1>2. ASSUME NEW v \in Workers, v # w PROVE Delivers(worker'[v])
  BY <1>2, StillDelivers DEF Moved
<1> QED
  BY <1>1, <1>2, DeliveryStep

\* The queue alone changes what is pending when a worker keeps its message.
LEMMA StaysPending ==
    ASSUME NEW w \in Workers, NEW z, Moved(w, z), worker[w].pc # "idle", z.pc # "idle",
           z.msg = worker[w].msg, NEW m \in Messages, queue'[m] = queue[m]
    PROVE  Pending(m)' <=> Pending(m)
BY DEF Moved, Same, Pending

\* Nothing is lost or forged when a worker keeps its message,
LEMMA StayingIsSafe ==
    ASSUME NEW w \in Workers, NEW z, Moved(w, z), worker[w].pc # "idle", z.pc # "idle",
           z.msg = worker[w].msg, queue' = queue
    PROVE  NothingLost /\ NothingForged
<1>1. \A m \in Messages : Pending(m)' <=> Pending(m)
  BY StaysPending
<1> QED
  BY <1>1 DEF NothingLost, NothingForged, Kept

\* or sends a fetch of a published plan,
LEMMA SendingIsSafe ==
    ASSUME NEW w \in Workers, NEW z, Moved(w, z), worker[w].pc # "idle", z.pc # "idle",
           z.msg = worker[w].msg, NEW n \in Messages, Redelivered(n), WasPlanned(n.gen)',
           SentByOwner(n)
    PROVE  NothingLost /\ NothingForged /\ Kept(n)'
<1>1. \A m \in Messages : m # n => (Pending(m)' <=> Pending(m))
  BY StaysPending DEF Redelivered
<1>2. Pending(n)'
  BY DEF Redelivered, Pending
<1> QED
  BY <1>1, <1>2 DEF NothingLost, NothingForged, Kept

\* or acknowledges a discovery, or a fetch that is kept without it,
LEMMA AcknowledgingIsSafe ==
    ASSUME NEW w \in Workers, Moved(w, Idle), queue' = queue,
           \A m \in Messages : worker[w].msg = m /\ m.job # Discover => Kept(m)'
    PROVE  NothingLost /\ NothingForged
<1>1. \A m \in Messages : Pending(m)' => Pending(m)
  BY DEF Moved, Same, Pending, Idle
<1>2. \A m \in Messages : m # worker[w].msg => (Pending(m) => Pending(m)')
  BY DEF Moved, Same, Pending, Idle
<1> QED
  BY <1>1, <1>2 DEF NothingLost, NothingForged, Kept

\* or puts its delivery back,
LEMMA PuttingBackIsSafe ==
    ASSUME NEW w \in Workers, Moved(w, Idle), worker[w].pc # "idle",
           Redelivered(worker[w].msg), worker[w].msg \in Messages
    PROVE  NothingLost /\ NothingForged
<1> DEFINE n == worker[w].msg
<1>1. \A m \in Messages : m # n => (Pending(m)' <=> Pending(m))
  BY DEF Moved, Same, Pending, Idle, Redelivered
<1>2. Pending(n) /\ queue'[n] > 0
  BY DEF Pending, Redelivered
<1>3. \A m \in Messages : m = n => Pending(m) /\ Pending(m)'
  BY <1>2 DEF Pending
<1> QED
  BY <1>1, <1>3 DEF NothingLost, NothingForged, Kept

\* or takes one.
LEMMA TakingIsSafe ==
    ASSUME NEW w \in Workers, NEW z, Moved(w, z), worker[w].pc = "idle", z.pc # "idle",
           NEW n \in Messages, z.msg = n, queue[n] > 0,
           \A m \in Messages : m # n => queue'[m] = queue[m]
    PROVE  NothingLost /\ NothingForged
<1>1. \A m \in Messages : m # n => (Pending(m)' <=> Pending(m))
  BY DEF Moved, Same, Pending
<1>2. Pending(n) /\ Pending(n)'
  BY DEF Moved, Same, Pending
<1> QED
  BY <1>1, <1>2 DEF NothingLost, NothingForged, Kept

\* Nothing is recorded as enqueued by an attempt or a plan.
LEMMA NothingMarked ==
    ASSUME Turns(row, row') \/ SameEvidence(row', row)
    PROVE  MarksKept
BY DEF MarksKept, Turns, SameEvidence, NoEvidence

\* No lease is completed when they are only given back.
LEMMA NothingCompleted ==
    ASSUME Unleased \/ lease' = lease
    PROVE  LeasesEnd
BY DEF LeasesEnd, Unleased

\* A worker that stops after its delivery was put back, and completes no lease,
\* delivers.
LEMMA PutBackDelivers ==
    ASSUME Stepping, NEW w \in Workers, worker[w].pc # "idle", Moved(w, Idle),
           Redelivered(worker[w].msg), Unleased \/ lease' = lease, MarksKept
    PROVE  Delivered
<1>1. worker[w].msg \in Messages
  BY BusyHasMessage DEF Stepping
<1> QED
  BY <1>1, PuttingBackIsSafe, NothingCompleted, IdleDelivers, WorkerDelivery

\* A worker at another place delivers, if it brings no lease or batch with it.
LEMMA PlacedDelivers ==
    ASSUME Stepping, NEW w \in Workers, worker[w].pc # "idle", NEW z, Moved(w, z),
           z.pc # "idle", z.msg = worker[w].msg, z.sent \subseteq worker[w].sent,
           queue' = queue, LeasesEnd, MarksKept,
           z.outcome = "STALE" /\ Job(w) # Discover =>
               worker[w].outcome = "STALE" \/ ~open' \/ row'.gen > Gen(w),
           Job(w) = Discover /\ z.pc \in {"expect", "fanout", "mark"} =>
               \/ worker[w].pc \in {"expect", "fanout", "mark"}
               \/ row'.gen > Gen(w) \/ PlanCurrent(row', Gen(w))
    PROVE  Delivered
<1>1. NothingLost /\ NothingForged
  BY StayingIsSafe
<1>2. Delivers(z)
  BY <1>1, KeepsDelivering
<1> QED
  BY <1>1, <1>2, WorkerDelivery

\* The plan of a fetch a worker has was published.
LEMMA FetchHasPlan ==
    ASSUME Stepping, NEW w \in Workers, worker[w].pc # "idle", Job(w) # Discover
    PROVE  /\ WasPlanned(Gen(w))
           /\ ~PlanCurrent(row, Gen(w)) => row.gen > Gen(w) /\ row'.gen > Gen(w)
<1>1. worker[w].msg \in Messages /\ Pending(worker[w].msg) /\ Gen(w) \in Nat
  <2>1. worker[w].msg \in Messages /\ Gen(w) \in Gens
    BY BusyHasMessage DEF Stepping
  <2>2. Gen(w) \in Nat
    BY <2>1, BoundsAssumption DEF Gens
  <2> QED
    BY <2>1, <2>2 DEF Pending
<1>2. \A m \in Messages : m = worker[w].msg => WasPlanned(m.gen)
  BY <1>1 DEF Stepping, DeliveryInv, FetchesArePlanned, Job
<1>3. WasPlanned(Gen(w))
  BY <1>1, <1>2 DEF Gen
<1>4. row.gen \in Nat /\ row'.gen \in Nat /\ row'.gen >= row.gen
  BY BoundsAssumption DEF Stepping, TypeInv, RowOK, Row, Grows
<1> QED
  BY <1>1, <1>3, <1>4 DEF WasPlanned

\* Every step of a discovery delivers.
LEMMA DiscoveryDelivers ==
    ASSUME Stepping, NEW w \in Workers,
           \/ BeginDiscovery(w) \/ Attempt(w) \/ DiscoveryDeferred(w)
           \/ DiscoveryRejected(w) \/ DiscoveryAnswered(w) \/ PutPlan(w)
           \/ FanoutExpected(w) \/ (\E b \in Batches : EnqueueBatch(w, b))
           \/ MarkEnqueued(w) \/ CompleteFanout(w) \/ CompleteDiscovery(w)
    PROVE  Delivered
<1>1. TypeInv
  BY DEF Stepping
<1>2. worker[w].pc # "idle" /\ Job(w) = Discover
  BY DEF BeginDiscovery, Attempt, DiscoveryDeferred, DiscoveryRejected, DiscoveryAnswered,
         PutPlan, FanoutExpected, EnqueueBatch, MarkEnqueued, CompleteFanout,
         CompleteDiscovery, Discovering, At, Job
<1>3. ASSUME Moved(w, Idle), queue' = queue, LeasesEnd, MarksKept PROVE Delivered
  <2>1. \A m \in Messages : worker[w].msg = m /\ m.job # Discover => Kept(m)'
    BY <1>2 DEF Job
  <2>2. NothingLost /\ NothingForged
    BY <1>3, <2>1, AcknowledgingIsSafe
  <2> QED
    BY <1>3, <2>2, IdleDelivers, WorkerDelivery
<1>4. \A place \in Places :
         /\ Placed(w, place).pc = place /\ Placed(w, place).msg = worker[w].msg
         /\ Placed(w, place).sent = worker[w].sent
  BY <1>1, <1>2, PlacedOK DEF TypeInv
<1>5. ASSUME NEW place \in Places, place \notin {"idle", "expect", "fanout", "mark"},
             Moved(w, Placed(w, place)), queue' = queue, lease' = lease, MarksKept
      PROVE  Delivered
  BY <1>2, <1>4, <1>5, NothingCompleted, PlacedDelivers
<1>6. ASSUME Moved(w, Placed(w, "expect")), queue' = queue, lease' = lease, MarksKept,
             PlanCurrent(row', Gen(w))
      PROVE  Delivered
  <2>1. "expect" \in Places
    BY DEF Places, Owning
  <2> QED
    BY <1>2, <1>4, <1>6, <2>1, NothingCompleted, PlacedDelivers
<1>7. ASSUME Moved(w, Staled(w)), queue' = queue, lease' = lease, MarksKept
      PROVE  Delivered
  <2>1. /\ Staled(w).pc = "complete" /\ Staled(w).msg = worker[w].msg
        /\ Staled(w).sent = worker[w].sent
    BY <1>1, <1>2, StaledOK DEF TypeInv
  <2> QED
    BY <1>2, <1>7, <2>1, NothingCompleted, PlacedDelivers
<1>8. CASE BeginDiscovery(w)
  <2>1. /\ queue' = queue /\ MarksKept
        /\ Moved(w, Idle) \/ Moved(w, Placed(w, "lease"))
    BY <1>1, <1>8, BeginDiscoveryEffect, NothingMarked DEF SameEvidence
  <2>2. lease' = lease /\ "lease" \in Places
    BY <1>8 DEF BeginDiscovery, Places
  <2> QED
    BY <1>3, <1>5, <2>1, <2>2, NothingCompleted
<1>9. CASE Attempt(w)
  <2>1. queue' = queue /\ MarksKept /\ lease' = lease
    BY <1>1, <1>9, AttemptEffect, NothingMarked DEF Attempt
  <2>2. \/ PlanCurrent(row', Gen(w)) /\ Moved(w, Placed(w, "expect"))
        \/ Moved(w, Placed(w, "discover"))
        \/ Moved(w, Staled(w))
    BY <1>1, <1>9, AttemptEffect DEF PlanCurrent
  <2>3. "discover" \in Places
    BY DEF Places, Owning
  <2> QED
    BY <1>5, <1>6, <1>7, <2>1, <2>2, <2>3
<1>10. CASE DiscoveryDeferred(w)
  <2>1. /\ Moved(w, Idle) /\ MarksKept /\ Unleased
        /\ queue' = queue \/ Redelivered(worker[w].msg)
    BY <1>1, <1>10, DiscoveryDeferredEffect, NothingMarked
  <2> QED
    BY <1>2, <1>3, <2>1, NothingCompleted, PutBackDelivers
<1>11. CASE DiscoveryRejected(w)
  <2>1. /\ Moved(w, Placed(w, "complete")) /\ MarksKept
        /\ queue' = queue /\ lease' = lease /\ "complete" \in Places
    BY <1>1, <1>11, DiscoveryRejectedEffect, NothingMarked
       DEF DiscoveryRejected, Places, Owning
  <2> QED
    BY <1>5, <2>1
<1>12. CASE DiscoveryAnswered(w)
  <2>1. /\ Moved(w, Placed(w, "plan")) /\ MarksKept
        /\ queue' = queue /\ lease' = lease /\ "plan" \in Places
    BY <1>1, <1>12, DiscoveryAnsweredEffect, NothingMarked
       DEF DiscoveryAnswered, Places, Owning, SameEvidence
  <2> QED
    BY <1>5, <2>1
<1>13. CASE PutPlan(w)
  <2>1. MarksKept
    BY <1>1, <1>13, PutPlanEffect, NothingMarked
  <2>2. \/ Moved(w, Idle) /\ Redelivered(worker[w].msg) /\ Unleased
        \/ /\ queue' = queue /\ lease' = lease
           /\ PlanCurrent(row', Gen(w)) /\ Moved(w, Placed(w, "expect"))
        \/ queue' = queue /\ lease' = lease /\ Moved(w, Staled(w))
    BY <1>1, <1>13, PutPlanEffect
  <2> QED
    BY <1>2, <1>6, <1>7, <2>1, <2>2, PutBackDelivers
<1>14. CASE FanoutExpected(w)
  <2>1. MarksKept
    BY <1>1, <1>14, FanoutExpectedEffect, NothingMarked
  <2>2. CASE Moved(w, Idle) /\ Redelivered(worker[w].msg) /\ Unleased
    BY <1>2, <2>1, <2>2, PutBackDelivers
  <2>3. CASE /\ queue' = queue /\ lease' = lease /\ PlanCurrent(row, Gen(w))
             /\ Moved(w, Fanning(w)) /\ Fanning(w).pc = "fanout"
             /\ Fanning(w).msg = worker[w].msg /\ Fanning(w).sent = worker[w].sent
    <3>1. PlanCurrent(row', Gen(w))
      BY <1>1, <1>14, <2>3, FanoutExpectedEffect DEF SameEvidence, PlanCurrent
    <3> QED
      BY <1>2, <2>1, <2>3, <3>1, NothingCompleted, PlacedDelivers
  <2> QED
    BY <1>1, <1>14, <2>2, <2>3, FanoutExpectedEffect
<1>15. ASSUME NEW b \in Batches, EnqueueBatch(w, b) PROVE Delivered
  <2> DEFINE n == [gen |-> Gen(w), job |-> b]
             z == Marking(w, b)
  <2>1. /\ n \in Messages /\ Redelivered(n) /\ Moved(w, z) /\ z.pc = "mark"
        /\ z.msg = worker[w].msg /\ z.sent = {b}
    BY <1>1, <1>15, EnqueueBatchEffect
  <2>2. /\ row' = row /\ lease' = lease /\ worker[w].pc = "fanout"
        /\ worker[w].msg \in Messages
    BY <1>1, <1>2, <1>15, BusyHasMessage DEF EnqueueBatch, Discovering, At
  <2>3. \A m \in Messages : m = worker[w].msg => WasPlanned(m.gen) /\ m.gen = Gen(w)
    BY <1>2, <2>2 DEF Stepping, DeliveryInv, WorkersDeliver, Job, Gen
  <2>4. PICK k \in Messages : k = n
    BY <2>1
  <2>5. k.gen = Gen(w) /\ k.job = b
    BY <2>4
  <2> HIDE DEF n, z
  <2>6. WasPlanned(k.gen)'
    BY <2>2, <2>3, <2>5, PlansStay
  <2>7. Redelivered(k)
    BY <2>1, <2>4
  <2>11. SentByOwner(k)
    BY <2>5 DEF SentByOwner
  <2>8. NothingLost /\ NothingForged /\ Kept(k)'
    BY <1>2, <2>1, <2>6, <2>7, <2>11, SendingIsSafe
  <2>9. Delivers(z)
    <3> SUFFICES ASSUME NEW m \in Messages, z.msg = m
                 PROVE  /\ WasPlanned(m.gen)' /\ m.job = Discover
                        /\ \A l \in Messages :
                              l.gen = m.gen /\ l.job \in z.sent => Kept(l)'
      BY DEF Delivers
    <3>1. WasPlanned(m.gen)' /\ m.job = Discover /\ m.gen = Gen(w)
      BY <1>2, <2>1, <2>3, PlansStay DEF Job
    <3>2. ASSUME NEW l \in Messages, l.gen = m.gen, l.job \in z.sent PROVE l = k
      BY <2>1, <2>5, <3>1, <3>2 DEF Messages
    <3> QED
      BY <2>8, <3>1, <3>2
  <2>10. MarksKept
    BY <2>2, NothingMarked DEF SameEvidence
  <2> QED
    BY <2>1, <2>2, <2>8, <2>9, <2>10, NothingCompleted, WorkerDelivery
<1>16. CASE MarkEnqueued(w)
  <2>1. CASE Moved(w, Idle) /\ Redelivered(worker[w].msg) /\ Unleased /\ row' = row
    BY <1>2, <2>1, NothingMarked, PutBackDelivers DEF SameEvidence
  <2>2. CASE /\ queue' = queue /\ lease' = lease /\ PlanCurrent(row, Gen(w))
             /\ row'.gen = row.gen /\ row'.planned = row.planned
             /\ row'.enqueued = row.enqueued \cup worker[w].sent
             /\ Moved(w, Marked(w)) /\ Marked(w).pc = "fanout"
             /\ Marked(w).msg = worker[w].msg /\ Marked(w).sent = {}
    <3>1. NothingLost
      BY <1>2, <2>2, StayingIsSafe
    <3>2. ASSUME NEW m \in Messages, m.gen = row'.gen, m.job \in worker[w].sent
          PROVE  Kept(m)'
      <4>1. worker[w].msg \in Messages /\ worker[w].sent \subseteq Batches
        BY <1>1, <1>2, BusyHasMessage DEF WorkerRecord
      <4>2. m.gen = worker[w].msg.gen /\ m.job # Discover
        BY <2>2, <3>2, <4>1, BatchIsNoDiscovery DEF PlanCurrent, Gen
      <4>3. Kept(m)
        BY <1>2, <3>2, <4>1, <4>2 DEF Stepping, DeliveryInv, WorkersDeliver
      <4> QED
        BY <3>1, <4>2, <4>3, KeptStays
    <3>3. MarksKept
      <4>1. row'.gen \in Gens
        BY <1>1, <1>2, <2>2, BusyHasMessage DEF PlanCurrent
      <4> QED
        BY <2>2, <3>2, <4>1 DEF MarksKept, PlanCurrent
    <3>4. PlanCurrent(row', Gen(w))
      BY <2>2 DEF PlanCurrent
    <3> QED
      BY <1>2, <2>2, <3>3, <3>4, NothingCompleted, PlacedDelivers
  <2> QED
    BY <1>1, <1>16, <2>1, <2>2, MarkEnqueuedEffect
<1>17. CASE CompleteFanout(w)
  <2>1. MarksKept /\ "complete" \in Places
    BY <1>1, <1>17, CompleteFanoutEffect, NothingMarked DEF Places, Owning
  <2> QED
    BY <1>1, <1>2, <1>5, <1>17, <2>1, CompleteFanoutEffect, PutBackDelivers
<1>18. CASE CompleteDiscovery(w)
  <2>1. MarksKept
    BY <1>18, NothingMarked DEF CompleteDiscovery, SameEvidence
  <2>2. LeasesEnd
    BY <1>1, <1>2, <1>18, CompleteDiscoveryEffect DEF LeasesEnd, Job
  <2> QED
    BY <1>1, <1>2, <1>3, <1>18, <2>1, <2>2, CompleteDiscoveryEffect, PutBackDelivers
<1> QED
  BY <1>8, <1>9, <1>10, <1>11, <1>12, <1>13, <1>14, <1>15, <1>16, <1>17, <1>18

\* Every step of a fetch delivers.
LEMMA FetchDelivers ==
    ASSUME Stepping, NEW w \in Workers,
           \/ BeginFetch(w) \/ FetchStale(w) \/ FetchUnanswered(w) \/ FetchAnswered(w)
           \/ FetchSplit(w) \/ (\E c \in Jobs : SendChild(w, c))
           \/ MergeOutcome(w) \/ MintCertificate(w) \/ CompleteFetch(w)
    PROVE  Delivered
<1>1. TypeInv
  BY DEF Stepping
<1>2. /\ worker[w].pc # "idle" /\ Job(w) # Discover /\ worker[w].msg \in Messages
      /\ open' = open
  <2>1. worker[w].pc # "idle" /\ Job(w) # Discover /\ open' = open
    BY DEF BeginFetch, FetchStale, FetchUnanswered, FetchAnswered, FetchSplit, SendChild,
           MergeOutcome, MintCertificate, CompleteFetch, MayCall, Fetching, At, Job
  <2> QED
    BY <1>1, <2>1, BusyHasMessage
<1>3. \A m \in Messages : worker[w].msg = m => m.gen = Gen(w) /\ m.job = Job(w)
  BY DEF Gen, Job
<1>4. ASSUME Moved(w, Idle), queue' = queue, LeasesEnd, MarksKept,
             \/ ~open \/ row'.gen > Gen(w)
             \/ PlanCurrent(row', Gen(w)) /\ Job(w) \in row'.terminal
      PROVE  Delivered
  <2>1. \A m \in Messages : worker[w].msg = m /\ m.job # Discover => Kept(m)'
    BY <1>2, <1>3, <1>4 DEF Kept, Ended
  <2>2. NothingLost /\ NothingForged
    BY <1>4, <2>1, AcknowledgingIsSafe
  <2> QED
    BY <1>4, <2>2, IdleDelivers, WorkerDelivery
<1>5. ASSUME NEW place \in Places, place \notin {"idle", "expect", "fanout", "mark"},
             Moved(w, Placed(w, place)), queue' = queue, lease' = lease, MarksKept
      PROVE  Delivered
  <2>1. /\ Placed(w, place).pc = place /\ Placed(w, place).msg = worker[w].msg
        /\ Placed(w, place).sent = worker[w].sent
        /\ Placed(w, place).outcome = worker[w].outcome
    BY <1>1, <1>2, PlacedOK DEF TypeInv
  <2> QED
    BY <1>2, <1>5, <2>1, NothingCompleted, PlacedDelivers
<1>6. ASSUME NEW z, Moved(w, z), z.pc # "idle", z.msg = worker[w].msg,
             z.sent = worker[w].sent, z.outcome # "STALE", row' = row, lease' = lease,
             queue' = queue
      PROVE  Delivered
  <2>1. MarksKept
    BY <1>6, NothingMarked DEF SameEvidence
  <2> QED
    BY <1>2, <1>6, <2>1, NothingCompleted, PlacedDelivers
<1>7. CASE BeginFetch(w)
  <2>1. /\ queue' = queue /\ row' = row /\ lease' = lease /\ MarksKept /\ LeasesEnd
        /\ "lease" \in Places
    BY <1>1, <1>7, BeginFetchEffect, NothingMarked, NothingCompleted
       DEF BeginFetch, SameEvidence, Places
  <2>2. CASE Moved(w, Idle) /\ (~PlanCurrent(row, Gen(w)) \/ Job(w) \in row.terminal)
    BY <1>2, <1>4, <2>1, <2>2, FetchHasPlan
  <2> QED
    BY <1>1, <1>5, <1>7, <2>1, <2>2, BeginFetchEffect
<1>8. CASE FetchStale(w)
  <2>1. /\ Moved(w, Staled(w)) /\ row' = row /\ lease' = lease /\ queue' = queue
        /\ ~open \/ ~PlanCurrent(row, Gen(w))
    BY <1>1, <1>8, FetchStaleEffect DEF FetchStale
  <2>2. /\ Staled(w).pc = "complete" /\ Staled(w).msg = worker[w].msg
        /\ Staled(w).sent = worker[w].sent
    BY <1>1, <1>2, StaledOK DEF TypeInv
  <2>3. ~open' \/ row'.gen > Gen(w)
    BY <1>2, <2>1, FetchHasPlan
  <2>4. MarksKept /\ LeasesEnd
    BY <2>1, NothingMarked, NothingCompleted DEF SameEvidence
  <2> QED
    BY <1>2, <2>1, <2>2, <2>3, <2>4, PlacedDelivers
<1>9. CASE FetchUnanswered(w)
  <2>1. row' = row /\ lease' = lease /\ queue' = queue
    BY <1>9 DEF FetchUnanswered
  <2>2. PICK outcome \in {"QUOTA_DEFERRED", "RETRYABLE_ERROR", "REQUEST_REJECTED"} :
           LET z == Unanswered(w, outcome)
           IN  /\ Moved(w, z) /\ z.pc = "merge" /\ z.outcome = outcome
               /\ z.msg = worker[w].msg /\ z.sent = worker[w].sent
    BY <1>1, <1>9, FetchUnansweredEffect
  <2> QED
    BY <1>6, <2>1, <2>2
<1>10. CASE FetchAnswered(w)
  <2>1. row' = row /\ lease' = lease /\ queue' = queue
    BY <1>10 DEF FetchAnswered
  <2>2. PICK got \in SUBSET Pairs :
           LET z == Answered(w, got)
           IN  /\ Moved(w, z) /\ z.pc = "merge" /\ z.outcome = "HTTP_200"
               /\ z.msg = worker[w].msg /\ z.sent = worker[w].sent
    BY <1>1, <1>10, FetchAnsweredEffect
  <2> QED
    BY <1>6, <2>1, <2>2
<1>11. CASE FetchSplit(w)
  <2>1. row' = row /\ lease' = lease /\ queue' = queue
    BY <1>11 DEF FetchSplit
  <2> QED
    BY <1>1, <1>6, <1>11, <2>1, FetchSplitEffect
<1>12. ASSUME NEW c \in Jobs, SendChild(w, c) PROVE Delivered
  <2> DEFINE n == [gen |-> Gen(w), job |-> c]
             z == Sending(w, c)
  <2>1. /\ n \in Messages /\ Redelivered(n) /\ Moved(w, z) /\ z.pc \in {"merge", "send"}
        /\ z.msg = worker[w].msg /\ z.sent = worker[w].sent
        /\ z.outcome = worker[w].outcome
    BY <1>1, <1>12, SendChildEffect
  <2>2. row' = row /\ lease' = lease
    BY <1>12 DEF SendChild
  <2>3. PICK k \in Messages : k = n
    BY <2>1
  <2>4. k.gen = Gen(w) /\ k.job = c
    BY <2>3
  <2> HIDE DEF n, z
  <2>5. WasPlanned(k.gen)'
    BY <1>2, <2>4, PlansStay, FetchHasPlan
  <2>6. Redelivered(k) /\ z.pc # "idle"
    BY <2>1, <2>3
  <2>10. SentByOwner(k)
    BY <1>12, <2>4 DEF SentByOwner, SendChild
  <2>7. NothingLost /\ NothingForged
    BY <1>2, <2>1, <2>5, <2>6, <2>10, SendingIsSafe
  <2>8. Delivers(z)
    BY <1>2, <2>1, <2>7, KeepsDelivering
  <2>9. MarksKept
    BY <2>2, NothingMarked DEF SameEvidence
  <2> QED
    BY <2>1, <2>2, <2>7, <2>8, <2>9, NothingCompleted, WorkerDelivery
<1>13. CASE MergeOutcome(w)
  <2>1. lease' = lease /\ queue' = queue /\ LeasesEnd
    BY <1>13, NothingCompleted DEF MergeOutcome
  <2>2. \/ /\ row' = Merged(row, Job(w), worker[w].outcome, worker[w].got)
           /\ LET z == Minting(w, CycleComplete(row'))
              IN  /\ Moved(w, z) /\ z.pc = "mint" /\ z.msg = worker[w].msg
                  /\ z.outcome = worker[w].outcome /\ z.sent = worker[w].sent
        \/ \E outcome \in {worker[w].outcome, "STALE"} :
              LET z == Unmerged(w, outcome)
              IN  /\ row' = row
                  /\ outcome = "STALE" /\ worker[w].outcome # "STALE" =>
                        ~PlanCurrent(row, Gen(w))
                  /\ Moved(w, z) /\ z.pc = "mint" /\ z.msg = worker[w].msg
                  /\ z.outcome = outcome /\ z.sent = worker[w].sent
    BY <1>1, <1>13, MergeOutcomeEffect
  <2>3. MarksKept
    <3>1. CASE row' = row
      BY <3>1, NothingMarked DEF SameEvidence
    <3>2. CASE row' = Merged(row, Job(w), worker[w].outcome, worker[w].got)
      <4>1. /\ Job(w) \in Jobs /\ worker[w].outcome \in Outcomes
            /\ worker[w].got \in SUBSET Pairs /\ RowOK(row)
        BY <1>1, <1>2, <1>13, BusyHasMessage, MergeOutcomeEffect DEF TypeInv, WorkerRecord
      <4>2. /\ row'.gen = row.gen /\ row'.planned = row.planned
            /\ row'.enqueued = row.enqueued
        BY <3>2, <4>1, MergedRow
      <4> QED
        BY <4>2 DEF MarksKept
    <3> QED
      BY <2>2, <3>1, <3>2
  <2>4. PICK z : /\ Moved(w, z) /\ z.pc = "mint" /\ z.msg = worker[w].msg
                 /\ z.sent = worker[w].sent
                 /\ z.outcome = "STALE" /\ worker[w].outcome # "STALE" =>
                       ~PlanCurrent(row, Gen(w))
    BY <2>2
  <2>5. z.outcome = "STALE" => worker[w].outcome = "STALE" \/ row'.gen > Gen(w)
    BY <1>2, <2>4, FetchHasPlan
  <2> QED
    BY <1>2, <2>1, <2>3, <2>4, <2>5, PlacedDelivers
<1>14. CASE MintCertificate(w)
  <2>1. MarksKept /\ "complete" \in Places
    BY <1>14, NothingMarked DEF MintCertificate, SameEvidence, Places, Owning
  <2> QED
    BY <1>1, <1>2, <1>5, <1>14, <2>1, MintCertificateEffect, PutBackDelivers
<1>15. CASE CompleteFetch(w)
  <2>1. row' = row /\ MarksKept
    BY <1>15, NothingMarked DEF CompleteFetch, SameEvidence
  <2>2. CASE Redelivered(worker[w].msg) /\ Unleased
    BY <1>1, <1>2, <1>15, <2>1, <2>2, CompleteFetchEffect, PutBackDelivers
  <2>3. CASE queue' = queue /\ worker[w].outcome = "STALE" /\ Unleased
    <3>1. \A m \in Messages : m = worker[w].msg => ~open \/ row.gen > m.gen
      BY <1>2, <1>3, <2>3 DEF Stepping, DeliveryInv, WorkersDeliver
    <3>2. ~open \/ row'.gen > Gen(w)
      BY <1>2, <1>3, <2>1, <3>1
    <3> QED
      BY <1>1, <1>4, <1>15, <2>1, <2>3, <3>2, NothingCompleted, CompleteFetchEffect
  <2>4. CASE /\ queue' = queue /\ lease'[worker[w].msg].state = "COMPLETED"
             /\ PlanCurrent(row, Gen(w)) /\ Job(w) \in row.terminal
    <3>1. \A m \in Messages : m = worker[w].msg => Ended(m)'
      BY <1>3, <2>1, <2>4 DEF Ended
    <3>2. LeasesEnd
      BY <1>1, <1>15, <3>1, CompleteFetchEffect DEF LeasesEnd
    <3> QED
      BY <1>1, <1>4, <1>15, <2>1, <2>4, <3>2, CompleteFetchEffect
  <2> QED
    BY <1>1, <1>15, <2>2, <2>3, <2>4, CompleteFetchEffect
<1> QED
  BY <1>7, <1>8, <1>9, <1>10, <1>11, <1>12, <1>13, <1>14, <1>15

\* When no worker moves, the queue says what is pending.
LEMMA EnvironmentDelivers ==
    ASSUME Stepping, worker' = worker, lease' = lease, queue' \in [Messages -> Nat],
           Turns(row, row') \/ SameEvidence(row', row),
           \A m \in Messages :
               m.job # Discover =>
                   queue'[m] = queue[m] \/ (queue'[m] > 0 /\ queue[m] > 0)
    PROVE  Delivered
<1>1. \A m \in Messages : m.job # Discover => (Pending(m)' <=> Pending(m))
  BY DEF Pending
<1>2. NothingLost /\ NothingForged /\ MarksKept /\ LeasesEnd
  BY <1>1, NothingMarked, NothingCompleted DEF NothingLost, NothingForged, Kept
<1>3. ASSUME NEW v \in Workers PROVE Delivers(worker'[v])
  BY <1>2, StillDelivers DEF Same
<1> QED
  BY <1>2, <1>3, DeliveryStep

\* Every step delivers.
LEMMA StepDelivers ==
    ASSUME TypeInv, DeliveryInv, [Next]_vars
    PROVE  Delivered
<1>1. TypeInv' /\ Grows(row, row')
  BY StepGrows
<1>2. CASE Dispatch
  <2>1. Stepping
    BY <1>1, <1>2 DEF Stepping, Dispatch
  <2>2. queue' = queue /\ lease' = lease /\ worker' = worker /\ queue' \in [Messages -> Nat]
    BY <1>1, <1>2 DEF Dispatch, TypeInv
  <2> QED
    BY <1>2, <2>1, <2>2, DispatchEffect, EnvironmentDelivers
<1>3. CASE SendDiscovery
  <2>1. Stepping /\ SameEvidence(row', row)
    BY <1>1, <1>3 DEF Stepping, SendDiscovery, SameEvidence
  <2>2. lease' = lease /\ worker' = worker /\ queue' \in [Messages -> Nat]
    BY <1>1, <1>3 DEF SendDiscovery, TypeInv
  <2>3. \A m \in Messages : m.job # Discover => queue'[m] = queue[m]
    BY <1>3, SendDiscoveryEffect
  <2> QED
    BY <2>1, <2>2, <2>3, EnvironmentDelivers
<1>4. CASE MarkDispatched \/ DispatchFails
  <2>1. Stepping
    <3>1. open' = open
      BY <1>4 DEF MarkDispatched, DispatchFails
    <3> QED
      BY <1>1, <3>1 DEF Stepping
  <2>2. queue' = queue /\ lease' = lease /\ worker' = worker /\ queue' \in [Messages -> Nat]
    BY <1>1, <1>4 DEF MarkDispatched, DispatchFails, TypeInv
  <2> QED
    BY <1>4, <2>1, <2>2, DispatcherEffect, EnvironmentDelivers
<1>5. CASE Close
  <2>1. Stepping /\ SameEvidence(row', row)
    BY <1>1, <1>5 DEF Stepping, Close, SameEvidence
  <2>2. queue' = queue /\ lease' = lease /\ worker' = worker /\ queue' \in [Messages -> Nat]
    BY <1>1, <1>5 DEF Close, TypeInv
  <2> QED
    BY <2>1, <2>2, EnvironmentDelivers
<1>6. ASSUME NEW w \in Workers, Progress(w) PROVE Delivered
  <2>1. Stepping
    <3>1. open' = open
      BY <1>6 DEF Progress, BeginDiscovery, BeginFetch, AcquireLease, LeaseRefused, Attempt,
                  DiscoveryDeferred, DiscoveryRejected, DiscoveryAnswered, PutPlan,
                  FanoutExpected, EnqueueBatch, MarkEnqueued, CompleteFanout,
                  CompleteDiscovery, FetchStale, FetchUnanswered, FetchAnswered, FetchSplit,
                  SendChild, MergeOutcome, MintCertificate, CompleteFetch
    <3> QED
      BY <1>1, <3>1 DEF Stepping
  <2>2. CASE AcquireLease(w)
    <3>1. worker[w].pc # "idle" /\ worker[w].pc = "lease" /\ row' = row /\ queue' = queue
      BY <2>2 DEF AcquireLease, At
    <3>2. MarksKept /\ LeasesEnd
      <4>1. MarksKept
        BY <3>1, NothingMarked DEF SameEvidence
      <4>2. /\ lease'[worker[w].msg] = [state |-> "IN_PROGRESS", owner |-> w]
            /\ \A m \in Messages : m # worker[w].msg => lease'[m] = lease[m]
        BY <2>2, AcquireLeaseEffect
      <4>3. ASSUME NEW m \in Messages, lease'[m].state = "COMPLETED"
            PROVE  lease[m].state = "COMPLETED"
        <5>1. m # worker[w].msg
          BY <4>2, <4>3
        <5> QED
          BY <4>2, <4>3, <5>1
      <4> QED
        BY <4>1, <4>3 DEF LeasesEnd
    <3>3. PICK place \in {"attempt", "call"} : Moved(w, Placed(w, place))
      BY <2>2, AcquireLeaseEffect
    <3>4. /\ Placed(w, place).pc = place /\ Placed(w, place).msg = worker[w].msg
          /\ Placed(w, place).sent = worker[w].sent
          /\ Placed(w, place).outcome = worker[w].outcome
      <4>1. place \in Places
        BY DEF Places, Owning
      <4> QED
        BY <3>1, <4>1, PlacedOK DEF TypeInv
    <3> QED
      BY <2>1, <3>1, <3>2, <3>3, <3>4, PlacedDelivers
  <2>3. CASE LeaseRefused(w)
    <3>1. worker[w].pc # "idle" /\ row' = row /\ lease' = lease
      BY <2>3 DEF LeaseRefused, At
    <3>2. MarksKept /\ LeasesEnd
      BY <3>1, NothingMarked, NothingCompleted DEF SameEvidence
    <3>3. CASE queue' = queue /\ lease[worker[w].msg].state = "COMPLETED"
      <4>1. \A m \in Messages : worker[w].msg = m /\ m.job # Discover => Kept(m)'
        BY <2>1, <3>3, PlansStay DEF DeliveryInv, EndsAreReal, Kept
      <4>2. Moved(w, Idle)
        BY <2>3, LeaseRefusedEffect
      <4>3. NothingLost /\ NothingForged
        BY <3>3, <4>1, <4>2, AcknowledgingIsSafe
      <4> QED
        BY <2>1, <3>2, <4>2, <4>3, IdleDelivers, WorkerDelivery
    <3> QED
      BY <2>1, <2>3, <3>1, <3>2, <3>3, LeaseRefusedEffect, PutBackDelivers
  <2> QED
    BY <1>6, <2>1, <2>2, <2>3, DiscoveryDelivers, FetchDelivers DEF Progress
<1>7. ASSUME NEW w \in Workers, Crash(w) PROVE Delivered
  <2>1. Stepping /\ worker[w].pc # "idle" /\ row' = row /\ lease' = lease
    BY <1>1, <1>7 DEF Stepping, Crash
  <2>2. MarksKept
    BY <2>1, NothingMarked DEF SameEvidence
  <2> QED
    BY <1>7, <2>1, <2>2, CrashEffect, PutBackDelivers
<1>8. ASSUME NEW m \in Messages, Duplicate(m) PROVE Delivered
  <2>1. Stepping /\ SameEvidence(row', row)
    BY <1>1, <1>8 DEF Stepping, Duplicate, SameEvidence
  <2>2. lease' = lease /\ worker' = worker /\ queue' \in [Messages -> Nat]
    BY <1>1, <1>8 DEF Duplicate, TypeInv
  <2>3. \A n \in Messages : queue'[n] = queue[n] \/ (queue'[n] > 0 /\ queue[n] > 0)
    BY <1>8, DuplicateEffect DEF Redelivered
  <2> QED
    BY <2>1, <2>2, <2>3, EnvironmentDelivers
<1>9. ASSUME NEW m \in Messages, NEW w \in Workers, Receive(w, m) PROVE Delivered
  <2>1. Stepping /\ row' = row /\ lease' = lease
    BY <1>1, <1>9 DEF Stepping, Receive
  <2>2. MarksKept /\ LeasesEnd
    BY <2>1, NothingMarked, NothingCompleted DEF SameEvidence
  <2>3. NothingLost /\ NothingForged
    <3>1. /\ Moved(w, Given(m)) /\ worker[w].pc = "idle" /\ Given(m).pc # "idle"
          /\ Given(m).msg = m /\ queue[m] > 0
          /\ \A n \in Messages : n # m => queue'[n] = queue[n]
      BY <1>9, ReceiveEffect
    <3> QED
      BY <3>1, TakingIsSafe
  <2>4. Delivers(Given(m))
    BY <1>9, ReceiveEffect DEF Delivers
  <2> QED
    BY <1>9, <2>1, <2>2, <2>3, <2>4, ReceiveEffect, WorkerDelivery
<1>10. CASE UNCHANGED vars
  <2>1. Stepping /\ SameEvidence(row', row)
    BY <1>1, <1>10 DEF Stepping, vars, SameEvidence
  <2>2. queue' = queue /\ lease' = lease /\ worker' = worker /\ queue' \in [Messages -> Nat]
    BY <1>1, <1>10 DEF vars, TypeInv
  <2> QED
    BY <2>1, <2>2, EnvironmentDelivers
<1> QED
  BY <1>2, <1>3, <1>4, <1>5, <1>6, <1>7, <1>8, <1>9, <1>10 DEF Next

\* At the start nothing is pending, planned or completed.
LEMMA InitDelivers == Init => DeliveryInv
BY DEF Init, DeliveryInv, FetchesArePlanned, EndsAreReal, BatchesAreKept, WorkersDeliver,
       Pending, Idle, EmptyRow, Free

\* A batch recorded as enqueued has terminal evidence or a delivery that will
\* bring it, whatever crashes between the send, the mark, the merge and the
\* acknowledgement, while the event is collectable.
THEOREM BatchesKept == Spec => []NoBatchLost
<1>1. TypeInv /\ DeliveryInv /\ [Next]_vars => TypeInv' /\ DeliveryInv'
  BY StepGrows, StepDelivers DEF Delivered
<1>2. ASSUME TypeInv, DeliveryInv PROVE NoBatchLost
  <2> SUFFICES ASSUME open, row.planned, NEW b \in row.enqueued \ row.terminal
               PROVE  Pending([gen |-> row.gen, job |-> b])
    BY DEF NoBatchLost
  <2> DEFINE m == [gen |-> row.gen, job |-> b]
  <2>1. row.gen \in Gens /\ b \in Jobs
    <3>1. row.gen \in 0..MaxGen /\ b \in Batches
      BY <1>2 DEF TypeInv, RowOK, Row
    <3> QED
      BY <1>2, <3>1, BatchIsNoDiscovery DEF DeliveryInv, BatchesAreKept
  <2>2. m \in Messages /\ m.gen = row.gen /\ m.job = b
    BY <2>1 DEF Messages
  <2> HIDE DEF m
  <2>3. Kept(m)
    BY <1>2, <2>2 DEF DeliveryInv, BatchesAreKept
  <2>4. ~(row.gen > row.gen)
    BY <2>1, BoundsAssumption DEF Gens
  <2>5. Pending(m)
    BY <2>2, <2>3, <2>4 DEF Kept, Ended
  <2> QED
    BY <2>5 DEF m
<1> QED
  BY <1>1, <1>2, InitType, InitDelivers, PTL DEF Spec

(***************************************************************************)
(* Certificates.                                                           *)
(***************************************************************************)

\* What covers a job still does with more.
LEMMA CoversMore ==
    ASSUME NEW S, NEW T, NEW b, S \subseteq T, Covers(S, b)
    PROVE  Covers(T, b)
BY DEF Covers

\* The leaves after a split job's outcome cut through the tree of its root,
\* below the root itself, and cover it.
LEMMA LeavesCover ==
    ASSUME NEW r, RowOK(r), NEW j \in Jobs, NEW outcome, Split(j, outcome),
           outcome = "SPLIT_PENDING" => Children[j] # {},
           r.frontier \cap Batches = {},
           \A l \in r.frontier : Covers(Group(r, l), RootOf[l])
    PROVE  LET front == IF outcome = "SPLIT_PENDING"
                        THEN (Frontier(r, j) \ {j}) \cup Children[j]
                        ELSE Frontier(r, j)
           IN  /\ front \subseteq Jobs \ Batches
               /\ \A l \in front : RootOf[l] = RootOf[j]
               /\ Covers(front, RootOf[j])
<1>1. r.frontier \subseteq Jobs
  BY DEF RowOK, Row
<1>2. Children[j] \subseteq Jobs \ Batches /\ \A c \in Children[j] : RootOf[c] = RootOf[j]
  BY ChildHasTheRoot, TreeAssumption
<1>3. CASE Group(r, j) = {} /\ j \in Batches
  <2>1. Frontier(r, j) = {} /\ RootOf[j] = j
    BY <1>3, CarriedEquation, RootEquation DEF Frontier
  <2>2. outcome = "SPLIT_PENDING"
    BY <1>3 DEF Split, IsLeaf
  <2>3. Covers(Children[j], j)
    BY <2>2 DEF Covers, UpClosed
  <2> QED
    BY <1>2, <2>1, <2>2, <2>3
<1>4. CASE Group(r, j) # {} \/ j \notin Batches
  <2>1. /\ Frontier(r, j) \subseteq Jobs \ Batches
        /\ \A l \in Frontier(r, j) : RootOf[l] = RootOf[j]
        /\ Covers(Frontier(r, j), RootOf[j])
    <3>1. CASE Group(r, j) = {}
      BY <1>4, <3>1, CarriedIsACut DEF Frontier
    <3>2. CASE Group(r, j) # {}
      <4>1. PICK l \in r.frontier : RootOf[l] = RootOf[j]
        BY <3>2 DEF Group
      <4>2. Group(r, l) = Group(r, j)
        BY <4>1 DEF Group
      <4>3. Covers(Group(r, j), RootOf[j])
        BY <4>1, <4>2
      <4> QED
        BY <1>1, <3>2, <4>3 DEF Frontier, Group
    <3> QED
      BY <3>1, <3>2
  <2>2. outcome = "SPLIT_PENDING" =>
           Covers((Frontier(r, j) \ {j}) \cup Children[j], RootOf[j])
    BY <2>1, PartsCover
  <2> QED
    BY <1>2, <2>1, <2>2
<1> QED
  BY <1>3, <1>4

\* Merging an honest outcome leaves the row honest.
LEMMA MergeIsHonest ==
    ASSUME NEW r, RowOK(r), NEW j \in Jobs, NEW outcome \in Outcomes,
           NEW got \in SUBSET Pairs, NEW jobs, NEW pairs, HonestRow(r, jobs, pairs),
           got \subseteq pairs, outcome = "HTTP_200" => j \in jobs,
           outcome = "SPLIT_PENDING" => Children[j] # {}
    PROVE  HonestRow(Merged(r, j, outcome, got), jobs, pairs)
<1> DEFINE l == IF Split(j, outcome) THEN Leaves(r, j, outcome) ELSE r
           s == Merged(r, j, outcome, got)
           verdict == BatchVerdict(l, j, outcome)
<1>1. /\ s.frontier = l.frontier /\ s.done = l.done /\ s.returned = r.returned \cup got
      /\ s.succeeded = r.succeeded \cup
            (IF verdict = "succeeded" THEN {RootOf[j]} ELSE {})
  BY MergedRow
<1> SUFFICES HonestRow(s, jobs, pairs)
  OBVIOUS
<1>2. CASE Split(j, outcome)
  <2> DEFINE front == IF outcome = "SPLIT_PENDING"
                      THEN (Frontier(r, j) \ {j}) \cup Children[j]
                      ELSE Frontier(r, j)
  <2>1. /\ front \subseteq Jobs \ Batches /\ \A k \in front : RootOf[k] = RootOf[j]
        /\ Covers(front, RootOf[j])
    BY <1>2, LeavesCover DEF HonestRow
  <2>2. /\ l.frontier = {k \in r.frontier : RootOf[k] # RootOf[j]} \cup front
        /\ l.done \subseteq r.done \cup (IF outcome = "HTTP_200" THEN {j} ELSE {})
    BY <1>2, LeavesRow
  <2> HIDE DEF front, s
  <2>3. Group(l, j) = front
    BY <2>1, <2>2 DEF Group
  <2>4. verdict = "succeeded" => Group(l, j) \subseteq l.done
    BY <1>2 DEF BatchVerdict, RootVerdict
  <2> HIDE DEF l, verdict
  <2>5. s.done \subseteq jobs
    BY <1>1, <2>2 DEF HonestRow
  <2>6. s.frontier \cap Batches = {}
    BY <1>1, <2>1, <2>2 DEF HonestRow
  <2>7. ASSUME NEW k \in s.frontier PROVE Covers(Group(s, k), RootOf[k])
    <3>1. CASE RootOf[k] = RootOf[j]
      <4>1. Group(s, k) = front
        BY <1>1, <2>1, <2>2, <3>1 DEF Group
      <4> QED
        BY <2>1, <3>1, <4>1
    <3>2. CASE RootOf[k] # RootOf[j]
      <4>1. k \in r.frontier
        BY <1>1, <2>1, <2>2, <3>2
      <4>2. Group(s, k) = Group(r, k)
        BY <1>1, <2>1, <2>2, <3>2 DEF Group
      <4> QED
        BY <4>1, <4>2 DEF HonestRow
    <3> QED
      BY <3>1, <3>2
  <2>8. ASSUME NEW b \in s.succeeded PROVE Covers(jobs, b)
    <3>1. CASE b \in r.succeeded
      BY <3>1 DEF HonestRow
    <3>2. CASE verdict = "succeeded" /\ b = RootOf[j]
      <4>1. front \subseteq jobs
        BY <1>1, <2>3, <2>4, <2>5, <3>2
      <4> QED
        BY <2>1, <3>2, <4>1, CoversMore
    <3> QED
      BY <1>1, <2>8, <3>1, <3>2
  <2> QED
    BY <1>1, <2>5, <2>6, <2>7, <2>8 DEF HonestRow
<1>3. CASE ~Split(j, outcome)
  <2>1. l = r /\ j \in Batches /\ RootOf[j] = j
    BY <1>3, RootEquation DEF Split, IsLeaf
  <2>2. verdict = "succeeded" => outcome = "HTTP_200"
    BY <1>3 DEF BatchVerdict
  <2> HIDE DEF l, verdict, s
  <2>3. verdict = "succeeded" => Covers(jobs, j)
    BY <2>2 DEF Covers
  <2>4. \A k : Group(s, k) = Group(r, k)
    BY <1>1, <2>1 DEF Group
  <2> QED
    BY <1>1, <2>1, <2>3, <2>4 DEF HonestRow
<1> QED
  BY <1>2, <1>3

\* A complete cycle of an honest row is sound.
LEMMA CompleteIsSound ==
    ASSUME NEW g, NEW r, HonestRow(r, AnsweredJobs(g), PairsReturned(g)), CycleComplete(r)
    PROVE  Sound(g)
<1>1. \A b \in Batches : Covers(AnsweredJobs(g), b)
  BY DEF HonestRow, CycleComplete
<1>2. Covered(g)
  BY <1>1 DEF Covered, Covers
<1>3. Required \subseteq PairsReturned(g)
  BY DEF HonestRow, CycleComplete
<1> QED
  BY <1>2, <1>3 DEF Sound

\* More answers take nothing back.
LEMMA AnswersStay ==
    ASSUME answered \subseteq answered', NEW g
    PROVE  /\ AnsweredJobs(g) \subseteq AnsweredJobs(g)'
           /\ PairsReturned(g) \subseteq PairsReturned(g)'
           /\ Sound(g) => Sound(g)'
<1>1. AnsweredJobs(g) \subseteq AnsweredJobs(g)'
  BY DEF AnsweredJobs
<1>2. PairsReturned(g) \subseteq PairsReturned(g)'
  BY DEF PairsReturned
<1>3. Covered(g) => Covered(g)'
  BY <1>1 DEF Covered
<1> QED
  BY <1>1, <1>2, <1>3 DEF Sound

\* An honest row stays honest with more answers, when its evidence does not
\* change or goes.
LEMMA HonestyStays ==
    ASSUME NEW r, NEW s, NEW jobs, NEW more, NEW pairs, NEW further,
           HonestRow(r, jobs, pairs), jobs \subseteq more, pairs \subseteq further,
           \/ NoEvidence(s)
           \/ /\ s.done = r.done /\ s.returned = r.returned /\ s.frontier = r.frontier
              /\ s.succeeded = r.succeeded
    PROVE  HonestRow(s, more, further)
<1>1. CASE NoEvidence(s)
  BY <1>1 DEF HonestRow, NoEvidence
<1>2. CASE /\ s.done = r.done /\ s.returned = r.returned /\ s.frontier = r.frontier
           /\ s.succeeded = r.succeeded
  <2>1. \A l : Group(s, l) = Group(r, l)
    BY <1>2 DEF Group
  <2>2. \A b \in s.succeeded : Covers(more, b)
    BY <1>2, CoversMore DEF HonestRow
  <2> QED
    BY <1>2, <2>1, <2>2 DEF HonestRow
<1> QED
  BY <1>1, <1>2

\* A step from an honest state.
Honest == TypeInv /\ HonestyInv /\ TypeInv' /\ answered \subseteq answered'

\* What a step does to the invariant: a worker that is z afterwards is honest,
Reports(z) ==
    \A m \in Messages :
        z.pc # "idle" /\ z.msg = m =>
            /\ z.got \subseteq PairsReturned(m.gen)'
            /\ z.outcome = "HTTP_200" => m.job \in AnsweredJobs(m.gen)'
            /\ z.outcome = "SPLIT_PENDING" => m.job \in Jobs /\ Children[m.job] # {}
            /\ z.mint => Sound(m.gen)'

\* the row keeps its evidence, loses all of it or is honest,
RowReports ==
    \/ SameEvidence(row', row) \/ Turns(row, row')
    \/ /\ row'.gen = row.gen /\ row'.done = row.done /\ row'.returned = row.returned
       /\ row'.frontier = row.frontier /\ row'.succeeded = row.succeeded
    \/ RowIsHonest'

\* and a certificate is only minted for a complete cycle.
CertsReport == \A g \in certs' : g \in certs \/ Sound(g)'

\* A worker that keeps its message and its report is honest.
LEMMA KeepsReporting ==
    ASSUME Honest, NEW w \in Workers, worker[w].pc # "idle", NEW z,
           z.msg = worker[w].msg, z.got = worker[w].got, z.mint = worker[w].mint,
           z.outcome \in {"HTTP_200", "SPLIT_PENDING"} => z.outcome = worker[w].outcome
    PROVE  Reports(z)
<1> SUFFICES ASSUME NEW m \in Messages, z.pc # "idle", z.msg = m
             PROVE  /\ z.got \subseteq PairsReturned(m.gen)'
                    /\ z.outcome = "HTTP_200" => m.job \in AnsweredJobs(m.gen)'
                    /\ z.outcome = "SPLIT_PENDING" => m.job \in Jobs /\ Children[m.job] # {}
                    /\ z.mint => Sound(m.gen)'
  BY DEF Reports
<1>1. /\ worker[w].got \subseteq PairsReturned(m.gen)
      /\ worker[w].outcome = "HTTP_200" => m.job \in AnsweredJobs(m.gen)
      /\ worker[w].outcome = "SPLIT_PENDING" => m.job \in Jobs /\ Children[m.job] # {}
      /\ worker[w].mint => Sound(m.gen)
  BY DEF Honest, HonestyInv, WorkersAreHonest
<1>2. /\ AnsweredJobs(m.gen) \subseteq AnsweredJobs(m.gen)'
      /\ PairsReturned(m.gen) \subseteq PairsReturned(m.gen)'
      /\ Sound(m.gen) => Sound(m.gen)'
  BY AnswersStay DEF Honest
<1> QED
  BY <1>1, <1>2

\* An idle worker is honest.
LEMMA IdleReports == Reports(Idle)
BY DEF Reports, Idle

\* The parts make the step.
LEMMA HonestyStep ==
    ASSUME Honest, RowReports, CertsReport, \A v \in Workers : Reports(worker'[v])
    PROVE  HonestyInv'
<1>1. RowIsHonest'
  <2> SUFFICES ASSUME ~RowIsHonest', NEW g \in 0..MaxGen, row'.gen = g
               PROVE  HonestRow(row', AnsweredJobs(g)', PairsReturned(g)')
    BY DEF RowIsHonest
  <2>1. AnsweredJobs(g) \subseteq AnsweredJobs(g)' /\ PairsReturned(g) \subseteq PairsReturned(g)'
    BY AnswersStay DEF Honest
  <2>2. CASE NoEvidence(row')
    BY <2>2 DEF HonestRow, NoEvidence
  <2>3. CASE /\ row'.gen = row.gen /\ row'.done = row.done /\ row'.returned = row.returned
             /\ row'.frontier = row.frontier /\ row'.succeeded = row.succeeded
    <3>1. HonestRow(row, AnsweredJobs(g), PairsReturned(g))
      BY <2>3 DEF Honest, HonestyInv, RowIsHonest
    <3> QED
      BY <2>1, <2>3, <3>1, HonestyStays
  <2> QED
    BY <2>2, <2>3 DEF RowReports, Turns, SameEvidence
<1>2. WorkersAreHonest'
  BY DEF WorkersAreHonest, Reports
<1>3. CertsAreHonest'
  <2>1. \A g \in certs : Sound(g)'
    BY AnswersStay DEF Honest, HonestyInv, CertsAreHonest
  <2> QED
    BY <2>1 DEF CertsReport, CertsAreHonest
<1> QED
  BY <1>1, <1>2, <1>3 DEF HonestyInv

\* When one worker moves, it is the one to look at.
LEMMA WorkerHonesty ==
    ASSUME Honest, RowReports, CertsReport, NEW w \in Workers, NEW z, Moved(w, z), Reports(z)
    PROVE  HonestyInv'
<1>1. Reports(worker'[w])
  BY DEF Moved, Same, Reports
<1>2. ASSUME NEW v \in Workers, v # w PROVE Reports(worker'[v])
  <2>1. Same(worker'[v], worker[v])
    BY <1>2 DEF Moved
  <2>2. CASE worker[v].pc = "idle"
    BY <2>1, <2>2 DEF Reports, Same
  <2>3. CASE worker[v].pc # "idle"
    BY <2>1, <2>3, KeepsReporting DEF Same
  <2> QED
    BY <2>2, <2>3
<1> QED
  BY <1>1, <1>2, HonestyStep

\* A worker that stops, or only moves on, is honest.
LEMMA PlainHonesty ==
    ASSUME Honest, RowReports, CertsReport, NEW w \in Workers, worker[w].pc # "idle",
           NEW z, Moved(w, z),
           \/ z = Idle
           \/ /\ z.msg = worker[w].msg /\ z.got = worker[w].got /\ z.mint = worker[w].mint
              /\ z.outcome \in {"HTTP_200", "SPLIT_PENDING"} => z.outcome = worker[w].outcome
    PROVE  HonestyInv'
<1>1. Reports(z)
  BY IdleReports, KeepsReporting
<1> QED
  BY <1>1, WorkerHonesty
\* A worker that stops, goes to another place or gives up as stale is honest.
LEMMA PlacedHonesty ==
    ASSUME Honest, RowReports, CertsReport, NEW w \in Workers, worker[w].pc # "idle",
           \/ Moved(w, Idle) \/ Moved(w, Staled(w))
           \/ \E place \in Places : Moved(w, Placed(w, place))
    PROVE  HonestyInv'
<1>1. WorkersOK
  BY DEF Honest, TypeInv
<1>2. CASE Moved(w, Idle)
  BY <1>2, PlainHonesty
<1>3. CASE Moved(w, Staled(w))
  <2>1. /\ Staled(w).msg = worker[w].msg /\ Staled(w).got = worker[w].got
        /\ Staled(w).mint = worker[w].mint /\ Staled(w).outcome = "STALE"
    BY <1>1, StaledOK
  <2> QED
    BY <1>3, <2>1, PlainHonesty
<1>4. ASSUME NEW place \in Places, Moved(w, Placed(w, place)) PROVE HonestyInv'
  <2>1. /\ Placed(w, place).msg = worker[w].msg /\ Placed(w, place).got = worker[w].got
        /\ Placed(w, place).mint = worker[w].mint
        /\ Placed(w, place).outcome = worker[w].outcome
    BY <1>1, PlacedOK
  <2> QED
    BY <1>4, <2>1, PlainHonesty
<1> QED
  BY <1>2, <1>3, <1>4

\* A discovery, or a step any worker takes, changes no evidence it has not.
LEMMA DiscoveryIsHonest ==
    ASSUME Honest, NEW w \in Workers,
           \/ BeginDiscovery(w) \/ AcquireLease(w) \/ LeaseRefused(w) \/ Attempt(w)
           \/ DiscoveryDeferred(w) \/ DiscoveryRejected(w) \/ DiscoveryAnswered(w)
           \/ PutPlan(w) \/ FanoutExpected(w) \/ (\E b \in Batches : EnqueueBatch(w, b))
           \/ MarkEnqueued(w) \/ CompleteFanout(w) \/ CompleteDiscovery(w) \/ Crash(w)
    PROVE  HonestyInv'
<1>1. TypeInv
  BY DEF Honest
<1>2. worker[w].pc # "idle"
  BY DEF BeginDiscovery, AcquireLease, LeaseRefused, Attempt, DiscoveryDeferred,
         DiscoveryRejected, DiscoveryAnswered, PutPlan, FanoutExpected, EnqueueBatch,
         MarkEnqueued, CompleteFanout, CompleteDiscovery, Crash, Discovering, At
<1>3. CertsReport
  <2>1. certs' = certs
    BY DEF BeginDiscovery, AcquireLease, LeaseRefused, Attempt, DiscoveryDeferred,
           DiscoveryRejected, DiscoveryAnswered, PutPlan, FanoutExpected, EnqueueBatch,
           MarkEnqueued, CompleteFanout, CompleteDiscovery, Crash
  <2> QED
    BY <2>1 DEF CertsReport
<1>4. {"lease", "attempt", "call", "expect", "discover", "complete", "plan"} \subseteq Places
  BY DEF Places, Owning
<1>5. ASSUME row' = row PROVE RowReports
  BY <1>5 DEF RowReports, SameEvidence
<1>6. CASE BeginDiscovery(w)
  <2>1. RowReports
    BY <1>1, <1>5, <1>6, BeginDiscoveryEffect DEF RowReports
  <2> QED
    BY <1>1, <1>2, <1>3, <1>4, <1>6, <2>1, BeginDiscoveryEffect, PlacedHonesty
<1>7. CASE AcquireLease(w)
  <2>1. RowReports
    BY <1>5, <1>7 DEF AcquireLease
  <2> QED
    BY <1>1, <1>2, <1>3, <1>4, <1>7, <2>1, AcquireLeaseEffect, PlacedHonesty
<1>8. CASE LeaseRefused(w)
  <2>1. RowReports
    BY <1>5, <1>8 DEF LeaseRefused
  <2> QED
    BY <1>1, <1>2, <1>3, <1>8, <2>1, LeaseRefusedEffect, PlacedHonesty
<1>9. CASE Attempt(w)
  <2>1. RowReports
    BY <1>1, <1>9, AttemptEffect DEF RowReports
  <2> QED
    BY <1>1, <1>2, <1>3, <1>4, <1>9, <2>1, AttemptEffect, PlacedHonesty
<1>10. CASE DiscoveryDeferred(w)
  <2>1. RowReports
    BY <1>1, <1>10, DiscoveryDeferredEffect DEF RowReports
  <2> QED
    BY <1>1, <1>2, <1>3, <1>10, <2>1, DiscoveryDeferredEffect, PlacedHonesty
<1>11. CASE DiscoveryRejected(w)
  <2>1. RowReports
    BY <1>1, <1>11, DiscoveryRejectedEffect DEF RowReports
  <2> QED
    BY <1>1, <1>2, <1>3, <1>4, <1>11, <2>1, DiscoveryRejectedEffect, PlacedHonesty
<1>12. CASE DiscoveryAnswered(w)
  <2>1. RowReports
    BY <1>5, <1>12 DEF DiscoveryAnswered
  <2> QED
    BY <1>1, <1>2, <1>3, <1>4, <1>12, <2>1, DiscoveryAnsweredEffect, PlacedHonesty
<1>13. CASE PutPlan(w)
  <2>1. RowReports
    BY <1>1, <1>13, PutPlanEffect DEF RowReports
  <2> QED
    BY <1>1, <1>2, <1>3, <1>4, <1>13, <2>1, PutPlanEffect, PlacedHonesty
<1>14. CASE FanoutExpected(w)
  <2>1. RowReports
    BY <1>1, <1>14, FanoutExpectedEffect DEF RowReports
  <2> QED
    BY <1>1, <1>2, <1>3, <1>14, <2>1, FanoutExpectedEffect, PlacedHonesty, PlainHonesty
<1>15. ASSUME NEW b \in Batches, EnqueueBatch(w, b) PROVE HonestyInv'
  <2>1. RowReports
    BY <1>5, <1>15 DEF EnqueueBatch
  <2> QED
    BY <1>1, <1>2, <1>3, <1>15, <2>1, EnqueueBatchEffect, PlainHonesty
<1>16. CASE MarkEnqueued(w)
  <2>1. RowReports
    BY <1>1, <1>5, <1>16, MarkEnqueuedEffect DEF RowReports
  <2> QED
    BY <1>1, <1>2, <1>3, <1>16, <2>1, MarkEnqueuedEffect, PlacedHonesty, PlainHonesty
<1>17. CASE CompleteFanout(w)
  <2>1. RowReports
    BY <1>1, <1>17, CompleteFanoutEffect DEF RowReports
  <2> QED
    BY <1>1, <1>2, <1>3, <1>4, <1>17, <2>1, CompleteFanoutEffect, PlacedHonesty
<1>18. CASE CompleteDiscovery(w)
  <2>1. RowReports
    BY <1>5, <1>18 DEF CompleteDiscovery
  <2> QED
    BY <1>1, <1>2, <1>3, <1>18, <2>1, CompleteDiscoveryEffect, PlacedHonesty
<1>19. CASE Crash(w)
  <2>1. RowReports
    BY <1>5, <1>19 DEF Crash
  <2> QED
    BY <1>1, <1>2, <1>3, <1>19, <2>1, CrashEffect, PlacedHonesty
<1> QED
  BY <1>6, <1>7, <1>8, <1>9, <1>10, <1>11, <1>12, <1>13, <1>14, <1>15, <1>16, <1>17, <1>18,
     <1>19

\* A fetch merges only what was answered, and mints only complete cycles.
LEMMA FetchIsHonest ==
    ASSUME Honest, NEW w \in Workers,
           \/ BeginFetch(w) \/ FetchStale(w) \/ FetchUnanswered(w) \/ FetchAnswered(w)
           \/ FetchSplit(w) \/ (\E c \in Jobs : SendChild(w, c))
           \/ MergeOutcome(w) \/ MintCertificate(w) \/ CompleteFetch(w)
    PROVE  HonestyInv'
<1>1. TypeInv /\ HonestyInv
  BY DEF Honest
<1>2. worker[w].pc # "idle" /\ worker[w].msg \in Messages
  <2>1. worker[w].pc # "idle"
    BY DEF BeginFetch, FetchStale, FetchUnanswered, FetchAnswered, FetchSplit, SendChild,
           MergeOutcome, MintCertificate, CompleteFetch, MayCall, Fetching, At
  <2> QED
    BY <1>1, <2>1, BusyHasMessage
<1>3. PICK m \in Messages : m = worker[w].msg
  BY <1>2
<1>4. /\ m.gen = Gen(w) /\ m.job = Job(w) /\ m.gen \in 0..MaxGen
      /\ worker[w].got \subseteq PairsReturned(m.gen)
      /\ worker[w].outcome = "HTTP_200" => m.job \in AnsweredJobs(m.gen)
      /\ worker[w].outcome = "SPLIT_PENDING" => m.job \in Jobs /\ Children[m.job] # {}
      /\ worker[w].mint => Sound(m.gen)
  <2>1. m.gen = Gen(w) /\ m.job = Job(w)
    BY <1>3 DEF Gen, Job
  <2>2. m.gen \in 0..MaxGen
    BY <1>1, <1>2, <2>1, BusyHasMessage
  <2> QED
    BY <1>1, <1>2, <1>3, <2>1, <2>2 DEF HonestyInv, WorkersAreHonest
<1>5. /\ AnsweredJobs(m.gen) \subseteq AnsweredJobs(m.gen)'
      /\ PairsReturned(m.gen) \subseteq PairsReturned(m.gen)'
      /\ Sound(m.gen) => Sound(m.gen)'
  BY AnswersStay DEF Honest
<1>6. ASSUME row' = row PROVE RowReports
  BY <1>6 DEF RowReports, SameEvidence
<1>7. ASSUME certs' = certs PROVE CertsReport
  BY <1>7 DEF CertsReport
<1>8. ASSUME Sound(m.gen), certs' = certs \cup {Gen(w)} PROVE CertsReport
  BY <1>4, <1>5, <1>8 DEF CertsReport
<1>9. row.gen = Gen(w) => HonestRow(row, AnsweredJobs(m.gen), PairsReturned(m.gen))
  BY <1>1, <1>4 DEF HonestyInv, RowIsHonest
<1>10. ASSUME NEW z, z.msg = worker[w].msg, z.pc # "idle",
              z.got \subseteq PairsReturned(m.gen)',
              z.outcome = "HTTP_200" => m.job \in AnsweredJobs(m.gen)',
              z.outcome = "SPLIT_PENDING" => m.job \in Jobs /\ Children[m.job] # {},
              z.mint => Sound(m.gen)'
       PROVE  Reports(z)
  BY <1>3, <1>10 DEF Reports
<1>11. {"lease", "complete"} \subseteq Places
  BY DEF Places, Owning
<1>12. CASE BeginFetch(w)
  <2>1. RowReports
    BY <1>6, <1>12 DEF BeginFetch
  <2>2. ASSUME PlanCurrent(row, Gen(w)), CycleComplete(row), certs' = certs \cup {Gen(w)}
        PROVE  CertsReport
    <3>1. HonestRow(row, AnsweredJobs(m.gen), PairsReturned(m.gen))
      BY <1>9, <2>2 DEF PlanCurrent
    <3>2. Sound(m.gen)
      BY <2>2, <3>1, CompleteIsSound
    <3> QED
      BY <1>8, <2>2, <3>2
  <2>3. CertsReport
    BY <1>1, <1>7, <1>12, <2>2, BeginFetchEffect
  <2> QED
    BY <1>1, <1>2, <1>11, <1>12, <2>1, <2>3, BeginFetchEffect, PlacedHonesty
<1>13. CASE FetchStale(w)
  <2>1. RowReports /\ CertsReport
    BY <1>6, <1>7, <1>13 DEF FetchStale
  <2> QED
    BY <1>1, <1>2, <1>13, <2>1, FetchStaleEffect, PlacedHonesty
<1>14. CASE FetchUnanswered(w)
  <2>1. RowReports /\ CertsReport
    BY <1>6, <1>7, <1>14 DEF FetchUnanswered
  <2>2. PICK outcome \in {"QUOTA_DEFERRED", "RETRYABLE_ERROR", "REQUEST_REJECTED"} :
           LET z == Unanswered(w, outcome)
           IN  /\ Moved(w, z) /\ z.outcome = outcome /\ z.msg = worker[w].msg
               /\ z.got = worker[w].got /\ z.mint = worker[w].mint
    BY <1>1, <1>14, FetchUnansweredEffect
  <2> QED
    BY <1>2, <2>1, <2>2, PlainHonesty
<1>15. CASE FetchAnswered(w)
  <2>1. RowReports /\ CertsReport
    BY <1>6, <1>7, <1>15 DEF FetchAnswered
  <2>2. PICK got \in SUBSET Pairs :
           LET z == Answered(w, got)
           IN  /\ Moved(w, z) /\ z.pc = "merge" /\ z.msg = worker[w].msg /\ z.got = got
               /\ z.mint = worker[w].mint
               /\ answered' = answered \cup
                     {[gen |-> Gen(w), job |-> Job(w), pairs |-> got]}
    BY <1>1, <1>15, FetchAnsweredEffect
  <2> DEFINE answer == [gen |-> m.gen, job |-> m.job, pairs |-> got]
             z == Answered(w, got)
  <2>3. answer \in answered' /\ answer.gen = m.gen /\ answer.job = m.job /\ answer.pairs = got
    BY <1>4, <2>2
  <2> HIDE DEF answer
  <2>4. m.job \in AnsweredJobs(m.gen)'
    BY <2>3 DEF AnsweredJobs
  <2>5. got \subseteq PairsReturned(m.gen)'
    BY <2>3 DEF PairsReturned
  <2>6. /\ Moved(w, z) /\ z.pc = "merge" /\ z.msg = worker[w].msg /\ z.got = got
        /\ z.mint = worker[w].mint /\ z.outcome = "HTTP_200"
    <3>1. z.outcome = "HTTP_200"
      BY <1>1, <1>2, BusyHasMessage DEF Answered, WorkerRecord
    <3> QED
      BY <2>2, <3>1
  <2> HIDE DEF z
  <2>7. Reports(z)
    BY <1>4, <1>5, <1>10, <2>4, <2>5, <2>6
  <2> QED
    BY <2>1, <2>6, <2>7, WorkerHonesty DEF Honest
<1>16. CASE FetchSplit(w)
  <2>1. RowReports /\ CertsReport
    BY <1>6, <1>7, <1>16 DEF FetchSplit
  <2> DEFINE z == Splitting(w)
  <2>2. /\ Job(w) \in Jobs /\ Children[Job(w)] # {} /\ Moved(w, z) /\ z.pc = "send"
        /\ z.outcome = "SPLIT_PENDING" /\ z.msg = worker[w].msg
        /\ z.got = worker[w].got /\ z.mint = worker[w].mint
    BY <1>1, <1>16, FetchSplitEffect
  <2> HIDE DEF z
  <2>3. Reports(z)
    BY <1>4, <1>5, <1>10, <2>2
  <2> QED
    BY <2>1, <2>2, <2>3, WorkerHonesty
<1>17. ASSUME NEW c \in Jobs, SendChild(w, c) PROVE HonestyInv'
  <2>1. RowReports /\ CertsReport
    BY <1>6, <1>7, <1>17 DEF SendChild
  <2> QED
    BY <1>1, <1>2, <1>17, <2>1, SendChildEffect, PlainHonesty
<1>18. CASE MergeOutcome(w)
  <2>1. CertsReport /\ answered' = answered
    BY <1>7, <1>18 DEF MergeOutcome
  <2>2. AnsweredJobs(m.gen)' = AnsweredJobs(m.gen) /\ PairsReturned(m.gen)' = PairsReturned(m.gen)
    BY <2>1 DEF AnsweredJobs, PairsReturned
  <2>3. CASE /\ MergeAdmitted(row, Gen(w), Job(w), worker[w].outcome)
             /\ row' = Merged(row, Job(w), worker[w].outcome, worker[w].got)
             /\ LET z == Minting(w, CycleComplete(row'))
                IN  /\ Moved(w, z) /\ z.pc = "mint" /\ z.msg = worker[w].msg
                    /\ z.outcome = worker[w].outcome /\ z.got = worker[w].got
                    /\ z.mint = CycleComplete(row')
    <3>1. Job(w) \in Jobs /\ RowOK(row) /\ worker[w].outcome \in Outcomes
          /\ worker[w].got \in SUBSET Pairs
      BY <1>1, <1>2, <1>18, BusyHasMessage, MergeOutcomeEffect DEF TypeInv, WorkerRecord
    <3>2. HonestRow(row, AnsweredJobs(m.gen), PairsReturned(m.gen))
      BY <1>9, <2>3 DEF MergeAdmitted, PlanCurrent
    <3>3. HonestRow(row', AnsweredJobs(m.gen), PairsReturned(m.gen))
      BY <1>4, <2>3, <3>1, <3>2, MergeIsHonest
    <3>4. row'.gen = m.gen
      BY <1>4, <2>3, <3>1, MergedRow DEF MergeAdmitted, PlanCurrent
    <3>5. RowReports
      BY <2>2, <3>3, <3>4 DEF RowReports, RowIsHonest
    <3>6. CycleComplete(row') => Sound(m.gen)
      BY <3>3, CompleteIsSound
    <3> QED
      BY <1>4, <1>5, <1>10, <2>1, <2>3, <3>5, <3>6, WorkerHonesty
  <2>4. CASE \E outcome \in {worker[w].outcome, "STALE"} :
                LET z == Unmerged(w, outcome)
                IN  /\ row' = row /\ Moved(w, z) /\ z.msg = worker[w].msg
                    /\ z.outcome = outcome /\ z.got = worker[w].got
                    /\ z.mint = worker[w].mint
    <3>1. RowReports
      BY <1>6, <2>4
    <3> QED
      BY <1>2, <2>1, <2>4, <3>1, PlainHonesty
  <2> QED
    BY <1>1, <1>18, <2>3, <2>4, MergeOutcomeEffect
<1>19. CASE MintCertificate(w)
  <2>1. RowReports
    BY <1>6, <1>19 DEF MintCertificate
  <2>2. CertsReport
    BY <1>1, <1>4, <1>7, <1>8, <1>19, MintCertificateEffect
  <2> QED
    BY <1>1, <1>2, <1>11, <1>19, <2>1, <2>2, MintCertificateEffect, PlacedHonesty
<1>20. CASE CompleteFetch(w)
  <2>1. RowReports /\ CertsReport
    BY <1>6, <1>7, <1>20 DEF CompleteFetch
  <2> QED
    BY <1>1, <1>2, <1>20, <2>1, CompleteFetchEffect, PlacedHonesty
<1> QED
  BY <1>12, <1>13, <1>14, <1>15, <1>16, <1>17, <1>18, <1>19, <1>20

\* When no worker moves and the row gets no evidence, everybody stays honest.
LEMMA EnvironmentIsHonest ==
    ASSUME Honest, worker' = worker, certs' = certs,
           Turns(row, row') \/ SameEvidence(row', row)
    PROVE  HonestyInv'
<1>1. RowReports /\ CertsReport
  BY DEF RowReports, CertsReport
<1>2. ASSUME NEW v \in Workers PROVE Reports(worker'[v])
  <2>1. CASE worker[v].pc = "idle"
    BY <2>1 DEF Reports
  <2>2. CASE worker[v].pc # "idle"
    BY <2>2, KeepsReporting
  <2> QED
    BY <2>1, <2>2
<1> QED
  BY <1>1, <1>2, HonestyStep

\* Every step is honest.
LEMMA StepIsHonest ==
    ASSUME TypeInv, HonestyInv, [Next]_vars
    PROVE  HonestyInv'
<1>1. ASSUME answered' = answered PROVE Honest
  BY <1>1, StepGrows DEF Honest
<1>2. CASE Dispatch
  <2>1. answered' = answered /\ worker' = worker /\ certs' = certs
    BY <1>2 DEF Dispatch
  <2> QED
    BY <1>1, <1>2, <2>1, DispatchEffect, EnvironmentIsHonest
<1>3. CASE SendDiscovery
  <2>1. answered' = answered /\ worker' = worker /\ certs' = certs /\ row' = row
    BY <1>3 DEF SendDiscovery
  <2> QED
    BY <1>1, <2>1, EnvironmentIsHonest DEF SameEvidence
<1>4. CASE MarkDispatched \/ DispatchFails
  <2>1. answered' = answered /\ worker' = worker /\ certs' = certs
    BY <1>4 DEF MarkDispatched, DispatchFails
  <2> QED
    BY <1>1, <1>4, <2>1, DispatcherEffect, EnvironmentIsHonest
<1>5. CASE Close
  <2>1. answered' = answered /\ worker' = worker /\ certs' = certs /\ row' = row
    BY <1>5 DEF Close
  <2> QED
    BY <1>1, <2>1, EnvironmentIsHonest DEF SameEvidence
<1>6. ASSUME NEW w \in Workers, Progress(w) \/ Crash(w) PROVE HonestyInv'
  <2>1. answered \subseteq answered'
    BY <1>6 DEF Progress, BeginDiscovery, BeginFetch, AcquireLease, LeaseRefused, Attempt,
                DiscoveryDeferred, DiscoveryRejected, DiscoveryAnswered, PutPlan,
                FanoutExpected, EnqueueBatch, MarkEnqueued, CompleteFanout,
                CompleteDiscovery, FetchStale, FetchUnanswered, FetchAnswered, FetchSplit,
                SendChild, MergeOutcome, MintCertificate, CompleteFetch, Crash
  <2>2. Honest
    BY <2>1, StepGrows DEF Honest
  <2> QED
    BY <1>6, <2>2, DiscoveryIsHonest, FetchIsHonest DEF Progress
<1>7. ASSUME NEW m \in Messages, Duplicate(m) PROVE HonestyInv'
  <2>1. answered' = answered /\ worker' = worker /\ certs' = certs /\ row' = row
    BY <1>7 DEF Duplicate
  <2> QED
    BY <1>1, <2>1, EnvironmentIsHonest DEF SameEvidence
<1>8. ASSUME NEW m \in Messages, NEW w \in Workers, Receive(w, m) PROVE HonestyInv'
  <2>1. answered' = answered /\ certs' = certs /\ row' = row
    BY <1>8 DEF Receive
  <2>2. /\ Moved(w, Given(m)) /\ Given(m).outcome = "NONE" /\ Given(m).got = {}
        /\ Given(m).mint = FALSE
    BY <1>8, ReceiveEffect
  <2>3. Reports(Given(m))
    BY <2>2 DEF Reports
  <2>4. RowReports /\ CertsReport
    BY <2>1 DEF RowReports, CertsReport, SameEvidence
  <2> QED
    BY <1>1, <2>1, <2>2, <2>3, <2>4, WorkerHonesty
<1>9. CASE UNCHANGED vars
  <2>1. answered' = answered /\ worker' = worker /\ certs' = certs /\ row' = row
    BY <1>9 DEF vars
  <2> QED
    BY <1>1, <2>1, EnvironmentIsHonest DEF SameEvidence
<1> QED
  BY <1>2, <1>3, <1>4, <1>5, <1>6, <1>7, <1>8, <1>9 DEF Next

\* At the start there is no evidence and nobody to report any.
LEMMA InitIsHonest == Init => HonestyInv
<1> SUFFICES ASSUME Init PROVE HonestyInv
  OBVIOUS
<1>1. RowIsHonest
  BY DEF Init, RowIsHonest, HonestRow, EmptyRow
<1>2. WorkersAreHonest
  BY DEF Init, WorkersAreHonest, Idle
<1>3. CertsAreHonest
  BY DEF Init, CertsAreHonest
<1> QED
  BY <1>1, <1>2, <1>3 DEF HonestyInv

\* A certificate is honest: under its plan the provider answered every batch, or
\* every part of a split one, and returned every required pair, whatever was
\* retried, duplicated, reordered, split or superseded on the way.
THEOREM CertificatesSound == Spec => []CertificateIsSound
<1>1. TypeInv /\ HonestyInv /\ [Next]_vars => TypeInv' /\ HonestyInv'
  BY StepGrows, StepIsHonest
<1>2. HonestyInv => CertificateIsSound
  BY DEF HonestyInv, CertsAreHonest, Sound, PairsReturned, CertificateIsSound
<1> QED
  BY <1>1, <1>2, InitType, InitIsHonest, PTL DEF Spec

(***************************************************************************)
(* Splits: no half of a batch is omitted, and what a split can strand.     *)
(***************************************************************************)

\* A root with evidence has its verdict or leaves, and once all its leaves are
\* done or bad it has its verdict.
RootsAreRecorded(r) ==
    \A x \in r.terminal :
        HasVerdict(r, RootOf[x]) \/ \E l \in r.frontier : RootOf[l] = RootOf[x]

VerdictsAreGiven(r) ==
    \A l \in r.frontier :
        Group(r, l) \subseteq r.done \cup r.bad => HasVerdict(r, RootOf[l])

RowIsSplit(r) == r.planned => RootsAreRecorded(r) /\ VerdictsAreGiven(r)

\* While a part is not forgotten, neither is the whole.
FamiliesAreKept ==
    \A m, n \in Messages :
        m.job \in Jobs /\ n.gen = m.gen /\ n.job \in Children[m.job] /\ Kept(n) => Kept(m)

\* A worker that halves a fetch has sent the parts it need not send any more.
HasSent(z) ==
    \A m, n \in Messages :
        z.pc \in {"send", "merge"} /\ z.msg = m /\ z.outcome = "SPLIT_PENDING" =>
            /\ m.job \in Jobs /\ Children[m.job] # {} /\ z.todo \subseteq Children[m.job]
            /\ z.pc = "merge" => z.todo = {}
            /\ n.gen = m.gen /\ n.job \in Children[m.job] \ z.todo => Kept(n)

PartsAreSent ==
    \A w \in Workers :
        HasSent(worker[w]) /\ (worker[w].pc = "send" => worker[w].outcome = "SPLIT_PENDING")

\* A batch that is over without a verdict was halved.
HalvesAreKept ==
    row.planned =>
        \A m, n \in Messages :
            /\ m.gen = row.gen /\ m.job \in Batches \cap row.terminal
            /\ ~HasVerdict(row, m.job) /\ n.gen = m.gen /\ n.job \in Children[m.job]
            => Kept(n)

\* A leaf of a root without a verdict is not forgotten, or it will be sent again
\* by the fetch of its whole; unless its whole is a leaf too, and over.
IsCarried(m) ==
    \/ HasVerdict(row, RootOf[m.job])
    \/ Kept(m)
    \/ \E n \in Messages :
          /\ n.job \in Jobs /\ n.gen = m.gen /\ m.job \in Children[n.job] /\ Kept(n)
          /\ n.job \in row.terminal => n.job \in row.frontier

LeavesAreCarried ==
    /\ row.planned /\ row.frontier # {} => row.gen \in Gens
    /\ row.planned =>
          \A m \in Messages : m.gen = row.gen /\ m.job \in row.frontier => IsCarried(m)

SplitInv ==
    RowIsSplit(row) /\ FamiliesAreKept /\ PartsAreSent /\ HalvesAreKept /\ LeavesAreCarried

\* What a part carries are parts of wholes that whoever has the part has.
LEMMA CarriedHaveWholes ==
    ASSUME NEW X, \A i \in Jobs : \A c \in Children[i] : c \in X => i \in X,
           NEW j \in Jobs, j \in X, NEW l \in Carried[j]
    PROVE  \E p \in Jobs : p \in X /\ l \in Children[p] /\ RootOf[p] = RootOf[j]
<1> DEFINE Whole(i) == \A k \in Carried[i] :
                           \E p \in Jobs : p \in X /\ k \in Children[p] /\ RootOf[p] = RootOf[i]
           S == {i \in Jobs : i \in X => Whole(i)}
<1>1. ASSUME NEW i \in Jobs, i \notin Batches, ParentOf(i) \in S, i \in X PROVE Whole(i)
  <2> DEFINE q == ParentOf(i)
  <2>1. q \in Jobs /\ i \in Children[q]
    BY <1>1, PartsHaveAParent
  <2>2. q \in X /\ RootOf[i] = RootOf[q]
    BY <1>1, <2>1, ChildHasTheRoot
  <2>3. Carried[i] = (Carried[q] \ {q}) \cup Children[q]
    BY <1>1, CarriedEquation
  <2> QED
    BY <1>1, <2>1, <2>2, <2>3
<1>2. \A b \in Batches : b \in S
  BY TreeAssumption, CarriedEquation
<1>3. \A i \in Jobs : i \notin Batches /\ ParentOf(i) \in S => i \in S
  <2> HIDE DEF Whole
  <2> QED
    BY <1>1
<1>4. Jobs \subseteq S
  <2> HIDE DEF S
  <2> QED
    BY <1>2, <1>3, TreeInduction
<1> QED
  BY <1>4

\* The frontier of a job's root is of that root.
LEMMA FrontierOfTheRoot ==
    ASSUME NEW r, RowOK(r), NEW j \in Jobs
    PROVE  \A k \in Frontier(r, j) : k \in Jobs /\ RootOf[k] = RootOf[j]
<1>1. r.frontier \in SUBSET Jobs
  BY DEF RowOK, Row
<1>2. Carried[j] \in SUBSET Jobs
  BY CarriedEquation
<1>3. \A k \in Carried[j] : RootOf[k] = RootOf[j]
  BY CarriedEquation, CarriedIsACut
<1> QED
  BY <1>1, <1>2, <1>3 DEF Frontier, Group

\* A merge keeps the verdicts, gives a batch that answered its own, and keeps the
\* record of the roots.
LEMMA MergeIsSplit ==
    ASSUME NEW r, RowOK(r), RowIsSplit(r), r.planned, NEW j \in Jobs,
           NEW outcome \in Outcomes, NEW got \in SUBSET Pairs,
           outcome = "SPLIT_PENDING" => Children[j] # {},
           IsLeaf(j) /\ outcome # "SPLIT_PENDING" => j \in Frontier(r, j)
    PROVE  LET s == Merged(r, j, outcome, got)
           IN  /\ RowIsSplit(s)
               /\ \A b : HasVerdict(r, b) => HasVerdict(s, b)
               /\ ~Split(j, outcome) /\ outcome \in TerminalOutcomes =>
                     HasVerdict(s, RootOf[j])
               /\ ~Split(j, outcome) => s.frontier = r.frontier
               /\ Split(j, outcome) =>
                     s.frontier = {l \in r.frontier : RootOf[l] # RootOf[j]} \cup
                                    (IF outcome = "SPLIT_PENDING"
                                     THEN (Frontier(r, j) \ {j}) \cup Children[j]
                                     ELSE Frontier(r, j))
               /\ s.gen = r.gen /\ s.planned
               /\ s.terminal = r.terminal \cup
                                 (IF outcome \in TerminalOutcomes THEN {j} ELSE {})
<1> DEFINE l == IF Split(j, outcome) THEN Leaves(r, j, outcome) ELSE r
           s == Merged(r, j, outcome, got)
           root == RootOf[j]
           others == {k \in r.frontier : RootOf[k] # root}
           front == IF outcome = "SPLIT_PENDING"
                    THEN (Frontier(r, j) \ {j}) \cup Children[j]
                    ELSE Frontier(r, j)
           verdict == BatchVerdict(l, j, outcome)
<1>1. /\ s.gen = r.gen /\ s.planned
      /\ s.frontier = l.frontier /\ s.done = l.done /\ s.bad = l.bad
      /\ s.succeeded \cup s.failed = r.succeeded \cup r.failed \cup
            (IF verdict \in {"succeeded", "failed"} THEN {root} ELSE {})
      /\ s.terminal = r.terminal \cup (IF outcome \in TerminalOutcomes THEN {j} ELSE {})
  <2> USE MergedRow
  <2>1. s.gen = r.gen
    OBVIOUS
  <2>5. s.planned
    <3>1. s.planned = r.planned
      BY Zenon
    <3> QED
      BY <3>1
  <2>2. s.frontier = l.frontier /\ s.done = l.done /\ s.bad = l.bad
    OBVIOUS
  <2>3. s.succeeded \cup s.failed = r.succeeded \cup r.failed \cup
            (IF verdict \in {"succeeded", "failed"} THEN {root} ELSE {})
    OBVIOUS
  <2>4. s.terminal = r.terminal \cup (IF outcome \in TerminalOutcomes THEN {j} ELSE {})
    OBVIOUS
  <2> HIDE DEF l, s, verdict
  <2> QED
    BY <2>1, <2>2, <2>3, <2>4, <2>5
<1>2. /\ r.frontier \in SUBSET Jobs /\ r.terminal \in SUBSET Jobs
  BY DEF RowOK, Row
<1>3. CASE ~Split(j, outcome)
  <2>1. l = r /\ outcome # "SPLIT_PENDING" /\ ~IsLeaf(j)
    BY <1>3 DEF Split
  <2>2. outcome \in TerminalOutcomes => verdict \in {"succeeded", "failed"}
    BY <1>3, <2>1 DEF BatchVerdict, TerminalOutcomes
  <2> HIDE DEF l, s, verdict
  <2>3. /\ \A b : HasVerdict(r, b) => HasVerdict(s, b)
        /\ outcome \in TerminalOutcomes => HasVerdict(s, root)
    BY <1>1, <2>2 DEF HasVerdict
  <2>4. RootsAreRecorded(s)
    BY <1>1, <2>1, <2>3 DEF RowIsSplit, RootsAreRecorded
  <2>5. VerdictsAreGiven(s)
    <3>1. \A k : Group(s, k) = Group(r, k)
      BY <1>1, <2>1 DEF Group
    <3> QED
      BY <1>1, <2>1, <2>3, <3>1 DEF RowIsSplit, VerdictsAreGiven
  <2> QED
    BY <1>1, <1>3, <2>1, <2>3, <2>4, <2>5 DEF RowIsSplit, s
<1>4. CASE Split(j, outcome)
  <2>1. /\ l = Leaves(r, j, outcome) /\ verdict = RootVerdict(l, j)
        /\ l.frontier = others \cup front
        /\ \A k \in l.done \cup l.bad : k = j \/ k \in r.done \cup r.bad
    BY <1>4, LeavesRow DEF BatchVerdict
  <2>2. \A k \in front : k \in Jobs /\ RootOf[k] = root
    BY FrontierOfTheRoot, ChildHasTheRoot, TreeAssumption
  <2>3. \E k \in front : RootOf[k] = root
    <3>1. CASE outcome = "SPLIT_PENDING"
      BY <2>2, <3>1
    <3>2. CASE outcome # "SPLIT_PENDING"
      BY <1>4, <3>2 DEF Split
    <3> QED
      BY <3>1, <3>2
  <2>4. Group(l, j) \subseteq l.done \cup l.bad => verdict \in {"succeeded", "failed"}
    BY <2>1 DEF RootVerdict
  <2> HIDE DEF l, s, verdict, front
  <2>5. \A b : HasVerdict(r, b) => HasVerdict(s, b)
    BY <1>1 DEF HasVerdict
  <2>6. RootsAreRecorded(s)
    <3> SUFFICES ASSUME NEW x \in s.terminal
                 PROVE  HasVerdict(s, RootOf[x]) \/ \E k \in s.frontier : RootOf[k] = RootOf[x]
      BY DEF RootsAreRecorded
    <3>1. CASE RootOf[x] = root
      BY <1>1, <2>1, <2>3, <3>1
    <3>2. CASE RootOf[x] # root
      <4>1. x \in r.terminal
        BY <1>1, <3>2
      <4>2. CASE HasVerdict(r, RootOf[x])
        BY <2>5, <4>2
      <4>3. CASE \E k \in r.frontier : RootOf[k] = RootOf[x]
        BY <1>1, <2>1, <3>2, <4>3
      <4> QED
        BY <4>1, <4>2, <4>3 DEF RowIsSplit, RootsAreRecorded
    <3> QED
      BY <3>1, <3>2
  <2>7. VerdictsAreGiven(s)
    <3> SUFFICES ASSUME NEW k \in s.frontier, Group(s, k) \subseteq s.done \cup s.bad
                 PROVE  HasVerdict(s, RootOf[k])
      BY DEF VerdictsAreGiven
    <3>1. CASE RootOf[k] = root
      <4>1. Group(s, k) = Group(l, j)
        BY <1>1, <3>1 DEF Group
      <4>2. verdict \in {"succeeded", "failed"}
        BY <1>1, <2>4, <4>1
      <4> QED
        BY <1>1, <3>1, <4>2 DEF HasVerdict
    <3>2. CASE RootOf[k] # root
      <4>1. k \in r.frontier /\ Group(r, k) = Group(s, k)
        BY <1>1, <2>1, <2>2, <3>2 DEF Group
      <4>2. Group(r, k) \subseteq r.done \cup r.bad
        BY <1>1, <2>1, <3>2, <4>1 DEF Group
      <4> QED
        BY <2>5, <4>1, <4>2 DEF RowIsSplit, VerdictsAreGiven
    <3> QED
      BY <3>1, <3>2
  <2>8. RowIsSplit(s)
    BY <2>6, <2>7 DEF RowIsSplit
  <2> QED
    BY <1>1, <1>4, <2>1, <2>5, <2>8 DEF s, front
<1> QED
  BY <1>3, <1>4

\* The row says of its splits what it said, or starts anew.
SameSplits(s, r) ==
    /\ s.gen = r.gen /\ s.planned = r.planned /\ s.terminal = r.terminal
    /\ s.succeeded = r.succeeded /\ s.failed = r.failed
    /\ s.frontier = r.frontier /\ s.done = r.done /\ s.bad = r.bad

RowIsCalm == SameSplits(row', row) \/ NoEvidence(row')

\* What a step does to the invariant: a job that is over was not forgotten,
EndsHaveOwners ==
    \A m \in Messages : m.job \in Jobs /\ Ended(m)' => Kept(m) \/ row'.gen > m.gen

\* a worker that is z afterwards has sent its parts,
WillHaveSent(z) ==
    /\ \A m, n \in Messages :
          z.pc \in {"send", "merge"} /\ z.msg = m /\ z.outcome = "SPLIT_PENDING" =>
              /\ m.job \in Jobs /\ Children[m.job] # {} /\ z.todo \subseteq Children[m.job]
              /\ z.pc = "merge" => z.todo = {}
              /\ n.gen = m.gen /\ n.job \in Children[m.job] \ z.todo => Kept(n)'
    /\ z.pc = "send" => z.outcome = "SPLIT_PENDING"

\* and the row keeps what is written of the splits.
SplitsKept == EndsHaveOwners /\ RowIsSplit(row') /\ HalvesAreKept' /\ LeavesAreCarried'

\* A child's message is a fetch.
LEMMA ChildIsNoDiscovery ==
    ASSUME NEW i \in Jobs, NEW c \in Children[i]
    PROVE  c \in Jobs /\ c # Discover /\ i # Discover
BY TreeAssumption

\* Rows that do not change their splits keep them.
LEMMA CalmKeepsSplits ==
    ASSUME Stepping, NothingLost, SplitInv, RowIsCalm
    PROVE  SplitsKept
<1>1. \A m \in Messages : m.gen \in Nat /\ row'.gen \in Nat
  BY BoundsAssumption DEF Messages, Gens, Stepping, TypeInv, RowOK, Row
<1>2. CASE NoEvidence(row')
  <2>1. EndsHaveOwners
    BY <1>2 DEF EndsHaveOwners, Ended, NoEvidence
  <2>2. RowIsSplit(row')
    BY <1>2 DEF RowIsSplit, RootsAreRecorded, VerdictsAreGiven, NoEvidence
  <2>3. HalvesAreKept' /\ LeavesAreCarried'
    BY <1>2 DEF HalvesAreKept, LeavesAreCarried, NoEvidence
  <2> QED
    BY <2>1, <2>2, <2>3 DEF SplitsKept
<1>3. CASE SameSplits(row', row)
  <2>1. EndsHaveOwners
    BY <1>3 DEF EndsHaveOwners, Ended, Kept, PlanCurrent, SameSplits
  <2>2. RowIsSplit(row')
    <3>1. \A l : Group(row', l) = Group(row, l)
      BY <1>3 DEF Group, SameSplits
    <3> QED
      BY <1>3, <3>1 DEF SplitInv, RowIsSplit, RootsAreRecorded, VerdictsAreGiven,
                        HasVerdict, SameSplits
  <2>3. HalvesAreKept'
    <3> SUFFICES ASSUME row'.planned, NEW m \in Messages, NEW n \in Messages,
                        m.gen = row'.gen, m.job \in Batches \cap row'.terminal,
                        ~HasVerdict(row', m.job), n.gen = m.gen, n.job \in Children[m.job]
                 PROVE  Kept(n)'
      BY DEF HalvesAreKept
    <3>1. Kept(n)
      BY <1>3 DEF SplitInv, HalvesAreKept, HasVerdict, SameSplits
    <3>2. n.job # Discover
      BY ChildIsNoDiscovery, BatchIsNoDiscovery
    <3> QED
      BY <3>1, <3>2, KeptStays
  <2>4. LeavesAreCarried'
    <3>1. row'.planned /\ row'.frontier # {} => row'.gen \in Gens
      BY <1>3 DEF SplitInv, LeavesAreCarried, SameSplits
    <3> SUFFICES ASSUME row'.planned, NEW m \in Messages, m.gen = row'.gen,
                        m.job \in row'.frontier
                 PROVE  IsCarried(m)'
      BY <3>1 DEF LeavesAreCarried
    <3>2. IsCarried(m)
      BY <1>3 DEF SplitInv, LeavesAreCarried, SameSplits
    <3>3. m.job # Discover
      BY TreeAssumption DEF Stepping, TypeInv, RowOK, Row
    <3>4. CASE HasVerdict(row, RootOf[m.job])
      BY <1>3, <3>4 DEF IsCarried, HasVerdict, SameSplits
    <3>5. CASE Kept(m)
      BY <3>3, <3>5, KeptStays DEF IsCarried
    <3>6. ASSUME NEW n \in Messages, n.job \in Jobs, n.gen = m.gen,
                 m.job \in Children[n.job], Kept(n),
                 n.job \in row.terminal => n.job \in row.frontier
          PROVE  IsCarried(m)'
      <4>1. Kept(n)'
        BY <3>6, KeptStays, TreeAssumption
      <4> QED
        BY <1>3, <3>6, <4>1 DEF IsCarried, SameSplits
    <3> QED
      BY <3>2, <3>4, <3>5, <3>6 DEF IsCarried
  <2> QED
    BY <2>1, <2>2, <2>3, <2>4 DEF SplitsKept
<1> QED
  BY <1>2, <1>3 DEF RowIsCalm

\* The whole of a part is kept as long as the part.
LEMMA FamiliesStay ==
    ASSUME Stepping, NothingLost, NothingForged, SplitInv, EndsHaveOwners
    PROVE  FamiliesAreKept'
<1> SUFFICES ASSUME NEW m \in Messages, NEW n \in Messages, m.job \in Jobs,
                    n.gen = m.gen, n.job \in Children[m.job], Kept(n)'
             PROVE  Kept(m)'
  BY DEF FamiliesAreKept
<1>1. n.job \in Jobs /\ n.job # Discover /\ m.job # Discover
  BY ChildIsNoDiscovery
<1>2. Kept(n) => Kept(m)'
  BY <1>1, KeptStays DEF SplitInv, FamiliesAreKept
<1>3. ~open' \/ row'.gen > n.gen => Kept(m)'
  BY DEF Kept, Ended
<1>4. Ended(n)' => Kept(m)'
  BY <1>1, <1>2, <1>3 DEF EndsHaveOwners
<1>5. ASSUME Pending(n)', ~Pending(n) PROVE Kept(m)'
  <2>1. SentByOwner(n) /\ n.job \notin Batches
    BY <1>1, <1>5, ChildrenHaveAParent DEF NothingForged
  <2>2. PICK w \in Workers : Fetching(w, "send") /\ Gen(w) = n.gen /\ n.job \in worker[w].todo
    BY <2>1 DEF SentByOwner
  <2>3. worker[w].pc = "send" /\ worker[w].msg \in Messages
    BY <2>2, BusyHasMessage DEF Fetching, At, Stepping
  <2>4. PICK k \in Messages : k = worker[w].msg
    BY <2>3
  <2>5. k.job \in Jobs /\ n.job \in Children[k.job]
    BY <2>2, <2>3, <2>4 DEF SplitInv, PartsAreSent, HasSent
  <2>6. k = m
    <3>1. k.job = m.job /\ k.gen = m.gen
      BY <2>2, <2>4, <2>5, TreeAssumption DEF Gen
    <3> QED
      BY <3>1 DEF Messages
  <2>7. Pending(k)
    BY <2>3, <2>4 DEF Pending
  <2> QED
    BY <1>1, <2>6, <2>7 DEF NothingLost
<1>6. Pending(n) => Kept(n)
  BY DEF Kept
<1> QED
  BY <1>2, <1>3, <1>4, <1>5, <1>6 DEF Kept

\* A worker that did not move has still sent its parts.
LEMMA HadSent ==
    ASSUME Stepping, NothingLost, SplitInv, NEW w \in Workers, NEW z, Same(z, worker[w])
    PROVE  WillHaveSent(z)
<1>1. ASSUME NEW m \in Messages, NEW n \in Messages, z.pc \in {"send", "merge"},
             z.msg = m, z.outcome = "SPLIT_PENDING"
      PROVE  /\ m.job \in Jobs /\ Children[m.job] # {} /\ z.todo \subseteq Children[m.job]
             /\ z.pc = "merge" => z.todo = {}
             /\ n.gen = m.gen /\ n.job \in Children[m.job] \ z.todo => Kept(n)'
  <2>1. /\ m.job \in Jobs /\ Children[m.job] # {} /\ z.todo \subseteq Children[m.job]
        /\ z.pc = "merge" => z.todo = {}
        /\ n.gen = m.gen /\ n.job \in Children[m.job] \ z.todo => Kept(n)
    BY <1>1 DEF SplitInv, PartsAreSent, HasSent, Same
  <2>2. n.job \in Children[m.job] => n.job # Discover
    BY <2>1, ChildIsNoDiscovery
  <2> QED
    BY <2>1, <2>2, KeptStays
<1>2. z.pc = "send" => z.outcome = "SPLIT_PENDING"
  BY DEF SplitInv, PartsAreSent, Same
<1> QED
  BY <1>1, <1>2 DEF WillHaveSent

\* The parts make the step.
LEMMA SplitStep ==
    ASSUME Stepping, Delivered, SplitInv, SplitsKept,
           \A v \in Workers : WillHaveSent(worker'[v])
    PROVE  SplitInv'
<1>1. FamiliesAreKept'
  BY FamiliesStay DEF Delivered, SplitsKept
<1>2. PartsAreSent'
  BY DEF PartsAreSent, HasSent, WillHaveSent
<1> QED
  BY <1>1, <1>2 DEF SplitInv, SplitsKept

\* When one worker moves, it is the one to look at.
LEMMA WorkerSplits ==
    ASSUME Stepping, Delivered, SplitInv, SplitsKept, NEW w \in Workers, NEW z,
           Moved(w, z), WillHaveSent(z)
    PROVE  SplitInv'
<1>1. WillHaveSent(worker'[w])
  BY DEF Moved, Same, WillHaveSent
<1>2. ASSUME NEW v \in Workers, v # w PROVE WillHaveSent(worker'[v])
  BY <1>2, HadSent DEF Moved, Delivered
<1> QED
  BY <1>1, <1>2, SplitStep

\* A worker that sends and merges nothing has nothing to show.
LEMMA PlainSplits ==
    ASSUME Stepping, Delivered, SplitInv, RowIsCalm, NEW w \in Workers, NEW z,
           Moved(w, z), z.pc \notin {"send", "merge"}
    PROVE  SplitInv'
<1>1. WillHaveSent(z)
  BY DEF WillHaveSent
<1> QED
  BY <1>1, CalmKeepsSplits, WorkerSplits DEF Delivered

\* A merge keeps the splits: the parts of a job it halves are sent already, and a
\* part that brings the first leaves of its root brings those of wholes that are
\* not forgotten.
LEMMA MergeKeepsSplits ==
    ASSUME Stepping, NothingLost, SplitInv, NEW w \in Workers,
           worker[w].pc = "merge", Job(w) \in Jobs,
           MergeAdmitted(row, Gen(w), Job(w), worker[w].outcome),
           row' = Merged(row, Job(w), worker[w].outcome, worker[w].got)
    PROVE  SplitsKept
<1> DEFINE j == Job(w)
           g == Gen(w)
           outcome == worker[w].outcome
           parts == outcome = "SPLIT_PENDING"
           over == outcome \in TerminalOutcomes
<1>1. /\ RowOK(row) /\ row.planned /\ row.gen = g /\ g \in Gens
      /\ outcome \in Outcomes /\ worker[w].got \in SUBSET Pairs
      /\ worker[w].msg \in Messages /\ worker[w].msg.job = j /\ worker[w].msg.gen = g
      /\ IsLeaf(j) /\ ~parts => j \in Frontier(row, j)
  BY BusyHasMessage DEF Stepping, TypeInv, MergeAdmitted, PlanCurrent, WorkerRecord, Job, Gen
<1>2. PICK me \in Messages : me = worker[w].msg
  BY <1>1
<1>3. me.job = j /\ me.gen = g /\ Kept(me) /\ j # Discover
  BY <1>1, <1>2, TreeAssumption DEF Kept, Pending
<1>4. parts => /\ Children[j] # {}
               /\ \A n \in Messages : n.gen = g /\ n.job \in Children[j] => Kept(n)
  BY <1>2, <1>3 DEF SplitInv, PartsAreSent, HasSent
<1>5. /\ RowIsSplit(row')
      /\ \A b : HasVerdict(row, b) => HasVerdict(row', b)
      /\ ~Split(j, outcome) /\ over => HasVerdict(row', RootOf[j])
      /\ ~Split(j, outcome) => row'.frontier = row.frontier
      /\ Split(j, outcome) =>
            row'.frontier = {l \in row.frontier : RootOf[l] # RootOf[j]} \cup
                              (IF parts THEN (Frontier(row, j) \ {j}) \cup Children[j]
                               ELSE Frontier(row, j))
      /\ row'.gen = row.gen /\ row'.planned
      /\ row'.terminal = row.terminal \cup (IF over THEN {j} ELSE {})
  BY <1>1, <1>4, MergeIsSplit DEF SplitInv
<1>6. row.gen \in Nat /\ row.frontier \in SUBSET Jobs /\ row'.frontier \in SUBSET Jobs
  BY <1>1, BoundsAssumption DEF Gens, Stepping, TypeInv, RowOK, Row
<1>7. parts => Split(j, outcome) /\ over
  BY DEF Split, TerminalOutcomes
<1>8. ~Split(j, outcome) => j \in Batches /\ RootOf[j] = j
  BY RootEquation DEF Split, IsLeaf
<1> HIDE DEF parts, over, outcome, g, j
<1>9. \A n \in Messages : n.job \in Jobs /\ Kept(n) => Kept(n)'
  BY KeptStays, TreeAssumption
<1>10. EndsHaveOwners
  <2> SUFFICES ASSUME NEW m \in Messages, m.job \in Jobs, Ended(m)'
               PROVE  Kept(m) \/ row'.gen > m.gen
    BY DEF EndsHaveOwners
  <2>1. CASE m.gen = row.gen /\ m.job \in row.terminal
    BY <1>1, <2>1 DEF Kept, Ended, PlanCurrent
  <2>2. CASE m.gen = row.gen /\ m.job = j
    <3>1. m = me
      BY <1>1, <1>3, <2>2 DEF Messages
    <3> QED
      BY <1>3, <3>1
  <2> QED
    BY <1>5, <2>1, <2>2 DEF Ended, PlanCurrent
<1>11. HalvesAreKept'
  <2> SUFFICES ASSUME NEW m \in Messages, NEW n \in Messages, m.gen = row'.gen,
                      m.job \in Batches \cap row'.terminal, ~HasVerdict(row', m.job),
                      n.gen = m.gen, n.job \in Children[m.job]
               PROVE  Kept(n)'
    BY DEF HalvesAreKept
  <2>1. n.job \in Jobs
    BY ChildIsNoDiscovery, BatchIsNoDiscovery
  <2>2. CASE m.job \in row.terminal
    <3>1. Kept(n)
      BY <1>1, <1>5, <2>2 DEF SplitInv, HalvesAreKept
    <3> QED
      BY <1>9, <2>1, <3>1
  <2>3. CASE m.job = j /\ over
    <3>1. Split(j, outcome) /\ ~IsLeaf(j)
      BY <1>5, <1>8, <2>3 DEF IsLeaf
    <3>2. parts
      BY <3>1 DEF Split, parts
    <3> QED
      BY <1>1, <1>4, <1>5, <1>9, <2>1, <2>3, <3>2
  <2> QED
    BY <1>5, <2>2, <2>3
<1>12. ASSUME NEW m \in Messages, m.gen = row'.gen, m.job \in row'.frontier
       PROVE  IsCarried(m)'
  <2> DEFINE l == m.job
  <2>1. l \in Jobs /\ m.gen = g /\ m.gen = row.gen
    BY <1>1, <1>5, <1>6, <1>12
  <2>2. CASE HasVerdict(row, RootOf[l])
    BY <1>5, <2>2 DEF IsCarried
  <2>3. CASE Kept(m)
    BY <1>9, <2>1, <2>3 DEF IsCarried
  <2>4. CASE parts /\ l \in Children[j]
    BY <1>4, <1>9, <2>1, <2>4 DEF IsCarried
  <2>5. ASSUME NEW n \in Messages, n.job \in Jobs, n.gen = m.gen, l \in Children[n.job],
               Kept(n), n.job \in row'.terminal => n.job \in row'.frontier
        PROVE  IsCarried(m)'
    BY <1>9, <2>5 DEF IsCarried
  <2>6. CASE l \in row.frontier /\ (Split(j, outcome) =>
                                       RootOf[l] # RootOf[j] \/ Group(row, j) # {})
    <3>1. IsCarried(m)
      BY <1>1, <2>1, <2>6 DEF SplitInv, LeavesAreCarried
    <3>2. ASSUME NEW n \in Messages, n.job \in Jobs, n.gen = m.gen, l \in Children[n.job],
                 Kept(n), n.job \in row.terminal => n.job \in row.frontier
          PROVE  IsCarried(m)'
      <4>1. RootOf[l] = RootOf[n.job]
        BY <3>2, ChildHasTheRoot
      <4>2. CASE n.job # j
        <5>1. n.job \in row'.terminal => n.job \in row.terminal
          BY <1>5, <4>2
        <5>2. n.job \in row.frontier => n.job \in row'.frontier
          BY <1>5, <2>6, <4>1, <4>2 DEF Frontier, Group
        <5> QED
          BY <2>5, <3>2, <5>1, <5>2
      <4>3. CASE n.job = j /\ ~Split(j, outcome)
        <5>1. CASE over
          BY <1>5, <4>1, <4>3, <5>1 DEF IsCarried
        <5>2. CASE ~over
          BY <1>5, <2>5, <3>2, <4>3, <5>2
        <5> QED
          BY <5>1, <5>2
      <4>4. CASE n.job = j /\ Split(j, outcome) /\ ~parts
        <5>1. j \in row'.frontier
          BY <1>1, <1>5, <4>4 DEF Split, parts
        <5> QED
          BY <2>5, <3>2, <4>4, <5>1
      <4>5. CASE n.job = j /\ parts
        BY <2>4, <3>2, <4>5
      <4> QED
        BY <4>2, <4>3, <4>4, <4>5
    <3> QED
      BY <2>2, <2>3, <3>1, <3>2 DEF IsCarried
  <2>7. CASE Split(j, outcome) /\ Group(row, j) = {} /\ l \in Carried[j]
    <3> DEFINE X == {i \in Jobs : \E n \in Messages : n.job = i /\ n.gen = g /\ Kept(n)}
    <3>1. \A i \in Jobs : \A c \in Children[i] : c \in X => i \in X
      <4> SUFFICES ASSUME NEW i \in Jobs, NEW c \in Children[i], c \in X PROVE i \in X
        OBVIOUS
      <4>1. PICK n \in Messages : n.job = c /\ n.gen = g /\ Kept(n)
        OBVIOUS
      <4>2. PICK k \in Messages : k.job = i /\ k.gen = g
        <5>1. [gen |-> g, job |-> i] \in Messages
          BY <1>1 DEF Messages
        <5> QED
          BY <5>1
      <4>3. Kept(k)
        BY <4>1, <4>2 DEF SplitInv, FamiliesAreKept
      <4> QED
        BY <4>2, <4>3
    <3>2. j \in Jobs /\ j \in X
      BY <1>3 DEF j
    <3>3. PICK p \in Jobs : p \in X /\ l \in Children[p] /\ RootOf[p] = RootOf[j]
      <4> HIDE DEF X
      <4> QED
        BY <2>7, <3>1, <3>2, CarriedHaveWholes
    <3>4. PICK n \in Messages : n.job = p /\ n.gen = g /\ Kept(n)
      BY <3>3
    <3>5. RootOf[l] = RootOf[j]
      BY <3>3, ChildHasTheRoot
    <3>6. CASE p \in row.terminal
      <4>1. HasVerdict(row, RootOf[p])
        BY <1>1, <2>7, <3>3, <3>6 DEF SplitInv, RowIsSplit, RootsAreRecorded, Group
      <4> QED
        BY <2>2, <3>3, <3>5, <4>1
    <3>7. CASE p \notin row.terminal /\ p # j
      BY <1>5, <2>1, <2>5, <3>3, <3>4, <3>7
    <3>8. CASE p = j /\ parts
      BY <2>4, <3>3, <3>8
    <3>9. CASE p = j /\ ~parts
      <4>1. j \in row'.frontier
        BY <1>1, <1>5, <2>7, <3>9 DEF Split, parts
      <4> QED
        BY <2>1, <2>5, <3>3, <3>4, <3>9, <4>1
    <3> QED
      BY <3>6, <3>7, <3>8, <3>9
  <2> QED
    BY <1>5, <1>12, <2>4, <2>6, <2>7 DEF Frontier, Group
<1>13. LeavesAreCarried'
  BY <1>1, <1>5, <1>12 DEF LeavesAreCarried
<1> QED
  BY <1>5, <1>10, <1>11, <1>13 DEF SplitsKept

\* Every step of a worker keeps the splits.
LEMMA WorkerKeepsSplits ==
    ASSUME Stepping, Delivered, SplitInv, NEW w \in Workers, Progress(w)
    PROVE  SplitInv'
<1>1. TypeInv /\ WorkersOK
  BY DEF Stepping, TypeInv
<1>2. /\ Idle.pc = "idle"
      /\ \A place \in Places : worker[w].pc # "idle" => Placed(w, place).pc = place
      /\ worker[w].pc # "idle" => Staled(w).pc = "complete"
  BY <1>1, PlacedOK, StaledOK DEF Idle
<1>3. /\ Turns(row, row') \/ SameEvidence(row', row) => RowIsCalm
      /\ row' = row => RowIsCalm
  BY DEF RowIsCalm, Turns, SameEvidence, SameSplits
<1>4. {"lease", "attempt", "discover", "plan", "expect", "call", "complete"} \subseteq Places
  BY DEF Places, Owning
<1>5. CASE BeginDiscovery(w)
  <2>1. worker[w].pc # "idle"
    BY <1>5 DEF BeginDiscovery, Discovering, At
  <2> QED
    BY <1>1, <1>2, <1>3, <1>4, <1>5, <2>1, BeginDiscoveryEffect, PlainSplits
<1>6. CASE BeginFetch(w)
  <2>1. worker[w].pc # "idle" /\ row' = row
    BY <1>6 DEF BeginFetch, Fetching, At
  <2> QED
    BY <1>1, <1>2, <1>3, <1>4, <1>6, <2>1, BeginFetchEffect, PlainSplits
<1>7. CASE AcquireLease(w)
  <2>1. worker[w].pc # "idle" /\ row' = row
    BY <1>7 DEF AcquireLease, At
  <2> QED
    BY <1>1, <1>2, <1>3, <1>4, <1>7, <2>1, AcquireLeaseEffect, PlainSplits
<1>8. CASE LeaseRefused(w)
  <2>1. row' = row
    BY <1>8 DEF LeaseRefused
  <2> QED
    BY <1>1, <1>2, <1>3, <1>8, <2>1, LeaseRefusedEffect, PlainSplits
<1>9. CASE Attempt(w)
  <2>1. worker[w].pc # "idle"
    BY <1>9 DEF Attempt, Discovering, At
  <2> QED
    BY <1>1, <1>2, <1>3, <1>4, <1>9, <2>1, AttemptEffect, PlainSplits
<1>10. CASE DiscoveryDeferred(w)
  BY <1>1, <1>2, <1>3, <1>10, DiscoveryDeferredEffect, PlainSplits
<1>11. CASE DiscoveryRejected(w)
  <2>1. worker[w].pc # "idle"
    BY <1>11 DEF DiscoveryRejected, Discovering, At
  <2> QED
    BY <1>1, <1>2, <1>3, <1>4, <1>11, <2>1, DiscoveryRejectedEffect, PlainSplits
<1>12. CASE DiscoveryAnswered(w)
  <2>1. worker[w].pc # "idle" /\ row' = row
    BY <1>12 DEF DiscoveryAnswered, Discovering, At
  <2> QED
    BY <1>1, <1>2, <1>3, <1>4, <1>12, <2>1, DiscoveryAnsweredEffect, PlainSplits
<1>13. CASE PutPlan(w)
  <2>1. worker[w].pc # "idle"
    BY <1>13 DEF PutPlan, Discovering, At
  <2> QED
    BY <1>1, <1>2, <1>3, <1>4, <1>13, <2>1, PutPlanEffect, PlainSplits
<1>14. CASE FanoutExpected(w)
  BY <1>1, <1>2, <1>3, <1>14, FanoutExpectedEffect, PlainSplits
<1>15. CASE \E b \in Batches : EnqueueBatch(w, b)
  <2>1. PICK b \in Batches : EnqueueBatch(w, b)
    BY <1>15
  <2>2. row' = row
    BY <2>1 DEF EnqueueBatch
  <2> QED
    BY <1>1, <1>3, <2>1, <2>2, EnqueueBatchEffect, PlainSplits
<1>16. CASE MarkEnqueued(w)
  <2>1. RowIsCalm
    BY <1>1, <1>3, <1>16, MarkEnqueuedEffect DEF RowIsCalm, SameSplits
  <2> QED
    BY <1>1, <1>2, <1>16, <2>1, MarkEnqueuedEffect, PlainSplits
<1>17. CASE CompleteFanout(w)
  <2>1. worker[w].pc # "idle"
    BY <1>17 DEF CompleteFanout, Discovering, At
  <2> QED
    BY <1>1, <1>2, <1>3, <1>4, <1>17, <2>1, CompleteFanoutEffect, PlainSplits
<1>18. CASE CompleteDiscovery(w)
  <2>1. row' = row
    BY <1>18 DEF CompleteDiscovery
  <2> QED
    BY <1>1, <1>2, <1>3, <1>18, <2>1, CompleteDiscoveryEffect, PlainSplits
<1>19. CASE FetchStale(w)
  <2>1. worker[w].pc # "idle" /\ row' = row
    BY <1>19 DEF FetchStale, Fetching, At
  <2> QED
    BY <1>1, <1>2, <1>3, <1>19, <2>1, FetchStaleEffect, PlainSplits
<1>20. ASSUME row' = row, NEW z, Moved(w, z), z.pc # "send", z.outcome # "SPLIT_PENDING"
       PROVE  SplitInv'
  <2>1. WillHaveSent(z)
    BY <1>20 DEF WillHaveSent
  <2> QED
    BY <1>3, <1>20, <2>1, CalmKeepsSplits, WorkerSplits DEF Delivered
<1>21. CASE FetchUnanswered(w)
  <2>1. row' = row
    BY <1>21 DEF FetchUnanswered
  <2>2. PICK outcome \in {"QUOTA_DEFERRED", "RETRYABLE_ERROR", "REQUEST_REJECTED"} :
           LET z == Unanswered(w, outcome)
           IN  Moved(w, z) /\ z.pc = "merge" /\ z.outcome = outcome
    BY <1>1, <1>21, FetchUnansweredEffect
  <2> QED
    BY <1>20, <2>1, <2>2
<1>22. CASE FetchAnswered(w)
  <2>1. row' = row
    BY <1>22 DEF FetchAnswered
  <2>2. PICK got \in SUBSET Pairs :
           LET z == Answered(w, got)
           IN  Moved(w, z) /\ z.pc = "merge" /\ z.outcome = "HTTP_200"
    BY <1>1, <1>22, FetchAnsweredEffect
  <2> QED
    BY <1>20, <2>1, <2>2
<1>23. CASE FetchSplit(w)
  <2> DEFINE z == Splitting(w)
  <2>1. /\ Job(w) \in Jobs /\ Children[Job(w)] # {} /\ Moved(w, z) /\ z.pc = "send"
        /\ z.outcome = "SPLIT_PENDING" /\ z.msg = worker[w].msg
        /\ z.todo = Children[Job(w)]
    BY <1>1, <1>23, FetchSplitEffect
  <2>2. row' = row
    BY <1>23 DEF FetchSplit
  <2> HIDE DEF z
  <2>3. WillHaveSent(z)
    BY <2>1 DEF WillHaveSent, Job
  <2> QED
    BY <1>3, <2>1, <2>2, <2>3, CalmKeepsSplits, WorkerSplits DEF Delivered
<1>24. CASE \E c \in Jobs : SendChild(w, c)
  <2>1. PICK c \in Jobs : SendChild(w, c)
    BY <1>24
  <2> DEFINE z == Sending(w, c)
             k == [gen |-> Gen(w), job |-> c]
  <2>2. /\ k \in Messages /\ Redelivered(k) /\ Moved(w, z) /\ z.pc \in {"merge", "send"}
        /\ z.msg = worker[w].msg /\ z.outcome = worker[w].outcome
        /\ z.todo = worker[w].todo \ {c}
        /\ z.pc = "merge" => worker[w].todo = {c}
    BY <1>1, <2>1, SendChildEffect
  <2>3. row' = row /\ worker[w].pc = "send"
    BY <2>1 DEF SendChild, Fetching, At
  <2>4. PICK n \in Messages : n = k
    BY <2>2
  <2>5. n.gen = Gen(w) /\ n.job = c
    BY <2>4
  <2>6. Kept(n)'
    BY <2>2, <2>4 DEF Redelivered, Kept, Pending
  <2> HIDE DEF z, k
  <2>7. ASSUME NEW m \in Messages, NEW o \in Messages, z.msg = m
        PROVE  /\ m.job \in Jobs /\ Children[m.job] # {} /\ z.todo \subseteq Children[m.job]
               /\ z.pc = "merge" => z.todo = {}
               /\ o.gen = m.gen /\ o.job \in Children[m.job] \ z.todo => Kept(o)'
    <3>1. /\ m.job \in Jobs /\ Children[m.job] # {}
          /\ worker[w].todo \subseteq Children[m.job]
          /\ o.gen = m.gen /\ o.job \in Children[m.job] \ worker[w].todo => Kept(o)
      BY <2>2, <2>3, <2>7 DEF SplitInv, PartsAreSent, HasSent
    <3>2. o.gen = m.gen /\ o.job = c => o = n
      BY <2>2, <2>5, <2>7 DEF Messages, Gen
    <3>3. o.gen = m.gen /\ o.job \in Children[m.job] \ worker[w].todo => Kept(o)'
      BY <3>1, ChildIsNoDiscovery, KeptStays DEF Delivered
    <3>4. z.todo \subseteq Children[m.job] /\ (z.pc = "merge" => z.todo = {})
      BY <2>2, <3>1
    <3>5. ASSUME o.gen = m.gen, o.job \in Children[m.job] \ z.todo PROVE Kept(o)'
      <4>1. CASE o.job = c
        BY <2>6, <3>2, <3>5, <4>1
      <4>2. CASE o.job # c
        BY <2>2, <3>3, <3>5, <4>2
      <4> QED
        BY <4>1, <4>2
    <3> QED
      BY <3>1, <3>4, <3>5
  <2>8. WillHaveSent(z)
    BY <2>2, <2>3, <2>7 DEF WillHaveSent, SplitInv, PartsAreSent
  <2> QED
    BY <1>3, <2>2, <2>3, <2>8, CalmKeepsSplits, WorkerSplits DEF Delivered
<1>25. CASE MergeOutcome(w)
  <2>1. worker[w].pc = "merge" /\ Job(w) \in Jobs
    BY <1>1, <1>25, MergeOutcomeEffect DEF MergeOutcome, Fetching, At
  <2>2. CASE row' = row
    <3>1. PICK z : Moved(w, z) /\ z.pc = "mint"
      BY <1>1, <1>25, MergeOutcomeEffect
    <3> QED
      BY <1>3, <2>2, <3>1, PlainSplits
  <2>3. CASE /\ MergeAdmitted(row, Gen(w), Job(w), worker[w].outcome)
             /\ row' = Merged(row, Job(w), worker[w].outcome, worker[w].got)
    <3>1. SplitsKept
      BY <2>1, <2>3, MergeKeepsSplits DEF Delivered
    <3>2. PICK z : Moved(w, z) /\ z.pc = "mint"
      BY <1>1, <1>25, MergeOutcomeEffect
    <3>3. WillHaveSent(z)
      BY <3>2 DEF WillHaveSent
    <3> QED
      BY <3>1, <3>2, <3>3, WorkerSplits
  <2> QED
    BY <1>1, <1>25, <2>2, <2>3, MergeOutcomeEffect
<1>26. CASE MintCertificate(w)
  <2>1. worker[w].pc # "idle" /\ row' = row
    BY <1>26 DEF MintCertificate, Fetching, At
  <2> QED
    BY <1>1, <1>2, <1>3, <1>4, <1>26, <2>1, MintCertificateEffect, PlainSplits
<1>27. CASE CompleteFetch(w)
  <2>1. row' = row
    BY <1>27 DEF CompleteFetch
  <2> QED
    BY <1>1, <1>2, <1>3, <1>27, <2>1, CompleteFetchEffect, PlainSplits
<1> QED
  BY <1>5, <1>6, <1>7, <1>8, <1>9, <1>10, <1>11, <1>12, <1>13, <1>14, <1>15, <1>16, <1>17,
     <1>18, <1>19, <1>21, <1>22, <1>23, <1>24, <1>25, <1>26, <1>27 DEF Progress

\* Every step keeps the splits.
LEMMA StepKeepsSplits ==
    ASSUME TypeInv, DeliveryInv, SplitInv, [Next]_vars
    PROVE  SplitInv'
<1>1. TypeInv' /\ Grows(row, row') /\ Delivered
  BY StepGrows, StepDelivers
<1>2. ASSUME Stepping, RowIsCalm, worker' = worker PROVE SplitInv'
  <2>1. \A v \in Workers : WillHaveSent(worker'[v])
    BY <1>1, <1>2, HadSent DEF Delivered, Same
  <2> QED
    BY <1>1, <1>2, <2>1, CalmKeepsSplits, SplitStep DEF Delivered
<1>3. /\ Turns(row, row') => RowIsCalm
      /\ row' = row => RowIsCalm
  BY DEF RowIsCalm, Turns, SameEvidence, SameSplits
<1>4. CASE Dispatch
  <2>1. Stepping /\ worker' = worker
    BY <1>1, <1>4 DEF Stepping, Dispatch
  <2> QED
    BY <1>2, <1>3, <1>4, <2>1, DispatchEffect
<1>5. CASE SendDiscovery
  BY <1>1, <1>2, <1>3, <1>5 DEF Stepping, SendDiscovery
<1>6. CASE MarkDispatched \/ DispatchFails
  <2>1. open' = open /\ worker' = worker
    BY <1>6 DEF MarkDispatched, DispatchFails
  <2>2. Stepping
    BY <1>1, <2>1 DEF Stepping
  <2> QED
    BY <1>2, <1>3, <1>6, <2>1, <2>2, DispatcherEffect
<1>7. CASE Close
  BY <1>1, <1>2, <1>3, <1>7 DEF Stepping, Close
<1>8. ASSUME NEW w \in Workers, Progress(w) PROVE SplitInv'
  <2>1. open' = open
    BY <1>8 DEF Progress, BeginDiscovery, BeginFetch, AcquireLease, LeaseRefused, Attempt,
                DiscoveryDeferred, DiscoveryRejected, DiscoveryAnswered, PutPlan,
                FanoutExpected, EnqueueBatch, MarkEnqueued, CompleteFanout,
                CompleteDiscovery, FetchStale, FetchUnanswered, FetchAnswered, FetchSplit,
                SendChild, MergeOutcome, MintCertificate, CompleteFetch
  <2>2. Stepping
    BY <1>1, <2>1 DEF Stepping
  <2> QED
    BY <1>1, <1>8, <2>2, WorkerKeepsSplits
<1>9. ASSUME NEW w \in Workers, Crash(w) PROVE SplitInv'
  <2>1. Stepping /\ row' = row
    BY <1>1, <1>9 DEF Stepping, Crash
  <2>2. Moved(w, Idle) /\ Idle.pc = "idle"
    BY <1>9, CrashEffect DEF Idle
  <2> QED
    BY <1>1, <1>3, <2>1, <2>2, PlainSplits
<1>10. ASSUME NEW m \in Messages, Duplicate(m) PROVE SplitInv'
  BY <1>1, <1>2, <1>3, <1>10 DEF Stepping, Duplicate
<1>11. ASSUME NEW m \in Messages, NEW w \in Workers, Receive(w, m) PROVE SplitInv'
  <2>1. Stepping /\ row' = row
    BY <1>1, <1>11 DEF Stepping, Receive
  <2>2. Moved(w, Given(m)) /\ Given(m).pc = "begin"
    BY <1>11, ReceiveEffect
  <2> QED
    BY <1>1, <1>3, <2>1, <2>2, PlainSplits
<1>12. CASE UNCHANGED vars
  BY <1>1, <1>2, <1>3, <1>12 DEF Stepping, vars
<1> QED
  BY <1>4, <1>5, <1>6, <1>7, <1>8, <1>9, <1>10, <1>11, <1>12 DEF Next

\* At the start there is no plan, and nothing is pending.
LEMMA InitSplits == Init => SplitInv
<1> SUFFICES ASSUME Init PROVE SplitInv
  OBVIOUS
<1>1. /\ open = TRUE /\ ~row.planned /\ row.gen = 0 /\ ~PlanCurrent(row, 0)
      /\ \A w \in Workers : worker[w].pc = "idle"
      /\ \A m \in Messages : ~Pending(m)
  BY DEF Init, EmptyRow, Idle, PlanCurrent, Pending
<1>2. \A m \in Messages : ~Kept(m)
  <2>1. \A m \in Messages : m.gen \in Nat
    BY BoundsAssumption DEF Messages, Gens
  <2> QED
    BY <1>1, <2>1 DEF Kept, Ended, PlanCurrent
<1> QED
  BY <1>1, <1>2 DEF SplitInv, RowIsSplit, FamiliesAreKept, PartsAreSent, HasSent,
                    HalvesAreKept, LeavesAreCarried

\* What is kept, of the current plan, has evidence or a delivery.
LEMMA KeptHasDelivery ==
    ASSUME TypeInv, open, row.planned, NEW m \in Messages, m.gen = row.gen, Kept(m)
    PROVE  m.job \in row.terminal \/ Pending(m)
<1>1. ~(row.gen > m.gen)
  BY BoundsAssumption DEF Messages, Gens
<1> QED
  BY <1>1 DEF Kept, Ended

\* The invariant is that of every behaviour.
LEMMA SplitsAreKept == Spec => [](TypeInv /\ DeliveryInv /\ SplitInv)
<1>1. TypeInv /\ DeliveryInv /\ SplitInv /\ [Next]_vars
         => TypeInv' /\ DeliveryInv' /\ SplitInv'
  BY StepGrows, StepDelivers, StepKeepsSplits DEF Delivered
<1> QED
  BY <1>1, InitType, InitDelivers, InitSplits, PTL DEF Spec

\* No crash, duplicate, lapsed lease or order of deliveries omits a half of a
\* refused batch: while the batch has no verdict, each half has terminal evidence
\* or a delivery (collector.py: resent children "cannot durably omit a child").
THEOREM HalvesNotOmitted == Spec => []NoHalfOmitted
<1>1. ASSUME TypeInv, DeliveryInv, SplitInv PROVE NoHalfOmitted
  <2> SUFFICES ASSUME open, row.planned, NEW b \in Batches, b \in row.terminal,
                      ~HasVerdict(row, b), NEW c \in Children[b]
               PROVE  c \in row.terminal \/ Pending([gen |-> row.gen, job |-> c])
    BY DEF NoHalfOmitted
  <2>1. row.gen \in Gens /\ b \in Jobs /\ c \in Jobs
    <3>1. b \in Jobs /\ c \in Jobs /\ RootOf[b] = b
      BY BatchIsNoDiscovery, ChildIsNoDiscovery, RootEquation
    <3>2. HasVerdict(row, b) \/ \E l \in row.frontier : RootOf[l] = b
      BY <1>1, <3>1 DEF SplitInv, RowIsSplit, RootsAreRecorded
    <3>3. row.frontier # {}
      BY <3>2
    <3> QED
      BY <1>1, <3>1, <3>3 DEF SplitInv, LeavesAreCarried
  <2>2. PICK m \in Messages : m = [gen |-> row.gen, job |-> b]
    BY <2>1 DEF Messages
  <2>3. PICK n \in Messages : n = [gen |-> row.gen, job |-> c]
    BY <2>1 DEF Messages
  <2>4. m.gen = row.gen /\ m.job = b /\ n.gen = row.gen /\ n.job = c
    BY <2>2, <2>3
  <2>5. Kept(n)
    BY <1>1, <2>4 DEF SplitInv, HalvesAreKept
  <2>6. n.job \in row.terminal \/ Pending(n)
    BY <1>1, <2>4, <2>5, KeptHasDelivery
  <2> QED
    BY <2>3, <2>4, <2>6
<1> QED
  BY <1>1, SplitsAreKept, PTL

\* A split batch is stranded only by its leaf record: as long as a leaf that is
\* over is done or bad, and no leaf is a part of another, every batch that was
\* halved, however deep, has a verdict or a delivery that can bring it.  No
\* delivery, lease or crash strands a split; finding 1 is the record.
THEOREM StrandedOnlyByRecord == Spec => []StrandedByRecordOnly
<1>1. ASSUME TypeInv, DeliveryInv, SplitInv, LeavesAreTrue PROVE NoSplitStranded
  <2> SUFFICES ASSUME open, row.planned, NEW l \in row.frontier,
                      ~HasVerdict(row, RootOf[l]),
                      ~\E j \in Jobs : /\ RootOf[j] = RootOf[l] /\ j \notin row.terminal
                                       /\ Pending([gen |-> row.gen, job |-> j])
               PROVE  FALSE
    BY DEF NoSplitStranded, HasVerdict
  <2>1. row.gen \in Gens /\ row.frontier \subseteq Jobs
    BY <1>1 DEF SplitInv, LeavesAreCarried, TypeInv, RowOK, Row
  <2>2. ASSUME NEW m \in Messages, m.gen = row.gen, m.job \in Jobs,
               RootOf[m.job] = RootOf[l], Kept(m)
        PROVE  m.job \in row.terminal
    <3>1. m = [gen |-> row.gen, job |-> m.job]
      BY <2>2 DEF Messages
    <3> QED
      BY <1>1, <2>2, <3>1, KeptHasDelivery
  <2>3. ASSUME NEW k \in Group(row, l) PROVE k \in row.done \cup row.bad
    <3>1. k \in row.frontier /\ k \in Jobs /\ RootOf[k] = RootOf[l]
      BY <2>1, <2>3 DEF Group
    <3>2. PICK m \in Messages : m = [gen |-> row.gen, job |-> k]
      BY <2>1, <3>1 DEF Messages
    <3>3. m.gen = row.gen /\ m.job = k
      BY <3>2
    <3>4. IsCarried(m)
      BY <1>1, <3>1, <3>3 DEF SplitInv, LeavesAreCarried
    <3>5. CASE Kept(m)
      BY <1>1, <2>2, <3>1, <3>3, <3>5 DEF LeavesAreTrue
    <3>6. ASSUME NEW n \in Messages, n.job \in Jobs, n.gen = m.gen, k \in Children[n.job],
                 Kept(n), n.job \in row.terminal => n.job \in row.frontier
          PROVE  FALSE
      <4>1. n.job \in row.terminal
        BY <2>2, <3>1, <3>3, <3>6, ChildHasTheRoot
      <4> QED
        BY <1>1, <3>1, <3>6, <4>1 DEF LeavesAreTrue
    <3> QED
      BY <3>1, <3>3, <3>4, <3>5, <3>6 DEF IsCarried
  <2> QED
    BY <1>1, <2>3 DEF SplitInv, RowIsSplit, VerdictsAreGiven
<1>2. TypeInv /\ DeliveryInv /\ SplitInv => StrandedByRecordOnly
  BY <1>1 DEF StrandedByRecordOnly
<1> QED
  BY <1>2, SplitsAreKept, PTL

=============================================================================
