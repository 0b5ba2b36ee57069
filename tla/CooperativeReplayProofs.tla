------------------------- MODULE CooperativeReplayProofs -------------------------
(***************************************************************************)
(* Proofs about CooperativeReplay, for any invocations, callers, slates,   *)
(* games and timeouts that TimesAssumption admits: the types, that one     *)
(* invocation at a time works on the replay, that no request is lost, that *)
(* acknowledgements and receipts are true, that the review is lifted once, *)
(* and that the current slate is served between two claims.                *)
(*                                                                         *)
(* The argument: the lease and the claim are longer than the life of their *)
(* owner and run down together with it, so both outlive him.  One          *)
(* invocation is there at a time, and while it works the row is its own    *)
(* and its checkpoint is the row's.  Outcomes are written once, so that    *)
(* what a checkpoint says of the table stays true.  A proof of the current *)
(* slate that survives a claim is too old when the claim has lapsed.       *)
(***************************************************************************)
EXTENDS CooperativeReplay, SequenceTheorems, TLAPS

(***************************************************************************)
(* The inductive invariant, in layers.                                     *)
(***************************************************************************)

\* An invocation is shorter than its lease.
LeaseInv ==
    \A w \in Workers : ~At(w, "idle") =>
        lease.owner = w /\ lease.left >= worker[w].left + Margin

\* A working invocation is shorter than its claim, and nobody changes the row.
WorkInv ==
    \A w \in Workers : worker[w].pc \in Working =>
        /\ Owns(w) /\ row.left >= worker[w].left + Margin
        /\ row.progress = worker[w].was

\* The table has every outcome that was found.
Agrees(slate, found) == \A g \in DOMAIN found : outcome[slate][g] = found[g]

\* The same after a step, of a slate and of a progress from before it.
AgreesThen(slate, found) == \A g \in DOMAIN found : outcome'[slate][g] = found[g]

\* The checkpoint in the row and the one to be written agree with the table.
AgreementInv ==
    /\ row.state # "NONE" => Agrees(row.slate, row.progress.found)
    /\ \A w \in Workers :
         /\ At(w, "write") => ~Processed(worker[w].was) /\ worker[w].value \in Terminals
         /\ At(w, "complete") => Complete(worker[w].was)
         /\ At(w, "save") => /\ Agrees(row.slate, worker[w].next.found)
                             /\ worker[w].next.verified > 0 => Processed(worker[w].next)

\* A number names one request: whoever remembers the row's knows its slate.
RequestsInv ==
    /\ row.state = "NONE" => row.req = 0
    /\ row.state = "ACKNOWLEDGED" => row.req \in acked
    /\ NoRequestLost
    /\ \A c \in Callers :
         /\ Calling(c, "put") => caller[c].slate \in Slates
         /\ caller[c].pc \in {"recheck", "acknowledge", "confirm"} =>
              /\ caller[c].req \in 1..row.req
              /\ caller[c].req = row.req => caller[c].slate = row.slate

\* The row, of whatever request, remembers whether the review was lifted.
ReviewInv == lifted = IF row.marked \/ row.past THEN 1 ELSE 0

\* Once the service of the current slate is spent on a claim, the proof on the
\* row is stale, or will be when the claim has lapsed.
FreshInv ==
    /\ ~unspent => row.proof + row.left > ProofMaxAge
    /\ \A w \in Workers :
         /\ worker[w].pc \in {"late", "prove", "claim"} => unspent
         /\ At(w, "claim") => row.proof + worker[w].left + Margin > ProofMaxAge

(***************************************************************************)
(* Types.                                                                  *)
(***************************************************************************)

\* What was found is a sequence of at most Games outcomes.
LEMMA FoundIsSeq ==
    \A f : f \in Found <=> f \in Seq(Terminals) /\ Len(f) <= Games
<1> USE GamesAssumption
<1>1. ASSUME NEW f \in Found PROVE f \in Seq(Terminals) /\ Len(f) <= Games
  BY <1>1 DEF Found
<1>2. ASSUME NEW f \in Seq(Terminals), Len(f) <= Games PROVE f \in Found
  BY <1>2 DEF Found
<1> QED
  BY <1>1, <1>2

\* One more outcome makes progress of progress.
LEMMA GrowProgress ==
  ASSUME NEW p \in Progress, ~Processed(p), NEW v \in Terminals,
         NEW q, q = [p EXCEPT !.found = Append(p.found, v)]
  PROVE  /\ q \in Progress /\ q.verified = p.verified
         /\ Len(p.found) + 1 \in 1..Games
         /\ DOMAIN p.found = 1..Len(p.found) /\ DOMAIN q.found = 1..(Len(p.found) + 1)
         /\ \A g \in 1..Len(p.found) : q.found[g] = p.found[g]
         /\ q.found[Len(p.found) + 1] = v
<1>1. /\ p.found \in Seq(Terminals) /\ Len(p.found) <= Games /\ Games \in Nat
      /\ p.verified \in 0..Games
  BY FoundIsSeq, GamesAssumption DEF Progress
<1>2. Len(p.found) # Games
  BY DEF Processed
<1>3. q.found = Append(p.found, v) /\ q.verified = p.verified
  BY DEF Progress
<1>4. q.found \in Seq(Terminals) /\ Len(q.found) = Len(p.found) + 1
  BY <1>1, <1>3
<1>5. q.found \in Found
  <2>1. Len(p.found) \in Nat /\ Len(q.found) <= Games
    BY <1>1, <1>2, <1>4
  <2> QED
    BY <1>4, <2>1, FoundIsSeq
<1>6. q = [found |-> q.found, verified |-> q.verified]
  BY <1>3 DEF Progress
<1>7. q \in Progress
  BY <1>1, <1>3, <1>5, <1>6 DEF Progress
<1> QED
  BY <1>1, <1>2, <1>3, <1>4, <1>7


\* The types, with the rest of what TypeOK says of the row.
RowOK(x) ==
    /\ x \in RowType
    /\ x.state # "NONE" => x.slate \in Slates /\ x.req > 0
    /\ x.state # "CLAIMED" => x.owner = NoWorker /\ x.left = 0
    /\ x.progress.verified > 0 => Processed(x.progress)

\* Progress starts from nothing found and nothing verified.
LEMMA StartProgress == Start0 \in Progress /\ Start0.verified = 0 /\ Start0.found = <<>>
<1>0. <<>> \in Seq(Terminals) /\ Len(<<>>) = 0
  BY EmptySeq
<1>01. \A f : f \in Seq(Terminals) /\ Len(f) = 0 => f \in Found
  <2> SUFFICES ASSUME NEW f, f \in Seq(Terminals), Len(f) = 0 PROVE f \in Found
    OBVIOUS
  <2>1. Len(f) <= Games
    BY GamesAssumption
  <2> QED
    BY <2>1, FoundIsSeq
<1>1. <<>> \in Found
  BY <1>0, <1>01
<1>2. Start0 = [found |-> <<>>, verified |-> 0]
  BY DEF Start0
<1> DEFINE none == <<>>
<1>3. none \in Found /\ Start0 = [found |-> none, verified |-> 0] /\ 0 \in 0..Games
  BY <1>1, <1>2, GamesAssumption
<1> HIDE DEF none
<1>4. Start0 \in Progress /\ Start0.verified = 0 /\ Start0.found = none
  BY <1>3 DEF Progress
<1> QED
  BY <1>4 DEF none

\* A claim given back leaves the request and its progress alone.
LEMMA GivenRow ==
  ASSUME RowOK(row), row.state # "NONE",
         NEW s \in {"QUEUED", "COMPLETED", "REVIEW_REQUIRED"}
  PROVE  /\ RowOK(Given(s)) 
         /\ Given(s).state = s /\ Given(s).slate = row.slate /\ Given(s).req = row.req
         /\ Given(s).progress = row.progress
         /\ Given(s).owner = NoWorker /\ Given(s).left = 0 /\ Given(s).proof = Stale
         /\ Given(s).marked = row.marked /\ Given(s).past = row.past
<1>0. Stale \in 0..Stale
  BY TimesAssumption DEF Stale
<1>1. row \in RowType
  BY DEF RowOK
<1>2. /\ Given(s).state = s /\ Given(s).slate = row.slate /\ Given(s).req = row.req
      /\ Given(s).progress = row.progress
      /\ Given(s).owner = NoWorker /\ Given(s).left = 0 /\ Given(s).proof = Stale
      /\ Given(s).marked = row.marked /\ Given(s).past = row.past
  BY <1>1 DEF Given, RowType
<1>3. Given(s) \in RowType
  BY <1>0, <1>1 DEF Given, RowType
<1> QED
  BY <1>2, <1>3 DEF RowOK


\* A worker that only moves on keeps all it remembers.
LEMMA GoesEffect ==
  ASSUME worker \in [Workers -> WorkerType], NEW w \in Workers, NEW place \in Places,
         Goes(w, place)
  PROVE  /\ worker' \in [Workers -> WorkerType]
         /\ worker'[w].pc = place /\ worker'[w].left = worker[w].left
         /\ worker'[w].req = worker[w].req /\ worker'[w].carried = worker[w].carried
         /\ worker'[w].was = worker[w].was /\ worker'[w].next = worker[w].next
         /\ worker'[w].value = worker[w].value
         /\ \A v \in Workers \ {w} : worker'[v] = worker[v]
<1> DEFINE new == [worker[w] EXCEPT !.pc = place]
<1>1. worker[w] \in WorkerType
  OBVIOUS
<1>2. /\ new \in WorkerType
      /\ new.pc = place /\ new.left = worker[w].left /\ new.req = worker[w].req
      /\ new.carried = worker[w].carried /\ new.was = worker[w].was
      /\ new.next = worker[w].next /\ new.value = worker[w].value
  BY <1>1 DEF WorkerType
<1>3. worker' = [worker EXCEPT ![w] = new]
  BY DEF Goes
<1> HIDE DEF new
<1> QED
  BY <1>2, <1>3

\* A worker that has a checkpoint to write keeps the rest.
LEMMA AdvanceEffect ==
  ASSUME worker \in [Workers -> WorkerType], NEW w \in Workers, NEW p \in Progress,
         Advance(w, p)
  PROVE  /\ worker' \in [Workers -> WorkerType]
         /\ worker'[w].pc = "save" /\ worker'[w].left = worker[w].left
         /\ worker'[w].req = worker[w].req /\ worker'[w].was = worker[w].was
         /\ worker'[w].next = p
         /\ \A v \in Workers \ {w} : worker'[v] = worker[v]
<1> DEFINE new == [worker[w] EXCEPT !.pc = "save", !.next = p, !.value = "none"]
<1>1. worker[w] \in WorkerType
  OBVIOUS
<1>2. /\ new \in WorkerType
      /\ new.pc = "save" /\ new.left = worker[w].left /\ new.req = worker[w].req
      /\ new.was = worker[w].was /\ new.next = p
  BY <1>1 DEF WorkerType, Places, Working
<1>3. worker' = [worker EXCEPT ![w] = new]
  BY DEF Advance
<1> HIDE DEF new
<1> QED
  BY <1>2, <1>3


\* What a working invocation owns.
LEMMA WorkerOwns ==
  ASSUME WorkInv, NEW w \in Workers, worker[w].pc \in Working
  PROVE  /\ row.state = "CLAIMED" /\ row.req = worker[w].req /\ row.owner = w
         /\ row.progress = worker[w].was
BY DEF WorkInv, Owns

\* The invocations keep their type: what they find is a sequence of outcomes.
LEMMA WorkersTyped ==
  ASSUME TypeOK, WorkInv, AgreementInv, [Next]_vars
  PROVE  worker' \in [Workers -> WorkerType]
<1>0. /\ worker \in [Workers -> WorkerType] /\ row \in RowType /\ RowOK(row)
      /\ outcome \in [Slates -> [1..Games -> Terminals \cup {"none"}]]
  BY DEF TypeOK, RowOK
<1>00. Timeout \in Nat /\ Games \in Nat
  BY TimesAssumption, GamesAssumption
<1>000. Idle \in WorkerType
  BY StartProgress DEF Idle, WorkerType, Places
<1>1. CASE Tick
  <2>1. ASSUME NEW w \in Workers
        PROVE  [worker[w] EXCEPT !.left = Less(worker[w].left)] \in WorkerType
    <3>1. worker[w] \in WorkerType
      BY <1>0
    <3>2. Less(worker[w].left) \in Nat
      BY <3>1 DEF Less, WorkerType
    <3> QED
      BY <3>1, <3>2 DEF WorkerType
  <2> QED
    BY <1>000, <1>1, <2>1 DEF Tick
<1>2. CASE worker' = worker
  BY <1>0, <1>2
<1>3. ASSUME NEW w \in Workers, WorkerStep(w) \/ Crash(w)
      PROVE  worker' \in [Workers -> WorkerType]
  <2>0. worker[w] \in WorkerType
    BY <1>0
  <2>1. CASE \E place \in Places : Goes(w, place)
    BY <1>0, <2>1, GoesEffect
  <2>2. CASE StartOwner(w)
    <3>1. \A place \in {"early", "manual"} :
            [Idle EXCEPT !.pc = place, !.left = Timeout] \in WorkerType
      BY <1>00, <1>000 DEF WorkerType, Places
    <3> QED
      BY <1>0, <2>2, <3>1 DEF StartOwner
  <2>3. CASE LookEarly(w)
    <3>1. [worker[w] EXCEPT !.pc = "claim", !.req = row.req, !.carried = TRUE] \in WorkerType
      BY <1>0, <2>0 DEF WorkerType, Places, RowType
    <3>2. worker' = [worker EXCEPT ![w] =
              [worker[w] EXCEPT !.pc = "claim", !.req = row.req, !.carried = TRUE]]
          \/ Goes(w, "current")
      BY <2>3 DEF LookEarly
    <3> QED
      BY <1>0, <2>1, <3>1, <3>2 DEF Places
  <2>4. CASE LookLate(w)
    <3> DEFINE place == IF ~Pending THEN "release" ELSE IF HasTime(w) THEN "claim" ELSE "prove"
    <3>1. place \in Places
      BY DEF Places
    <3>2. worker' = [worker EXCEPT ![w] =
              [worker[w] EXCEPT !.req = row.req, !.carried = FALSE, !.pc = place]]
      BY <2>4 DEF LookLate
    <3> HIDE DEF place
    <3>3. [worker[w] EXCEPT !.req = row.req, !.carried = FALSE, !.pc = place] \in WorkerType
      BY <1>0, <2>0, <3>1 DEF WorkerType, RowType
    <3> QED
      BY <1>0, <3>2, <3>3
  <2>5. CASE Claim(w)
    <3> DEFINE new == [worker[w] EXCEPT !.pc = "chunk", !.was = row.progress, !.next = row.progress]
    <3>1. worker' = [worker EXCEPT ![w] = new] \/ \E place \in {"release", "current"} : Goes(w, place)
      BY <2>5 DEF Claim
    <3>2. new \in WorkerType
      BY <1>0, <2>0 DEF WorkerType, Places, Working, RowType
    <3> HIDE DEF new
    <3> QED
      BY <1>0, <2>1, <3>1, <3>2 DEF Places
  <2>6. CASE ProcessGame(w) \/ WriteOutcome(w) \/ VerifyGame(w)
    <3>1. worker[w].pc \in Working
      BY <2>6 DEF ProcessGame, WriteOutcome, VerifyGame, At, Working
    <3>2. row.slate \in Slates /\ row.progress = worker[w].was /\ worker[w].was \in Progress
      BY <1>0, <2>0, <3>1, WorkerOwns DEF RowOK, WorkerType
    <3>3. CASE ProcessGame(w)
      <4> DEFINE was == worker[w].was
                 game == Len(was.found) + 1
      <4>1. ~Processed(was)
        BY <3>3 DEF ProcessGame
      <4>2. CASE Absent(row.slate, game)
        <5>1. PICK v \in {"NO_PREDICTION", "QUARANTINE"} :
                worker' = [worker EXCEPT ![w] = [worker[w] EXCEPT !.pc = "write", !.value = v]]
          BY <3>3, <4>2 DEF ProcessGame
        <5>2. [worker[w] EXCEPT !.pc = "write", !.value = v] \in WorkerType
          BY <2>0 DEF WorkerType, Places, Working, Terminals
        <5> QED
          BY <1>0, <5>1, <5>2
      <4>3. CASE ~Absent(row.slate, game)
        <5> DEFINE q == [was EXCEPT !.found = Append(was.found, OfSlate(game))]
        <5>0. was \in Progress
          BY <3>2
        <5> HIDE DEF was
        <5>1. game \in 1..Games
          <6>1. "CANONICAL" \in Terminals
            BY DEF Terminals
          <6> QED
            BY <4>1, <5>0, <6>1, GrowProgress
        <5>2. OfSlate(game) \in Terminals
          BY <1>0, <3>2, <4>3, <5>1 DEF OfSlate, Absent
        <5>3. q \in Progress
          BY <4>1, <5>0, <5>2, GrowProgress
        <5>4. Advance(w, q)
          BY <3>3, <4>3 DEF ProcessGame, was
        <5> QED
          BY <1>0, <5>3, <5>4, AdvanceEffect
      <4> QED
        BY <4>2, <4>3
    <3>4. CASE WriteOutcome(w)
      <4> DEFINE was == worker[w].was
                 q == [was EXCEPT !.found = Append(was.found, worker[w].value)]
      <4>1. Goes(w, "requeue") \/ Advance(w, q)
        BY <3>4 DEF WriteOutcome
      <4>2. ~Processed(was) /\ worker[w].value \in Terminals
        BY <3>4 DEF WriteOutcome, AgreementInv
      <4>3. q \in Progress
        BY <3>2, <4>2, GrowProgress
      <4> QED
        BY <1>0, <2>1, <4>1, <4>3, AdvanceEffect DEF Places, Working
    <3>5. CASE VerifyGame(w)
      <4> DEFINE was == worker[w].was
                 q == [was EXCEPT !.verified = was.verified + 1]
      <4>1. Goes(w, "review") \/ Advance(w, q)
        BY <3>5 DEF VerifyGame
      <4>2. was.verified + 1 \in 0..Games
        BY <1>00, <3>2, <3>5 DEF VerifyGame, Progress
      <4>3. q \in Progress
        BY <3>2, <4>2 DEF Progress
      <4> QED
        BY <1>0, <2>1, <4>1, <4>3, AdvanceEffect DEF Places, Working
    <3> QED
      BY <2>6, <3>3, <3>4, <3>5
  <2>7. CASE Release(w) \/ Crash(w)
    BY <1>0, <1>000, <2>7 DEF Release, Crash
  <2>8. CASE ServeCurrent(w) \/ ServeManually(w) \/ PersistProof(w) \/ ChunkDeferred(w)
             \/ ChunkRefused(w) \/ ProveComplete(w) \/ SaveCheckpoint(w) \/ SaveReview(w)
             \/ SaveComplete(w) \/ Requeue(w)
    <3>1. \E place \in {"late", "release", "requeue", "review", "complete"} : Goes(w, place)
      BY <2>8 DEF ServeCurrent, ServeManually, PersistProof, ChunkDeferred, ChunkRefused,
                  ProveComplete, SaveCheckpoint, SaveReview, SaveComplete, Requeue
    <3> QED
      BY <2>1, <3>1 DEF Places, Working
  <2> QED
    BY <1>3, <2>2, <2>3, <2>4, <2>5, <2>6, <2>7, <2>8 DEF WorkerStep
<1>4. ASSUME NEW c \in Callers, CallerStep(c) PROVE worker' = worker
  BY <1>4 DEF CallerStep, AskReplay, AskAcknowledge, PutRequest, RecheckRequest,
              Acknowledge, Confirm
<1> QED
  BY <1>1, <1>2, <1>3, <1>4 DEF Next, vars, LiftReview


\* An invocation that ends takes its name off the row and nothing else.
LEMMA ForgottenRow ==
  ASSUME RowOK(row), NEW w \in Workers
  PROVE  /\ RowOK(Forgotten(row, w))
         /\ Forgotten(row, w).owner = IF row.owner = w THEN NoWorker ELSE row.owner
         /\ Forgotten(row, w).state = row.state /\ Forgotten(row, w).slate = row.slate
         /\ Forgotten(row, w).req = row.req /\ Forgotten(row, w).progress = row.progress
         /\ Forgotten(row, w).left = row.left /\ Forgotten(row, w).proof = row.proof
         /\ Forgotten(row, w).marked = row.marked /\ Forgotten(row, w).past = row.past
<1>1. row \in RowType
  BY DEF RowOK
<1> DEFINE new == [row EXCEPT !.owner = NoWorker]
<1>2. /\ new \in RowType /\ new.owner = NoWorker
      /\ new.state = row.state /\ new.slate = row.slate /\ new.req = row.req
      /\ new.progress = row.progress /\ new.left = row.left /\ new.proof = row.proof
      /\ new.marked = row.marked /\ new.past = row.past
  BY <1>1 DEF RowType
<1>3. Forgotten(row, w) = IF row.owner = w THEN new ELSE row
  BY DEF Forgotten
<1> HIDE DEF new
<1> QED
  BY <1>2, <1>3 DEF RowOK

\* What a minute does to the row.
LEMMA TickRow ==
  ASSUME RowOK(row), Tick
  PROVE  /\ RowOK(row)'
         /\ row'.owner = IF row.owner \in Killed THEN NoWorker ELSE row.owner
         /\ row'.state = row.state /\ row'.slate = row.slate
         /\ row'.req = row.req /\ row'.progress = row.progress
         /\ row'.left = Less(row.left)
         /\ row'.proof = IF row.proof < Stale THEN row.proof + 1 ELSE row.proof
         /\ row'.marked = row.marked /\ row'.past = row.past
<1>1. row \in RowType /\ Stale \in Nat
  BY TimesAssumption DEF RowOK, Stale
<1> DEFINE owner == IF row.owner \in Killed THEN NoWorker ELSE row.owner
           proof == IF row.proof < Stale THEN row.proof + 1 ELSE row.proof
           left == Less(row.left)
<1>2. owner \in Workers \cup {NoWorker} /\ proof \in 0..Stale /\ left \in Nat
      /\ (row.left = 0 => left = 0) /\ (row.owner = NoWorker => owner = NoWorker)
  BY <1>1 DEF RowType, Less
<1>3. row' = [row EXCEPT !.owner = owner, !.left = left, !.proof = proof]
  <2>1. CASE row.owner \in Killed
    BY <1>1, <2>1 DEF Tick, Orphaned, RowType
  <2>2. CASE row.owner \notin Killed
    BY <1>1, <2>2 DEF Tick, Orphaned, RowType
  <2> QED
    BY <2>1, <2>2
<1> HIDE DEF owner, proof, left
<1>4. /\ row' \in RowType
      /\ row'.owner = owner /\ row'.left = left /\ row'.proof = proof
      /\ row'.state = row.state /\ row'.slate = row.slate
      /\ row'.req = row.req /\ row'.progress = row.progress
      /\ row'.marked = row.marked /\ row'.past = row.past
  BY <1>1, <1>2, <1>3 DEF RowType
<1> QED
  BY <1>2, <1>4 DEF RowOK, owner, proof, left, Processed

\* What a new request puts into the row.
LEMMA QueuedRowFields ==
  ASSUME RowOK(row), NEW s \in Slates
  PROVE  /\ RowOK(QueuedRow(s))
         /\ QueuedRow(s).state = "QUEUED" /\ QueuedRow(s).slate = s
         /\ QueuedRow(s).req = row.req + 1 /\ QueuedRow(s).progress = Start0
         /\ QueuedRow(s).proof = Stale /\ QueuedRow(s).marked = FALSE
         /\ QueuedRow(s).past = Carried
<1>1. row \in RowType /\ Stale \in 0..Stale
  BY TimesAssumption DEF RowOK, Stale
<1> DEFINE req == row.req + 1
           past == Carried
<1>2. req \in Nat /\ req > 0 /\ past \in BOOLEAN
  BY <1>1 DEF RowType, Carried
<1>02. QueuedRow(s) = [NoRow EXCEPT !.state = "QUEUED", !.slate = s, !.req = req, !.past = past]
  BY DEF QueuedRow
<1> HIDE DEF req, past
<1>3. QueuedRow(s) = [state |-> "QUEUED", slate |-> s, req |-> req, progress |-> Start0,
          owner |-> NoWorker, left |-> 0, proof |-> Stale, marked |-> FALSE, past |-> past]
  BY <1>02 DEF NoRow
<1>4. QueuedRow(s) \in RowType
  <2>1. Start0 \in Progress
    BY StartProgress
  <2> QED
    BY <1>1, <1>2, <1>3, <2>1 DEF RowType
<1>5. /\ QueuedRow(s).state = "QUEUED" /\ QueuedRow(s).slate = s
      /\ QueuedRow(s).req = req /\ QueuedRow(s).progress = Start0
      /\ QueuedRow(s).owner = NoWorker /\ QueuedRow(s).left = 0
      /\ QueuedRow(s).proof = Stale /\ QueuedRow(s).marked = FALSE
      /\ QueuedRow(s).past = past
  BY <1>3
<1> QED
  BY <1>2, <1>4, <1>5, StartProgress DEF RowOK, req, past


\* The row keeps its type.
LEMMA RowTyped ==
  ASSUME TypeOK, WorkInv, AgreementInv, RequestsInv, Next
  PROVE  RowOK(row)'
<1>0. /\ RowOK(row) /\ row \in RowType
      /\ worker \in [Workers -> WorkerType] /\ caller \in [Callers -> CallerType]
  BY DEF TypeOK, RowOK
<1>1. CASE row' = row
  BY <1>0, <1>1 DEF RowOK, Processed
<1>2. CASE Tick
  BY <1>0, <1>2, TickRow
<1>3. ASSUME NEW c \in Callers, PutRequest(c), row' # row PROVE RowOK(row)'
  <2>1. caller[c].slate \in Slates /\ row' = QueuedRow(caller[c].slate)
    BY <1>3 DEF PutRequest, RequestsInv
  <2> QED
    BY <1>0, <2>1, QueuedRowFields DEF RowOK, Processed
<1>4. ASSUME NEW c \in Callers, Acknowledge(c), row' # row PROVE RowOK(row)'
  <2>1. row.state = "COMPLETED" /\ row' = [row EXCEPT !.state = "ACKNOWLEDGED"]
    BY <1>4 DEF Acknowledge
  <2> QED
    BY <1>0, <2>1 DEF RowOK, RowType, Processed
<1>5. CASE LiftReview
  <2>1. row.state = "REVIEW_REQUIRED"
        /\ row' = [row EXCEPT !.state = "QUEUED", !.marked = TRUE]
    BY <1>5 DEF LiftReview
  <2> QED
    BY <1>0, <2>1 DEF RowOK, RowType, Processed
<1>6. ASSUME NEW w \in Workers, WorkerStep(w) \/ Crash(w), row' # row PROVE RowOK(row)'
  <2>0. worker[w] \in WorkerType
    BY <1>0
  <2>1. CASE PersistProof(w)
    <3>1. row' = [row EXCEPT !.proof = 0]
      BY <1>6, <2>1 DEF PersistProof
    <3>2. 0 \in 0..Stale
      BY TimesAssumption DEF Stale
    <3> QED
      BY <1>0, <3>1, <3>2 DEF RowOK, RowType, Processed
  <2>2. CASE Claim(w)
    <3> DEFINE left == worker[w].left + Margin
    <3>1. Pending /\ row' = [row EXCEPT !.state = "CLAIMED", !.owner = w, !.left = left]
      BY <1>6, <2>2 DEF Claim
    <3>2. left \in Nat
      BY <2>0, TimesAssumption DEF WorkerType
    <3> HIDE DEF left
    <3> QED
      BY <1>0, <3>1, <3>2 DEF RowOK, RowType, Processed, Pending
  <2>3. CASE SaveCheckpoint(w)
    <3>1. Owns(w) /\ row' = [Given("QUEUED") EXCEPT !.progress = worker[w].next] /\ At(w, "save")
      BY <1>6, <2>3 DEF SaveCheckpoint
    <3>2. RowOK(Given("QUEUED"))
      BY <1>0, <3>1, GivenRow DEF Owns
    <3>3. /\ worker[w].next \in Progress
          /\ worker[w].next.verified > 0 => Processed(worker[w].next)
      BY <2>0, <3>1 DEF WorkerType, AgreementInv
    <3> QED
      BY <3>1, <3>2, <3>3 DEF RowOK, RowType, Processed
  <2>4. CASE SaveReview(w) \/ SaveComplete(w) \/ Requeue(w)
    <3>1. Owns(w) /\ \E s \in {"QUEUED", "COMPLETED", "REVIEW_REQUIRED"} : row' = Given(s)
      BY <1>6, <2>4 DEF SaveReview, SaveComplete, Requeue
    <3> QED
      BY <1>0, <3>1, GivenRow DEF Owns, RowOK, Processed
  <2>5. CASE Release(w) \/ Crash(w)
    BY <1>0, <2>5, ForgottenRow DEF Release, Crash, RowOK, Processed
  <2> QED
    BY <1>6, <2>1, <2>2, <2>3, <2>4, <2>5
    DEF WorkerStep, StartOwner, LookEarly, ServeCurrent, ServeManually, LookLate,
        ChunkDeferred, ChunkRefused, ProcessGame, WriteOutcome, VerifyGame, ProveComplete
<1> QED
  BY <1>1, <1>2, <1>3, <1>4, <1>5, <1>6
  DEF Next, CallerStep, AskReplay, AskAcknowledge, RecheckRequest, Confirm


\* The callers keep their type.
LEMMA CallersTyped ==
  ASSUME TypeOK, RequestsInv, [Next]_vars
  PROVE  caller' \in [Callers -> CallerType]
<1>0. caller \in [Callers -> CallerType] /\ RowOK(row) /\ row \in RowType
  BY DEF TypeOK, RowOK
<1>1. ASSUME NEW c \in Callers, CallerStep(c)
      PROVE  caller' \in [Callers -> CallerType]
  <2>1. caller[c] \in CallerType
    BY <1>0
  <2>2. ASSUME Hangs(c) PROVE caller' \in [Callers -> CallerType]
    <3>1. Quiet \in CallerType
      BY DEF Quiet, CallerType
    <3> QED
      BY <1>0, <2>2, <3>1 DEF Hangs
  <2>3. ASSUME NEW place \in {"put", "recheck", "acknowledge", "confirm"},
               NEW s \in Slates \cup {NoSlate}, NEW r \in Nat, GoesOn(c, place, s, r)
        PROVE  caller' \in [Callers -> CallerType]
    <3>1. [pc |-> place, slate |-> s, req |-> r] \in CallerType
      BY DEF CallerType
    <3> QED
      BY <1>0, <2>3, <3>1 DEF GoesOn
  <2>4. /\ row.req \in Nat /\ row.req + 1 \in Nat /\ row.slate \in Slates \cup {NoSlate}
        /\ caller[c].req \in Nat /\ caller[c].slate \in Slates \cup {NoSlate}
    BY <1>0, <2>1 DEF RowType, CallerType
  <2>5. \/ Hangs(c)
        \/ \E place \in {"put", "recheck", "acknowledge", "confirm"},
              s \in Slates \cup {NoSlate}, r \in Nat : GoesOn(c, place, s, r)
    <3>1. CASE AskReplay(c)
      BY <2>4, <3>1 DEF AskReplay
    <3>2. CASE AskAcknowledge(c)
      BY <2>4, <3>2 DEF AskAcknowledge
    <3>3. CASE PutRequest(c)
      BY <2>4, <3>3 DEF PutRequest
    <3>4. CASE RecheckRequest(c)
      BY <2>4, <3>4 DEF RecheckRequest
    <3>5. CASE Acknowledge(c)
      BY <2>4, <3>5 DEF Acknowledge
    <3>6. CASE Confirm(c)
      BY <2>4, <3>6 DEF Confirm
    <3> QED
      BY <1>1, <3>1, <3>2, <3>3, <3>4, <3>5, <3>6 DEF CallerStep
  <2> QED
    BY <2>2, <2>3, <2>5
<1>2. CASE caller' = caller
  BY <1>0, <1>2
<1>3. ASSUME NEW w \in Workers, WorkerStep(w) \/ Crash(w) PROVE caller' = caller
  BY <1>3 DEF WorkerStep, Crash, StartOwner, LookEarly, ServeCurrent, ServeManually, LookLate,
      PersistProof, Claim, ChunkDeferred, ChunkRefused, ProcessGame, WriteOutcome, VerifyGame,
      ProveComplete, SaveCheckpoint, SaveReview, SaveComplete, Requeue, Release
<1> QED
  BY <1>1, <1>2, <1>3 DEF Next, vars, Tick, LiftReview

\* The outcomes keep their type.
LEMMA OutcomeTyped ==
  ASSUME TypeOK, WorkInv, AgreementInv, Next
  PROVE  outcome' \in [Slates -> [1..Games -> Terminals \cup {"none"}]]
<1>0. outcome \in [Slates -> [1..Games -> Terminals \cup {"none"}]]
  BY DEF TypeOK
<1>1. CASE outcome' = outcome
  BY <1>0, <1>1
<1>2. ASSUME NEW w \in Workers, WriteOutcome(w)
      PROVE  outcome' \in [Slates -> [1..Games -> Terminals \cup {"none"}]]
  <2>1. worker[w].value \in Terminals
    BY <1>2 DEF WriteOutcome, AgreementInv
  <2> DEFINE game == Len(worker[w].was.found) + 1
             value == worker[w].value
  <2>2. \/ outcome' = outcome
        \/ outcome' = [outcome EXCEPT ![row.slate][game] = value]
    BY <1>2 DEF WriteOutcome
  <2>3. value \in Terminals
    BY <2>1
  <2> HIDE DEF game, value
  <2>4. CASE row.slate \in Slates /\ outcome' = [outcome EXCEPT ![row.slate][game] = value]
    <3> DEFINE slate == row.slate
               new == [outcome[slate] EXCEPT ![game] = value]
    <3>1. slate \in Slates /\ outcome' = [outcome EXCEPT ![slate] = new]
      BY <2>4
    <3>2. outcome[slate] \in [1..Games -> Terminals \cup {"none"}]
      BY <1>0, <3>1
    <3> HIDE DEF slate
    <3>3. new \in [1..Games -> Terminals \cup {"none"}]
      BY <2>3, <3>2
    <3> HIDE DEF new
    <3> QED
      BY <1>0, <3>1, <3>3
  <2>5. row.slate \in Slates
    <3>1. worker[w].pc \in Working
      BY <1>2 DEF WriteOutcome, At, Working
    <3> QED
      BY <3>1, WorkerOwns DEF TypeOK
  <2> QED
    BY <1>0, <2>2, <2>4, <2>5
<1> QED
  BY <1>1, <1>2 DEF Next, Tick, LiftReview, CallerStep, AskReplay, AskAcknowledge, PutRequest,
      RecheckRequest, Acknowledge, Confirm, WorkerStep, Crash, StartOwner, LookEarly,
      ServeCurrent, ServeManually, LookLate,
      PersistProof, Claim, ChunkDeferred, ChunkRefused, ProcessGame, VerifyGame,
      ProveComplete, SaveCheckpoint, SaveReview, SaveComplete, Requeue, Release

\* The histories keep their types.
LEMMA HistoryTyped ==
  ASSUME TypeOK, Next
  PROVE  /\ unspent' \in BOOLEAN /\ acked' \subseteq Nat /\ told' \subseteq Nat /\ lifted' \in Nat
         /\ receipts' \subseteq [slate : Slates, found : Found]
<1>0. /\ RowOK(row) /\ row \in RowType /\ caller \in [Callers -> CallerType]
      /\ unspent \in BOOLEAN /\ acked \subseteq Nat /\ told \subseteq Nat /\ lifted \in Nat
      /\ receipts \subseteq [slate : Slates, found : Found]
  BY DEF TypeOK, RowOK
<1>1. CASE history' = history
  BY <1>0, <1>1 DEF history
<1>2. ASSUME NEW c \in Callers, Acknowledge(c) \/ Confirm(c)
      PROVE  /\ acked' \subseteq Nat /\ told' \subseteq Nat
             /\ UNCHANGED <<unspent, receipts, lifted>>
  <2>1. row.req \in Nat /\ caller[c].req \in Nat
    BY <1>0 DEF RowType, CallerType
  <2> QED
    BY <1>0, <1>2, <2>1 DEF Acknowledge, Confirm
<1>3. CASE LiftReview
  BY <1>0, <1>3 DEF LiftReview
<1>4. ASSUME NEW w \in Workers, ServeCurrent(w) \/ Claim(w)
      PROVE  unspent' \in BOOLEAN /\ UNCHANGED <<receipts, acked, told, lifted>>
  BY <1>0, <1>4 DEF ServeCurrent, Claim
<1>5. ASSUME NEW w \in Workers, SaveComplete(w)
      PROVE  /\ receipts' \subseteq [slate : Slates, found : Found]
             /\ UNCHANGED <<unspent, acked, told, lifted>>
  <2>1. CASE Owns(w)
    <3>1. row.slate \in Slates /\ row.progress.found \in Found
      BY <1>0, <2>1 DEF Owns, RowOK, RowType, Progress
    <3>2. [slate |-> row.slate, found |-> row.progress.found] \in [slate : Slates, found : Found]
      BY <3>1
    <3> QED
      BY <1>0, <1>5, <3>2 DEF SaveComplete
  <2>2. CASE ~Owns(w)
    BY <1>0, <1>5, <2>2 DEF SaveComplete
  <2> QED
    BY <2>1, <2>2
<1> QED
  BY <1>0, <1>1, <1>2, <1>3, <1>4, <1>5
  DEF Next, Tick, CallerStep, AskReplay, AskAcknowledge, PutRequest,
      RecheckRequest, WorkerStep, Crash, StartOwner, LookEarly,
      ServeManually, LookLate, PersistProof, ChunkDeferred, ChunkRefused, ProcessGame,
      WriteOutcome, VerifyGame, ProveComplete, SaveCheckpoint, SaveReview, Requeue, Release


\* The lease keeps its type.
LEMMA LeaseTyped ==
  ASSUME TypeOK, Next
  PROVE  lease' \in LeaseType
<1>0. lease \in LeaseType
  BY DEF TypeOK
<1>1. CASE lease' = lease
  BY <1>0, <1>1
<1>2. CASE Tick
  <2>1. Less(lease.left) \in Nat /\ Orphaned(lease) \in LeaseType
    BY <1>0 DEF LeaseType, Less, Orphaned
  <2> QED
    BY <1>2, <2>1 DEF Tick, LeaseType
<1>3. ASSUME NEW w \in Workers, StartOwner(w) \/ Release(w) \/ Crash(w)
      PROVE  lease' \in LeaseType
  <2>1. LeaseTerm \in Nat
    BY TimesAssumption DEF LeaseTerm
  <2> QED
    BY <1>0, <1>3, <2>1 DEF StartOwner, Granted, Release, NoLease, Crash, Forgotten, LeaseType
<1> QED
  BY <1>1, <1>2, <1>3
  DEF Next, CallerStep, AskReplay, AskAcknowledge, PutRequest, LiftReview,
      RecheckRequest, Acknowledge, Confirm, WorkerStep, LookEarly, ServeCurrent,
      ServeManually, LookLate, PersistProof, Claim, ChunkDeferred, ChunkRefused, ProcessGame,
      WriteOutcome, VerifyGame, ProveComplete, SaveCheckpoint, SaveReview, SaveComplete, Requeue

\* A step keeps all types.
LEMMA TypeStep ==
  ASSUME TypeOK, WorkInv, AgreementInv, RequestsInv, Next
  PROVE  TypeOK'
BY LeaseTyped, RowTyped, OutcomeTyped, WorkersTyped, CallersTyped, HistoryTyped
DEF TypeOK, RowOK

(***************************************************************************)
(* Steps that leave others alone.                                          *)
(***************************************************************************)

\* An invocation that is running has the lease, and no other is running.
LEMMA OneOwner ==
  ASSUME TypeOK, LeaseInv, NEW w \in Workers, ~At(w, "idle")
  PROVE  /\ lease.owner = w /\ lease.left > 0
         /\ \A v \in Workers \ {w} : At(v, "idle")
<1>1. worker[w].left \in Nat /\ Margin \in Nat \ {0} /\ lease.left \in Nat
  BY TimesAssumption DEF TypeOK, WorkerType, LeaseType
<1> QED
  BY <1>1 DEF LeaseInv

\* Only one invocation is there when one takes a step.
LEMMA OthersRest ==
  ASSUME TypeOK, LeaseInv, NEW w \in Workers, WorkerStep(w) \/ Crash(w)
  PROVE  \A v \in Workers \ {w} : worker'[v] = worker[v] /\ At(v, "idle")
<1>0. worker \in [Workers -> WorkerType]
  BY DEF TypeOK
<1>1. \A v \in Workers \ {w} : worker'[v] = worker[v]
  BY <1>0 DEF WorkerStep, Crash, StartOwner, LookEarly, ServeCurrent, ServeManually, LookLate,
      PersistProof, Claim, ChunkDeferred, ChunkRefused, ProcessGame, WriteOutcome, VerifyGame,
      ProveComplete, SaveCheckpoint, SaveReview, SaveComplete, Requeue, Release, Goes, Advance
<1>2. CASE StartOwner(w)
  BY <1>1, <1>2, OneOwner DEF StartOwner
<1>3. CASE ~At(w, "idle")
  BY <1>1, <1>3, OneOwner
<1>4. StartOwner(w) \/ ~At(w, "idle")
  BY DEF WorkerStep, Crash, LookEarly, ServeCurrent, ServeManually, LookLate, At,
      PersistProof, Claim, ChunkDeferred, ChunkRefused, ProcessGame, WriteOutcome, VerifyGame,
      ProveComplete, SaveCheckpoint, SaveReview, SaveComplete, Requeue, Release
<1> QED
  BY <1>2, <1>3, <1>4

\* A caller or the lifting of a review leaves the invocations alone, and the row
\* while one works on it.
LEMMA CallersFrame ==
  ASSUME (\E c \in Callers : CallerStep(c)) \/ LiftReview
  PROVE  /\ UNCHANGED <<lease, outcome, worker, unspent, receipts>>
         /\ row.state = "CLAIMED" => row' = row
BY DEF CallerStep, AskReplay, AskAcknowledge, PutRequest, MayPut, Replaceable, RecheckRequest,
       Acknowledge, Confirm, LiftReview, history

\* An invocation leaves the callers alone.
LEMMA WorkersFrame ==
  ASSUME NEW w \in Workers, WorkerStep(w) \/ Crash(w)
  PROVE  UNCHANGED <<caller, acked, told, lifted>>
BY DEF WorkerStep, Crash, StartOwner, LookEarly, ServeCurrent, ServeManually, LookLate,
      PersistProof, Claim, ChunkDeferred, ChunkRefused, ProcessGame, WriteOutcome, VerifyGame,
      ProveComplete, SaveCheckpoint, SaveReview, SaveComplete, Requeue, Release, history

\* A minute runs an invocation's time down, or ends it.
LEMMA TickWorker ==
  ASSUME TypeOK, Tick, NEW w \in Workers
  PROVE  \/ worker'[w].pc = "idle"
         \/ /\ worker[w].left > 0 /\ worker'[w].left = worker[w].left - 1
            /\ worker'[w].pc = worker[w].pc /\ worker'[w].req = worker[w].req
            /\ worker'[w].was = worker[w].was /\ worker'[w].next = worker[w].next
            /\ worker'[w].value = worker[w].value /\ w \notin Killed
<1>0. worker[w] \in WorkerType
  BY DEF TypeOK
<1> DEFINE left == Less(worker[w].left)
           new == [worker[w] EXCEPT !.left = left]
<1>1. worker'[w] = IF w \in Killed THEN Idle ELSE new
  BY DEF Tick
<1>2. /\ new.left = left /\ new.pc = worker[w].pc /\ new.req = worker[w].req
      /\ new.was = worker[w].was /\ new.next = worker[w].next /\ new.value = worker[w].value
  BY <1>0 DEF WorkerType
<1>3. Idle.pc = "idle"
  BY DEF Idle
<1>4. worker[w].left > 0 => left = worker[w].left - 1
  BY <1>0 DEF Less, WorkerType
<1>5. w \in Killed \/ worker[w].left > 0 \/ worker[w].pc = "idle"
  BY <1>0 DEF Killed, At, WorkerType
<1> HIDE DEF new, left
<1> QED
  BY <1>1, <1>2, <1>3, <1>4, <1>5


(***************************************************************************)
(* The execution lease and the claim outlive their owner.                  *)
(***************************************************************************)

\* Between its start and its end an invocation keeps its deadline.
LEMMA DeadlineKept ==
  ASSUME TypeOK, NEW w \in Workers, WorkerStep(w), ~StartOwner(w), ~Release(w)
  PROVE  worker'[w].left = worker[w].left /\ ~At(w, "idle") /\ lease' = lease
<1>0. worker \in [Workers -> WorkerType] /\ worker[w] \in WorkerType
  BY DEF TypeOK
<1>1. ~At(w, "idle") /\ lease' = lease
  BY DEF WorkerStep, LookEarly, ServeCurrent, ServeManually, LookLate, At,
      PersistProof, Claim, ChunkDeferred, ChunkRefused, ProcessGame, WriteOutcome, VerifyGame,
      ProveComplete, SaveCheckpoint, SaveReview, SaveComplete, Requeue, Release
<1>2. CASE \E place : Goes(w, place)
  BY <1>0, <1>1, <1>2 DEF Goes, WorkerType
<1>3. CASE \E p : Advance(w, p)
  BY <1>0, <1>1, <1>3 DEF Advance, WorkerType
<1>4. CASE LookEarly(w)
  <2> DEFINE new == [worker[w] EXCEPT !.pc = "claim", !.req = row.req, !.carried = TRUE]
  <2>1. Goes(w, "current") \/ worker' = [worker EXCEPT ![w] = new]
    BY <1>4 DEF LookEarly
  <2>2. new.left = worker[w].left
    BY <1>0 DEF WorkerType
  <2> HIDE DEF new
  <2>3. worker' = [worker EXCEPT ![w] = new] => worker'[w].left = worker[w].left
    BY <1>0, <2>2
  <2> QED
    BY <1>1, <1>2, <2>1, <2>3
<1>5. CASE LookLate(w)
  <2> DEFINE place == IF ~Pending THEN "release" ELSE IF HasTime(w) THEN "claim" ELSE "prove"
             req == row.req
  <2>1. worker' = [worker EXCEPT ![w] =
            [worker[w] EXCEPT !.req = req, !.carried = FALSE, !.pc = place]]
    BY <1>5 DEF LookLate
  <2> HIDE DEF place, req
  <2>2. worker'[w].left = worker[w].left
    BY <1>0, <2>1 DEF WorkerType
  <2> QED
    BY <1>1, <2>2
<1>6. CASE Claim(w)
  <2> DEFINE new == [worker[w] EXCEPT !.pc = "chunk", !.was = row.progress, !.next = row.progress]
  <2>1. (\E place : Goes(w, place)) \/ worker' = [worker EXCEPT ![w] = new]
    BY <1>6 DEF Claim
  <2>2. new.left = worker[w].left
    BY <1>0 DEF WorkerType
  <2> HIDE DEF new
  <2>3. worker' = [worker EXCEPT ![w] = new] => worker'[w].left = worker[w].left
    BY <1>0, <2>2
  <2> QED
    BY <1>1, <1>2, <2>1, <2>3
<1>7. CASE ProcessGame(w)
  <2> DEFINE new(v) == [worker[w] EXCEPT !.pc = "write", !.value = v]
  <2>1. (\E p : Advance(w, p)) \/ (\E v : worker' = [worker EXCEPT ![w] = new(v)])
    BY <1>7 DEF ProcessGame
  <2>2. \A v : new(v).left = worker[w].left
    BY <1>0 DEF WorkerType
  <2> HIDE DEF new
  <2>3. \A v : worker' = [worker EXCEPT ![w] = new(v)] => worker'[w].left = worker[w].left
    BY <1>0, <2>2
  <2> QED
    BY <1>1, <1>3, <2>1, <2>3
<1>8. CASE WriteOutcome(w) \/ VerifyGame(w)
  BY <1>2, <1>3, <1>8 DEF WriteOutcome, VerifyGame
<1>9. CASE ServeCurrent(w) \/ ServeManually(w) \/ PersistProof(w) \/ ChunkDeferred(w)
           \/ ChunkRefused(w) \/ ProveComplete(w) \/ SaveCheckpoint(w) \/ SaveReview(w)
           \/ SaveComplete(w) \/ Requeue(w)
  <2>1. \E place : Goes(w, place)
    BY <1>9 DEF ServeCurrent, ServeManually, PersistProof, ChunkDeferred, ChunkRefused,
                ProveComplete, SaveCheckpoint, SaveReview, SaveComplete, Requeue
  <2> QED
    BY <1>2, <2>1
<1> QED
  BY <1>4, <1>5, <1>6, <1>7, <1>8, <1>9 DEF WorkerStep

\* The lease is longer than the Lambda timeout and both run down together.
LEMMA LeaseStep ==
  ASSUME TypeOK, LeaseInv, Next
  PROVE  LeaseInv'
<1>0. /\ worker \in [Workers -> WorkerType] /\ lease \in LeaseType
      /\ Timeout \in Nat /\ Margin \in Nat \ {0}
  BY TimesAssumption DEF TypeOK
<1>1. ASSUME NEW w \in Workers, WorkerStep(w) \/ Crash(w) PROVE LeaseInv'
  <2>1. CASE StartOwner(w)
    <3>1. /\ lease' = [owner |-> w, left |-> Timeout + Margin]
          /\ \E place : worker' = [worker EXCEPT ![w] = [Idle EXCEPT !.pc = place, !.left = Timeout]]
      BY <2>1 DEF StartOwner, Granted, LeaseTerm
    <3>2. worker'[w].left = Timeout
      BY <1>0, <3>1 DEF Idle
    <3>3. lease'.owner = w /\ lease'.left = Timeout + Margin
      BY <3>1
    <3> QED
      BY <1>0, <1>1, <3>2, <3>3, OthersRest DEF LeaseInv, At
  <2>2. CASE Release(w) \/ Crash(w)
    <3>1. worker'[w].pc = "idle"
      BY <1>0, <2>2 DEF Release, Crash, Idle
    <3> QED
      BY <1>1, <3>1, OthersRest DEF LeaseInv, At
  <2>3. CASE WorkerStep(w) /\ ~StartOwner(w) /\ ~Release(w)
    BY <1>1, <2>3, DeadlineKept, OthersRest DEF LeaseInv, At
  <2> QED
    BY <1>1, <2>1, <2>2, <2>3
<1>2. CASE Tick
  <2> SUFFICES ASSUME NEW w \in Workers, worker'[w].pc # "idle"
               PROVE  lease'.owner = w /\ lease'.left >= worker'[w].left + Margin
    BY DEF LeaseInv, At
  <2>1. /\ worker[w].left > 0 /\ worker'[w].left = worker[w].left - 1
        /\ worker[w].pc # "idle" /\ w \notin Killed /\ worker[w].left \in Nat
    BY <1>0, <1>2, TickWorker DEF WorkerType
  <2>2. lease.owner = w /\ lease.left >= worker[w].left + Margin
    BY <2>1 DEF LeaseInv, At
  <2>3. lease' = [lease EXCEPT !.left = Less(lease.left)]
    BY <1>2, <2>1, <2>2 DEF Tick, Orphaned
  <2>4. lease'.owner = lease.owner /\ lease'.left = Less(lease.left)
    BY <1>0, <2>3 DEF LeaseType
  <2> QED
    BY <1>0, <2>1, <2>2, <2>4 DEF Less, LeaseType
<1>3. CASE (\E c \in Callers : CallerStep(c)) \/ LiftReview
  BY <1>3, CallersFrame DEF LeaseInv, At
<1> QED
  BY <1>1, <1>2, <1>3 DEF Next


\* What the claim writes and remembers.
LEMMA ClaimEffect ==
  ASSUME TypeOK, NEW w \in Workers, Claim(w)
  PROVE  \/ /\ row.req = worker[w].req /\ Pending /\ unspent' = FALSE
            /\ row'.state = "CLAIMED" /\ row'.owner = w /\ row'.left = worker[w].left + Margin
            /\ row'.slate = row.slate /\ row'.req = row.req /\ row'.progress = row.progress
            /\ row'.proof = row.proof /\ row'.marked = row.marked /\ row'.past = row.past
            /\ \/ /\ worker'[w].pc = "chunk" /\ worker'[w].req = worker[w].req
                  /\ worker'[w].was = row.progress
               \/ worker'[w].pc = "release"
         \/ /\ row' = row /\ unspent' = unspent
            /\ worker'[w].pc \in {"release", "current"}
<1>0. /\ worker \in [Workers -> WorkerType] /\ worker[w] \in WorkerType
      /\ row \in RowType /\ Margin \in Nat
  BY TimesAssumption DEF TypeOK
<1>1. \A place \in {"release", "current"} : Goes(w, place) => worker'[w].pc = place
  BY <1>0, GoesEffect DEF Places
<1>2. CASE row.req = worker[w].req /\ Pending
  <2> DEFINE left == worker[w].left + Margin
             new == [row EXCEPT !.state = "CLAIMED", !.owner = w, !.left = left]
             mine == [worker[w] EXCEPT !.pc = "chunk", !.was = row.progress, !.next = row.progress]
  <2>1. /\ row' = new /\ unspent' = FALSE
        /\ worker' = [worker EXCEPT ![w] = mine] \/ Goes(w, "release")
    BY <1>2 DEF Claim
  <2> HIDE DEF left
  <2>2. /\ new.state = "CLAIMED" /\ new.owner = w /\ new.left = left
        /\ new.slate = row.slate /\ new.req = row.req /\ new.progress = row.progress
        /\ new.proof = row.proof /\ new.marked = row.marked /\ new.past = row.past
    BY <1>0 DEF RowType
  <2>3. mine.pc = "chunk" /\ mine.req = worker[w].req /\ mine.was = row.progress
    BY <1>0 DEF WorkerType
  <2> HIDE DEF new, mine
  <2>4. worker' = [worker EXCEPT ![w] = mine] => worker'[w] = mine
    BY <1>0
  <2> QED
    BY <1>1, <1>2, <2>1, <2>2, <2>3, <2>4 DEF left
<1>3. CASE ~(row.req = worker[w].req /\ Pending)
  BY <1>1, <1>3 DEF Claim
<1> QED
  BY <1>2, <1>3

\* Whoever works after a step other than the claim worked before, on the same row.
LEMMA WorkGoesOn ==
  ASSUME TypeOK, NEW w \in Workers, WorkerStep(w), ~Claim(w), worker'[w].pc \in Working
  PROVE  /\ worker[w].pc \in Working /\ row' = row /\ worker'[w].left = worker[w].left
         /\ worker'[w].req = worker[w].req /\ worker'[w].was = worker[w].was
<1>0. /\ worker \in [Workers -> WorkerType] /\ worker[w] \in WorkerType
  BY DEF TypeOK
<1>1. ASSUME NEW place \in Working, Goes(w, place)
      PROVE  /\ worker'[w].left = worker[w].left
             /\ worker'[w].req = worker[w].req /\ worker'[w].was = worker[w].was
  BY <1>0, <1>1, GoesEffect DEF Places
<1>2. \A place \in Places : Goes(w, place) => place \in Working
  BY <1>0, GoesEffect
<1>3. CASE StartOwner(w) \/ LookEarly(w) \/ LookLate(w) \/ ServeCurrent(w)
           \/ ServeManually(w) \/ PersistProof(w) \/ Release(w)
  <2>1. worker'[w].pc \notin Working
    <3>1. CASE StartOwner(w)
      <4>1. worker'[w].pc \in {"early", "manual"}
        BY <1>0, <3>1 DEF StartOwner, Idle
      <4> QED
        BY <4>1 DEF Working
    <3>2. CASE LookEarly(w)
      <4> DEFINE new == [worker[w] EXCEPT !.pc = "claim", !.req = row.req, !.carried = TRUE]
      <4>1. Goes(w, "current") \/ worker' = [worker EXCEPT ![w] = new]
        BY <3>2 DEF LookEarly
      <4>2. new.pc = "claim"
        BY <1>0 DEF WorkerType
      <4> HIDE DEF new
      <4> QED
        BY <1>0, <1>2, <4>1, <4>2 DEF Working, Places
    <3>3. CASE LookLate(w)
      <4> DEFINE place == IF ~Pending THEN "release" ELSE IF HasTime(w) THEN "claim" ELSE "prove"
                 req == row.req
                 new == [worker[w] EXCEPT !.req = req, !.carried = FALSE, !.pc = place]
      <4>1. worker' = [worker EXCEPT ![w] = new]
        BY <3>3 DEF LookLate
      <4>2. place \notin Working
        BY DEF Working
      <4> HIDE DEF place, req
      <4>3. new.pc = place
        BY <1>0 DEF WorkerType
      <4> HIDE DEF new
      <4> QED
        BY <1>0, <4>1, <4>2, <4>3
    <3>4. CASE ServeCurrent(w) \/ ServeManually(w) \/ PersistProof(w)
      <4>1. Goes(w, "late") \/ Goes(w, "release")
        BY <3>4 DEF ServeCurrent, ServeManually, PersistProof
      <4> QED
        BY <1>2, <4>1 DEF Working, Places
    <3>5. CASE Release(w)
      <4>1. worker'[w].pc = "idle"
        BY <1>0, <3>5 DEF Release, Idle
      <4> QED
        BY <4>1 DEF Working
    <3> QED
      BY <1>3, <3>1, <3>2, <3>3, <3>4, <3>5
  <2> QED
    BY <2>1
<1>4. CASE ChunkDeferred(w) \/ ChunkRefused(w) \/ ProveComplete(w)
  <2>1. \E place \in Working : Goes(w, place)
    BY <1>4 DEF ChunkDeferred, ChunkRefused, ProveComplete, Working
  <2> QED
    BY <1>1, <1>4, <2>1 DEF ChunkDeferred, ChunkRefused, ProveComplete, Working, At
<1>5. CASE SaveCheckpoint(w) \/ SaveReview(w) \/ SaveComplete(w) \/ Requeue(w)
  <2>1. ~Goes(w, "release")
    BY <1>2 DEF Working, Places
  <2> QED
    BY <1>1, <1>5, <2>1 DEF SaveCheckpoint, SaveReview, SaveComplete, Requeue, Working, At
<1>6. CASE ProcessGame(w) \/ WriteOutcome(w) \/ VerifyGame(w)
  <2> DEFINE new(v) == [worker[w] EXCEPT !.pc = "write", !.value = v]
             saved(q) == [worker[w] EXCEPT !.pc = "save", !.next = q, !.value = "none"]
  <2>1. row' = row /\ worker[w].pc \in Working
    BY <1>6 DEF ProcessGame, WriteOutcome, VerifyGame, At, Working
  <2>2. \/ \E place \in Working : Goes(w, place)
        \/ \E q : Advance(w, q)
        \/ \E v : worker' = [worker EXCEPT ![w] = new(v)]
    BY <1>6 DEF ProcessGame, WriteOutcome, VerifyGame, Working
  <2>3. /\ \A v : /\ new(v).left = worker[w].left /\ new(v).req = worker[w].req
                  /\ new(v).was = worker[w].was
        /\ \A q : /\ saved(q).left = worker[w].left /\ saved(q).req = worker[w].req
                  /\ saved(q).was = worker[w].was
    BY <1>0 DEF WorkerType
  <2>4. \A q : Advance(w, q) => worker' = [worker EXCEPT ![w] = saved(q)]
    BY DEF Advance
  <2> HIDE DEF new, saved
  <2>5. /\ \A v : worker' = [worker EXCEPT ![w] = new(v)] => worker'[w] = new(v)
        /\ \A q : worker' = [worker EXCEPT ![w] = saved(q)] => worker'[w] = saved(q)
    BY <1>0
  <2>6. CASE \E q : Advance(w, q)
    BY <2>1, <2>3, <2>4, <2>5, <2>6
  <2>7. CASE \E v : worker' = [worker EXCEPT ![w] = new(v)]
    BY <2>1, <2>3, <2>5, <2>7
  <2> QED
    BY <1>1, <2>1, <2>2, <2>6, <2>7
<1> QED
  BY <1>3, <1>4, <1>5, <1>6 DEF WorkerStep

\* The claim is its worker's until it gives it back.
LEMMA WorkStep ==
  ASSUME TypeOK, LeaseInv, WorkInv, Next
  PROVE  WorkInv'
<1>0. /\ worker \in [Workers -> WorkerType] /\ RowOK(row) /\ row \in RowType
      /\ Margin \in Nat \ {0}
  BY TimesAssumption DEF TypeOK, RowOK
<1>1. ASSUME NEW w \in Workers, WorkerStep(w) \/ Crash(w), worker'[w].pc \in Working
      PROVE  /\ row'.state = "CLAIMED" /\ row'.req = worker'[w].req /\ row'.owner = w
             /\ row'.left >= worker'[w].left + Margin /\ row'.progress = worker'[w].was
  <2>1. CASE Claim(w)
    <3>1. worker'[w].left = worker[w].left /\ worker[w].left \in Nat
      BY <1>0, <2>1, DeadlineKept DEF WorkerStep, StartOwner, Release, Claim, At, WorkerType
    <3>2. worker'[w].pc \notin {"release", "current"}
      BY <1>1 DEF Working
    <3>3. /\ row'.state = "CLAIMED" /\ row'.owner = w /\ row'.left = worker[w].left + Margin
          /\ row'.req = row.req /\ row'.progress = row.progress /\ row.req = worker[w].req
          /\ worker'[w].req = worker[w].req /\ worker'[w].was = row.progress
      BY <2>1, <3>2, ClaimEffect
    <3> QED
      BY <1>0, <3>1, <3>3
  <2>2. CASE Crash(w)
    BY <1>0, <1>1, <2>2 DEF Crash, Idle, Working
  <2>3. CASE WorkerStep(w) /\ ~Claim(w)
    BY <1>1, <2>3, WorkGoesOn DEF WorkInv, Owns
  <2> QED
    BY <1>1, <2>1, <2>2, <2>3
<1>2. ASSUME NEW w \in Workers, WorkerStep(w) \/ Crash(w) PROVE WorkInv'
  <2>1. \A v \in Workers \ {w} : worker'[v].pc \notin Working
    BY <1>2, OthersRest DEF At, Working
  <2> QED
    BY <1>1, <1>2, <2>1 DEF WorkInv, Owns
<1>3. CASE Tick
  <2> SUFFICES ASSUME NEW w \in Workers, worker'[w].pc \in Working
               PROVE  /\ row'.state = "CLAIMED" /\ row'.req = worker'[w].req /\ row'.owner = w
                      /\ row'.left >= worker'[w].left + Margin /\ row'.progress = worker'[w].was
    BY DEF WorkInv, Owns
  <2>1. /\ worker[w].left > 0 /\ worker'[w].left = worker[w].left - 1 /\ worker[w].left \in Nat
        /\ worker[w].pc \in Working /\ w \notin Killed
        /\ worker'[w].req = worker[w].req /\ worker'[w].was = worker[w].was
    BY <1>0, <1>3, TickWorker DEF Working, WorkerType
  <2>2. Owns(w) /\ row.left >= worker[w].left + Margin /\ row.progress = worker[w].was
        /\ row.left \in Nat
    BY <1>0, <2>1 DEF WorkInv, RowType
  <2> QED
    BY <1>0, <1>3, <2>1, <2>2, TickRow DEF Owns, Less
<1>4. CASE (\E c \in Callers : CallerStep(c)) \/ LiftReview
  BY <1>4, CallersFrame DEF WorkInv, Owns
<1> QED
  BY <1>2, <1>3, <1>4 DEF Next


(***************************************************************************)
(* The checkpoints say what the table says.                                *)
(***************************************************************************)

\* An outcome is written once.
LEMMA OutcomeKept ==
  ASSUME TypeOK, WorkInv, Next, NEW s \in Slates, NEW g \in 1..Games, outcome[s][g] # "none"
  PROVE  outcome'[s][g] = outcome[s][g]
<1>0. outcome \in [Slates -> [1..Games -> Terminals \cup {"none"}]]
  BY DEF TypeOK
<1>1. CASE outcome' = outcome
  BY <1>1
<1>2. ASSUME NEW w \in Workers, WriteOutcome(w), outcome' # outcome
      PROVE  outcome'[s][g] = outcome[s][g]
  <2> DEFINE game == Len(worker[w].was.found) + 1
             value == worker[w].value
             slate == row.slate
  <2>1. outcome' = [outcome EXCEPT ![slate][game] = value] /\ outcome[slate][game] = "none"
    BY <1>2 DEF WriteOutcome, Absent
  <2> HIDE DEF game, value, slate
  <2> QED
    BY <1>0, <2>1
<1> QED
  BY <1>1, <1>2 DEF Next, Tick, LiftReview, CallerStep, AskReplay, AskAcknowledge, PutRequest,
      RecheckRequest, Acknowledge, Confirm, WorkerStep, Crash, StartOwner, LookEarly,
      ServeCurrent, ServeManually, LookLate,
      PersistProof, Claim, ChunkDeferred, ChunkRefused, ProcessGame, VerifyGame,
      ProveComplete, SaveCheckpoint, SaveReview, SaveComplete, Requeue, Release

\* What a progress says of the table stays true.
LEMMA AgreesKept ==
  ASSUME TypeOK, WorkInv, Next, NEW s \in Slates, NEW f \in Found, Agrees(s, f)
  PROVE  AgreesThen(s, f)
<1>1. f \in Seq(Terminals) /\ Len(f) <= Games /\ Len(f) \in Nat /\ DOMAIN f = 1..Len(f)
  BY FoundIsSeq
<1>2. ASSUME NEW g \in DOMAIN f PROVE outcome'[s][g] = f[g]
  <2>1. g \in 1..Games
    BY <1>1, <1>2, GamesAssumption
  <2>2. f[g] \in Terminals /\ outcome[s][g] = f[g]
    BY <1>1, <1>2 DEF Agrees
  <2>3. outcome[s][g] # "none"
    BY <2>2 DEF Terminals
  <2> QED
    BY <2>1, <2>2, <2>3, OutcomeKept
<1> QED
  BY <1>2 DEF AgreesThen

\* Which requests and progress a step leaves in the row.
LEMMA RowEffect ==
  ASSUME TypeOK, Next
  PROVE  \/ /\ row'.slate = row.slate /\ row'.req = row.req /\ row'.progress = row.progress
            /\ row'.state = "NONE" <=> row.state = "NONE"
         \/ \E c \in Callers : /\ PutRequest(c) /\ MayPut(c)
                                /\ row' = QueuedRow(caller[c].slate)
         \/ \E w \in Workers : /\ At(w, "save") /\ Owns(w) /\ row'.state = "QUEUED"
                                /\ row'.slate = row.slate /\ row'.req = row.req
                                /\ row'.progress = worker[w].next
<1>0. /\ RowOK(row) /\ row \in RowType
  BY DEF TypeOK, RowOK
<1>1. CASE row' = row
  BY <1>1
<1>2. CASE Tick
  BY <1>0, <1>2, TickRow
<1>3. ASSUME NEW c \in Callers, PutRequest(c), row' # row
      PROVE  MayPut(c) /\ row' = QueuedRow(caller[c].slate)
  BY <1>3 DEF PutRequest
<1>4. ASSUME NEW c \in Callers, Acknowledge(c), row' # row
      PROVE  /\ row'.slate = row.slate /\ row'.req = row.req /\ row'.progress = row.progress
             /\ row'.state # "NONE" /\ row.state # "NONE"
  <2>1. row.state = "COMPLETED" /\ row' = [row EXCEPT !.state = "ACKNOWLEDGED"]
    BY <1>4 DEF Acknowledge
  <2> QED
    BY <1>0, <2>1 DEF RowType
<1>5. CASE LiftReview
  <2>1. row.state = "REVIEW_REQUIRED" /\ row' = [row EXCEPT !.state = "QUEUED", !.marked = TRUE]
    BY <1>5 DEF LiftReview
  <2> QED
    BY <1>0, <2>1 DEF RowType
<1>6. ASSUME NEW w \in Workers, PersistProof(w) \/ Claim(w) \/ SaveReview(w) \/ SaveComplete(w)
                               \/ Requeue(w) \/ Release(w) \/ Crash(w), row' # row
      PROVE  /\ row'.slate = row.slate /\ row'.req = row.req /\ row'.progress = row.progress
             /\ row'.state = "NONE" <=> row.state = "NONE"
  <2>1. CASE PersistProof(w)
    <3>1. row' = [row EXCEPT !.proof = 0]
      BY <1>6, <2>1 DEF PersistProof
    <3> QED
      BY <1>0, <3>1 DEF RowType
  <2>2. CASE Claim(w)
    BY <1>6, <2>2, ClaimEffect DEF Pending
  <2>3. CASE SaveReview(w) \/ SaveComplete(w) \/ Requeue(w)
    <3>1. Owns(w) /\ \E s \in {"QUEUED", "COMPLETED", "REVIEW_REQUIRED"} : row' = Given(s)
      BY <1>6, <2>3 DEF SaveReview, SaveComplete, Requeue
    <3> QED
      BY <1>0, <3>1, GivenRow DEF Owns
  <2>4. CASE Release(w) \/ Crash(w)
    BY <1>0, <2>4, ForgottenRow DEF Release, Crash
  <2> QED
    BY <1>6, <2>1, <2>2, <2>3, <2>4
<1>7. ASSUME NEW w \in Workers, SaveCheckpoint(w), row' # row
      PROVE  /\ At(w, "save") /\ Owns(w) /\ row'.state = "QUEUED"
             /\ row'.slate = row.slate /\ row'.req = row.req
             /\ row'.progress = worker[w].next
  <2>1. Owns(w) /\ row' = [Given("QUEUED") EXCEPT !.progress = worker[w].next] /\ At(w, "save")
    BY <1>7 DEF SaveCheckpoint
  <2>2. /\ Given("QUEUED") \in RowType /\ Given("QUEUED").state = "QUEUED"
        /\ Given("QUEUED").slate = row.slate /\ Given("QUEUED").req = row.req
    BY <1>0, <2>1, GivenRow DEF Owns, RowOK
  <2> QED
    BY <2>1, <2>2 DEF RowType
<1> QED
  BY <1>1, <1>2, <1>3, <1>4, <1>5, <1>6, <1>7
  DEF Next, CallerStep, AskReplay, AskAcknowledge, RecheckRequest, Confirm,
      WorkerStep, StartOwner, LookEarly, ServeCurrent, ServeManually, LookLate,
      ChunkDeferred, ChunkRefused, ProcessGame, WriteOutcome, VerifyGame, ProveComplete


\* The row's own part.
LEMMA RowAgrees ==
  ASSUME TypeOK, WorkInv, AgreementInv, RequestsInv, Next, row'.state # "NONE"
  PROVE  Agrees(row.slate, row.progress.found)'
<1>0. /\ RowOK(row) /\ row \in RowType /\ row.progress.found \in Found
      /\ worker \in [Workers -> WorkerType]
  BY DEF TypeOK, RowOK, RowType, Progress
<1>1. ASSUME NEW s \in Slates, NEW f \in Found, row'.slate = s, row'.progress.found = f,
             Agrees(s, f)
      PROVE  Agrees(row.slate, row.progress.found)'
  <2>1. AgreesThen(s, f)
    BY <1>1, AgreesKept
  <2> QED
    BY <1>1, <2>1 DEF Agrees, AgreesThen
<1>2. CASE row'.slate = row.slate /\ row'.progress = row.progress /\ row.state # "NONE"
  <2>1. row.slate \in Slates /\ Agrees(row.slate, row.progress.found)
    BY <1>0, <1>2 DEF RowOK, AgreementInv
  <2> QED
    BY <1>0, <1>1, <1>2, <2>1
<1>3. ASSUME NEW c \in Callers, PutRequest(c), row' = QueuedRow(caller[c].slate)
      PROVE  Agrees(row.slate, row.progress.found)'
  <2>1. caller[c].slate \in Slates
    BY <1>3 DEF PutRequest, RequestsInv
  <2>2. row'.progress.found = <<>>
    BY <1>0, <1>3, <2>1, QueuedRowFields, StartProgress
  <2> QED
    BY <2>2 DEF Agrees
<1>4. ASSUME NEW w \in Workers, At(w, "save"), Owns(w), row'.slate = row.slate,
             row'.progress = worker[w].next
      PROVE  Agrees(row.slate, row.progress.found)'
  <2>1. row.slate \in Slates /\ Agrees(row.slate, worker[w].next.found)
    BY <1>0, <1>4 DEF RowOK, Owns, AgreementInv
  <2>2. worker[w].next.found \in Found
    BY <1>0 DEF WorkerType, Progress
  <2> QED
    BY <1>1, <1>4, <2>1, <2>2
<1> QED
  BY <1>2, <1>3, <1>4, RowEffect

\* What a worker at one of these places knows, as a predicate of its record.
KnowsWork(z, s) ==
    /\ z.pc = "write" => ~Processed(z.was) /\ z.value \in Terminals
    /\ z.pc = "complete" => Complete(z.was)
    /\ z.pc = "save" => Agrees(s, z.next.found) /\ (z.next.verified > 0 => Processed(z.next))

\* Before a step that processes or verifies a game.
LEMMA AtChunk ==
  ASSUME TypeOK, WorkInv, AgreementInv, NEW w \in Workers, worker[w].pc \in Working
  PROVE  /\ row.slate \in Slates /\ worker[w].was \in Progress
         /\ Agrees(row.slate, worker[w].was.found)
         /\ worker[w].was.verified > 0 => Processed(worker[w].was)
BY WorkerOwns DEF TypeOK, RowType, AgreementInv

\* One more outcome that the table has.
LEMMA AgreesMore ==
  ASSUME NEW p \in Progress, ~Processed(p), p.verified > 0 => Processed(p), NEW s,
         NEW v \in Terminals, \A g \in 1..Len(p.found) : outcome'[s][g] = p.found[g],
         outcome'[s][Len(p.found) + 1] = v,
         NEW q, q = [p EXCEPT !.found = Append(p.found, v)]
  PROVE  AgreesThen(s, q.found) /\ ~(q.verified > 0)
<1>1. /\ q.verified = p.verified /\ DOMAIN q.found = 1..(Len(p.found) + 1)
      /\ \A g \in 1..Len(p.found) : q.found[g] = p.found[g]
      /\ q.found[Len(p.found) + 1] = v
  BY GrowProgress
<1>2. Len(p.found) \in Nat
  BY FoundIsSeq DEF Progress
<1>3. ASSUME NEW g \in DOMAIN q.found PROVE outcome'[s][g] = q.found[g]
  <2>1. g \in 1..Len(p.found) \/ g = Len(p.found) + 1
    BY <1>1, <1>2, <1>3
  <2> QED
    BY <1>1, <2>1
<1> QED
  BY <1>1, <1>3 DEF AgreesThen


\* What a worker knows after its own step, at the places that rely on it.
LEMMA WorkerKnows ==
  ASSUME TypeOK, WorkInv, AgreementInv, Next, NEW w \in Workers, WorkerStep(w)
  PROVE  KnowsWork(worker[w], row.slate)'
<1>0. /\ worker \in [Workers -> WorkerType] /\ worker[w] \in WorkerType
      /\ outcome \in [Slates -> [1..Games -> Terminals \cup {"none"}]]
      /\ Games \in Nat \ {0}
  BY GamesAssumption DEF TypeOK
<1> SUFFICES ASSUME worker'[w].pc \in {"write", "complete", "save"}
             PROVE  KnowsWork(worker[w], row.slate)'
  BY DEF KnowsWork
<1>1. ~Claim(w)
  BY ClaimEffect
<1>2. /\ worker[w].pc \in Working /\ row' = row /\ worker'[w].was = worker[w].was
  BY <1>1, WorkGoesOn DEF Working
<1>3. /\ row.slate \in Slates /\ worker[w].was \in Progress
      /\ Agrees(row.slate, worker[w].was.found)
      /\ worker[w].was.verified > 0 => Processed(worker[w].was)
  BY <1>2, AtChunk
<1> DEFINE was == worker[w].was
           game == Len(was.found) + 1
           slate == row.slate
<1>4. ASSUME ~Processed(was)
      PROVE  game \in 1..Games
  <2>1. "CANONICAL" \in Terminals
    BY DEF Terminals
  <2> HIDE DEF was
  <2> QED
    BY <1>3, <1>4, <2>1, GrowProgress DEF was
<1>5. ASSUME NEW g \in 1..Len(was.found)
      PROVE  outcome[slate][g] = was.found[g] /\ outcome'[slate][g] = was.found[g]
  <2>1. was.found \in Found /\ DOMAIN was.found = 1..Len(was.found)
    BY <1>3, FoundIsSeq DEF Progress
  <2>2. AgreesThen(slate, was.found)
    BY <1>3, <2>1, AgreesKept
  <2> QED
    BY <1>3, <2>1, <2>2 DEF Agrees, AgreesThen
<1>6. ASSUME NEW v \in Terminals, ~Processed(was), outcome'[slate][game] = v,
             Advance(w, [was EXCEPT !.found = Append(was.found, v)])
      PROVE  KnowsWork(worker[w], row.slate)'
  <2> DEFINE q == [was EXCEPT !.found = Append(was.found, v)]
  <2>1. was \in Progress /\ (was.verified > 0 => Processed(was))
    BY <1>3
  <2>2. Advance(w, q)
    BY <1>6
  <2> HIDE DEF was
  <2>3. q \in Progress
    BY <1>6, <2>1, GrowProgress
  <2>4. AgreesThen(slate, q.found) /\ ~(q.verified > 0)
    <3> HIDE DEF slate
    <3>1. \A g \in 1..Len(was.found) : outcome'[slate][g] = was.found[g]
      BY <1>5 DEF was
    <3>2. outcome'[slate][Len(was.found) + 1] = v
      BY <1>6
    <3> QED
      BY <1>6, <2>1, <3>1, <3>2, AgreesMore
  <2> HIDE DEF q
  <2>5. worker'[w].pc = "save" /\ worker'[w].next = q
    BY <1>0, <2>2, <2>3, AdvanceEffect
  <2> QED
    BY <1>2, <2>4, <2>5 DEF KnowsWork, Agrees, AgreesThen
<1>7. CASE ProcessGame(w)
  <2>1. ~Processed(was)
    BY <1>7 DEF ProcessGame
  <2>2. CASE Absent(slate, game)
    <3>1. PICK v \in {"NO_PREDICTION", "QUARANTINE"} :
            worker' = [worker EXCEPT ![w] = [worker[w] EXCEPT !.pc = "write", !.value = v]]
      BY <1>7, <2>2 DEF ProcessGame
    <3>2. worker'[w].pc = "write" /\ worker'[w].value = v
      BY <1>0, <3>1 DEF WorkerType
    <3> QED
      BY <1>2, <2>1, <3>2 DEF KnowsWork, Terminals, Processed
  <2>3. CASE ~Absent(slate, game)
    <3> DEFINE v == OfSlate(game)
    <3>1. v \in Terminals /\ outcome[slate][game] = v /\ v # "none"
      BY <1>0, <1>3, <1>4, <2>1, <2>3 DEF OfSlate, Absent
    <3>2. outcome'[slate][game] = v
      BY <1>3, <1>4, <2>1, <3>1, OutcomeKept
    <3>3. Advance(w, [was EXCEPT !.found = Append(was.found, v)])
      BY <1>7, <2>3 DEF ProcessGame
    <3> QED
      BY <1>6, <2>1, <3>1, <3>2, <3>3
  <2> QED
    BY <2>2, <2>3
<1>8. CASE WriteOutcome(w)
  <2> DEFINE v == worker[w].value
  <2>1. ~Processed(was) /\ v \in Terminals
    BY <1>8 DEF WriteOutcome, AgreementInv
  <2>2. CASE Absent(slate, game)
    <3>1. /\ outcome' = [outcome EXCEPT ![slate][game] = v]
          /\ Advance(w, [was EXCEPT !.found = Append(was.found, v)])
      BY <1>8, <2>2 DEF WriteOutcome
    <3>2. game \in 1..Games /\ slate \in Slates
      BY <1>3, <1>4, <2>1
    <3>3. outcome'[slate][game] = v
      <4> HIDE DEF slate, game, v
      <4> QED
        BY <1>0, <3>1, <3>2
    <3> QED
      BY <1>6, <2>1, <3>1, <3>3
  <2>3. CASE ~Absent(slate, game)
    <3>1. Goes(w, "requeue")
      BY <1>8, <2>3 DEF WriteOutcome
    <3> QED
      BY <1>0, <3>1, GoesEffect DEF Places, Working
  <2> QED
    BY <2>2, <2>3
<1>9. CASE VerifyGame(w)
  <2> DEFINE q == [was EXCEPT !.verified = was.verified + 1]
  <2>1. Goes(w, "review") \/ Advance(w, q)
    BY <1>9 DEF VerifyGame
  <2>2. Processed(was) /\ was.verified < Games
    BY <1>9 DEF VerifyGame
  <2>3. was.verified + 1 \in 0..Games
    BY <1>0, <1>3, <2>2 DEF Progress
  <2>4. q \in Progress /\ q.found = was.found
    BY <1>3, <2>3 DEF Progress
  <2>5. ~Goes(w, "review")
    BY <1>0, GoesEffect DEF Places, Working
  <2> HIDE DEF q
  <2>6. worker'[w].pc = "save" /\ worker'[w].next = q
    BY <1>0, <2>1, <2>4, <2>5, AdvanceEffect
  <2>7. AgreesThen(slate, q.found)
    BY <1>3, <2>4, AgreesKept DEF Progress
  <2> QED
    BY <1>2, <2>2, <2>4, <2>6, <2>7 DEF KnowsWork, Agrees, AgreesThen, Processed
<1>10. CASE ProveComplete(w)
  <2>1. Complete(was) /\ (Goes(w, "complete") \/ Goes(w, "review"))
    BY <1>10 DEF ProveComplete
  <2>2. worker'[w].pc \in {"complete", "review"}
    BY <1>0, <2>1, GoesEffect DEF Places, Working
  <2> QED
    BY <1>2, <2>1, <2>2 DEF KnowsWork, Complete, Processed
<1>11. CASE ChunkDeferred(w) \/ ChunkRefused(w) \/ SaveCheckpoint(w) \/ SaveReview(w)
            \/ SaveComplete(w) \/ Requeue(w)
  <2>1. \E place \in {"requeue", "review", "release"} : Goes(w, place)
    BY <1>11 DEF ChunkDeferred, ChunkRefused, SaveCheckpoint, SaveReview, SaveComplete, Requeue
  <2> QED
    BY <1>0, <2>1, GoesEffect DEF Places, Working
<1> QED
  BY <1>1, <1>2, <1>7, <1>8, <1>9, <1>10, <1>11
  DEF WorkerStep, StartOwner, LookEarly, LookLate, ServeCurrent, ServeManually, PersistProof,
      Release, At, Working

\* A step keeps the checkpoints in agreement with the table.
LEMMA AgreementStep ==
  ASSUME TypeOK, LeaseInv, WorkInv, AgreementInv, RequestsInv, Next
  PROVE  AgreementInv'
<1>0. worker \in [Workers -> WorkerType] /\ worker' \in [Workers -> WorkerType]
  BY WorkersTyped DEF TypeOK
<1>1. row'.state # "NONE" => Agrees(row.slate, row.progress.found)'
  BY RowAgrees
<1>2. ASSUME NEW w \in Workers PROVE KnowsWork(worker[w], row.slate)
  BY DEF AgreementInv, KnowsWork, At
<1>3. ASSUME NEW w \in Workers PROVE KnowsWork(worker[w], row.slate)'
  <2>1. CASE worker'[w].pc \notin {"write", "complete", "save"}
    BY <2>1 DEF KnowsWork
  <2>2. ASSUME NEW v \in Workers, WorkerStep(v) \/ Crash(v)
        PROVE  KnowsWork(worker[w], row.slate)'
    <3>1. CASE v = w /\ WorkerStep(w)
      BY <3>1, WorkerKnows
    <3>2. CASE v = w /\ Crash(w)
      <4>1. worker'[w].pc = "idle"
        BY <1>0, <3>2 DEF Crash, Idle
      <4> QED
        BY <2>1, <4>1
    <3>3. CASE v # w
      <4>1. worker'[w].pc = "idle"
        BY <2>2, <3>3, OthersRest DEF At
      <4> QED
        BY <2>1, <4>1
    <3> QED
      BY <2>2, <3>1, <3>2, <3>3
  <2>3. CASE worker[w].pc \in Working /\ row'.slate = row.slate /\ outcome' = outcome
             /\ worker'[w].pc = worker[w].pc /\ worker'[w].was = worker[w].was
             /\ worker'[w].next = worker[w].next /\ worker'[w].value = worker[w].value
    BY <1>2, <2>3 DEF KnowsWork, Agrees, Complete, Processed
  <2>4. CASE Tick
    <3>1. row'.slate = row.slate /\ outcome' = outcome
      BY <2>4, TickRow DEF TypeOK, RowOK, Tick
    <3> QED
      BY <2>1, <2>3, <2>4, <3>1, TickWorker DEF Working
  <2>5. CASE (\E c \in Callers : CallerStep(c)) \/ LiftReview
    <3>1. worker' = worker /\ outcome' = outcome
          /\ (worker[w].pc \in Working => row' = row)
      BY <2>5, CallersFrame, WorkerOwns
    <3> QED
      BY <2>1, <2>3, <3>1 DEF Working
  <2> QED
    BY <2>2, <2>4, <2>5 DEF Next
<1> QED
  BY <1>1, <1>3 DEF AgreementInv, KnowsWork, At


(***************************************************************************)
(* Requests are numbered, and the row moves on only after an               *)
(* acknowledgement.                                                        *)
(***************************************************************************)

\* What a caller z remembers of the row x.
CallerKnows(z, x) ==
    /\ z.pc = "put" => z.slate \in Slates
    /\ z.pc \in {"recheck", "acknowledge", "confirm"} =>
         z.req \in 1..x.req /\ (z.req = x.req => z.slate = x.slate)

\* Acknowledging is the callers' alone.
LEMMA AcknowledgedBefore ==
  ASSUME TypeOK, Next, row'.state = "ACKNOWLEDGED"
  PROVE  \/ row.state = "ACKNOWLEDGED"
         \/ \E c \in Callers : Acknowledge(c) /\ row'.req = row.req /\ acked' = acked \cup {row.req}
<1>0. /\ RowOK(row) /\ row \in RowType
  BY DEF TypeOK, RowOK
<1>1. CASE row' = row
  BY <1>1
<1>2. CASE Tick
  BY <1>0, <1>2, TickRow
<1>3. ASSUME NEW c \in Callers, PutRequest(c), row' # row PROVE FALSE
  <2>1. row'.state = "QUEUED"
    BY <1>3 DEF PutRequest, QueuedRow, NoRow
  <2> QED
    BY <2>1
<1>4. ASSUME NEW c \in Callers, Acknowledge(c), row' # row
      PROVE  row'.req = row.req /\ acked' = acked \cup {row.req}
  <2>1. row' = [row EXCEPT !.state = "ACKNOWLEDGED"] /\ acked' = acked \cup {row.req}
    BY <1>4 DEF Acknowledge
  <2> QED
    BY <1>0, <2>1 DEF RowType
<1>5. CASE LiftReview
  BY <1>0, <1>5 DEF LiftReview, RowType
<1>6. ASSUME NEW w \in Workers, PersistProof(w) \/ Claim(w) \/ SaveReview(w) \/ SaveComplete(w)
                               \/ Requeue(w) \/ Release(w) \/ Crash(w), row' # row
      PROVE  row.state = "ACKNOWLEDGED"
  <2>1. CASE PersistProof(w)
    <3>1. row' = [row EXCEPT !.proof = 0]
      BY <1>6, <2>1 DEF PersistProof
    <3> QED
      BY <1>0, <3>1 DEF RowType
  <2>2. CASE Claim(w)
    BY <1>6, <2>2, ClaimEffect
  <2>3. CASE SaveReview(w) \/ SaveComplete(w) \/ Requeue(w)
    <3>1. Owns(w) /\ \E s \in {"QUEUED", "COMPLETED", "REVIEW_REQUIRED"} : row' = Given(s)
      BY <1>6, <2>3 DEF SaveReview, SaveComplete, Requeue
    <3> QED
      BY <1>0, <3>1, GivenRow DEF Owns
  <2>4. CASE Release(w) \/ Crash(w)
    BY <1>0, <2>4, ForgottenRow DEF Release, Crash
  <2> QED
    BY <1>6, <2>1, <2>2, <2>3, <2>4
<1>7. ASSUME NEW w \in Workers, SaveCheckpoint(w), row' # row PROVE FALSE
  <2>1. Owns(w) /\ row' = [Given("QUEUED") EXCEPT !.progress = worker[w].next]
    BY <1>7 DEF SaveCheckpoint
  <2>2. Given("QUEUED") \in RowType /\ Given("QUEUED").state = "QUEUED"
    BY <1>0, <2>1, GivenRow DEF Owns, RowOK
  <2> QED
    BY <2>1, <2>2 DEF RowType
<1> QED
  BY <1>1, <1>2, <1>3, <1>4, <1>5, <1>6, <1>7
  DEF Next, CallerStep, AskReplay, AskAcknowledge, RecheckRequest, Confirm,
      WorkerStep, StartOwner, LookEarly, ServeCurrent, ServeManually, LookLate,
      ChunkDeferred, ChunkRefused, ProcessGame, WriteOutcome, VerifyGame, ProveComplete

\* An acknowledgement is never taken back.
LEMMA AckedGrows ==
  ASSUME Next
  PROVE  acked \subseteq acked'
<1>1. ASSUME NEW c \in Callers, CallerStep(c) PROVE acked \subseteq acked'
  BY <1>1 DEF CallerStep, AskReplay, AskAcknowledge, PutRequest, RecheckRequest, Acknowledge,
              Confirm, history
<1> QED
  BY <1>1, WorkersFrame DEF Next, Tick, LiftReview, history

\* What any caller remembers stays true of the row.
LEMMA KnownKept ==
  ASSUME TypeOK, RequestsInv, Next, NEW z \in CallerType, CallerKnows(z, row)
  PROVE  CallerKnows(z, row')
<1>0. RowOK(row) /\ row.req \in Nat /\ z.req \in Nat
  BY DEF TypeOK, RowOK, RowType, CallerType
<1>1. CASE row'.slate = row.slate /\ row'.req = row.req
  BY <1>1 DEF CallerKnows
<1>2. ASSUME NEW c \in Callers, PutRequest(c), row' = QueuedRow(caller[c].slate)
      PROVE  CallerKnows(z, row')
  <2>1. row'.req = row.req + 1
    BY <1>0, <1>2, QueuedRowFields DEF PutRequest, RequestsInv
  <2> QED
    BY <1>0, <2>1 DEF CallerKnows
<1> QED
  BY <1>1, <1>2, RowEffect

\* What a caller learns in its own step is true.
LEMMA OwnKnown ==
  ASSUME TypeOK, RequestsInv, Next, NEW c \in Callers, CallerStep(c)
  PROVE  CallerKnows(caller'[c], row')
<1>0. /\ caller \in [Callers -> CallerType] /\ caller[c] \in CallerType
      /\ RowOK(row) /\ row \in RowType /\ row.req \in Nat
      /\ CallerKnows(caller[c], row)
  BY DEF TypeOK, RowOK, RowType, RequestsInv, CallerKnows, Calling
<1>1. ASSUME Hangs(c) PROVE CallerKnows(caller'[c], row')
  <2>1. caller'[c].pc = "idle"
    BY <1>0, <1>1 DEF Hangs, Quiet
  <2> QED
    BY <2>1 DEF CallerKnows
<1>2. ASSUME NEW place, NEW s, NEW r, GoesOn(c, place, s, r)
      PROVE  caller'[c].pc = place /\ caller'[c].slate = s /\ caller'[c].req = r
  BY <1>0, <1>2 DEF GoesOn
<1>3. CASE AskReplay(c)
  <2>1. \/ \E s \in Slates : \E r : GoesOn(c, "put", s, r)
        \/ row.state # "NONE" /\ GoesOn(c, "acknowledge", row.slate, row.req) /\ row' = row
    BY <1>3 DEF AskReplay
  <2> QED
    BY <1>0, <1>2, <2>1 DEF CallerKnows, RowOK
<1>4. CASE AskAcknowledge(c)
  <2>1. row.state # "NONE" /\ GoesOn(c, "acknowledge", row.slate, row.req) /\ row' = row
    BY <1>4 DEF AskAcknowledge
  <2> QED
    BY <1>0, <1>2, <2>1 DEF CallerKnows, RowOK
<1>5. CASE PutRequest(c)
  <2>1. \/ Hangs(c)
        \/ /\ row' = QueuedRow(caller[c].slate) /\ caller[c].slate \in Slates
           /\ GoesOn(c, "recheck", caller[c].slate, row.req + 1)
    BY <1>5 DEF PutRequest, RequestsInv
  <2>2. CASE ~Hangs(c)
    <3>1. row'.req = row.req + 1 /\ row'.slate = caller[c].slate
      BY <1>0, <2>1, <2>2, QueuedRowFields
    <3>2. /\ caller'[c].pc = "recheck" /\ caller'[c].slate = caller[c].slate
          /\ caller'[c].req = row.req + 1
      BY <1>2, <2>1, <2>2
    <3> QED
      BY <1>0, <3>1, <3>2 DEF CallerKnows
  <2> QED
    BY <1>1, <2>2
<1>6. CASE RecheckRequest(c) \/ Acknowledge(c) \/ Confirm(c)
  <2>1. /\ caller[c].pc \in {"recheck", "acknowledge", "confirm"}
        /\ \/ Hangs(c)
           \/ \E place \in {"acknowledge", "confirm"} : GoesOn(c, place, caller[c].slate, caller[c].req)
    BY <1>6 DEF RecheckRequest, Acknowledge, Confirm, Calling
  <2>2. CallerKnows(caller[c], row')
    BY <1>0, KnownKept
  <2> QED
    BY <1>1, <1>2, <2>1, <2>2 DEF CallerKnows
<1> QED
  BY <1>3, <1>4, <1>5, <1>6 DEF CallerStep

\* A step keeps the requests in order.
LEMMA RequestsStep ==
  ASSUME TypeOK, RequestsInv, Next
  PROVE  RequestsInv'
<1>0. /\ RowOK(row) /\ row.req \in Nat /\ caller \in [Callers -> CallerType]
      /\ acked \subseteq acked'
  BY AckedGrows DEF TypeOK, RowOK, RowType
<1>1. ASSUME NEW c \in Callers, PutRequest(c), MayPut(c), row' = QueuedRow(caller[c].slate)
      PROVE  /\ row'.state = "QUEUED" /\ row'.req = row.req + 1
             /\ row.req = 0 \/ row.req \in acked
  <2>1. row'.state = "QUEUED" /\ row'.req = row.req + 1
    BY <1>0, <1>1, QueuedRowFields DEF PutRequest, RequestsInv
  <2> QED
    BY <1>1, <2>1 DEF MayPut, Replaceable, RequestsInv
<1>2. row'.state = "NONE" => row'.req = 0
  BY <1>1, RowEffect DEF RequestsInv
<1>3. row'.state = "ACKNOWLEDGED" => row'.req \in acked'
  <2>1. CASE row.state = "ACKNOWLEDGED" /\ row'.state = "ACKNOWLEDGED"
    BY <1>0, <1>1, <2>1, RowEffect DEF RequestsInv
  <2> QED
    BY <2>1, AcknowledgedBefore
<1>4. NoRequestLost'
  <2>1. \A r \in 1..(row.req - 1) : r \in acked'
    BY <1>0 DEF RequestsInv, NoRequestLost
  <2>2. CASE row'.req = row.req
    BY <2>1, <2>2 DEF NoRequestLost
  <2>3. CASE row'.req = row.req + 1 /\ (row.req = 0 \/ row.req \in acked)
    BY <1>0, <2>1, <2>3 DEF NoRequestLost
  <2> QED
    BY <1>1, <2>2, <2>3, RowEffect
<1>5. ASSUME NEW c \in Callers PROVE CallerKnows(caller'[c], row')
  <2>1. caller[c] \in CallerType /\ CallerKnows(caller[c], row)
    BY <1>0 DEF RequestsInv, CallerKnows, Calling
  <2>2. CASE caller'[c] = caller[c]
    BY <2>1, <2>2, KnownKept
  <2>3. CASE CallerStep(c)
    BY <2>3, OwnKnown
  <2>4. ASSUME NEW d \in Callers, d # c, CallerStep(d) PROVE caller'[c] = caller[c]
    BY <1>0, <2>4 DEF CallerStep, AskReplay, AskAcknowledge, PutRequest, RecheckRequest,
       Acknowledge, Confirm, Hangs, GoesOn
  <2> QED
    BY <2>2, <2>3, <2>4, WorkersFrame DEF Next, Tick, LiftReview
<1> QED
  BY <1>2, <1>3, <1>4, <1>5 DEF RequestsInv, CallerKnows, Calling


(***************************************************************************)
(* The row's mark says whether the review was lifted; it is never lost.    *)
(***************************************************************************)

\* Only the lifting of the review changes the mark, and a new request carries it over.
LEMMA MarkKept ==
  ASSUME TypeOK, RequestsInv, Next, ~LiftReview
  PROVE  /\ lifted' = lifted
         /\ (row'.marked \/ row'.past) <=> (row.marked \/ row.past)
<1>0. /\ RowOK(row) /\ row \in RowType
  BY DEF TypeOK, RowOK
<1>1. lifted' = lifted
  <2>1. ASSUME NEW c \in Callers, CallerStep(c) PROVE lifted' = lifted
    BY <2>1 DEF CallerStep, AskReplay, AskAcknowledge, PutRequest, RecheckRequest, Acknowledge,
                Confirm, history
  <2> QED
    BY <2>1, WorkersFrame DEF Next, Tick, history
<1>2. CASE row' = row
  BY <1>1, <1>2
<1>3. CASE Tick
  BY <1>0, <1>1, <1>3, TickRow
<1>4. ASSUME NEW c \in Callers, PutRequest(c), row' # row
      PROVE  (row'.marked \/ row'.past) <=> (row.marked \/ row.past)
  <2>1. caller[c].slate \in Slates /\ row' = QueuedRow(caller[c].slate)
    BY <1>4 DEF PutRequest, RequestsInv
  <2>2. row'.marked = FALSE /\ row'.past = Carried
    BY <1>0, <2>1, QueuedRowFields
  <2>3. row.marked \in BOOLEAN /\ row.past \in BOOLEAN
    BY <1>0 DEF RowType
  <2> QED
    BY <2>2, <2>3 DEF Carried
<1>5. ASSUME NEW c \in Callers, Acknowledge(c), row' # row
      PROVE  row'.marked = row.marked /\ row'.past = row.past
  <2>1. row' = [row EXCEPT !.state = "ACKNOWLEDGED"]
    BY <1>5 DEF Acknowledge
  <2> QED
    BY <1>0, <2>1 DEF RowType
<1>6. ASSUME NEW w \in Workers, WorkerStep(w) \/ Crash(w), row' # row
      PROVE  row'.marked = row.marked /\ row'.past = row.past
  <2>1. CASE PersistProof(w)
    <3>1. row' = [row EXCEPT !.proof = 0]
      BY <1>6, <2>1 DEF PersistProof
    <3> QED
      BY <1>0, <3>1 DEF RowType
  <2>2. CASE Claim(w)
    BY <1>6, <2>2, ClaimEffect
  <2>3. CASE SaveCheckpoint(w)
    <3>1. Owns(w) /\ row' = [Given("QUEUED") EXCEPT !.progress = worker[w].next]
      BY <1>6, <2>3 DEF SaveCheckpoint
    <3>2. /\ Given("QUEUED") \in RowType
          /\ Given("QUEUED").marked = row.marked /\ Given("QUEUED").past = row.past
      BY <1>0, <3>1, GivenRow DEF Owns, RowOK
    <3> QED
      BY <3>1, <3>2 DEF RowType
  <2>4. CASE SaveReview(w) \/ SaveComplete(w) \/ Requeue(w)
    <3>1. Owns(w) /\ \E s \in {"QUEUED", "COMPLETED", "REVIEW_REQUIRED"} : row' = Given(s)
      BY <1>6, <2>4 DEF SaveReview, SaveComplete, Requeue
    <3> QED
      BY <1>0, <3>1, GivenRow DEF Owns
  <2>5. CASE Release(w) \/ Crash(w)
    BY <1>0, <2>5, ForgottenRow DEF Release, Crash
  <2> QED
    BY <1>6, <2>1, <2>2, <2>3, <2>4, <2>5
    DEF WorkerStep, StartOwner, LookEarly, ServeCurrent, ServeManually, LookLate,
        ChunkDeferred, ChunkRefused, ProcessGame, WriteOutcome, VerifyGame, ProveComplete
<1> QED
  BY <1>1, <1>2, <1>3, <1>4, <1>5, <1>6
  DEF Next, CallerStep, AskReplay, AskAcknowledge, RecheckRequest, Confirm

\* A step keeps the count of lifted reviews what the row says it is.
LEMMA ReviewStep ==
  ASSUME TypeOK, RequestsInv, ReviewInv, Next
  PROVE  ReviewInv'
<1>1. CASE LiftReview
  <2>1. ~row.marked /\ ~row.past /\ lifted' = lifted + 1
        /\ row' = [row EXCEPT !.state = "QUEUED", !.marked = TRUE]
    BY <1>1 DEF LiftReview
  <2>2. row'.marked = TRUE
    BY <2>1 DEF TypeOK, RowType
  <2> QED
    BY <2>1, <2>2 DEF ReviewInv
<1>2. CASE ~LiftReview
  BY <1>2, MarkKept DEF ReviewInv
<1> QED
  BY <1>1, <1>2

(***************************************************************************)
(* A proof of the current slate does not survive a claim.                  *)
(***************************************************************************)

\* What the row says of the current slate.
Fresh == ~unspent => row.proof + row.left > ProofMaxAge

\* What an invocation z knows of it.
ServedOnce(z) ==
    /\ z.pc \in {"late", "prove", "claim"} => unspent
    /\ z.pc = "claim" => row.proof + z.left + Margin > ProofMaxAge

\* Without time and without a claim, what is fresh stays so.
LEMMA FreshRow ==
  ASSUME TypeOK, WorkInv, RequestsInv, FreshInv, Next
  PROVE  Fresh'
<1>0. /\ RowOK(row) /\ row \in RowType
      /\ row.proof \in 0..Stale /\ row.left \in Nat /\ unspent \in BOOLEAN
      /\ Stale = ProofMaxAge + 1 /\ ProofMaxAge \in Nat /\ Margin \in Nat
      /\ worker \in [Workers -> WorkerType] /\ Fresh
  BY TimesAssumption DEF TypeOK, RowOK, RowType, Stale, FreshInv, Fresh
<1>1. CASE row' = row /\ (unspent' = unspent \/ unspent' = TRUE)
  BY <1>0, <1>1 DEF Fresh
<1>2. CASE Tick
  <2>1. /\ row'.left = Less(row.left) /\ unspent' = unspent
        /\ row'.proof = IF row.proof < Stale THEN row.proof + 1 ELSE row.proof
    BY <1>0, <1>2, TickRow DEF Tick, history
  <2> QED
    BY <1>0, <2>1 DEF Less, Fresh
<1>3. CASE row'.proof = Stale /\ row'.left \in Nat
  BY <1>0, <1>3 DEF Fresh
<1>4. ASSUME NEW c \in Callers, PutRequest(c), row' # row PROVE Fresh'
  <2>1. caller[c].slate \in Slates /\ row' = QueuedRow(caller[c].slate)
    BY <1>4 DEF PutRequest, RequestsInv
  <2> QED
    BY <1>0, <1>3, <2>1, QueuedRowFields DEF RowOK, RowType
<1>5. CASE row'.proof = row.proof /\ row'.left = row.left /\ unspent' = unspent
  BY <1>0, <1>5 DEF Fresh
<1>6. ASSUME NEW c \in Callers, Acknowledge(c), row' # row PROVE Fresh'
  <2>1. row' = [row EXCEPT !.state = "ACKNOWLEDGED"] /\ unspent' = unspent
    BY <1>6 DEF Acknowledge
  <2> QED
    BY <1>0, <1>5, <2>1 DEF RowType
<1>7. CASE LiftReview
  <2>1. row' = [row EXCEPT !.state = "QUEUED", !.marked = TRUE] /\ unspent' = unspent
    BY <1>7 DEF LiftReview
  <2> QED
    BY <1>0, <1>5, <2>1 DEF RowType
<1>08. ASSUME NEW w \in Workers, Claim(w) PROVE Fresh'
  <2>1. CASE row' = row /\ unspent' = unspent
    BY <1>1, <2>1
  <2>2. CASE row'.proof = row.proof /\ row'.left = worker[w].left + Margin
    <3>1. row.proof + worker[w].left + Margin > ProofMaxAge /\ worker[w].left \in Nat
      BY <1>0, <1>08 DEF Claim, FreshInv, WorkerType
    <3> QED
      BY <1>0, <2>2, <3>1 DEF Fresh
  <2> QED
    BY <1>08, <2>1, <2>2, ClaimEffect
<1>8. ASSUME NEW w \in Workers, WorkerStep(w) \/ Crash(w), row' # row PROVE Fresh'
  <2>1. CASE PersistProof(w)
    BY <1>0, <2>1 DEF PersistProof, FreshInv, At, history, Fresh
  <2>2. CASE Claim(w)
    BY <1>08, <2>2
  <2>3. CASE SaveCheckpoint(w)
    <3>1. Owns(w) /\ row' = [Given("QUEUED") EXCEPT !.progress = worker[w].next]
      BY <1>8, <2>3 DEF SaveCheckpoint
    <3>2. /\ Given("QUEUED") \in RowType
          /\ Given("QUEUED").proof = Stale /\ Given("QUEUED").left = 0
      BY <1>0, <3>1, GivenRow DEF Owns, RowOK
    <3>3. row'.proof = Stale /\ row'.left = 0
      BY <3>1, <3>2 DEF RowType
    <3> QED
      BY <1>3, <3>3
  <2>4. CASE SaveReview(w) \/ SaveComplete(w) \/ Requeue(w)
    <3>1. Owns(w) /\ \E s \in {"QUEUED", "COMPLETED", "REVIEW_REQUIRED"} : row' = Given(s)
      BY <1>8, <2>4 DEF SaveReview, SaveComplete, Requeue
    <3>2. row'.proof = Stale /\ row'.left = 0
      BY <1>0, <3>1, GivenRow DEF Owns
    <3> QED
      BY <1>3, <3>2
  <2>5. CASE Release(w) \/ Crash(w)
    BY <1>0, <1>5, <2>5, ForgottenRow DEF Release, Crash, history
  <2> QED
    BY <1>8, <2>1, <2>2, <2>3, <2>4, <2>5
    DEF WorkerStep, StartOwner, LookEarly, ServeCurrent, ServeManually, LookLate,
        ChunkDeferred, ChunkRefused, ProcessGame, WriteOutcome, VerifyGame, ProveComplete
<1>9. row' = row => unspent' = unspent \/ unspent' = TRUE \/ \E w \in Workers : Claim(w)
  BY DEF Next, Tick, LiftReview, CallerStep, AskReplay, AskAcknowledge, PutRequest,
      RecheckRequest, Acknowledge, Confirm, WorkerStep, Crash, StartOwner, LookEarly,
      ServeCurrent, ServeManually, LookLate, PersistProof, ChunkDeferred, ChunkRefused,
      ProcessGame, WriteOutcome, VerifyGame, ProveComplete, SaveCheckpoint, SaveReview,
      SaveComplete, Requeue, Release, history
<1> QED
  BY <1>1, <1>2, <1>4, <1>6, <1>7, <1>08, <1>8, <1>9
  DEF Next, CallerStep, AskReplay, AskAcknowledge, RecheckRequest, Confirm


\* An invocation that is about to claim has served the current slate, or found
\* a proof that will be too old when its claim has lapsed.
LEMMA OwnServed ==
  ASSUME TypeOK, WorkInv, FreshInv, NEW w \in Workers, WorkerStep(w)
  PROVE  ServedOnce(worker[w])'
<1>0. /\ RowOK(row) /\ row \in RowType
      /\ row.proof \in 0..Stale /\ row.left \in Nat /\ unspent \in BOOLEAN
      /\ Stale = ProofMaxAge + 1 /\ ProofMaxAge \in Nat /\ Margin \in Nat
      /\ MinRemaining \in Nat /\ ProofMaxAge < MinRemaining + Margin
      /\ worker \in [Workers -> WorkerType] /\ worker[w] \in WorkerType
  BY TimesAssumption DEF TypeOK, RowOK, RowType, Stale
<1> SUFFICES ASSUME worker'[w].pc \in {"late", "prove", "claim"}
             PROVE  ServedOnce(worker[w])'
  BY DEF ServedOnce
<1>1. CASE StartOwner(w)
  <2>1. worker'[w].pc \in {"early", "manual"}
    BY <1>0, <1>1 DEF StartOwner, Idle
  <2> QED
    BY <2>1
<1>2. CASE LookEarly(w)
  <2> DEFINE new == [worker[w] EXCEPT !.pc = "claim", !.req = row.req, !.carried = TRUE]
  <2>1. \/ Goes(w, "current")
        \/ /\ worker' = [worker EXCEPT ![w] = new]
           /\ worker[w].left >= MinRemaining /\ Pending /\ row.proof <= ProofMaxAge
    BY <1>2 DEF LookEarly, HasTime
  <2>2. new.left = worker[w].left
    BY <1>0 DEF WorkerType
  <2> HIDE DEF new
  <2>3. ~Goes(w, "current")
    BY <1>0, GoesEffect DEF Places
  <2>4. worker'[w].left = worker[w].left /\ worker[w].left \in Nat
    BY <1>0, <2>1, <2>2, <2>3 DEF WorkerType
  <2>5. row.left = 0
    BY <1>0, <2>1, <2>3 DEF Pending, RowOK
  <2>6. unspent /\ unspent' = unspent /\ row' = row
    BY <1>0, <1>2, <2>1, <2>3, <2>5 DEF FreshInv, LookEarly, history
  <2>7. row.proof + worker[w].left + Margin > ProofMaxAge
    BY <1>0, <2>1, <2>3, <2>4
  <2> QED
    BY <2>4, <2>6, <2>7 DEF ServedOnce
<1>3. CASE LookLate(w)
  <2> DEFINE place == IF ~Pending THEN "release" ELSE IF HasTime(w) THEN "claim" ELSE "prove"
             req == row.req
             new == [worker[w] EXCEPT !.req = req, !.carried = FALSE, !.pc = place]
  <2>1. worker' = [worker EXCEPT ![w] = new] /\ row' = row /\ unspent' = unspent /\ unspent
    BY <1>3 DEF LookLate, history, FreshInv, At
  <2>2. place = "claim" => worker[w].left >= MinRemaining
    BY DEF HasTime
  <2> HIDE DEF place, req
  <2>3. new.left = worker[w].left /\ new.pc = place
    BY <1>0 DEF WorkerType
  <2> HIDE DEF new
  <2>4. worker'[w].left = worker[w].left /\ worker[w].left \in Nat /\ worker'[w].pc = place
    BY <1>0, <2>1, <2>3 DEF WorkerType
  <2> QED
    BY <1>0, <2>1, <2>2, <2>4 DEF ServedOnce
<1>4. CASE ServeCurrent(w)
  <2>1. worker'[w].pc = "late" /\ unspent' = TRUE
    BY <1>0, <1>4, GoesEffect DEF ServeCurrent, Places
  <2> QED
    BY <2>1 DEF ServedOnce
<1>5. CASE ServeManually(w) \/ PersistProof(w)
  <2>1. Goes(w, "release")
    BY <1>5 DEF ServeManually, PersistProof
  <2> QED
    BY <1>0, <2>1, GoesEffect DEF Places
<1>6. CASE Claim(w)
  BY <1>6, ClaimEffect
<1>7. CASE ChunkDeferred(w) \/ ChunkRefused(w) \/ ProveComplete(w)
           \/ SaveCheckpoint(w) \/ SaveReview(w) \/ SaveComplete(w) \/ Requeue(w)
  <2>1. \E place \in {"requeue", "review", "complete", "release"} : Goes(w, place)
    BY <1>7 DEF ChunkDeferred, ChunkRefused, ProveComplete, SaveCheckpoint, SaveReview,
                SaveComplete, Requeue
  <2> QED
    BY <1>0, <2>1, GoesEffect DEF Places, Working
<1>8. CASE ProcessGame(w) \/ WriteOutcome(w) \/ VerifyGame(w)
  <2>1. \/ \E place \in {"requeue", "review"} : Goes(w, place)
        \/ \E p : Advance(w, p)
        \/ \E v : worker' = [worker EXCEPT ![w] = [worker[w] EXCEPT !.pc = "write", !.value = v]]
    BY <1>8 DEF ProcessGame, WriteOutcome, VerifyGame
  <2>2. worker'[w].pc \in {"requeue", "review", "save", "write"}
    <3>1. \A place \in {"requeue", "review"} : Goes(w, place) => worker'[w].pc = place
      BY <1>0, GoesEffect DEF Places, Working
    <3>2. \A p : Advance(w, p) => worker'[w].pc = "save"
      BY <1>0 DEF Advance, WorkerType
    <3> DEFINE new(v) == [worker[w] EXCEPT !.pc = "write", !.value = v]
    <3>3. \A v : new(v).pc = "write"
      BY <1>0 DEF WorkerType
    <3> HIDE DEF new
    <3>4. \A v : worker' = [worker EXCEPT ![w] = new(v)] => worker'[w].pc = "write"
      BY <1>0, <3>3
    <3> QED
      BY <2>1, <3>1, <3>2, <3>4 DEF new
  <2> QED
    BY <2>2
<1>9. CASE Release(w)
  <2>1. worker'[w].pc = "idle"
    BY <1>0, <1>9 DEF Release, Idle
  <2> QED
    BY <2>1
<1> QED
  BY <1>1, <1>2, <1>3, <1>4, <1>5, <1>6, <1>7, <1>8, <1>9 DEF WorkerStep

\* A step keeps what row and invocations know of the current slate.
LEMMA FreshStep ==
  ASSUME TypeOK, LeaseInv, WorkInv, AgreementInv, RequestsInv, FreshInv, Next
  PROVE  FreshInv'
<1>0. /\ RowOK(row) /\ row \in RowType /\ row.proof \in 0..Stale
      /\ Stale = ProofMaxAge + 1 /\ ProofMaxAge \in Nat /\ Margin \in Nat \ {0}
      /\ worker \in [Workers -> WorkerType]
  BY TimesAssumption DEF TypeOK, RowOK, RowType, Stale
<1>1. Fresh'
  BY FreshRow
<1>2. ASSUME NEW w \in Workers PROVE ServedOnce(worker[w])'
  <2>0. ServedOnce(worker[w]) /\ worker[w].left \in Nat
    BY <1>0 DEF FreshInv, ServedOnce, At, WorkerType
  <2>1. CASE worker'[w].pc = "idle"
    BY <2>1 DEF ServedOnce
  <2>2. ASSUME NEW v \in Workers, WorkerStep(v) \/ Crash(v) PROVE ServedOnce(worker[w])'
    <3>1. CASE v = w /\ WorkerStep(w)
      BY <3>1, OwnServed
    <3>2. CASE v = w /\ Crash(w)
      BY <1>0, <2>1, <3>2 DEF Crash, Idle
    <3>3. CASE v # w
      BY <2>1, <2>2, <3>3, OthersRest DEF At
    <3> QED
      BY <2>2, <3>1, <3>2, <3>3
  <2>3. CASE Tick
    <3>1. /\ row'.proof = IF row.proof < Stale THEN row.proof + 1 ELSE row.proof
          /\ unspent' = unspent
      BY <1>0, <2>3, TickRow DEF Tick, history
    <3>2. \/ worker'[w].pc = "idle"
          \/ /\ worker[w].left > 0 /\ worker'[w].left = worker[w].left - 1
             /\ worker'[w].pc = worker[w].pc
      BY <2>3, TickWorker
    <3> QED
      BY <1>0, <2>0, <2>1, <3>1, <3>2 DEF ServedOnce
  <2>4. CASE (\E c \in Callers : CallerStep(c)) \/ LiftReview
    <3>1. worker' = worker /\ unspent' = unspent
      BY <2>4, CallersFrame
    <3>2. row'.proof >= row.proof
      <4>1. CASE row' = row
        BY <1>0, <4>1
      <4>2. ASSUME NEW c \in Callers, PutRequest(c), row' # row PROVE row'.proof >= row.proof
        <5>1. caller[c].slate \in Slates /\ row' = QueuedRow(caller[c].slate)
          BY <4>2 DEF PutRequest, RequestsInv
        <5>2. row'.proof = Stale
          BY <1>0, <5>1, QueuedRowFields
        <5> QED
          BY <1>0, <5>2
      <4>3. ASSUME NEW c \in Callers, Acknowledge(c), row' # row PROVE row'.proof = row.proof
        <5>1. row' = [row EXCEPT !.state = "ACKNOWLEDGED"]
          BY <4>3 DEF Acknowledge
        <5> QED
          BY <1>0, <5>1 DEF RowType
      <4>4. CASE LiftReview
        <5>1. row' = [row EXCEPT !.state = "QUEUED", !.marked = TRUE]
          BY <4>4 DEF LiftReview
        <5>2. row'.proof = row.proof
          BY <1>0, <5>1 DEF RowType
        <5> QED
          BY <1>0, <5>2
      <4> QED
        BY <1>0, <2>4, <4>1, <4>2, <4>3, <4>4
        DEF CallerStep, AskReplay, AskAcknowledge, RecheckRequest, Confirm
    <3>3. row'.proof \in Nat
      BY <1>0, RowTyped DEF RowOK, RowType
    <3> QED
      BY <1>0, <2>0, <3>1, <3>2, <3>3 DEF ServedOnce
  <2> QED
    BY <2>2, <2>3, <2>4 DEF Next
<1> QED
  BY <1>1, <1>2 DEF FreshInv, Fresh, ServedOnce, At


(***************************************************************************)
(* What is told, stored and claimed.                                       *)
(***************************************************************************)

\* A step keeps what callers were told true.
LEMMA ToldStep ==
  ASSUME TypeOK, RequestsInv, AcknowledgementsAreTrue, Next
  PROVE  AcknowledgementsAreTrue'
<1>0. acked \subseteq acked' /\ row.req \in Nat
  BY AckedGrows DEF TypeOK, RowType
<1>1. ASSUME NEW c \in Callers, Acknowledge(c) PROVE AcknowledgementsAreTrue'
  BY <1>0, <1>1 DEF Acknowledge, AcknowledgementsAreTrue
<1>2. ASSUME NEW c \in Callers, Confirm(c) PROVE AcknowledgementsAreTrue'
  <2>1. CASE Confirmed(c)
    <3>1. /\ caller[c].req \in 1..row.req
          /\ caller[c].req = row.req => caller[c].slate = row.slate
      BY <1>2 DEF Confirm, Calling, RequestsInv
    <3>2. caller[c].req \in acked
      <4>1. CASE row.slate = caller[c].slate
        BY <2>1, <4>1 DEF Confirmed, RequestsInv
      <4>2. CASE row.slate # caller[c].slate
        <5>1. caller[c].req \in 1..(row.req - 1)
          BY <1>0, <3>1, <4>2
        <5> QED
          BY <5>1 DEF RequestsInv, NoRequestLost
      <4> QED
        BY <4>1, <4>2
    <3> QED
      BY <1>0, <1>2, <3>2 DEF Confirm, AcknowledgementsAreTrue
  <2>2. CASE ~Confirmed(c)
    BY <1>0, <1>2, <2>2 DEF Confirm, AcknowledgementsAreTrue
  <2> QED
    BY <2>1, <2>2
<1>3. CASE told' = told
  BY <1>0, <1>3 DEF AcknowledgementsAreTrue
<1> QED
  BY <1>1, <1>2, <1>3, WorkersFrame
  DEF Next, Tick, LiftReview, CallerStep, AskReplay, AskAcknowledge, PutRequest,
      RecheckRequest, history

\* A step keeps the receipts true.
LEMMA ReceiptsStep ==
  ASSUME TypeOK, WorkInv, AgreementInv, ReceiptsStayTrue, Next
  PROVE  ReceiptsStayTrue'
<1>0. /\ receipts \subseteq [slate : Slates, found : Found] /\ Games \in Nat \ {0}
      /\ worker \in [Workers -> WorkerType]
  BY GamesAssumption DEF TypeOK
<1>1. ASSUME NEW s \in Slates, NEW f \in Found, Agrees(s, f), 1..Games \subseteq DOMAIN f,
             NEW g \in 1..Games
      PROVE  g \in DOMAIN f /\ outcome'[s][g] = f[g]
  BY <1>1, AgreesKept DEF AgreesThen
<1>2. ASSUME NEW x \in receipts, NEW g \in 1..Games
      PROVE  g \in DOMAIN x.found /\ outcome'[x.slate][g] = x.found[g]
  <2>1. x.slate \in Slates /\ x.found \in Found
    BY <1>0, <1>2
  <2>2. 1..Games \subseteq DOMAIN x.found /\ \A h \in 1..Games : outcome[x.slate][h] = x.found[h]
    BY <1>2 DEF ReceiptsStayTrue
  <2>3. DOMAIN x.found \subseteq 1..Games
    BY <1>0, <2>1, FoundIsSeq
  <2>4. Agrees(x.slate, x.found)
    BY <2>2, <2>3 DEF Agrees
  <2> QED
    BY <1>1, <1>2, <2>1, <2>2, <2>4
<1>3. CASE receipts' = receipts
  BY <1>2, <1>3 DEF ReceiptsStayTrue
<1>4. ASSUME NEW w \in Workers, SaveComplete(w), receipts' # receipts
      PROVE  ReceiptsStayTrue'
  <2> DEFINE x == [slate |-> row.slate, found |-> row.progress.found]
  <2>1. receipts' = receipts \cup {x} /\ Owns(w) /\ row.progress = worker[w].was /\ At(w, "complete")
    BY <1>4 DEF SaveComplete
  <2>2. x.slate = row.slate /\ x.found = row.progress.found
    OBVIOUS
  <2> HIDE DEF x
  <2>3. Complete(row.progress)
    BY <2>1 DEF AgreementInv
  <2>4. row.slate \in Slates /\ row.progress.found \in Found /\ Agrees(row.slate, row.progress.found)
    BY <2>1 DEF TypeOK, RowType, Progress, Owns, AgreementInv
  <2>5. 1..Games \subseteq DOMAIN row.progress.found
    BY <2>3, <2>4, FoundIsSeq DEF Complete, Processed
  <2>6. \A g \in 1..Games : g \in DOMAIN x.found /\ outcome'[x.slate][g] = x.found[g]
    BY <1>1, <2>2, <2>4, <2>5
  <2> QED
    BY <1>2, <2>1, <2>6 DEF ReceiptsStayTrue
<1>5. ASSUME NEW c \in Callers, CallerStep(c) PROVE receipts' = receipts
  BY <1>5, CallersFrame
<1> QED
  BY <1>3, <1>4, <1>5
  DEF Next, Tick, LiftReview, WorkerStep, Crash, StartOwner, LookEarly,
      ServeCurrent, ServeManually, LookLate, PersistProof, Claim, ChunkDeferred, ChunkRefused,
      ProcessGame, WriteOutcome, VerifyGame, ProveComplete, SaveCheckpoint, SaveReview,
      Requeue, Release, history

\* Only a claim gives the row an owner, and before it the current slate was served.
LEMMA ClaimIsFresh ==
  ASSUME TypeOK, FreshInv, RequestsInv, Next, NEW w \in Workers, row'.owner = w, row.owner # w
  PROVE  unspent
<1>0. /\ RowOK(row) /\ row \in RowType /\ NoWorker \notin Workers
  BY NoneAssumption DEF TypeOK, RowOK
<1>1. CASE row' = row
  BY <1>1
<1>2. CASE Tick
  BY <1>0, <1>2, TickRow
<1>3. ASSUME NEW c \in Callers, PutRequest(c), row' # row PROVE FALSE
  <2>1. row'.state # "CLAIMED" /\ RowOK(row')
    BY <1>0, <1>3, QueuedRowFields DEF PutRequest, RequestsInv
  <2> QED
    BY <1>0, <2>1 DEF RowOK
<1>4. ASSUME NEW c \in Callers, Acknowledge(c), row' # row PROVE FALSE
  <2>1. row' = [row EXCEPT !.state = "ACKNOWLEDGED"]
    BY <1>4 DEF Acknowledge
  <2> QED
    BY <1>0, <2>1 DEF RowType
<1>5. CASE LiftReview
  BY <1>0, <1>5 DEF LiftReview, RowType
<1>6. ASSUME NEW v \in Workers, WorkerStep(v) \/ Crash(v), row' # row PROVE unspent
  <2>1. CASE PersistProof(v)
    <3>1. row' = [row EXCEPT !.proof = 0]
      BY <1>6, <2>1 DEF PersistProof
    <3> QED
      BY <1>0, <3>1 DEF RowType
  <2>2. CASE Claim(v)
    BY <2>2 DEF Claim, FreshInv, At
  <2>3. CASE SaveCheckpoint(v)
    <3>1. Owns(v) /\ row' = [Given("QUEUED") EXCEPT !.progress = worker[v].next]
      BY <1>6, <2>3 DEF SaveCheckpoint
    <3>2. Given("QUEUED") \in RowType /\ Given("QUEUED").owner = NoWorker
      BY <1>0, <3>1, GivenRow DEF Owns, RowOK
    <3> QED
      BY <1>0, <3>1, <3>2 DEF RowType
  <2>4. CASE SaveReview(v) \/ SaveComplete(v) \/ Requeue(v)
    <3>1. Owns(v) /\ \E s \in {"QUEUED", "COMPLETED", "REVIEW_REQUIRED"} : row' = Given(s)
      BY <1>6, <2>4 DEF SaveReview, SaveComplete, Requeue
    <3> QED
      BY <1>0, <3>1, GivenRow DEF Owns
  <2>5. CASE Release(v) \/ Crash(v)
    BY <1>0, <2>5, ForgottenRow DEF Release, Crash
  <2> QED
    BY <1>6, <2>1, <2>2, <2>3, <2>4, <2>5
    DEF WorkerStep, StartOwner, LookEarly, ServeCurrent, ServeManually, LookLate,
        ChunkDeferred, ChunkRefused, ProcessGame, WriteOutcome, VerifyGame, ProveComplete
<1> QED
  BY <1>1, <1>2, <1>3, <1>4, <1>5, <1>6
  DEF Next, CallerStep, AskReplay, AskAcknowledge, RecheckRequest, Confirm

(***************************************************************************)
(* The invariant and the theorems.                                         *)
(***************************************************************************)

ReplayInv ==
    /\ TypeOK /\ LeaseInv /\ WorkInv /\ AgreementInv
    /\ RequestsInv /\ ReviewInv /\ FreshInv
    /\ AcknowledgementsAreTrue /\ ReceiptsStayTrue

\* The invariant holds at the start.
LEMMA ReplayInit == Init => ReplayInv
<1> SUFFICES ASSUME Init PROVE ReplayInv
  OBVIOUS
<1>0. /\ Stale \in Nat /\ Stale > ProofMaxAge /\ Stale \in 0..Stale /\ Games \in Nat
  BY TimesAssumption, GamesAssumption DEF Stale
<1>1. /\ lease = NoLease /\ row = NoRow /\ worker = [w \in Workers |-> Idle]
      /\ caller = [c \in Callers |-> Quiet] /\ unspent = FALSE /\ receipts = {}
      /\ acked = {} /\ told = {} /\ lifted = 0
      /\ outcome \in [Slates -> [1..Games -> {"none", "CANONICAL"}]]
  BY DEF Init
<1>2. NoRow \in RowType
  <2>1. Start0 \in Progress
    BY StartProgress
  <2> QED
    BY <1>0, <2>1 DEF NoRow, RowType
<1>3. /\ NoRow.state = "NONE" /\ NoRow.req = 0 /\ NoRow.owner = NoWorker /\ NoRow.left = 0
      /\ NoRow.progress = Start0 /\ NoRow.proof = Stale
      /\ NoRow.marked = FALSE /\ NoRow.past = FALSE
  BY DEF NoRow
<1>4. Idle \in WorkerType /\ Idle.pc = "idle"
  <2>1. Start0 \in Progress
    BY StartProgress
  <2> QED
    BY <2>1 DEF Idle, WorkerType, Places
<1>5. Quiet \in CallerType /\ Quiet.pc = "idle"
  BY DEF Quiet, CallerType
<1>6. TypeOK
  <2>1. NoLease \in LeaseType
    BY DEF NoLease, LeaseType
  <2>2. outcome \in [Slates -> [1..Games -> Terminals \cup {"none"}]]
    BY <1>1 DEF Terminals
  <2>3. ~(row.progress.verified > 0)
    <3>1. Start0.verified = 0
      BY StartProgress
    <3> QED
      BY <1>1, <1>3, <3>1
  <2> QED
    BY <1>1, <1>2, <1>3, <1>4, <1>5, <2>1, <2>2, <2>3 DEF TypeOK
<1>7. \A w \in Workers : worker[w].pc = "idle"
  BY <1>1, <1>4
<1>8. \A c \in Callers : caller[c].pc = "idle"
  BY <1>1, <1>5
<1>9. LeaseInv /\ WorkInv /\ AgreementInv
  BY <1>1, <1>3, <1>7 DEF LeaseInv, WorkInv, AgreementInv, At, Working
<1>10. RequestsInv /\ ReviewInv /\ FreshInv
  BY <1>0, <1>1, <1>3, <1>7, <1>8
  DEF RequestsInv, NoRequestLost, ReviewInv, FreshInv, At, Calling
<1> QED
  BY <1>1, <1>6, <1>9, <1>10 DEF ReplayInv, AcknowledgementsAreTrue, ReceiptsStayTrue

\* The invariant is inductive.
LEMMA ReplayStep == ReplayInv /\ [Next]_vars => ReplayInv'
<1>1. CASE ReplayInv /\ Next
  BY <1>1, TypeStep, LeaseStep, WorkStep, AgreementStep, RequestsStep, ReviewStep, FreshStep,
     ToldStep, ReceiptsStep DEF ReplayInv
<1>2. CASE ReplayInv /\ UNCHANGED vars
  BY <1>2 DEF ReplayInv, vars, history, TypeOK, LeaseInv, WorkInv, AgreementInv, Agrees,
     RequestsInv, NoRequestLost, ReviewInv, FreshInv, AcknowledgementsAreTrue, ReceiptsStayTrue,
     At, Calling, Owns
<1> QED
  BY <1>1, <1>2

\* For any invocations, callers, slates and timeouts, every variable keeps its
\* type and no row without a claim has an owner or an expiry.
THEOREM ReplayType == Spec => []TypeOK
<1>1. ReplayInv => TypeOK
  BY DEF ReplayInv
<1> QED
  BY <1>1, ReplayInit, ReplayStep, PTL DEF Spec

\* At most one invocation works on the replay, under the execution lease and on
\* its own claim (_claim_cooperative_replay).
THEOREM OneAtATime == Spec => []OneReplayAtATime
<1>1. ReplayInv => OneReplayAtATime
  BY OneOwner DEF ReplayInv, OneReplayAtATime, WorkInv, Owns, Working, At
<1> QED
  BY <1>1, ReplayInit, ReplayStep, PTL DEF Spec

\* No request leaves the slot before it was acknowledged
\* (_enqueue_or_read_cooperative_replay).
THEOREM RequestsKept == Spec => []NoRequestLost
<1>1. ReplayInv => NoRequestLost
  BY DEF ReplayInv, RequestsInv
<1> QED
  BY <1>1, ReplayInit, ReplayStep, PTL DEF Spec

\* Who is told of an acknowledgement is told the truth
\* (_acknowledge_cooperative_replay).
THEOREM ToldTheTruth == Spec => []AcknowledgementsAreTrue
<1>1. ReplayInv => AcknowledgementsAreTrue
  BY DEF ReplayInv
<1> QED
  BY <1>1, ReplayInit, ReplayStep, PTL DEF Spec

\* A stored receipt names every game with the outcome that is durable, then and
\* ever after (_complete_cooperative_replay).
THEOREM ReceiptsTrue == Spec => []ReceiptsStayTrue
<1>1. ReplayInv => ReceiptsStayTrue
  BY DEF ReplayInv
<1> QED
  BY <1>1, ReplayInit, ReplayStep, PTL DEF Spec

\* One review of the incident is lifted, whatever is requested afterwards
\* (_requeue_source_pull_proof_review_after_rebind).
THEOREM LiftedOnce == Spec => []ReviewLiftedOnce
<1>1. ReplayInv => ReviewLiftedOnce
  BY DEF ReplayInv, ReviewInv, ReviewLiftedOnce
<1> QED
  BY <1>1, ReplayInit, ReplayStep, PTL DEF Spec

\* Between two claims the current slate was served: no proof outlives the claim
\* that rested on it (lambda_handler; ProofMaxAge < MinRemaining + Margin).
THEOREM TodayFirst == Spec => CurrentSlateFirst
<1>1. ReplayInv /\ [Next]_vars =>
        [\A w \in Workers : row'.owner = w /\ row.owner # w => unspent]_vars
  BY ClaimIsFresh DEF ReplayInv
<1> QED
  BY <1>1, ReplayInit, ReplayStep, PTL DEF Spec, CurrentSlateFirst
==================================================================================
